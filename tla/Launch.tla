------------------------------- MODULE Launch -------------------------------
(***************************************************************************)
(* Launching: NodeClaims get the cheapest offering that satisfies them,    *)
(* STACKIT accepts or refuses it, and a refusal takes offerings out of     *)
(* rotation until a TTL has passed, so that the next attempt goes          *)
(* elsewhere.                                                              *)
(*                                                                         *)
(* An attempt takes its answers about every machine type from the offering *)
(* cache, in one step.  An answer is right unless the entry it comes from  *)
(* was given the number of another call (Offerings), which happens here at *)
(* any moment.  Entries of the unavailable offerings change together with  *)
(* their number, and the classification of failures is left out: both are  *)
(* the subject of Offerings.  A NodeClaim is retried after a failed launch *)
(* and deleted, and provisioned again, when nothing fits.                  *)
(*                                                                         *)
(* A tick is the longest time from one attempt of a NodeClaim to the next; *)
(* a call to STACKIT may be answered after it.                             *)
(***************************************************************************)
EXTENDS InstanceTypes

CONSTANTS
  Machines,       \* the machine types: a function from their names
  Overrides,      \* pricing overrides: a function from some of the names
  Zones,
  AnyType,        \* stands for the machine type in the entry of a whole zone
  Claims,
  Wanted,         \* of each claim: types, zones, requests and the length of its name
  PrefixLengths,  \* of the server name prefix; 0 if there is none
  NodeClasses,    \* of the NodeClass, the kubelet configuration and the size of boot volumes
  TTL,            \* how long an offering is out of rotation, in ticks
  MaxChanges,     \* bound on changes of what STACKIT can deliver
  MaxRestamps     \* bound on entries of the offering cache that get another call's number

Types == DOMAIN Machines

ASSUME LaunchAssumption ==
  /\ AnyType \notin Types
  /\ TTL \in Nat \ {0} /\ MaxChanges \in Nat /\ MaxRestamps \in Nat
  /\ \A c \in Claims : Wanted[c].types \subseteq Types /\ Wanted[c].zones \subseteq Zones

\* Requests, sizes and settings are what the API server and STACKIT let through.
ASSUME ResourcesAssumption ==
  /\ \A m \in Types : IsMachine(Machines[m])
  /\ \A class \in NodeClasses : IsKubelet(class.kubelet) /\ class.bootVolumeGB \in Nat
  /\ \A c \in Claims : \A r \in DOMAIN Wanted[c].requests : Wanted[c].requests[r] \in Nat

VARIABLES
  nodeClass,
  prefixLength,
  allocatable,   \* of each machine type, as resolved for it
  soldOut,       \* offerings STACKIT has no capacity for
  outage,        \* zones in which every launch fails
  unavailable,   \* ticks for which an entry is still found
  cached,        \* offering cache: the unavailable zones of a machine type, if the numbers agree
  restamped,     \* history: machine types whose entry got another call's number
  claim,
  tried,         \* claims that made an attempt since the last tick
  refused,       \* history: ticks left of the TTL since a failure that concerns an offering
  changes,
  restamps

settings == <<nodeClass, prefixLength, allocatable>>
cacheVars == <<cached, restamped, restamps>>
vars == <<nodeClass, prefixLength, allocatable, soldOut, outage, unavailable, cached, restamped,
         claim, tried, refused, changes, restamps>>

Offerings == Types \X Zones
Entries == (Types \cup {AnyType}) \X Zones

Absent == [pc |-> "absent"]
Pending == [pc |-> "pending"]
At(pc, o) == [pc |-> pc, type |-> o[1], zone |-> o[2]]

Init ==
  /\ nodeClass \in NodeClasses /\ prefixLength \in PrefixLengths
  /\ allocatable =
       [m \in Types |-> Allocatable(Machines[m], nodeClass.bootVolumeGB, nodeClass.kubelet)]
  /\ soldOut = {} /\ outage = {}
  /\ unavailable = [e \in Entries |-> 0]
  /\ cached = [m \in Types |-> None] /\ restamped = {} /\ restamps = 0
  /\ claim = [c \in Claims |-> Absent]
  /\ tried = {}
  /\ refused = [o \in Offerings |-> 0]
  /\ changes = 0

----------------------------------------------------------------------------
(* Choosing an offering.                                                   *)

Price(m) == IF m \in DOMAIN Overrides THEN Overrides[m] ELSE ModelPrice(Machines[m])

\* IsUnavailable, for each of the zones.
Out(m) == {z \in Zones : unavailable[<<m, z>>] # 0 \/ unavailable[<<AnyType, z>>] # 0}

\* createOfferings: the entry if it is there with the present number, or else a new one.
Answer(m) == IF cached[m] = None THEN Out(m) ELSE cached[m]

Available(o) == o[2] \notin Answer(o[1])

\* Mutant: compares with the capacity.
ResourcesFit_Capacity(m, requests) ==
  \A r \in DOMAIN requests :
    /\ r \in Resources
    /\ requests[r] <= Capacity(Machines[m], nodeClass.bootVolumeGB, nodeClass.kubelet)[r]

\* A resource that no machine type has is not there to be requested.
ResourcesFit(m, requests) ==
  \A r \in DOMAIN requests : r \in Resources /\ requests[r] <= allocatable[m][r]

Compatible(c) ==
  {o \in Wanted[c].types \X Wanted[c].zones : ResourcesFit(o[1], Wanted[c].requests) /\ Available(o)}

\* Several offerings may have the lowest price, and the order of the list is a map's.
CheapestOffering(c) ==
  LET offers == Compatible(c)
  IN  {o \in offers : \A p \in offers : Price(o[1]) <= Price(p[1])}

\* The prefix is joined to the name by a hyphen; STACKIT takes 63 characters.
ServerNameFits(c) ==
  (IF prefixLength = 0 THEN 0 ELSE prefixLength + 1) + Wanted[c].nameLength <= 63

----------------------------------------------------------------------------
(* Attempts.                                                               *)

Provision(c) ==
  /\ claim[c] = Absent
  /\ claim' = [claim EXCEPT ![c] = Pending]
  /\ UNCHANGED <<settings, soldOut, outage, unavailable, tried, refused, changes>>
  /\ UNCHANGED cacheVars

\* Whatever comes of it, an attempt asks for the offerings of every machine type.
Attempt(c, next) ==
  /\ claim' = [claim EXCEPT ![c] = next]
  /\ tried' = tried \cup {c}
  /\ cached' = [m \in Types |-> Answer(m)]
  /\ UNCHANGED <<settings, soldOut, outage, unavailable, refused, changes>>
  /\ UNCHANGED <<restamped, restamps>>

\* Insufficient capacity: the NodeClaim is deleted.
NoOffering(c) == claim[c] = Pending /\ Compatible(c) = {} /\ Attempt(c, Absent)

\* The request cannot be built: an error, and nothing is taken out of rotation.
BuildFails(c) ==
  /\ claim[c] = Pending /\ ~ServerNameFits(c) /\ Compatible(c) # {}
  /\ Attempt(c, Pending)

Choose(c) ==
  /\ claim[c] = Pending /\ ServerNameFits(c)
  /\ \E o \in CheapestOffering(c) : Attempt(c, At("calling", o))

Chosen(c) == <<claim[c].type, claim[c].zone>>

Delivers(o) == o \notin soldOut /\ o[2] \notin outage

CreateServer(c) ==
  /\ claim[c].pc = "calling" /\ Delivers(Chosen(c))
  /\ claim' = [claim EXCEPT ![c] = At("launched", Chosen(c))]
  /\ UNCHANGED <<settings, soldOut, outage, unavailable, tried, refused, changes>>
  /\ UNCHANGED cacheVars

----------------------------------------------------------------------------
(* The offering cache.                                                     *)

\* Availability of these machine types changed, and their numbers with it.
Outdate(types) ==
  /\ cached' = [m \in Types |-> IF m \in types THEN None ELSE cached[m]]
  /\ restamped' = restamped \ types
  /\ UNCHANGED restamps

\* A call of createOfferings that overlaps with another one, or that is for other zones,
\* records the present number beside an entry that was computed before.
Restamp(m, out) ==
  /\ restamps < MaxRestamps /\ out # Out(m)
  /\ cached' = [cached EXCEPT ![m] = out]
  /\ restamped' = restamped \cup {m}
  /\ restamps' = restamps + 1
  /\ UNCHANGED <<settings, soldOut, outage, unavailable, claim, tried, refused, changes>>

\* An entry that was not stored again reaches its TTL.  (The others would be computed anew
\* with the same result.)
ExpireCached(m) ==
  /\ m \in restamped
  /\ Outdate({m})
  /\ UNCHANGED <<settings, soldOut, outage, unavailable, claim, tried, refused, changes>>

----------------------------------------------------------------------------
(* Failures.                                                               *)

\* Mutant: the new TTL is added to what is left of the old one.
Mark_Adds(e) == [unavailable EXCEPT ![e] = @ + TTL]

\* Mutant: an entry that is already there keeps its TTL.
Mark_Keeps(e) == [unavailable EXCEPT ![e] = IF @ = 0 THEN TTL ELSE @]

\* "Even when the key is already cached we still Set it, to extend the entry's TTL."
Mark(e) == [unavailable EXCEPT ![e] = TTL]

\* Mutant: a failing zone is left in rotation.
RecordLaunchFailure_NoZone(o) == IF o[2] \in outage THEN unavailable ELSE Mark(o)

RecordLaunchFailure(o) == IF o[2] \in outage THEN Mark(<<AnyType, o[2]>>) ELSE Mark(o)

\* Mutant: only the first failure counts.
Counts_New(o) ==
  IF unavailable[o] # 0 THEN {} ELSE IF o[2] \in outage THEN Types ELSE {o[1]}

\* The machine types with another number after a failure, also if the entry was there.
Counts(o) == IF o[2] \in outage THEN Types ELSE {o[1]}

\* What a failure at an offering says about others.
Concerns(o, p) == IF o[2] \in outage THEN p[2] = o[2] ELSE p = o

LaunchFails(c) ==
  /\ claim[c].pc = "calling" /\ ~Delivers(Chosen(c))
  /\ unavailable' = RecordLaunchFailure(Chosen(c))
  /\ Outdate(Counts(Chosen(c)))
  /\ refused' = [p \in Offerings |-> IF Concerns(Chosen(c), p) THEN TTL ELSE refused[p]]
  /\ claim' = [claim EXCEPT ![c] = Pending]
  /\ UNCHANGED <<settings, soldOut, outage, tried, changes>>

----------------------------------------------------------------------------
(* Time and STACKIT.                                                       *)

\* The machine types an entry of which is evicted when time passes.
Evicted == {m \in Types : \E z \in Zones : unavailable[<<m, z>>] = 1 \/ unavailable[<<AnyType, z>>] = 1}

Tick ==
  /\ \A c \in Claims : claim[c].pc \in {"absent", "launched"} \/ c \in tried
  /\ tried' = {}
  /\ unavailable' = [e \in Entries |-> AtLeast(unavailable[e] - 1, 0)]
  /\ Outdate(Evicted)
  /\ refused' = [o \in Offerings |-> AtLeast(refused[o] - 1, 0)]
  /\ UNCHANGED <<settings, soldOut, outage, claim, changes>>

Toggled(S, x) == IF x \in S THEN S \ {x} ELSE S \cup {x}

ChangeCapacity(sold, out) ==
  /\ changes < MaxChanges
  /\ changes' = changes + 1
  /\ soldOut' = sold /\ outage' = out
  /\ UNCHANGED <<settings, unavailable, claim, tried, refused>>
  /\ UNCHANGED cacheVars

AttemptStep(c) == NoOffering(c) \/ BuildFails(c) \/ Choose(c)
AnswerStep(c) == CreateServer(c) \/ LaunchFails(c)
ClaimStep(c) == Provision(c) \/ AttemptStep(c) \/ AnswerStep(c)
CacheStep(m) == ExpireCached(m) \/ \E out \in SUBSET Zones : Restamp(m, out)

Next ==
  \/ \E c \in Claims : ClaimStep(c)
  \/ \E m \in Types : CacheStep(m)
  \/ Tick
  \/ \E o \in Offerings : ChangeCapacity(Toggled(soldOut, o), outage)
  \/ \E z \in Zones : ChangeCapacity(soldOut, Toggled(outage, z))

Spec == Init /\ [][Next]_vars

(* Karpenter provisions and retries, STACKIT answers, time passes, and an  *)
(* entry of the offering cache that nobody replaces expires.               *)
Fairness ==
  /\ \A c \in Claims : WF_vars(ClaimStep(c))
  /\ WF_vars(\E m \in Types : ExpireCached(m))
  /\ WF_vars(Tick)

FairSpec == Spec /\ Fairness

----------------------------------------------------------------------------
(* Properties.                                                             *)

Placed(pc) == {At(pc, o) : o \in Offerings}

\* Every variable stays within its type; an entry never outlives the TTL.
TypeOK ==
  /\ nodeClass \in NodeClasses /\ prefixLength \in PrefixLengths
  /\ allocatable \in [Types -> [Resources -> Int]]
  /\ soldOut \subseteq Offerings /\ outage \subseteq Zones
  /\ unavailable \in [Entries -> 0..TTL]
  /\ cached \in [Types -> {None} \cup SUBSET Zones] /\ restamped \subseteq Types
  /\ claim \in [Claims -> {Absent, Pending} \cup Placed("calling") \cup Placed("launched")]
  /\ tried \subseteq Claims
  /\ refused \in [Offerings -> 0..TTL]
  /\ changes \in 0..MaxChanges /\ restamps \in 0..MaxRestamps

\* "The next scheduling pass picks a different machine type or zone instead of hammering
\* the same one": whoever failed there, and whenever, no attempt chooses an offering before
\* the TTL since the last failure that concerns it has passed, except from an entry of the
\* offering cache that was given the number of another call and has not been outdated since
\* (recordLaunchFailure, createOfferings).
FailedStaysOut ==
  [][\A c \in Claims : claim[c] = Pending /\ claim'[c].pc = "calling"
       => refused[<<claim'[c].type, claim'[c].zone>>] = 0 \/ claim'[c].type \in restamped]_vars

\* A server is only asked for where the requests fit beside all that is held back on the
\* node: for the virtualization, the kubelet, the system and each eviction signal, and on
\* its boot volume beside the operating system; a volume of less than 5 GB counts as one
\* of 5 (resourcesFit, NewInstanceType).
RequestsFit ==
  \A c \in Claims : claim[c].pc \in {"calling", "launched"} =>
    LET machine == Machines[claim[c].type]
        requests == Wanted[c].requests
        kubelet == nodeClass.kubelet
        held(r, default) == IF r \in DOMAIN kubelet.kubeReserved THEN kubelet.kubeReserved[r] ELSE default
    IN  /\ "cpu" \in DOMAIN requests =>
             requests["cpu"] + held("cpu", ReservedCPU(machine.vcpus))
               + Amount(kubelet.systemReserved, "cpu") <= 1000 * machine.vcpus
        /\ "memory" \in DOMAIN requests => \A eviction \in Evictions(Memory(machine), kubelet) :
             1000 * (requests["memory"] + held("memory", 255 + 11 * Pods(machine, kubelet))
               + Amount(kubelet.systemReserved, "memory") + eviction)
               <= machine.ram * (1000 - VMMemoryOverhead)
        /\ "storage" \in DOMAIN requests =>
             requests["storage"] + held("storage", GiB) + Amount(kubelet.systemReserved, "storage")
               + 4 * GB <= AtLeast(nodeClass.bootVolumeGB, 5) * GB
        /\ claim[c].type \in Wanted[c].types /\ claim[c].zone \in Wanted[c].zones

\* A NodeClaim is launched if, in the end, STACKIT can deliver something it would take,
\* however many cheaper offerings fail: they are out of rotation long enough for the
\* attempts to get there, and however many stale answers it was given before.
EventuallyLaunched ==
  \A c \in Claims :
    <>[](\E o \in Wanted[c].types \X Wanted[c].zones :
           ResourcesFit(o[1], Wanted[c].requests) /\ Delivers(o) /\ ServerNameFits(c))
      => <>(claim[c].pc = "launched")

=============================================================================
