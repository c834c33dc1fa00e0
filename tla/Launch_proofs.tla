--------------------------- MODULE Launch_proofs ---------------------------
(***************************************************************************)
(* Proofs for Launch: an offering that failed is left alone for the TTL,   *)
(* whoever asks, unless a cached answer got the number of another call;    *)
(* and a server is only asked for where the requests of its claim fit, for *)
(* every set of machine types, zones and NodeClaims, every kubelet         *)
(* configuration and every TTL.                                            *)
(***************************************************************************)
EXTENDS Launch, InstanceTypes_proofs

\* The timers stay below the TTL, what is cached is about the zones, and claims are where
\* offerings are.
Timed ==
  /\ unavailable \in [Entries -> 0..TTL]
  /\ cached \in [Types -> {None} \cup SUBSET Zones] /\ restamped \subseteq Types
  /\ refused \in [Offerings -> 0..TTL]
  /\ claim \in [Claims -> {Absent, Pending} \cup Placed("calling") \cup Placed("launched")]

\* Whatever was refused is out of rotation at least as long, by an entry of its own or
\* by that of its zone.
Covered ==
  \A o \in Offerings :
    refused[o] <= unavailable[o] \/ refused[o] <= unavailable[<<AnyType, o[2]>>]

\* An entry with a number of its own is what a call would compute now (createOfferings).
Right == \A m \in Types \ restamped : cached[m] # None => cached[m] = Out(m)

OutInv == Timed /\ Covered /\ Right

\* Both entries of an offering are entries (IsUnavailable looks in both caches).
LEMMA EntriesOfOffering ==
  ASSUME NEW o \in Offerings
  PROVE  o \in Entries /\ <<AnyType, o[2]>> \in Entries
BY DEF Offerings, Entries

\* What cheapestOffering returns is an offering that is not out of rotation, going by the
\* answer about its type.
LEMMA CheapestIsAvailable ==
  ASSUME NEW c \in Claims, NEW o \in CheapestOffering(c)
  PROVE  o \in Offerings /\ Available(o)
<1>1. o \in Wanted[c].types \X Wanted[c].zones /\ Available(o)
  BY DEF CheapestOffering, Compatible
<1> QED  BY <1>1, LaunchAssumption DEF Offerings

\* An answer is right unless it comes from an entry with another call's number.
LEMMA AnswerIsRight ==
  ASSUME OutInv, NEW m \in Types \ restamped
  PROVE  Answer(m) = Out(m)
BY DEF OutInv, Right, Answer

\* What a call answers is about the zones (createOfferings).
LEMMA AnswerIsTyped ==
  ASSUME Timed, NEW m \in Types
  PROVE  Answer(m) \in SUBSET Zones
BY DEF Timed, Answer, Out

\* Once the numbers of the types changed whose unavailable zones may have, the entries that
\* are left are right (SeqNum).
LEMMA OutdateKeepsRight ==
  ASSUME OutInv, NEW types, Outdate(types),
         \A m \in Types \ types : Out(m)' = Out(m)
  PROVE  /\ cached' \in [Types -> {None} \cup SUBSET Zones] /\ restamped' \subseteq Types
         /\ Right'
<1>1. /\ \A m \in Types : cached'[m] = IF m \in types THEN None ELSE cached[m]
      /\ restamped' = restamped \ types
  BY DEF Outdate
<1>2. cached' \in [Types -> {None} \cup SUBSET Zones] /\ restamped' \subseteq Types
  BY DEF Outdate, OutInv, Timed
<1>3. ASSUME NEW m \in Types \ restamped', cached'[m] # None
      PROVE  cached'[m] = Out(m)'
  <2>1. m \notin types /\ m \in Types \ restamped /\ cached[m] # None
    BY <1>1, <1>3
  <2> QED  BY <1>1, <2>1 DEF OutInv, Right
<1> QED  BY <1>2, <1>3 DEF Right

\* An attempt leaves the timers alone, fills the offering cache with its answers and moves
\* the claim to a typed state.
LEMMA AttemptKeepsInv ==
  ASSUME OutInv, NEW c \in Claims,
         NEW next \in {Absent, Pending} \cup Placed("calling"), Attempt(c, next)
  PROVE  OutInv'
<1>1. /\ cached' = [m \in Types |-> Answer(m)] /\ UNCHANGED <<unavailable, restamped, refused>>
      /\ claim' = [claim EXCEPT ![c] = next]
  BY DEF Attempt
<1>2. cached' \in [Types -> {None} \cup SUBSET Zones]
  BY <1>1, AnswerIsTyped DEF OutInv
<1>3. claim' \in [Claims -> {Absent, Pending} \cup Placed("calling") \cup Placed("launched")]
  BY <1>1 DEF OutInv, Timed
<1>4. Timed' /\ Covered'
  BY <1>1, <1>2, <1>3 DEF OutInv, Timed, Covered
<1>5. ASSUME NEW m \in Types \ restamped' PROVE cached'[m] = Out(m)'
  <2>1. Out(m)' = Out(m)
    BY <1>1 DEF Out
  <2> QED  BY <1>1, <1>5, <2>1, AnswerIsRight
<1> QED  BY <1>4, <1>5 DEF OutInv, Right

\* Recording a failure only lengthens the time entries are found, and takes out what
\* the failure concerns (recordLaunchFailure).
LEMMA FailureKeepsInv ==
  ASSUME OutInv, NEW c \in Claims, LaunchFails(c)
  PROVE  OutInv'
<1> DEFINE o == Chosen(c)
<1>1. o \in Offerings
  <2>1. claim[c] \in {Absent, Pending} \cup Placed("calling") \cup Placed("launched")
    BY DEF OutInv, Timed
  <2>2. claim[c].pc = "calling"
    BY DEF LaunchFails
  <2>3. PICK p \in Offerings : claim[c] = At("calling", p) \/ claim[c] = At("launched", p)
    BY <2>1, <2>2 DEF Placed, Absent, Pending
  <2> QED  BY <2>3 DEF Chosen, At, Offerings
<1>2. TTL \in 0..TTL
  BY LaunchAssumption
<1>3. PICK e \in Entries :
        /\ unavailable' = [unavailable EXCEPT ![e] = TTL]
        /\ e = IF o[2] \in outage THEN <<AnyType, o[2]>> ELSE o
  BY <1>1, EntriesOfOffering DEF LaunchFails, RecordLaunchFailure, Mark
<1>4. /\ cached' \in [Types -> {None} \cup SUBSET Zones] /\ restamped' \subseteq Types
      /\ Right'
  <2>1. Outdate(Counts(o))
    BY DEF LaunchFails
  <2>2. ASSUME NEW m \in Types \ Counts(o) PROVE Out(m)' = Out(m)
    <3>1. \A z \in Zones : e # <<m, z>> /\ e # <<AnyType, z>>
      BY <1>1, <1>3, <2>2, LaunchAssumption DEF Counts, Offerings
    <3>2. \A z \in Zones : <<m, z>> \in Entries /\ <<AnyType, z>> \in Entries
      BY DEF Entries
    <3>3. \A z \in Zones : unavailable'[<<m, z>>] = unavailable[<<m, z>>]
                          /\ unavailable'[<<AnyType, z>>] = unavailable[<<AnyType, z>>]
      BY <1>3, <3>1, <3>2 DEF OutInv, Timed
    <3> QED  BY <3>3 DEF Out
  <2> QED  BY <2>1, <2>2, OutdateKeepsRight
<1>5. Timed'
  <2>1. unavailable' \in [Entries -> 0..TTL]
    BY <1>2, <1>3 DEF OutInv, Timed
  <2>2. refused' \in [Offerings -> 0..TTL]
    BY <1>2 DEF OutInv, Timed, LaunchFails
  <2>3. claim' \in [Claims -> {Absent, Pending} \cup Placed("calling") \cup Placed("launched")]
    BY DEF OutInv, Timed, LaunchFails
  <2> QED  BY <1>4, <2>1, <2>2, <2>3 DEF Timed
<1>6. Covered'
  <2> SUFFICES ASSUME NEW p \in Offerings
               PROVE  refused'[p] <= unavailable'[p] \/ refused'[p] <= unavailable'[<<AnyType, p[2]>>]
    BY DEF Covered
  <2>1. p \in Entries /\ <<AnyType, p[2]>> \in Entries
    BY EntriesOfOffering
  <2>2. \A x \in Entries : unavailable[x] \in 0..TTL /\ unavailable[x] <= unavailable'[x]
    BY <1>2, <1>3 DEF OutInv, Timed
  <2>3. unavailable'[e] = TTL
    BY <1>3 DEF OutInv, Timed
  <2>4. CASE Concerns(o, p)
    <3>1. refused'[p] = TTL
      BY <2>4 DEF LaunchFails
    <3>2. e = p \/ e = <<AnyType, p[2]>>
      BY <1>3, <2>4 DEF Concerns
    <3> QED  BY <2>3, <3>1, <3>2, <1>2
  <2>5. CASE ~Concerns(o, p)
    <3>1. refused'[p] = refused[p] /\ refused[p] \in 0..TTL
      BY <2>5 DEF LaunchFails, OutInv, Timed
    <3>2. unavailable'[p] \in 0..TTL /\ unavailable'[<<AnyType, p[2]>>] \in 0..TTL
      BY <2>1, <1>5 DEF Timed
    <3> QED  BY <2>1, <2>2, <3>1, <3>2 DEF OutInv, Covered
  <2> QED  BY <2>4, <2>5
<1> QED  BY <1>4, <1>5, <1>6 DEF OutInv

\* Both timers are the same distance apart after a tick, or have both run out, and what
\* is found changes for the types whose numbers do.
LEMMA TickKeepsInv ==
  ASSUME OutInv, Tick
  PROVE  OutInv'
<1>1. \A n \in 0..TTL : AtLeast(n - 1, 0) \in 0..TTL
  BY LaunchAssumption DEF AtLeast
<1>2. Right' /\ Timed'
  <2>1. ASSUME NEW m \in Types \ Evicted PROVE Out(m)' = Out(m)
    <3>1. ASSUME NEW x \in Entries, unavailable[x] # 1
          PROVE  unavailable'[x] # 0 <=> unavailable[x] # 0
      <4>1. unavailable'[x] = AtLeast(unavailable[x] - 1, 0) /\ unavailable[x] \in Nat
        BY <3>1, LaunchAssumption DEF Tick, OutInv, Timed
      <4> QED  BY <3>1, <4>1 DEF AtLeast
    <3>2. ASSUME NEW z \in Zones
          PROVE  /\ <<m, z>> \in Entries /\ <<AnyType, z>> \in Entries
                 /\ unavailable[<<m, z>>] # 1 /\ unavailable[<<AnyType, z>>] # 1
      BY <2>1 DEF Entries, Evicted
    <3> QED  BY <3>1, <3>2 DEF Out
  <2>2. /\ cached' \in [Types -> {None} \cup SUBSET Zones] /\ restamped' \subseteq Types
        /\ Right'
    BY <2>1, OutdateKeepsRight DEF Tick
  <2>3. unavailable' \in [Entries -> 0..TTL] /\ refused' \in [Offerings -> 0..TTL]
        /\ claim' = claim
    BY <1>1 DEF Tick, OutInv, Timed
  <2> QED  BY <2>2, <2>3 DEF OutInv, Timed
<1>3. Covered'
  <2> SUFFICES ASSUME NEW o \in Offerings
               PROVE  refused'[o] <= unavailable'[o] \/ refused'[o] <= unavailable'[<<AnyType, o[2]>>]
    BY DEF Covered
  <2>1. o \in Entries /\ <<AnyType, o[2]>> \in Entries
    BY EntriesOfOffering
  <2>2. /\ refused[o] \in Nat /\ unavailable[o] \in Nat /\ unavailable[<<AnyType, o[2]>>] \in Nat
        /\ refused'[o] = AtLeast(refused[o] - 1, 0)
        /\ unavailable'[o] = AtLeast(unavailable[o] - 1, 0)
        /\ unavailable'[<<AnyType, o[2]>>] = AtLeast(unavailable[<<AnyType, o[2]>>] - 1, 0)
    BY <2>1, LaunchAssumption DEF Tick, OutInv, Timed
  <2>3. refused[o] <= unavailable[o] \/ refused[o] <= unavailable[<<AnyType, o[2]>>]
    BY DEF OutInv, Covered
  <2>4. \A m, n \in Nat : m <= n => AtLeast(m - 1, 0) <= AtLeast(n - 1, 0)
    BY DEF AtLeast
  <2> QED  BY <2>2, <2>3, <2>4
<1> QED  BY <1>2, <1>3 DEF OutInv

\* An entry that gets another call's number is marked as such, whatever is in it.
LEMMA CacheKeepsInv ==
  ASSUME OutInv, NEW m \in Types, CacheStep(m)
  PROVE  OutInv'
<1>1. UNCHANGED <<unavailable, refused, claim>>
  BY DEF CacheStep, ExpireCached, Restamp
<1>2. \A n \in Types : Out(n)' = Out(n)
  BY <1>1 DEF Out
<1>3. /\ cached' \in [Types -> {None} \cup SUBSET Zones] /\ restamped' \subseteq Types
      /\ Right'
  <2>1. CASE ExpireCached(m)
    BY <1>2, <2>1, OutdateKeepsRight DEF ExpireCached
  <2>2. ASSUME NEW out \in SUBSET Zones, Restamp(m, out)
        PROVE  /\ cached' \in [Types -> {None} \cup SUBSET Zones] /\ restamped' \subseteq Types
               /\ Right'
    <3>1. cached' = [cached EXCEPT ![m] = out] /\ restamped' = restamped \cup {m}
      BY <2>2 DEF Restamp
    <3> QED  BY <1>2, <3>1 DEF OutInv, Timed, Right
  <2> QED  BY <2>1, <2>2 DEF CacheStep
<1> QED  BY <1>1, <1>3 DEF OutInv, Timed, Covered

\* At the start nothing has failed and nothing is out of rotation.
LEMMA InitOutInv == Init => OutInv
<1> SUFFICES ASSUME Init PROVE OutInv
  OBVIOUS
<1>1. 0 \in 0..TTL
  BY LaunchAssumption
<1>2. Timed
  BY <1>1 DEF Init, Timed
<1>3. Covered
  <2> SUFFICES ASSUME NEW o \in Offerings PROVE refused[o] <= unavailable[o]
    BY DEF Covered
  <2>1. refused[o] = 0 /\ unavailable[o] = 0
    BY EntriesOfOffering DEF Init
  <2> QED  BY <2>1
<1> QED  BY <1>2, <1>3 DEF OutInv, Init, Right

\* Each action keeps the invariant; only failures and ticks touch the timers.
LEMMA StepOutInv == OutInv /\ [Next]_vars => OutInv'
<1> SUFFICES ASSUME OutInv, [Next]_vars PROVE OutInv'
  OBVIOUS
<1>1. ASSUME NEW c \in Claims, Provision(c) PROVE OutInv'
  BY <1>1 DEF Provision, OutInv, Timed, Covered, Right, Out, cacheVars
<1>2. ASSUME NEW c \in Claims, AttemptStep(c) PROVE OutInv'
  <2>1. CASE NoOffering(c)
    BY <2>1, AttemptKeepsInv DEF NoOffering
  <2>2. CASE BuildFails(c)
    BY <2>2, AttemptKeepsInv DEF BuildFails
  <2>3. CASE Choose(c)
    <3>1. PICK o \in CheapestOffering(c) : Attempt(c, At("calling", o))
      BY <2>3 DEF Choose
    <3>2. At("calling", o) \in Placed("calling")
      BY CheapestIsAvailable DEF Placed
    <3> QED  BY <3>1, <3>2, AttemptKeepsInv
  <2> QED  BY <1>2, <2>1, <2>2, <2>3 DEF AttemptStep
<1>3. ASSUME NEW c \in Claims, CreateServer(c) PROVE OutInv'
  <2>1. At("launched", Chosen(c)) \in Placed("launched")
    <3>1. claim[c] \in {Absent, Pending} \cup Placed("calling") \cup Placed("launched")
      BY DEF OutInv, Timed
    <3>2. claim[c].pc = "calling"
      BY <1>3 DEF CreateServer
    <3>3. PICK p \in Offerings : claim[c] = At("calling", p) \/ claim[c] = At("launched", p)
      BY <3>1, <3>2 DEF Placed, Absent, Pending
    <3>4. Chosen(c) \in Offerings
      BY <3>3 DEF Chosen, At, Offerings
    <3> QED  BY <3>4 DEF Placed
  <2> QED  BY <1>3, <2>1 DEF CreateServer, OutInv, Timed, Covered, Right, Out, cacheVars
<1>4. ASSUME NEW c \in Claims, LaunchFails(c) PROVE OutInv'
  BY <1>4, FailureKeepsInv
<1>5. CASE Tick
  BY <1>5, TickKeepsInv
<1>6. ASSUME NEW sold, NEW out, ChangeCapacity(sold, out) PROVE OutInv'
  BY <1>6 DEF ChangeCapacity, OutInv, Timed, Covered, Right, Out, cacheVars
<1>7. CASE UNCHANGED vars
  BY <1>7 DEF vars, OutInv, Timed, Covered, Right, Out
<1> QED  BY <1>1, <1>2, <1>3, <1>4, <1>5, <1>6, <1>7, CacheKeepsInv DEF Next, ClaimStep, AnswerStep

\* In every reachable state a refused offering is covered by an entry
\* (UnavailableOfferings).
THEOREM OutInvAlways == Spec => []OutInv
BY InitOutInv, StepOutInv, PTL DEF Spec

\* Only choosing takes a claim from pending to calling.
LEMMA OnlyChooseCalls ==
  ASSUME Next, NEW c \in Claims, OutInv, claim[c] = Pending, claim'[c].pc = "calling"
  PROVE  Choose(c)
<1>1. claim[c].pc = "pending" /\ claim'[c] # claim[c]
  BY DEF Pending
<1>2. ASSUME NEW d \in Claims, Provision(d) PROVE FALSE
  BY <1>1, <1>2 DEF Provision, OutInv, Timed, Pending, Absent
<1>3. ASSUME NEW d \in Claims, AttemptStep(d) PROVE Choose(c)
  BY <1>1, <1>3 DEF AttemptStep, NoOffering, BuildFails, Choose, Attempt, OutInv, Timed, Pending, Absent
<1>4. ASSUME NEW d \in Claims, AnswerStep(d) PROVE FALSE
  BY <1>1, <1>4 DEF AnswerStep, CreateServer, LaunchFails, OutInv, Timed, Pending
<1>5. CASE Tick
  BY <1>1, <1>5 DEF Tick
<1>6. ASSUME NEW sold, NEW out, ChangeCapacity(sold, out) PROVE FALSE
  BY <1>1, <1>6 DEF ChangeCapacity
<1>7. ASSUME NEW m \in Types, CacheStep(m) PROVE FALSE
  BY <1>1, <1>7 DEF CacheStep, ExpireCached, Restamp
<1> QED  BY <1>2, <1>3, <1>4, <1>5, <1>6, <1>7 DEF Next, ClaimStep

\* Whoever failed at an offering, and whenever, no attempt chooses it before the TTL
\* since the last failure that concerns it has passed, unless the cached answer about its
\* type got the number of another call (recordLaunchFailure, createOfferings,
\* cheapestOffering).
THEOREM FailedStaysOutAlways == Spec => FailedStaysOut
<1> DEFINE Quiet ==
      \A c \in Claims : claim[c] = Pending /\ claim'[c].pc = "calling"
        => refused[<<claim'[c].type, claim'[c].zone>>] = 0 \/ claim'[c].type \in restamped
<1>1. OutInv /\ [Next]_vars => [Quiet]_vars
  <2> SUFFICES ASSUME OutInv, Next, NEW c \in Claims,
                      claim[c] = Pending, claim'[c].pc = "calling",
                      claim'[c].type \notin restamped
               PROVE  refused[<<claim'[c].type, claim'[c].zone>>] = 0
    OBVIOUS
  <2>1. Choose(c)
    BY OnlyChooseCalls
  <2>2. PICK o \in CheapestOffering(c) : Attempt(c, At("calling", o))
    BY <2>1 DEF Choose
  <2>3. o \in Offerings /\ Available(o)
    BY CheapestIsAvailable
  <2>4. claim'[c] = At("calling", o)
    BY <2>2 DEF Attempt, OutInv, Timed
  <2>5. <<claim'[c].type, claim'[c].zone>> = o
    BY <2>3, <2>4 DEF At, Offerings
  <2>6. refused[o] \in 0..TTL /\ refused[o] <= 0
    <3>1. o[1] \in Types \ restamped /\ o[2] \in Zones /\ o = <<o[1], o[2]>>
      BY <2>3, <2>4 DEF At, Offerings
    <3>2. o[2] \notin Out(o[1])
      BY <2>3, <3>1, AnswerIsRight DEF Available
    <3>3. unavailable[o] = 0 /\ unavailable[<<AnyType, o[2]>>] = 0
      BY <3>1, <3>2 DEF Out
    <3> QED  BY <2>3, <3>3 DEF OutInv, Timed, Covered
  <2> QED  BY <2>5, <2>6
<1> QED  BY <1>1, OutInvAlways, PTL DEF Spec, FailedStaysOut

----------------------------------------------------------------------------
(* Requests fit.                                                           *)

\* What has been resolved stays, and what a claim asked for fits into it.
Fits ==
  /\ nodeClass \in NodeClasses /\ prefixLength \in PrefixLengths
  /\ allocatable =
       [m \in Types |-> Allocatable(Machines[m], nodeClass.bootVolumeGB, nodeClass.kubelet)]
  /\ \A c \in Claims : claim[c].pc \in {"calling", "launched"} =>
       /\ claim[c].type \in Wanted[c].types /\ claim[c].zone \in Wanted[c].zones
       /\ ResourcesFit(claim[c].type, Wanted[c].requests)

\* The variables the other parts of the invariant leave out.
Counted ==
  /\ soldOut \subseteq Offerings /\ outage \subseteq Zones
  /\ tried \subseteq Claims /\ changes \in 0..MaxChanges /\ restamps \in 0..MaxRestamps

FitInv == Timed /\ Fits /\ Counted

\* An attempt that chooses nothing leaves the claim where nothing need fit.
LEMMA AttemptKeepsFits ==
  ASSUME FitInv, NEW c \in Claims, NEW next \in {Absent, Pending}, Attempt(c, next)
  PROVE  Fits'
<1>1. \A d \in Claims : claim'[d].pc \in {"calling", "launched"} => claim'[d] = claim[d]
  BY DEF FitInv, Timed, Attempt, Absent, Pending
<1>2. UNCHANGED <<nodeClass, prefixLength, allocatable>>
  BY DEF Attempt, settings
<1> QED  BY <1>1, <1>2 DEF FitInv, Fits, ResourcesFit

\* What cheapestOffering returns was filtered by resourcesFit and by the requirements.
LEMMA ChooseKeepsFits ==
  ASSUME FitInv, NEW c \in Claims, Choose(c)
  PROVE  Fits'
<1>1. PICK o \in CheapestOffering(c) : Attempt(c, At("calling", o))
  BY DEF Choose
<1>2. /\ o \in Wanted[c].types \X Wanted[c].zones
      /\ ResourcesFit(o[1], Wanted[c].requests)
  BY DEF CheapestOffering, Compatible
<1>3. claim' = [claim EXCEPT ![c] = At("calling", o)] /\ UNCHANGED <<nodeClass, prefixLength, allocatable>>
  BY <1>1 DEF Attempt, settings
<1>4. At("calling", o).type \in Wanted[c].types /\ At("calling", o).zone \in Wanted[c].zones
      /\ ResourcesFit(At("calling", o).type, Wanted[c].requests)
  BY <1>2 DEF At
<1> SUFFICES ASSUME NEW d \in Claims, claim'[d].pc \in {"calling", "launched"}
             PROVE  /\ claim'[d].type \in Wanted[d].types /\ claim'[d].zone \in Wanted[d].zones
                    /\ ResourcesFit(claim[d].type, Wanted[d].requests)'
  BY <1>3 DEF FitInv, Fits
<1>5. CASE d = c
  BY <1>3, <1>4, <1>5 DEF FitInv, Timed, ResourcesFit
<1>6. CASE d # c
  BY <1>3, <1>6 DEF FitInv, Timed, Fits, ResourcesFit
<1> QED  BY <1>5, <1>6

\* What a claim called for is what it is launched with (Create).
LEMMA CreateKeepsFits ==
  ASSUME FitInv, NEW c \in Claims, CreateServer(c)
  PROVE  Fits'
<1>1. /\ claim' = [claim EXCEPT ![c] = At("launched", Chosen(c))]
      /\ claim[c].pc = "calling" /\ UNCHANGED <<nodeClass, prefixLength, allocatable>>
  BY DEF CreateServer, settings
<1>2. At("launched", Chosen(c)).type = claim[c].type /\ At("launched", Chosen(c)).zone = claim[c].zone
  BY DEF At, Chosen
<1> SUFFICES ASSUME NEW d \in Claims, claim'[d].pc \in {"calling", "launched"}
             PROVE  /\ claim'[d].type \in Wanted[d].types /\ claim'[d].zone \in Wanted[d].zones
                    /\ ResourcesFit(claim[d].type, Wanted[d].requests)'
  BY <1>1 DEF FitInv, Fits
<1>3. claim'[d].type = claim[d].type /\ claim'[d].zone = claim[d].zone
      /\ claim[d].pc \in {"calling", "launched"}
  BY <1>1, <1>2 DEF FitInv, Timed
<1> QED  BY <1>1, <1>3 DEF FitInv, Fits, ResourcesFit

\* Everything else leaves claims where they are, or where nothing need fit.
LEMMA OthersKeepFits ==
  ASSUME FitInv, UNCHANGED <<nodeClass, prefixLength, allocatable>>,
         \A d \in Claims : claim'[d].pc \in {"calling", "launched"} => claim'[d] = claim[d]
  PROVE  Fits'
BY DEF FitInv, Fits, ResourcesFit

\* What was resolved at the start fits nothing yet.
LEMMA InitFitInv == Init => FitInv
<1> SUFFICES ASSUME Init PROVE FitInv
  OBVIOUS
<1>1. Timed
  BY InitOutInv DEF OutInv
<1>2. Fits
  BY DEF Init, Fits, Absent
<1>3. Counted
  BY LaunchAssumption DEF Init, Counted
<1> QED  BY <1>1, <1>2, <1>3 DEF FitInv

\* Only the choice of an offering asks for a server.
LEMMA StepFits == OutInv /\ FitInv /\ [Next]_vars => Fits'
<1> SUFFICES ASSUME FitInv, [Next]_vars PROVE Fits'
  OBVIOUS
<1>1. ASSUME NEW c \in Claims, Provision(c) PROVE Fits'
  BY <1>1, OthersKeepFits DEF Provision, FitInv, Timed, Pending, settings
<1>2. ASSUME NEW c \in Claims, AttemptStep(c) PROVE Fits'
  BY <1>2, AttemptKeepsFits, ChooseKeepsFits DEF AttemptStep, NoOffering, BuildFails
<1>3. ASSUME NEW c \in Claims, CreateServer(c) PROVE Fits'
  BY <1>3, CreateKeepsFits
<1>4. ASSUME NEW c \in Claims, LaunchFails(c) PROVE Fits'
  BY <1>4, OthersKeepFits DEF LaunchFails, FitInv, Timed, Pending, settings
<1>5. CASE Tick
  BY <1>5, OthersKeepFits DEF Tick, settings
<1>6. ASSUME NEW sold, NEW out, ChangeCapacity(sold, out) PROVE Fits'
  BY <1>6, OthersKeepFits DEF ChangeCapacity, settings
<1>7. CASE UNCHANGED vars
  BY <1>7, OthersKeepFits DEF vars, settings
<1>8. ASSUME NEW m \in Types, CacheStep(m) PROVE Fits'
  BY <1>8, OthersKeepFits DEF CacheStep, ExpireCached, Restamp, settings
<1> QED  BY <1>1, <1>2, <1>3, <1>4, <1>5, <1>6, <1>7, <1>8 DEF Next, ClaimStep, AnswerStep

\* Capacity changes within the offerings, and within the bound.
LEMMA StepCounted == Counted /\ [Next]_vars => Counted'
<1> SUFFICES ASSUME Counted, [Next]_vars PROVE Counted'
  OBVIOUS
<1>1. ASSUME NEW c \in Claims, Provision(c) PROVE Counted'
  BY <1>1 DEF Provision, Counted, cacheVars
<1>2. ASSUME NEW c \in Claims, AttemptStep(c) PROVE Counted'
  BY <1>2 DEF AttemptStep, NoOffering, BuildFails, Choose, Attempt, Counted
<1>3. ASSUME NEW c \in Claims, AnswerStep(c) PROVE Counted'
  BY <1>3 DEF AnswerStep, CreateServer, LaunchFails, Outdate, Counted, cacheVars
<1>4. CASE Tick
  BY <1>4 DEF Tick, Outdate, Counted
<1>5. ASSUME NEW sold \in SUBSET Offerings, NEW out \in SUBSET Zones, ChangeCapacity(sold, out)
      PROVE  Counted'
  BY <1>5, LaunchAssumption DEF ChangeCapacity, Counted, cacheVars
<1>6. \A o \in Offerings : Toggled(soldOut, o) \subseteq Offerings
  BY DEF Counted, Toggled
<1>7. \A z \in Zones : Toggled(outage, z) \subseteq Zones
  BY DEF Counted, Toggled
<1>8. CASE UNCHANGED vars
  BY <1>8 DEF vars, Counted
<1>9. ASSUME NEW m \in Types, CacheStep(m) PROVE Counted'
  BY <1>9, LaunchAssumption DEF CacheStep, ExpireCached, Restamp, Outdate, Counted
<1> QED  BY <1>1, <1>2, <1>3, <1>4, <1>5, <1>6, <1>7, <1>8, <1>9 DEF Next, ClaimStep, Counted

\* In every reachable state everything a claim asked for fits.
THEOREM FitInvAlways == Spec => []FitInv
<1>1. OutInv /\ FitInv /\ [Next]_vars => FitInv'
  BY StepOutInv, StepFits, StepCounted DEF FitInv, OutInv
<1> QED  BY <1>1, InitFitInv, OutInvAlways, PTL DEF Spec

\* Every variable stays within its type; an entry never outlives the TTL.
THEOREM TypeCorrect == Spec => []TypeOK
<1>1. FitInv => TypeOK
  <2> SUFFICES ASSUME FitInv PROVE TypeOK
    OBVIOUS
  <2>1. \A m \in Types :
          Allocatable(Machines[m], nodeClass.bootVolumeGB, nodeClass.kubelet) \in [Resources -> Int]
    BY AllocatableAmount, ResourcesAssumption DEF FitInv, Fits
  <2> QED  BY <2>1 DEF FitInv, Timed, Fits, Counted, TypeOK
<1> QED  BY <1>1, FitInvAlways, PTL

\* A server is only asked for where the requests fit beside all that is held back on the
\* node, whatever is configured (resourcesFit, NewInstanceType).
THEOREM RequestsFitAlways == Spec => []RequestsFit
<1>1. FitInv => RequestsFit
  <2> SUFFICES ASSUME FitInv, NEW c \in Claims, claim[c].pc \in {"calling", "launched"}
               PROVE  LET machine == Machines[claim[c].type]
                          requests == Wanted[c].requests
                          kubelet == nodeClass.kubelet
                      IN  /\ "cpu" \in DOMAIN requests =>
                               requests["cpu"] + Held(kubelet, "cpu", ReservedCPU(machine.vcpus))
                                 + Amount(kubelet.systemReserved, "cpu") <= 1000 * machine.vcpus
                          /\ "memory" \in DOMAIN requests =>
                               \A amount \in Evictions(Memory(machine), kubelet) :
                                 1000 * (requests["memory"]
                                   + Held(kubelet, "memory", 255 + 11 * Pods(machine, kubelet))
                                   + Amount(kubelet.systemReserved, "memory") + amount)
                                   <= machine.ram * (1000 - VMMemoryOverhead)
                          /\ "storage" \in DOMAIN requests =>
                               requests["storage"] + Held(kubelet, "storage", GiB)
                                 + Amount(kubelet.systemReserved, "storage") + 4 * GB
                                 <= AtLeast(nodeClass.bootVolumeGB, 5) * GB
                          /\ claim[c].type \in Wanted[c].types /\ claim[c].zone \in Wanted[c].zones
    BY DEF RequestsFit, Held
  <2> DEFINE machine == Machines[claim[c].type]
             requests == Wanted[c].requests
             kubelet == nodeClass.kubelet
             system(r) == Amount(kubelet.systemReserved, r)
             eviction == EvictionThreshold(Memory(machine), kubelet)
             left == Allocatable(machine, nodeClass.bootVolumeGB, kubelet)
  <2>1. /\ claim[c].type \in Types
        /\ claim[c].type \in Wanted[c].types /\ claim[c].zone \in Wanted[c].zones
    BY LaunchAssumption DEF FitInv, Fits
  <2>2. \A r \in DOMAIN requests : requests[r] \in Nat /\ r \in Resources /\ requests[r] <= left[r]
    BY <2>1, ResourcesAssumption DEF FitInv, Fits, ResourcesFit
  <2>3. IsMachine(machine) /\ IsKubelet(kubelet) /\ nodeClass.bootVolumeGB \in Nat
    BY <2>1, ResourcesAssumption DEF FitInv, Fits
  <2>4. /\ left \in [Resources -> Int]
        /\ left["cpu"] + Held(kubelet, "cpu", ReservedCPU(machine.vcpus)) + system("cpu")
             = 1000 * machine.vcpus
        /\ left["memory"] + Held(kubelet, "memory", 11 * Pods(machine, kubelet) + 255)
             + system("memory") + eviction = Memory(machine)
        /\ left["storage"] + Held(kubelet, "storage", GiB) + system("storage") + 4 * GB
             = AtLeast(nodeClass.bootVolumeGB, 5) * GB
    BY <2>3, AllocatableAmount
  <2>5. /\ eviction \in Int
        /\ \A amount \in Evictions(Memory(machine), kubelet) : amount \in Int /\ amount <= eviction
    BY <2>3, MemoryAmount, ThresholdAmount
  <2>6. Memory(machine) \in Nat /\ 1000 * Memory(machine) <= machine.ram * (1000 - VMMemoryOverhead)
        /\ machine.ram * (1000 - VMMemoryOverhead) \in Int
    BY <2>3, MemoryAmount, OverheadAssumption DEF IsMachine
  <2>7. /\ \A r \in Resources : system(r) \in Nat
        /\ Held(kubelet, "cpu", ReservedCPU(machine.vcpus)) \in Nat
        /\ Held(kubelet, "memory", 11 * Pods(machine, kubelet) + 255) \in Nat
        /\ Held(kubelet, "storage", GiB) \in Nat
    BY <2>3, PodsAmount, ReservedAmount DEF IsMachine, IsKubelet, IsReservation, Held, Amount, GiB
  <2>8. 255 + 11 * Pods(machine, kubelet) = 11 * Pods(machine, kubelet) + 255
    BY <2>3, PodsAmount
  <2> HIDE DEF machine, requests, kubelet, system, eviction, left
  <2>9. "cpu" \in DOMAIN requests =>
          requests["cpu"] + Held(kubelet, "cpu", ReservedCPU(machine.vcpus)) + system("cpu")
            <= 1000 * machine.vcpus
    BY <2>2, <2>4, <2>7 DEF Resources
  <2>10. "memory" \in DOMAIN requests =>
           \A amount \in Evictions(Memory(machine), kubelet) :
             1000 * (requests["memory"] + Held(kubelet, "memory", 255 + 11 * Pods(machine, kubelet))
               + system("memory") + amount) <= machine.ram * (1000 - VMMemoryOverhead)
    BY <2>2, <2>4, <2>5, <2>6, <2>7, <2>8 DEF Resources
  <2>11. "storage" \in DOMAIN requests =>
           requests["storage"] + Held(kubelet, "storage", GiB) + system("storage") + 4 * GB
             <= AtLeast(nodeClass.bootVolumeGB, 5) * GB
    BY <2>2, <2>4, <2>7 DEF Resources, GB
  <2> QED  BY <2>1, <2>9, <2>10, <2>11 DEF machine, requests, kubelet, system
<1> QED  BY <1>1, FitInvAlways, PTL

=============================================================================
