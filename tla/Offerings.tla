------------------------------ MODULE Offerings ------------------------------
(***************************************************************************)
(* The availability of offerings: the cache of unavailable offerings with  *)
(* its sequence numbers (pkg/cache), the offering provider that caches     *)
(* offerings against those numbers (createOfferings), and the launches     *)
(* whose failures take offerings out of rotation (recordLaunchFailure).    *)
(*                                                                         *)
(* Every cache access and every counter update is a step of its own, since *)
(* callers, launches and the go-cache janitor run concurrently and no lock *)
(* spans two of them.  Prices and requirements are left out: they do not   *)
(* depend on availability.                                                 *)
(***************************************************************************)
EXTENDS Integers, FiniteSets

CONSTANTS
  Callers,      \* concurrent calls of createOfferings
  Types, Zones,
  ZoneSets,     \* the zone lists of the NodeClasses, each a subset of Zones
  AnyType,      \* the zone cache: every machine type
  Statuses,     \* HTTP statuses CreateServer may fail with
  MaxFailures   \* bound on the failed launches

ASSUME OfferingsAssumption ==
  /\ AnyType \notin Types
  /\ ZoneSets \subseteq SUBSET Zones
  /\ Statuses \subseteq Nat /\ MaxFailures \in Nat

VARIABLES
  stored,    \* go-cache's view of an entry: absent, live, or expired and not yet evicted
  unbumped,  \* entries whose last change no sequence number tells of yet (history)
  seq,       \* offeringCacheSeqNum per machine type, and zoneCacheSeqNum
  bumps,     \* increments of seq still to be made, by markers and the janitor
  cache,     \* offering cache: the unavailable zones of a machine type and zone set
  last,      \* lastUnavailableOfferingsSeqNum
  call,      \* the local state of each call of createOfferings
  failures   \* failed launches so far

offeringVars == <<stored, unbumped, seq, bumps, cache, last, call, failures>>

Entries == (Types \cup {AnyType}) \X Zones

EntriesOf(m, z) == {<<m, z>>, <<AnyType, z>>}

\* An entry of the offering cache.  History: the call that stored it and has yet to record a
\* number with it, and the number it then recorded.
NoNumber == -1
NotCached == [cached |-> FALSE]
Cached(unavailable, t) ==
  [cached |-> TRUE, unavailable |-> unavailable, by |-> {t}, number |-> NoNumber]

Idle == [pc |-> "idle"]

----------------------------------------------------------------------------
(* What may be said of an entry at a moment: until its change is counted   *)
(* (and once it has expired) both answers are right.                       *)

MayIn(st, ub)  == {e \in Entries : st[e] # "absent" \/ e \in ub}
MayOut(st, ub) == {e \in Entries : st[e] # "live" \/ e \in ub}

\* The entries become st, with the changes in ub not yet counted.  History: every
\* running call sees what can now be said of them; c is call, less what the step ends.
ChangeEntries(st, ub, c) ==
  /\ stored' = st
  /\ unbumped' = ub
  /\ call' = [t \in Callers |->
       IF c[t].pc \in {"idle", "done"} THEN c[t]
       ELSE [c[t] EXCEPT !.seenIn = @ \cup MayIn(st, ub), !.seenOut = @ \cup MayOut(st, ub)]]

----------------------------------------------------------------------------
Init ==
  /\ stored = [e \in Entries |-> "absent"]
  /\ unbumped = {}
  /\ seq = [m \in Types \cup {AnyType} |-> 0]
  /\ bumps = [m \in Types \cup {AnyType} |-> 0]
  /\ cache = [k \in Types \X ZoneSets |-> NotCached]
  /\ last = [m \in Types |-> 0]
  /\ call = [t \in Callers |-> Idle]
  /\ failures = 0

----------------------------------------------------------------------------
(* UnavailableOfferings.                                                   *)

\* offeringCacheSeqNumMu is read-locked over both reads, so the machine type's number cannot
\* change between them: the sum is the one at the moment the zones' number is read.
SeqNum(m) == seq[m] + seq[AnyType]

\* MarkUnavailable and MarkZoneUnavailable: the entry first, the number later.
MarkEntries(es, c) ==
  /\ ChangeEntries([e \in Entries |-> IF e \in es THEN "live" ELSE stored[e]],
                   unbumped \cup {e \in es : stored[e] # "live"}, c)
  /\ bumps' = [m \in Types \cup {AnyType} |->
                 IF \E z \in Zones : <<m, z>> \in es THEN bumps[m] + 1 ELSE bumps[m]]

\* Mutant: the number is counted down.
Bump_Down(m) ==
  /\ bumps[m] > 0
  /\ bumps' = [bumps EXCEPT ![m] = @ - 1]
  /\ seq' = [seq EXCEPT ![m] = @ - 1]
  /\ ChangeEntries(stored, {e \in unbumped : e[1] # m}, call)
  /\ UNCHANGED <<cache, last, failures>>

\* A marker or the janitor's OnEvicted increments the number of the entry's type.
Bump(m) ==
  /\ bumps[m] > 0
  /\ bumps' = [bumps EXCEPT ![m] = @ - 1]
  /\ seq' = [seq EXCEPT ![m] = @ + 1]
  /\ ChangeEntries(stored, {e \in unbumped : e[1] # m}, call)
  /\ UNCHANGED <<cache, last, failures>>

Expire(e) ==
  /\ stored[e] = "live"
  /\ ChangeEntries([stored EXCEPT ![e] = "expired"], unbumped, call)
  /\ UNCHANGED <<seq, bumps, cache, last, failures>>

\* Mutant: eviction does not count as a change of availability.
Evict_Silent(e) ==
  /\ stored[e] = "expired"
  /\ ChangeEntries([stored EXCEPT ![e] = "absent"], unbumped \ {e}, call)
  /\ UNCHANGED <<seq, bumps, cache, last, failures>>

\* The janitor deletes an expired entry, then calls OnEvicted.
Evict(e) ==
  /\ stored[e] = "expired"
  /\ ChangeEntries([stored EXCEPT ![e] = "absent"], unbumped \cup {e}, call)
  /\ bumps' = [bumps EXCEPT ![e[1]] = @ + 1]
  /\ UNCHANGED <<seq, cache, last, failures>>

----------------------------------------------------------------------------
(* createOfferings.                                                        *)

ReadSeqNum(t, m, zs) ==
  /\ call[t].pc = "idle"
  /\ call' = [call EXCEPT ![t] =
       [pc |-> "load", type |-> m, zones |-> zs, seqNum |-> SeqNum(m), lastSeqNum |-> 0,
        toRead |-> UNION {EntriesOf(m, z) : z \in zs}, found |-> {},
        seenIn |-> MayIn(stored, unbumped), seenOut |-> MayOut(stored, unbumped)]]
  /\ UNCHANGED <<stored, unbumped, seq, bumps, cache, last, failures>>

LoadLast(t) ==
  /\ call[t].pc = "load"
  /\ call' = [call EXCEPT ![t].pc = "get", ![t].lastSeqNum = last[call[t].type]]
  /\ UNCHANGED <<stored, unbumped, seq, bumps, cache, last, failures>>

\* An answer that agrees with what may be said of the entries.
Fits(m, zs, unavailable, in, out) ==
  \A z \in zs : IF z \in unavailable THEN EntriesOf(m, z) \cap in # {}
                                     ELSE EntriesOf(m, z) \subseteq out

\* History: matched tells whether the number compared was recorded with this very answer.
Done(t, unavailable, matched) ==
  [pc |-> "done", type |-> call[t].type, zones |-> call[t].zones, unavailable |-> unavailable,
   matched |-> matched,
   fresh |-> Fits(call[t].type, call[t].zones, unavailable, call[t].seenIn, call[t].seenOut)]

Key(t) == <<call[t].type, call[t].zones>>

\* Mutant: a cached answer is used whatever its number.
Hit_AnyNumber(t) == cache[Key(t)].cached

Hit(t) == cache[Key(t)].cached /\ call[t].lastSeqNum = call[t].seqNum

GetCached(t) ==
  /\ call[t].pc = "get"
  /\ call' = [call EXCEPT ![t] =
       IF Hit(t)
       THEN Done(t, cache[Key(t)].unavailable, cache[Key(t)].number = call[t].lastSeqNum)
       ELSE [@ EXCEPT !.pc = "read", !.lastSeqNum = 0]]
  /\ UNCHANGED <<stored, unbumped, seq, bumps, cache, last, failures>>

\* The entry IsUnavailable reads next: zone by zone, the offering's entry, then the zone's.
IsNext(e, m, toRead) ==
  /\ e \in toRead
  /\ e[1] = AnyType => <<m, e[2]>> \notin toRead
  /\ e[1] = m => \A z \in Zones : <<AnyType, z>> \in toRead => <<m, z>> \in toRead

\* An entry past its TTL is not found.
ReadEntry(t, e) ==
  /\ call[t].pc = "read" /\ IsNext(e, call[t].type, call[t].toRead)
  /\ call' = [call EXCEPT ![t].toRead = @ \ {e},
                          ![t].found = IF stored[e] = "live" THEN @ \cup {e} ELSE @]
  /\ UNCHANGED <<stored, unbumped, seq, bumps, cache, last, failures>>

Computed(t) == {z \in call[t].zones : EntriesOf(call[t].type, z) \cap call[t].found # {}}

SetCached(t) ==
  /\ call[t].pc = "read" /\ call[t].toRead = {}
  /\ cache' = [cache EXCEPT ![Key(t)] = Cached(Computed(t), t)]
  /\ call' = [call EXCEPT ![t].pc = "store"]
  /\ UNCHANGED <<stored, unbumped, seq, bumps, last, failures>>

\* The number becomes the last of the machine type, whatever list of zones was asked for.
\* History: it is recorded with the call's answer, unless that is no longer the one cached.
Record(t, n) ==
  /\ call[t].pc = "store"
  /\ last' = [last EXCEPT ![call[t].type] = n]
  /\ LET own == cache[Key(t)].cached /\ t \in cache[Key(t)].by
     IN cache' = IF own THEN [cache EXCEPT ![Key(t)].by = {}, ![Key(t)].number = n] ELSE cache
  /\ call' = [call EXCEPT ![t] = Done(t, Computed(t), TRUE)]
  /\ UNCHANGED <<stored, unbumped, seq, bumps, failures>>

\* Mutant: the number is read again when it is stored.
StoreLast_Current(t) == Record(t, SeqNum(call[t].type))

StoreLast(t) == Record(t, call[t].seqNum)

\* The entry of the offering cache reaches its own TTL.
ExpireCached(k) ==
  /\ cache[k].cached
  /\ cache' = [cache EXCEPT ![k] = NotCached]
  /\ UNCHANGED <<stored, unbumped, seq, bumps, last, call, failures>>

----------------------------------------------------------------------------
(* Launching one of the offerings the answer calls available.              *)

\* A failure of CreateServer: its status, and whether its text names exhausted capacity.
Errors == [status : Statuses, capacityText : BOOLEAN]

IsUnauthorized(err) == err.status \in {401, 403}
IsInsufficientCapacity(err) == err.status \in {403, 409, 422, 503} /\ err.capacityText
IsRetryable(err) == err.status >= 500 \/ err.status = 429

\* Mutant: a capacity failure is not told apart from other 409s and 422s.
TakenOut_NoCapacity(err, m, z) ==
  IF ~IsUnauthorized(err) /\ IsRetryable(err) THEN {<<AnyType, z>>} ELSE {}

\* recordLaunchFailure: what an error takes out of rotation.
TakenOut(err, m, z) ==
  IF IsUnauthorized(err) THEN {}
  ELSE IF IsInsufficientCapacity(err) THEN {<<m, z>>}
  ELSE IF IsRetryable(err) THEN {<<AnyType, z>>}
  ELSE {}

LaunchFails(t, z, err) ==
  /\ call[t].pc = "done" /\ z \in call[t].zones \ call[t].unavailable
  /\ failures < MaxFailures
  /\ failures' = failures + 1
  /\ MarkEntries(TakenOut(err, call[t].type, z), [call EXCEPT ![t] = Idle])
  /\ UNCHANGED <<seq, cache, last>>

\* The launch succeeds, or the caller only asked (scheduling, GetInstanceTypes, List).
Return(t) ==
  /\ call[t].pc = "done"
  /\ call' = [call EXCEPT ![t] = Idle]
  /\ UNCHANGED <<stored, unbumped, seq, bumps, cache, last, failures>>

Next ==
  \/ \E m \in Types \cup {AnyType} : Bump(m)
  \/ \E e \in Entries : Expire(e) \/ Evict(e)
  \/ \E k \in Types \X ZoneSets : ExpireCached(k)
  \/ \E t \in Callers :
       \/ \E m \in Types, zs \in ZoneSets : ReadSeqNum(t, m, zs)
       \/ LoadLast(t) \/ GetCached(t) \/ SetCached(t) \/ StoreLast(t) \/ Return(t)
       \/ \E e \in Entries : ReadEntry(t, e)
       \/ \E z \in Zones, err \in Errors : LaunchFails(t, z, err)

Spec == Init /\ [][Next]_offeringVars

\* Time passes, the janitor and the markers go on, and a started call comes to its end.
\* That the offering cache reaches its own TTL is not relied upon.
Fairness ==
  /\ \A e \in Entries : WF_offeringVars(Expire(e)) /\ WF_offeringVars(Evict(e))
  /\ \A m \in Types \cup {AnyType} : WF_offeringVars(Bump(m))
  /\ \A t \in Callers :
       WF_offeringVars(\/ LoadLast(t) \/ GetCached(t) \/ SetCached(t) \/ StoreLast(t) \/ Return(t)
                       \/ \E e \in Entries : ReadEntry(t, e))

FairSpec == Spec /\ Fairness

----------------------------------------------------------------------------
(* Properties.                                                             *)

\* Every variable stays within its type; an answer is about the zones asked for, not
\* about those of another NodeClass (cacheKey).
TypeOK ==
  /\ stored \in [Entries -> {"absent", "live", "expired"}]
  /\ unbumped \subseteq Entries
  /\ seq \in [Types \cup {AnyType} -> Nat]
  /\ bumps \in [Types \cup {AnyType} -> Nat]
  /\ last \in [Types -> Nat]
  /\ \A k \in Types \X ZoneSets : cache[k].cached => cache[k].unavailable \subseteq k[2]
  /\ \A t \in Callers :
       /\ call[t].pc \in {"idle", "load", "get", "read", "store", "done"}
       /\ call[t].pc = "done" => call[t].unavailable \subseteq call[t].zones

\* createOfferings never answers with stale offerings: "cached entries are dropped the moment
\* availability changes".
NoStaleOfferings == \A t \in Callers : call[t].pc = "done" => call[t].fresh

\* With any number of callers and of zone lists, in any order: an answer that is computed is
\* fresh, and so is a cached one when the last number was recorded with it.  A stale answer
\* is always one that another call's number, of another list of zones or of an overlapping
\* call, was taken for.
StaleOnlyByAnotherNumber ==
  \A t \in Callers : call[t].pc = "done" /\ call[t].matched => call[t].fresh

\* Offerings come back: once launches stop failing, answers stop calling anything
\* unavailable (the entries expire, and their eviction reaches the cached offerings),
\* cached answers that go by another call's number excepted.
BackInRotation ==
  <>[](\A t \in Callers : call[t].pc = "done" /\ call[t].matched => call[t].unavailable = {})

\* recordLaunchFailure "takes the offering that just failed out of rotation, so the next
\* scheduling pass picks a different machine type or zone": a launch that failed for want
\* of capacity, or by STACKIT's own fault, leaves the offering unavailable.
FailureLeavesRotation ==
  [][\A t \in Callers, z \in Zones, err \in Errors :
       LaunchFails(t, z, err) /\ (IsInsufficientCapacity(err) \/ IsRetryable(err))
       => \E e \in EntriesOf(call[t].type, z) : stored'[e] = "live"]_offeringVars

=============================================================================
