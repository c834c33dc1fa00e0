-------------------------- MODULE Offerings_proofs --------------------------
(***************************************************************************)
(* Theorems about Offerings, for any callers, lists of zones, machine      *)
(* types and failures: its types, that an answer is stale only when the    *)
(* number it went by was another call's, and that a failed launch leaves   *)
(* rotation (where no failure has status 403).                             *)
(***************************************************************************)
EXTENDS Offerings, TLAPS

Askings == [pc : {"load", "get", "read", "store"}, type : Types, zones : ZoneSets,
            seqNum : Nat, lastSeqNum : Nat, toRead : SUBSET Entries, found : SUBSET Entries,
            seenIn : SUBSET Entries, seenOut : SUBSET Entries]

Answers == [pc : {"done"}, type : Types, zones : ZoneSets, unavailable : SUBSET Zones,
            matched : BOOLEAN, fresh : BOOLEAN]

Calls == {Idle} \cup Askings \cup Answers

Numbers == Types \cup {AnyType}

CacheEntries == {NotCached} \cup [cached : {TRUE}, unavailable : SUBSET Zones,
                                  by : SUBSET Callers, number : Nat \cup {NoNumber}]

\* TypeOK, and of every record the fields it has.
TypeInv ==
  /\ stored \in [Entries -> {"absent", "live", "expired"}]
  /\ unbumped \in SUBSET Entries
  /\ seq \in [Numbers -> Nat] /\ bumps \in [Numbers -> Nat]
  /\ cache \in [Types \X ZoneSets -> CacheEntries]
  /\ last \in [Types -> Nat]
  /\ call \in [Callers -> Calls]
  /\ \A k \in Types \X ZoneSets : cache[k].cached => cache[k].unavailable \subseteq k[2]
  /\ \A t \in Callers : call[t].pc = "done" => call[t].unavailable \subseteq call[t].zones

\* What is said of entries is about entries.
LEMMA MayType ==
  ASSUME NEW st, NEW ub PROVE MayIn(st, ub) \in SUBSET Entries /\ MayOut(st, ub) \in SUBSET Entries
  BY DEF MayIn, MayOut

\* A machine type and a zone have two entries.
LEMMA EntriesOfType ==
  ASSUME NEW m \in Types, NEW z \in Zones PROVE EntriesOf(m, z) \in SUBSET Entries
  BY DEF EntriesOf, Entries

\* A call tells its fields by how far it is.
LEMMA CallFields ==
  ASSUME TypeInv, NEW t \in Callers
  PROVE  /\ call[t].pc \in {"load", "get", "read", "store"} => call[t] \in Askings
         /\ call[t].pc = "done" => call[t] \in Answers
         /\ call[t].pc \in {"idle", "load", "get", "read", "store", "done"}
  BY DEF TypeInv, Calls, Idle, Askings, Answers

\* A call that has seen more.
Grown(q, in, out) == [q EXCEPT !.seenIn = @ \cup in, !.seenOut = @ \cup out]

\* A change of entries reaches every call, and keeps everything else of it.
LEMMA ChangeCalls ==
  ASSUME NEW st, NEW ub, NEW c \in [Callers -> Calls], ChangeEntries(st, ub, c)
  PROVE  /\ call' \in [Callers -> Calls]
         /\ \A t \in Callers :
              /\ c[t] = Idle => call'[t] = Idle
              /\ c[t] \in Answers => call'[t] = c[t]
              /\ c[t] \in Askings =>
                   /\ call'[t] \in Askings
                   /\ call'[t] = Grown(c[t], MayIn(st, ub), MayOut(st, ub))
<1>1. MayIn(st, ub) \in SUBSET Entries /\ MayOut(st, ub) \in SUBSET Entries
  BY MayType
<1>2. ASSUME NEW t \in Callers
      PROVE  /\ call'[t] \in Calls
             /\ c[t] = Idle => call'[t] = Idle
             /\ c[t] \in Answers => call'[t] = c[t]
             /\ c[t] \in Askings =>
                  /\ call'[t] \in Askings
                  /\ call'[t] = Grown(c[t], MayIn(st, ub), MayOut(st, ub))
  <2>1. CASE c[t] = Idle
    <3>1. c[t].pc = "idle"
      BY <2>1 DEF Idle
    <3>2. call'[t] = Idle
      BY <2>1, <3>1 DEF ChangeEntries
    <3>3. ~(c[t] \in Answers) /\ ~(c[t] \in Askings)
      BY <3>1 DEF Answers, Askings
    <3>4. QED
      BY <2>1, <3>2, <3>3 DEF Calls
  <2>2. CASE c[t] \in Answers
    <3>1. c[t].pc = "done"
      BY <2>2 DEF Answers
    <3>2. call'[t] = c[t]
      BY <3>1 DEF ChangeEntries
    <3>3. c[t] # Idle /\ ~(c[t] \in Askings)
      BY <3>1 DEF Idle, Askings
    <3>4. QED
      BY <2>2, <3>2, <3>3 DEF Calls
  <2>3. CASE c[t] \in Askings
    <3> DEFINE new == Grown(c[t], MayIn(st, ub), MayOut(st, ub))
    <3>1. new \in Askings
      BY <1>1, <2>3 DEF Askings, Grown
    <3>2. call'[t] = new
      BY <2>3 DEF ChangeEntries, Askings, Grown
    <3>3. QED
      BY <2>3, <3>1, <3>2 DEF Calls, Askings, Answers, Idle
  <2>4. QED
    BY <2>1, <2>2, <2>3 DEF Calls
<1>3. DOMAIN call' = Callers /\ call' = [t \in Callers |-> call'[t]]
  BY DEF ChangeEntries
<1>4. QED
  BY <1>2, <1>3

----------------------------------------------------------------------------
\* NewUnavailableOfferings and the empty caches are well-typed.
LEMMA TypeInit == Init => TypeInv
  BY DEF Init, TypeInv, Numbers, CacheEntries, NotCached, Calls, Idle

\* The steps that change entries preserve the types.
LEMMA TypeEntries ==
  ASSUME TypeInv, NEW c \in [Callers -> Calls],
         \A t \in Callers : c[t].pc = "done" => c[t].unavailable \subseteq c[t].zones,
         NEW st \in [Entries -> {"absent", "live", "expired"}], NEW ub \in SUBSET Entries,
         ChangeEntries(st, ub, c),
         seq' \in [Numbers -> Nat], bumps' \in [Numbers -> Nat], UNCHANGED <<cache, last>>
  PROVE  TypeInv'
<1>1. stored' = st /\ unbumped' = ub
  BY DEF ChangeEntries
<1>2. /\ call' \in [Callers -> Calls]
      /\ \A t \in Callers : /\ c[t] = Idle => call'[t] = Idle
                            /\ c[t] \in Answers => call'[t] = c[t]
                            /\ c[t] \in Askings => call'[t] \in Askings
  BY ChangeCalls
<1>3. ASSUME NEW t \in Callers, call'[t].pc = "done"
      PROVE  call'[t].unavailable \subseteq call'[t].zones
  <2>1. c[t] = Idle \/ c[t] \in Askings \/ c[t] \in Answers
    BY DEF Calls
  <2>2. call'[t] # Idle
    BY <1>3 DEF Idle
  <2>3. ~(call'[t] \in Askings)
    BY <1>3 DEF Askings
  <2>4. call'[t] = c[t]
    BY <1>2, <2>1, <2>2, <2>3
  <2>5. QED
    BY <1>3, <2>4
<1>4. QED
  BY <1>1, <1>2, <1>3 DEF TypeInv

\* An answer is about the zones asked for.
LEMMA DoneType ==
  ASSUME NEW t \in Callers, call[t] \in Askings, NEW unavailable \in SUBSET Zones,
         NEW matched \in BOOLEAN
  PROVE  /\ Done(t, unavailable, matched) \in Answers
         /\ Done(t, unavailable, matched).unavailable = unavailable
         /\ Done(t, unavailable, matched).zones = call[t].zones
<1> DEFINE fresh == Fits(call[t].type, call[t].zones, unavailable, call[t].seenIn, call[t].seenOut)
<1>1. fresh \in BOOLEAN
  BY DEF Fits
<1> HIDE DEF fresh
<1>2. Done(t, unavailable, matched) =
        [pc |-> "done", type |-> call[t].type, zones |-> call[t].zones,
         unavailable |-> unavailable, matched |-> matched, fresh |-> fresh]
  BY DEF Done, fresh
<1>3. QED
  BY <1>1, <1>2 DEF Askings, Answers

\* Every step of the cache of unavailable offerings, of createOfferings and of launches
\* preserves the types.
LEMMA TypeStep == TypeInv /\ [Next]_offeringVars => TypeInv'
<1> SUFFICES ASSUME TypeInv, [Next]_offeringVars PROVE TypeInv'
  OBVIOUS
<1>0. /\ call \in [Callers -> Calls]
      /\ \A t \in Callers : call[t].pc = "done" => call[t].unavailable \subseteq call[t].zones
  BY DEF TypeInv
<1>1. ASSUME NEW m \in Types \cup {AnyType}, Bump(m) PROVE TypeInv'
  <2>1. seq' \in [Numbers -> Nat] /\ bumps' \in [Numbers -> Nat]
    <3>1. bumps[m] \in Nat /\ bumps[m] > 0 /\ seq[m] \in Nat /\ m \in Numbers
      BY <1>1 DEF TypeInv, Bump, Numbers
    <3>2. bumps[m] - 1 \in Nat /\ seq[m] + 1 \in Nat
      BY <3>1
    <3>3. QED
      BY <1>1, <3>2 DEF TypeInv, Bump
  <2>2. {e \in unbumped : e[1] # m} \in SUBSET Entries
    BY DEF TypeInv
  <2>3. stored \in [Entries -> {"absent", "live", "expired"}]
    BY DEF TypeInv
  <2>4. ChangeEntries(stored, {e \in unbumped : e[1] # m}, call) /\ UNCHANGED <<cache, last>>
    BY <1>1 DEF Bump
  <2>5. QED
    BY <1>0, <2>1, <2>2, <2>3, <2>4, TypeEntries
<1>2. ASSUME NEW e \in Entries, Expire(e) PROVE TypeInv'
  <2>1. seq' \in [Numbers -> Nat] /\ bumps' \in [Numbers -> Nat] /\ unbumped \in SUBSET Entries
    BY <1>2 DEF TypeInv, Expire
  <2>2. [stored EXCEPT ![e] = "expired"] \in [Entries -> {"absent", "live", "expired"}]
    BY DEF TypeInv
  <2>3. ChangeEntries([stored EXCEPT ![e] = "expired"], unbumped, call) /\ UNCHANGED <<cache, last>>
    BY <1>2 DEF Expire
  <2>4. QED
    BY <1>0, <2>1, <2>2, <2>3, TypeEntries
<1>3. ASSUME NEW e \in Entries, Evict(e) PROVE TypeInv'
  <2>1. seq' \in [Numbers -> Nat] /\ bumps' \in [Numbers -> Nat]
    BY <1>3 DEF TypeInv, Evict, Numbers, Entries
  <2>2. /\ [stored EXCEPT ![e] = "absent"] \in [Entries -> {"absent", "live", "expired"}]
        /\ unbumped \cup {e} \in SUBSET Entries
    BY DEF TypeInv
  <2>3. /\ ChangeEntries([stored EXCEPT ![e] = "absent"], unbumped \cup {e}, call)
        /\ UNCHANGED <<cache, last>>
    BY <1>3 DEF Evict
  <2>4. QED
    BY <1>0, <2>1, <2>2, <2>3, TypeEntries
<1>4. ASSUME NEW t \in Callers, NEW z \in Zones, NEW err \in Errors, LaunchFails(t, z, err)
      PROVE  TypeInv'
  <2> DEFINE es == TakenOut(err, call[t].type, z)
             st == [e \in Entries |-> IF e \in es THEN "live" ELSE stored[e]]
             ub == unbumped \cup {e \in es : stored[e] # "live"}
             c  == [call EXCEPT ![t] = Idle]
  <2>1. call[t] \in Answers
    BY <1>4, CallFields DEF LaunchFails
  <2>2. es \in SUBSET Entries
    BY <2>1 DEF TakenOut, Entries, Answers
  <2>3. st \in [Entries -> {"absent", "live", "expired"}] /\ ub \in SUBSET Entries
    BY <2>2 DEF TypeInv
  <2>4. c \in [Callers -> Calls]
    BY <1>0 DEF Calls
  <2>5. \A u \in Callers : c[u].pc = "done" => c[u].unavailable \subseteq c[u].zones
    BY <1>0 DEF Idle
  <2>6. seq' \in [Numbers -> Nat] /\ bumps' \in [Numbers -> Nat] /\ UNCHANGED <<cache, last>>
    <3>1. bumps' = [m \in Numbers |->
                      IF \E y \in Zones : <<m, y>> \in es THEN bumps[m] + 1 ELSE bumps[m]]
      BY <1>4 DEF LaunchFails, MarkEntries, Numbers
    <3>2. \A m \in Numbers : bumps[m] \in Nat /\ bumps[m] + 1 \in Nat
      BY DEF TypeInv
    <3> HIDE DEF es
    <3>3. bumps' \in [Numbers -> Nat]
      BY <3>1, <3>2
    <3>4. QED
      BY <1>4, <3>3 DEF TypeInv, LaunchFails
  <2>7. ChangeEntries(st, ub, c)
    BY <1>4 DEF LaunchFails, MarkEntries
  <2>8. QED
    BY <2>3, <2>4, <2>5, <2>6, <2>7, TypeEntries
<1>5. ASSUME NEW t \in Callers, NEW m \in Types, NEW zs \in ZoneSets, ReadSeqNum(t, m, zs)
      PROVE  TypeInv'
  <2>1. SeqNum(m) \in Nat
    BY DEF TypeInv, SeqNum, Numbers
  <2>2. UNION {EntriesOf(m, z) : z \in zs} \in SUBSET Entries
    BY OfferingsAssumption, EntriesOfType
  <2>3. call'[t] \in Askings /\ call' = [call EXCEPT ![t] = call'[t]]
    BY <1>0, <1>5, <2>1, <2>2, MayType DEF ReadSeqNum, Askings
  <2>4. call' \in [Callers -> Calls]
    BY <1>0, <2>3 DEF Calls
  <2>5. \A u \in Callers : call'[u].pc = "done" => call'[u].unavailable \subseteq call'[u].zones
    BY <1>0, <2>3 DEF Askings
  <2>6. QED
    BY <1>5, <2>4, <2>5 DEF ReadSeqNum, TypeInv
<1>6. ASSUME NEW t \in Callers, LoadLast(t) \/ \E e \in Entries : ReadEntry(t, e) PROVE TypeInv'
  <2>1. call[t] \in Askings
    BY <1>6, CallFields DEF LoadLast, ReadEntry
  <2>2. call'[t] \in Askings /\ call' = [call EXCEPT ![t] = call'[t]]
    <3>1. CASE LoadLast(t)
      BY <1>0, <2>1, <3>1 DEF LoadLast, TypeInv, Askings
    <3>2. ASSUME NEW e \in Entries, ReadEntry(t, e)
          PROVE  call'[t] \in Askings /\ call' = [call EXCEPT ![t] = call'[t]]
      <4> DEFINE found == IF stored[e] = "live" THEN call[t].found \cup {e} ELSE call[t].found
      <4>1. call'[t] = [call[t] EXCEPT !.toRead = @ \ {e}, !.found = found]
        BY <1>0, <3>2 DEF ReadEntry
      <4>2. found \in SUBSET Entries /\ call[t].toRead \ {e} \in SUBSET Entries
        BY <2>1 DEF Askings
      <4>3. call'[t] \in Askings
        BY <2>1, <4>1, <4>2 DEF Askings
      <4>4. call' = [call EXCEPT ![t] = call'[t]]
        BY <1>0, <3>2 DEF ReadEntry
      <4>5. QED
        BY <4>3, <4>4
    <3>3. QED
      BY <1>6, <3>1, <3>2
  <2>3. call' \in [Callers -> Calls]
    BY <1>0, <2>2 DEF Calls
  <2>4. \A u \in Callers : call'[u].pc = "done" => call'[u].unavailable \subseteq call'[u].zones
    BY <1>0, <2>2 DEF Askings
  <2>5. QED
    BY <1>6, <2>3, <2>4 DEF LoadLast, ReadEntry, TypeInv
<1>7. ASSUME NEW t \in Callers, GetCached(t) PROVE TypeInv'
  <2>1. call[t] \in Askings
    BY <1>7, CallFields DEF GetCached
  <2>2. /\ call'[t] \in Askings \cup Answers
        /\ call'[t].pc = "done" => call'[t].unavailable \subseteq call'[t].zones
    <3>1. CASE Hit(t)
      <4>1. /\ cache[Key(t)].unavailable \in SUBSET Zones
            /\ cache[Key(t)].unavailable \subseteq call[t].zones
        <5>1. Key(t) \in Types \X ZoneSets /\ Key(t)[2] = call[t].zones
          BY <2>1 DEF Key, Askings
        <5>2. cache[Key(t)] \in CacheEntries /\ cache[Key(t)].cached
          BY <3>1, <5>1 DEF Hit, TypeInv
        <5>3. cache[Key(t)].unavailable \subseteq Key(t)[2]
          BY <5>1, <5>2 DEF TypeInv
        <5>4. QED
          <6>1. cache[Key(t)] # NotCached
            BY <5>2 DEF NotCached
          <6>2. cache[Key(t)].unavailable \in SUBSET Zones
            BY <5>2, <6>1 DEF CacheEntries
          <6>3. QED
            BY <5>1, <5>3, <6>2
      <4>2. call'[t] = Done(t, cache[Key(t)].unavailable, cache[Key(t)].number = call[t].lastSeqNum)
        BY <1>0, <1>7, <3>1 DEF GetCached
      <4>3. (cache[Key(t)].number = call[t].lastSeqNum) \in BOOLEAN
        OBVIOUS
      <4>4. QED
        <5> DEFINE matched == cache[Key(t)].number = call[t].lastSeqNum
                   unavailable == cache[Key(t)].unavailable
        <5>1. matched \in BOOLEAN /\ unavailable \in SUBSET Zones
          BY <4>1, <4>3
        <5>2. call'[t] = Done(t, unavailable, matched)
          BY <4>2
        <5>3. unavailable \subseteq call[t].zones
          BY <4>1
        <5> HIDE DEF matched, unavailable
        <5>4. /\ Done(t, unavailable, matched) \in Answers
              /\ Done(t, unavailable, matched).unavailable = unavailable
              /\ Done(t, unavailable, matched).zones = call[t].zones
          BY <2>1, <5>1, DoneType, Zenon
        <5>5. QED
          BY <5>2, <5>3, <5>4
    <3>2. CASE ~Hit(t)
      BY <1>0, <1>7, <2>1, <3>2 DEF GetCached, Askings
    <3>3. QED
      BY <3>1, <3>2
  <2>3. call' = [call EXCEPT ![t] = call'[t]]
    BY <1>0, <1>7 DEF GetCached
  <2>4. call' \in [Callers -> Calls]
    BY <1>0, <2>2, <2>3 DEF Calls
  <2>5. \A u \in Callers : call'[u].pc = "done" => call'[u].unavailable \subseteq call'[u].zones
    BY <1>0, <2>2, <2>3
  <2>6. QED
    BY <1>7, <2>4, <2>5 DEF GetCached, TypeInv
<1>8. ASSUME NEW t \in Callers, SetCached(t) PROVE TypeInv'
  <2>1. call[t] \in Askings
    BY <1>8, CallFields DEF SetCached
  <2>2. Computed(t) \in SUBSET Zones /\ Computed(t) \subseteq call[t].zones
    BY <2>1, OfferingsAssumption DEF Computed, Askings
  <2>3. Key(t) \in Types \X ZoneSets /\ Key(t)[2] = call[t].zones
    BY <2>1 DEF Key, Askings
  <2>4. /\ cache' \in [Types \X ZoneSets -> CacheEntries]
        /\ \A k \in Types \X ZoneSets : cache'[k].cached => cache'[k].unavailable \subseteq k[2]
    <3> DEFINE new == Cached(Computed(t), t)
    <3>1. /\ new \in CacheEntries /\ new.cached = TRUE /\ new.unavailable = Computed(t)
      BY <2>2 DEF CacheEntries, Cached
    <3>2. cache' = [cache EXCEPT ![Key(t)] = new]
      BY <1>8 DEF SetCached
    <3> HIDE DEF new
    <3>3. QED
      BY <2>2, <2>3, <3>1, <3>2 DEF TypeInv
  <2>5. call'[t] \in Askings /\ call' = [call EXCEPT ![t] = call'[t]]
    BY <1>0, <1>8, <2>1 DEF SetCached, Askings
  <2>6. call' \in [Callers -> Calls]
    BY <1>0, <2>5 DEF Calls
  <2>7. \A u \in Callers : call'[u].pc = "done" => call'[u].unavailable \subseteq call'[u].zones
    BY <1>0, <2>5 DEF Askings
  <2>8. QED
    BY <1>8, <2>4, <2>6, <2>7 DEF SetCached, TypeInv
<1>9. ASSUME NEW t \in Callers, StoreLast(t) PROVE TypeInv'
  <2>1. call[t] \in Askings
    BY <1>9, CallFields DEF StoreLast, Record
  <2>2. Computed(t) \in SUBSET Zones /\ Computed(t) \subseteq call[t].zones
    BY <2>1, OfferingsAssumption DEF Computed, Askings
  <2>3. call'[t] = Done(t, Computed(t), TRUE) /\ call' = [call EXCEPT ![t] = call'[t]]
    BY <1>0, <1>9 DEF StoreLast, Record
  <2>4. call'[t] \in Answers /\ call'[t].unavailable \subseteq call'[t].zones
    <3>1. TRUE \in BOOLEAN
      OBVIOUS
    <3>2. /\ Done(t, Computed(t), TRUE) \in Answers
          /\ Done(t, Computed(t), TRUE).unavailable = Computed(t)
          /\ Done(t, Computed(t), TRUE).zones = call[t].zones
      BY <2>1, <2>2, <3>1, DoneType, Zenon
    <3>3. QED
      BY <2>2, <2>3, <3>2
  <2>5. last' \in [Types -> Nat]
    BY <1>9, <2>1 DEF StoreLast, Record, TypeInv, Askings
  <2>9. /\ cache' \in [Types \X ZoneSets -> CacheEntries]
        /\ \A k \in Types \X ZoneSets : cache'[k].cached => cache'[k].unavailable \subseteq k[2]
    <3>1. call[t].seqNum \in Nat
      BY <2>1 DEF Askings
    <3>2. ASSUME NEW k \in Types \X ZoneSets
          PROVE  \/ cache'[k] = cache[k]
                 \/ cache[k].cached /\ cache'[k] = [cache[k] EXCEPT !.by = {}, !.number = call[t].seqNum]
      BY <1>9 DEF StoreLast, Record, TypeInv
    <3>3. ASSUME NEW k \in Types \X ZoneSets
          PROVE  /\ cache'[k] \in CacheEntries
                 /\ cache'[k].cached => cache'[k].unavailable \subseteq k[2]
      <4>1. cache[k] \in CacheEntries /\ (cache[k].cached => cache[k].unavailable \subseteq k[2])
        BY DEF TypeInv
      <4>2. CASE cache[k].cached /\ cache'[k] = [cache[k] EXCEPT !.by = {}, !.number = call[t].seqNum]
        BY <3>1, <4>1, <4>2 DEF CacheEntries, NotCached
      <4>3. QED
        BY <3>2, <4>1, <4>2
    <3>4. cache' = [k \in Types \X ZoneSets |-> cache'[k]]
      BY <1>9 DEF StoreLast, Record, TypeInv
    <3>5. QED
      BY <3>3, <3>4
  <2>6. call' \in [Callers -> Calls]
    BY <1>0, <2>3, <2>4 DEF Calls
  <2>7. \A u \in Callers : call'[u].pc = "done" => call'[u].unavailable \subseteq call'[u].zones
    BY <1>0, <2>3, <2>4
  <2>8. QED
    BY <1>9, <2>5, <2>6, <2>7, <2>9 DEF StoreLast, Record, TypeInv
<1>10. ASSUME NEW t \in Callers, Return(t) PROVE TypeInv'
  BY <1>0, <1>10 DEF Return, TypeInv, Calls, Idle
<1>11. ASSUME NEW k \in Types \X ZoneSets, ExpireCached(k) PROVE TypeInv'
  BY <1>11 DEF ExpireCached, TypeInv, CacheEntries, NotCached
<1>12. CASE UNCHANGED offeringVars
  BY <1>12 DEF offeringVars, TypeInv
<1>13. QED
  BY <1>1, <1>2, <1>3, <1>4, <1>5, <1>6, <1>7, <1>8, <1>9, <1>10, <1>11, <1>12 DEF Next

\* Every variable stays within its type, and every answer is about the zones asked for.
THEOREM TypeCorrect == Spec => []TypeOK
<1>1. TypeInv => TypeOK
  BY CallFields DEF TypeInv, TypeOK, Numbers
<1>2. QED
  BY TypeInit, TypeStep, <1>1, PTL DEF Spec

----------------------------------------------------------------------------
(* StaleOnlyByAnotherNumber: the parts of the invariant speak of one call  *)
(* or one cached answer each, and of the number n and the entries in and   *)
(* out as they are now.                                                    *)

In == MayIn(stored, unbumped)
Out == MayOut(stored, unbumped)

Asking(q) == q.pc \in {"load", "get", "read", "store"}
KeyOf(q) == <<q.type, q.zones>>

\* The entries a call reads, those it read and did not find, and what it computes.
All(q) == UNION {EntriesOf(q.type, z) : z \in q.zones}
Missed(q) == All(q) \ (q.toRead \cup q.found)
Answer(q) == {z \in q.zones : EntriesOf(q.type, z) \cap q.found # {}}

\* Numbers only grow, and a running call has seen what can be said of the entries now.
SeesNow(q, n, in, out) ==
  Asking(q) => q.seqNum <= n /\ in \subseteq q.seenIn /\ out \subseteq q.seenOut

\* An answer cached under the number a call read agrees with what the call saw.
HitFits(q, c) ==
  q.pc \in {"load", "get"} =>
    /\ q.toRead = All(q) /\ q.found = {}
    /\ c[KeyOf(q)].cached /\ c[KeyOf(q)].number = q.seqNum =>
         Fits(q.type, q.zones, c[KeyOf(q)].unavailable, q.seenIn, q.seenOut)

\* What a call found, and did not find, was so when it read it, and is while the number is
\* the one it read.
ReadFits(q, n, in, out) ==
  q.pc \in {"read", "store"} =>
    /\ q.found \subseteq All(q) /\ q.toRead \subseteq All(q)
    /\ q.found \subseteq q.seenIn /\ Missed(q) \subseteq q.seenOut
    /\ q.seqNum = n => q.found \subseteq in /\ Missed(q) \subseteq out
    /\ q.pc = "store" => q.toRead = {}

\* The answer a call is about to record its number with is its own.
OwnFits(t, q, c) ==
  q.pc = "store" /\ c[KeyOf(q)].cached /\ t \in c[KeyOf(q)].by =>
    c[KeyOf(q)].unavailable = Answer(q)

\* What a call read agrees with what another, started under the same number, saw.
Agree(q, r) ==
  q.pc \in {"read", "store"} /\ r.pc \in {"load", "get"} /\ q.type = r.type /\ q.seqNum = r.seqNum =>
    q.found \subseteq r.seenIn /\ Missed(q) \subseteq r.seenOut

\* What is cached under the current number agrees with the entries as they are now.
CacheFresh(k, e, n, in, out) ==
  e.cached => e.number <= n /\ (e.number = n => Fits(k[1], k[2], e.unavailable, in, out))

AnswerFresh(q) == q.pc = "done" /\ q.matched => q.fresh

CallFresh(t, q, c, n, in, out) ==
  SeesNow(q, n, in, out) /\ HitFits(q, c) /\ ReadFits(q, n, in, out) /\ OwnFits(t, q, c) /\ AnswerFresh(q)

FreshInv ==
  /\ TypeInv
  /\ \A t \in Callers : CallFresh(t, call[t], cache, SeqNum(call[t].type), In, Out)
  /\ \A t, u \in Callers : Agree(call[t], call[u])
  /\ \A k \in Types \X ZoneSets : CacheFresh(k, cache[k], SeqNum(k[1]), In, Out)

Num(s, m) == s[m] + s[AnyType]

\* The invariant after a step, part by part.
LEMMA FreshNext ==
  ASSUME TypeInv',
         \A t \in Callers : CallFresh(t, call'[t], cache', Num(seq', call'[t].type),
                                      MayIn(stored', unbumped'), MayOut(stored', unbumped')),
         \A t, u \in Callers : Agree(call'[t], call'[u]),
         \A k \in Types \X ZoneSets : CacheFresh(k, cache'[k], Num(seq', k[1]),
                                      MayIn(stored', unbumped'), MayOut(stored', unbumped'))
  PROVE  FreshInv'
<1>1. \A t, u \in Callers : Agree(call[t], call[u])'
  BY DEF Agree, Missed, All, EntriesOf
<1>2. \A k \in Types \X ZoneSets : CacheFresh(k, cache[k], SeqNum(k[1]), In, Out)'
  BY DEF CacheFresh, Fits, EntriesOf, Num, SeqNum, In, Out, MayIn, MayOut, Entries
<1>3. \A t \in Callers : CallFresh(t, call[t], cache, SeqNum(call[t].type), In, Out)'
  BY DEF CallFresh, SeesNow, HitFits, ReadFits, OwnFits, AnswerFresh, Asking, KeyOf, All, Missed,
         Answer, Fits, EntriesOf, Num, SeqNum, In, Out, MayIn, MayOut, Entries
<1>4. QED
  BY <1>1, <1>2, <1>3 DEF FreshInv

\* Seeing more never contradicts an answer.
LEMMA FitsMore ==
  ASSUME NEW m, NEW zs, NEW unavailable, NEW in, NEW out, NEW in2, NEW out2,
         Fits(m, zs, unavailable, in, out),
         \A z \in zs : EntriesOf(m, z) \cap in \subseteq in2 /\ EntriesOf(m, z) \cap out \subseteq out2
  PROVE  Fits(m, zs, unavailable, in2, out2)
<1> SUFFICES ASSUME NEW z \in zs
             PROVE  IF z \in unavailable THEN EntriesOf(m, z) \cap in2 # {}
                                         ELSE EntriesOf(m, z) \subseteq out2
  BY DEF Fits
<1>1. IF z \in unavailable THEN EntriesOf(m, z) \cap in # {} ELSE EntriesOf(m, z) \subseteq out
  BY DEF Fits
<1>2. QED
  BY <1>1

\* What a call that read everything computes agrees with what it found and did not find.
LEMMA AnswerFits ==
  ASSUME NEW q, NEW in, NEW out, q.toRead = {}, q.found \subseteq in, Missed(q) \subseteq out
  PROVE  Fits(q.type, q.zones, Answer(q), in, out)
<1> SUFFICES ASSUME NEW z \in q.zones
             PROVE  IF z \in Answer(q) THEN EntriesOf(q.type, z) \cap in # {}
                                       ELSE EntriesOf(q.type, z) \subseteq out
  BY DEF Fits
<1>1. CASE z \in Answer(q)
  BY <1>1 DEF Answer
<1>2. CASE z \notin Answer(q)
  <2>1. EntriesOf(q.type, z) \cap q.found = {}
    BY <1>2 DEF Answer
  <2>2. EntriesOf(q.type, z) \subseteq All(q)
    BY DEF All
  <2>3. QED
    BY <1>2, <2>1, <2>2 DEF Missed
<1>3. QED
  BY <1>1, <1>2

\* The fields of a call that has seen more.
LEMMA GrownFields ==
  ASSUME NEW q \in Askings, NEW in, NEW out
  PROVE  /\ Grown(q, in, out).pc = q.pc /\ Grown(q, in, out).type = q.type
         /\ Grown(q, in, out).zones = q.zones /\ Grown(q, in, out).seqNum = q.seqNum
         /\ Grown(q, in, out).toRead = q.toRead /\ Grown(q, in, out).found = q.found
         /\ Grown(q, in, out).seenIn = q.seenIn \cup in
         /\ Grown(q, in, out).seenOut = q.seenOut \cup out
  BY DEF Askings, Grown

\* A call keeps its part of the invariant over a change of entries that is counted, or that
\* leaves what may be said of its machine type's entries standing.
LEMMA GrownFresh ==
  ASSUME NEW t, NEW q \in Askings, NEW c, NEW n \in Nat, NEW n2 \in Nat,
         NEW in, NEW out, NEW in2, NEW out2, CallFresh(t, q, c, n, in, out),
         n <= n2, n2 = n => \A z \in q.zones : /\ EntriesOf(q.type, z) \cap in \subseteq in2
                                              /\ EntriesOf(q.type, z) \cap out \subseteq out2
  PROVE  CallFresh(t, Grown(q, in2, out2), c, n2, in2, out2)
<1> DEFINE g == Grown(q, in2, out2)
<1>1. /\ g.pc = q.pc /\ g.type = q.type /\ g.zones = q.zones /\ g.seqNum = q.seqNum
      /\ g.toRead = q.toRead /\ g.found = q.found
      /\ g.seenIn = q.seenIn \cup in2 /\ g.seenOut = q.seenOut \cup out2
  BY GrownFields
<1>2. q.pc \in {"load", "get", "read", "store"} /\ q.seqNum \in Nat
  BY DEF Askings
<1> HIDE DEF g
<1>3. KeyOf(g) = KeyOf(q) /\ All(g) = All(q) /\ Missed(g) = Missed(q) /\ Answer(g) = Answer(q)
  BY <1>1 DEF KeyOf, All, Missed, Answer
<1>4. q.seqNum <= n
  BY <1>2 DEF CallFresh, SeesNow, Asking
<1>5. SeesNow(g, n2, in2, out2)
  BY <1>1, <1>2, <1>4 DEF SeesNow
<1>6. HitFits(g, c)
  <2>1. HitFits(q, c)
    BY DEF CallFresh
  <2>2. ASSUME Fits(q.type, q.zones, c[KeyOf(q)].unavailable, q.seenIn, q.seenOut)
        PROVE  Fits(q.type, q.zones, c[KeyOf(q)].unavailable, q.seenIn \cup in2, q.seenOut \cup out2)
    BY <2>2, FitsMore
  <2>3. QED
    BY <1>1, <1>3, <2>1, <2>2 DEF HitFits
<1>7. ReadFits(g, n2, in2, out2)
  <2> SUFFICES ASSUME q.pc \in {"read", "store"}
               PROVE  /\ q.found \subseteq All(q) /\ q.toRead \subseteq All(q)
                      /\ q.found \subseteq q.seenIn /\ Missed(q) \subseteq q.seenOut
                      /\ q.seqNum = n2 => q.found \subseteq in2 /\ Missed(q) \subseteq out2
                      /\ q.pc = "store" => q.toRead = {}
    BY <1>1, <1>3 DEF ReadFits
  <2>1. /\ q.found \subseteq All(q) /\ q.toRead \subseteq All(q)
        /\ q.found \subseteq q.seenIn /\ Missed(q) \subseteq q.seenOut
        /\ q.seqNum = n => q.found \subseteq in /\ Missed(q) \subseteq out
        /\ q.pc = "store" => q.toRead = {}
    BY DEF CallFresh, ReadFits
  <2>2. ASSUME q.seqNum = n2 PROVE q.found \subseteq in2 /\ Missed(q) \subseteq out2
    <3>1. n2 = n /\ q.seqNum = n
      BY <1>2, <1>4, <2>2
    <3>2. All(q) \cap in \subseteq in2 /\ All(q) \cap out \subseteq out2
      BY <3>1 DEF All
    <3>3. QED
      BY <2>1, <3>1, <3>2 DEF Missed
  <2>3. QED
    BY <2>1, <2>2
<1>8. OwnFits(t, g, c)
  BY <1>1, <1>3 DEF CallFresh, OwnFits
<1>9. AnswerFresh(g)
  BY <1>1, <1>2 DEF AnswerFresh
<1>10. CallFresh(t, g, c, n2, in2, out2)
  BY <1>5, <1>6, <1>7, <1>8, <1>9 DEF CallFresh
<1>11. QED
  BY <1>10 DEF g

\* A call that has not started, or has come to its end, is about nothing but its answer.
LEMMA QuietFresh ==
  ASSUME NEW q, q.pc \in {"idle", "done"}, AnswerFresh(q), NEW t, NEW c, NEW n, NEW in, NEW out
  PROVE  CallFresh(t, q, c, n, in, out)
  BY DEF CallFresh, SeesNow, HitFits, ReadFits, OwnFits, Asking

\* Nor does it read anything that another call could disagree with.
LEMMA QuietAgree ==
  ASSUME NEW q, q.pc \in {"idle", "done"}, NEW r PROVE Agree(q, r) /\ Agree(r, q)
  BY DEF Agree

\* Calls that agree still do when both have seen more.
LEMMA GrownAgree ==
  ASSUME NEW q \in Askings, NEW r \in Askings, NEW in, NEW out, Agree(q, r)
  PROVE  Agree(Grown(q, in, out), Grown(r, in, out))
<1>1. Missed(Grown(q, in, out)) = Missed(q)
  BY GrownFields DEF Missed, All
<1>2. QED
  BY <1>1, GrownFields DEF Agree

\* A cached answer stays right under the current number, as long as no change is left out.
LEMMA CacheStays ==
  ASSUME NEW k, NEW e, NEW n \in Nat, NEW n2 \in Nat, NEW in, NEW out, NEW in2, NEW out2,
         e.cached => e.number \in Nat \cup {NoNumber}, CacheFresh(k, e, n, in, out),
         n <= n2, n2 = n => \A z \in k[2] : /\ EntriesOf(k[1], z) \cap in \subseteq in2
                                           /\ EntriesOf(k[1], z) \cap out \subseteq out2
  PROVE  CacheFresh(k, e, n2, in2, out2)
<1> SUFFICES ASSUME e.cached
             PROVE  e.number <= n2 /\ (e.number = n2 => Fits(k[1], k[2], e.unavailable, in2, out2))
  BY DEF CacheFresh
<1>1. e.number <= n /\ (e.number = n => Fits(k[1], k[2], e.unavailable, in, out))
  BY DEF CacheFresh
<1>2. e.number <= n2 /\ (e.number = n2 => n2 = n)
  BY <1>1 DEF NoNumber
<1>3. ASSUME n2 = n, Fits(k[1], k[2], e.unavailable, in, out)
      PROVE  Fits(k[1], k[2], e.unavailable, in2, out2)
  BY <1>3, FitsMore
<1>4. QED
  BY <1>1, <1>2, <1>3

\* A change of entries leaves a call as it was, but for what it has seen; that of a launch
\* that fails ends.
LEMMA EntriesCalls ==
  ASSUME TypeInv, NEW c \in [Callers -> Calls], NEW st, NEW ub, ChangeEntries(st, ub, c),
         \A t \in Callers : c[t] = call[t] \/ c[t] = Idle,
         NEW t \in Callers
  PROVE  \/ call'[t] = Idle
         \/ (call[t] \in Answers /\ call'[t] = call[t])
         \/ call[t] \in Askings /\ call'[t] = Grown(call[t], MayIn(st, ub), MayOut(st, ub))
<1>1. /\ c[t] = Idle => call'[t] = Idle
      /\ c[t] \in Answers => call'[t] = c[t]
      /\ c[t] \in Askings => call'[t] = Grown(c[t], MayIn(st, ub), MayOut(st, ub))
  BY ChangeCalls
<1>2. c[t] = Idle \/ c[t] \in Answers \/ c[t] \in Askings
  BY DEF Calls
<1>3. QED
  BY <1>1, <1>2

\* The numbers are numbers, and so are those of cached answers.
LEMMA NumbersType ==
  ASSUME TypeInv
  PROVE  /\ \A m \in Types : SeqNum(m) \in Nat /\ SeqNum(m) = Num(seq, m)
         /\ \A k \in Types \X ZoneSets :
              cache[k].cached => cache[k].number \in Nat \cup {NoNumber}
<1>1. \A m \in Types : SeqNum(m) \in Nat /\ SeqNum(m) = Num(seq, m)
  BY DEF TypeInv, SeqNum, Num, Numbers
<1>2. ASSUME NEW k \in Types \X ZoneSets, cache[k].cached PROVE cache[k].number \in Nat \cup {NoNumber}
  <2>1. cache[k] \in CacheEntries /\ cache[k] # NotCached
    BY <1>2 DEF TypeInv, NotCached
  <2>2. QED
    BY <2>1 DEF CacheEntries
<1>3. QED
  BY <1>1, <1>2

\* A change of entries that is counted, or that leaves what may be said of a machine
\* type's entries standing, preserves the invariant.
LEMMA EntriesStep ==
  ASSUME FreshInv, TypeInv', NEW c \in [Callers -> Calls], NEW st, NEW ub, ChangeEntries(st, ub, c),
         \A t \in Callers : c[t] = call[t] \/ c[t] = Idle,
         UNCHANGED <<cache, last>>,
         \A m \in Types :
           /\ Num(seq, m) <= Num(seq', m)
           /\ Num(seq', m) = Num(seq, m) =>
                \A z \in Zones : /\ EntriesOf(m, z) \cap In \subseteq MayIn(st, ub)
                                 /\ EntriesOf(m, z) \cap Out \subseteq MayOut(st, ub)
  PROVE  FreshInv'
<1> DEFINE in == MayIn(st, ub)
           out == MayOut(st, ub)
<1>0. TypeInv /\ stored' = st /\ unbumped' = ub /\ cache' = cache
  BY DEF FreshInv, ChangeEntries
<1>1. \A m \in Types : Num(seq, m) \in Nat /\ Num(seq', m) \in Nat /\ SeqNum(m) = Num(seq, m)
  BY <1>0, NumbersType DEF TypeInv, Num, Numbers
<1>2. ASSUME NEW t \in Callers
      PROVE  \/ call'[t] = Idle
             \/ (call[t] \in Answers /\ call'[t] = call[t])
             \/ call[t] \in Askings /\ call'[t] = Grown(call[t], in, out)
  BY <1>0, EntriesCalls
<1>3. ASSUME NEW t \in Callers, call'[t] = Idle \/ (call[t] \in Answers /\ call'[t] = call[t])
      PROVE  call'[t].pc \in {"idle", "done"} /\ AnswerFresh(call'[t])
  <2>1. AnswerFresh(call[t])
    BY DEF FreshInv, CallFresh
  <2>2. QED
    BY <1>3, <2>1 DEF Idle, AnswerFresh, Answers
<1> HIDE DEF in, out
<1>4. ASSUME NEW t \in Callers
      PROVE  CallFresh(t, call'[t], cache', Num(seq', call'[t].type), in, out)
  <2>1. CASE call[t] \in Askings /\ call'[t] = Grown(call[t], in, out)
    <3> DEFINE q == call[t]
    <3>1. q.type \in Types /\ q.zones \subseteq Zones
      BY <2>1, OfferingsAssumption DEF Askings
    <3>2. CallFresh(t, q, cache, Num(seq, q.type), In, Out)
      BY <1>1, <3>1 DEF FreshInv
    <3>3. /\ Num(seq, q.type) <= Num(seq', q.type)
          /\ Num(seq, q.type) \in Nat /\ Num(seq', q.type) \in Nat
          /\ Num(seq', q.type) = Num(seq, q.type) =>
               \A z \in q.zones : /\ EntriesOf(q.type, z) \cap In \subseteq in
                                  /\ EntriesOf(q.type, z) \cap Out \subseteq out
      BY <1>1, <3>1 DEF in, out
    <3>4. CallFresh(t, Grown(q, in, out), cache, Num(seq', q.type), in, out)
      BY <2>1, <3>2, <3>3, GrownFresh
    <3>5. Grown(q, in, out).type = q.type
      BY <2>1, GrownFields
    <3>6. QED
      BY <1>0, <2>1, <3>4, <3>5
  <2>2. CASE call'[t] = Idle \/ (call[t] \in Answers /\ call'[t] = call[t])
    <3>1. call'[t].pc \in {"idle", "done"} /\ AnswerFresh(call'[t])
      BY <1>3, <2>2
    <3>2. QED
      BY <3>1, QuietFresh
  <2>3. QED
    BY <1>2, <2>1, <2>2
<1>5. ASSUME NEW t \in Callers, NEW u \in Callers PROVE Agree(call'[t], call'[u])
  <2>1. CASE /\ call[t] \in Askings /\ call'[t] = Grown(call[t], in, out)
             /\ call[u] \in Askings /\ call'[u] = Grown(call[u], in, out)
    <3>1. Agree(call[t], call[u])
      BY DEF FreshInv
    <3>2. QED
      BY <2>1, <3>1, GrownAgree
  <2>2. CASE \/ call'[t] = Idle \/ (call[t] \in Answers /\ call'[t] = call[t])
             \/ call'[u] = Idle \/ (call[u] \in Answers /\ call'[u] = call[u])
    <3>1. call'[t].pc \in {"idle", "done"} \/ call'[u].pc \in {"idle", "done"}
      BY <1>3, <2>2
    <3>2. QED
      BY <3>1, QuietAgree
  <2>3. QED
    BY <1>2, <2>1, <2>2
<1>6. ASSUME NEW k \in Types \X ZoneSets PROVE CacheFresh(k, cache'[k], Num(seq', k[1]), in, out)
  <2>1. k[1] \in Types /\ k[2] \subseteq Zones
    BY OfferingsAssumption
  <2>2. CacheFresh(k, cache[k], Num(seq, k[1]), In, Out)
    BY <1>1, <2>1 DEF FreshInv
  <2>3. /\ Num(seq, k[1]) <= Num(seq', k[1])
        /\ Num(seq, k[1]) \in Nat /\ Num(seq', k[1]) \in Nat
        /\ Num(seq', k[1]) = Num(seq, k[1]) =>
             \A z \in k[2] : /\ EntriesOf(k[1], z) \cap In \subseteq in
                             /\ EntriesOf(k[1], z) \cap Out \subseteq out
    BY <1>1, <2>1 DEF in, out
  <2>4. cache[k].cached => cache[k].number \in Nat \cup {NoNumber}
    BY <1>0, NumbersType
  <2>5. CacheFresh(k, cache[k], Num(seq', k[1]), in, out)
    BY <2>2, <2>3, <2>4, CacheStays
  <2>6. QED
    BY <1>0, <2>5
<1>7. in = MayIn(stored', unbumped') /\ out = MayOut(stored', unbumped')
  BY <1>0 DEF in, out
<1>8. QED
  BY <1>4, <1>5, <1>6, <1>7, FreshNext

\* A step of one call that leaves entries and numbers alone preserves the invariant, when
\* it does so for that call, for the others, and for what is cached.
LEMMA CallStep ==
  ASSUME FreshInv, TypeInv', NEW t \in Callers, NEW q,
         call' = [call EXCEPT ![t] = q], UNCHANGED <<stored, unbumped, seq>>,
         CallFresh(t, q, cache', Num(seq, q.type), In, Out),
         \A u \in Callers \ {t} : /\ CallFresh(u, call[u], cache', Num(seq, call[u].type), In, Out)
                                  /\ Agree(q, call[u]) /\ Agree(call[u], q),
         \A k \in Types \X ZoneSets : CacheFresh(k, cache'[k], Num(seq, k[1]), In, Out)
  PROVE  FreshInv'
<1>1. call'[t] = q /\ \A u \in Callers \ {t} : call'[u] = call[u]
  BY DEF FreshInv, TypeInv
<1>2. MayIn(stored', unbumped') = In /\ MayOut(stored', unbumped') = Out /\ seq' = seq
  BY DEF In, Out
<1>3. \A u \in Callers : CallFresh(u, call'[u], cache', Num(seq', call'[u].type), In, Out)
  BY <1>1, <1>2
<1>4. \A u, v \in Callers : Agree(call'[u], call'[v])
  <2> SUFFICES ASSUME NEW u \in Callers, NEW v \in Callers PROVE Agree(call'[u], call'[v])
    OBVIOUS
  <2>1. CASE u = t /\ v = t
    <3>1. Agree(q, q)
      BY DEF Agree
    <3>2. QED
      BY <1>1, <2>1, <3>1
  <2>2. CASE (u = t /\ v # t) \/ (u # t /\ v = t)
    BY <1>1, <2>2
  <2>3. CASE u # t /\ v # t
    <3>1. Agree(call[u], call[v])
      BY DEF FreshInv
    <3>2. QED
      BY <1>1, <2>3, <3>1
  <2>4. QED
    BY <2>1, <2>2, <2>3
<1>5. \A k \in Types \X ZoneSets : CacheFresh(k, cache'[k], Num(seq', k[1]), In, Out)
  BY <1>2
<1>6. QED
  BY <1>2, <1>3, <1>4, <1>5, FreshNext

\* The invariant in terms of the numbers.
LEMMA FreshNow ==
  ASSUME FreshInv
  PROVE  /\ \A u \in Callers : CallFresh(u, call[u], cache, Num(seq, call[u].type), In, Out)
         /\ \A k \in Types \X ZoneSets : CacheFresh(k, cache[k], Num(seq, k[1]), In, Out)
  BY DEF FreshInv, SeqNum, Num

\* The same for a step that leaves the offering cache alone too.
LEMMA QuietStep ==
  ASSUME FreshInv, TypeInv', NEW t \in Callers, NEW q,
         call' = [call EXCEPT ![t] = q], UNCHANGED <<stored, unbumped, seq, cache>>,
         CallFresh(t, q, cache, Num(seq, q.type), In, Out),
         \A u \in Callers \ {t} : Agree(q, call[u]) /\ Agree(call[u], q)
  PROVE  FreshInv'
  BY FreshNow, CallStep

\* The sequence number a call starts with stands for the entries as they are.
LEMMA FreshReadSeqNum ==
  ASSUME FreshInv, TypeInv', NEW t \in Callers, NEW m \in Types, NEW zs \in ZoneSets,
         ReadSeqNum(t, m, zs)
  PROVE  FreshInv'
<1> DEFINE q == [pc |-> "load", type |-> m, zones |-> zs, seqNum |-> SeqNum(m), lastSeqNum |-> 0,
                 toRead |-> UNION {EntriesOf(m, z) : z \in zs}, found |-> {},
                 seenIn |-> In, seenOut |-> Out]
<1>1. call' = [call EXCEPT ![t] = q] /\ UNCHANGED <<stored, unbumped, seq, cache>>
  BY DEF ReadSeqNum, In, Out
<1>2. /\ q.pc = "load" /\ q.type = m /\ q.zones = zs /\ q.seqNum = Num(seq, m) /\ q.found = {}
      /\ q.toRead = All(q) /\ q.seenIn = In /\ q.seenOut = Out /\ KeyOf(q) = <<m, zs>>
  BY DEF All, KeyOf, SeqNum, Num
<1>3. Num(seq, m) \in Nat
  BY NumbersType DEF FreshInv
<1> HIDE DEF q
<1>4. CallFresh(t, q, cache, Num(seq, q.type), In, Out)
  <2>1. SeesNow(q, Num(seq, q.type), In, Out)
    BY <1>2, <1>3 DEF SeesNow
  <2>2. HitFits(q, cache)
    <3>1. <<m, zs>> \in Types \X ZoneSets /\ <<m, zs>>[1] = m /\ <<m, zs>>[2] = zs
      OBVIOUS
    <3>2. CacheFresh(<<m, zs>>, cache[<<m, zs>>], Num(seq, m), In, Out)
      BY <3>1, FreshNow
    <3>3. QED
      BY <1>2, <3>1, <3>2 DEF HitFits, CacheFresh
  <2>3. ReadFits(q, Num(seq, q.type), In, Out) /\ OwnFits(t, q, cache) /\ AnswerFresh(q)
    BY <1>2 DEF ReadFits, OwnFits, AnswerFresh
  <2>4. QED
    BY <2>1, <2>2, <2>3 DEF CallFresh
<1>5. ASSUME NEW u \in Callers PROVE Agree(q, call[u]) /\ Agree(call[u], q)
  <2>1. ReadFits(call[u], Num(seq, call[u].type), In, Out)
    BY FreshNow DEF CallFresh
  <2>2. QED
    BY <1>2, <2>1 DEF Agree, ReadFits
<1>6. QED
  BY <1>1, <1>4, <1>5, QuietStep

\* Loading the last number changes nothing the invariant speaks of.
LEMMA FreshLoadLast ==
  ASSUME FreshInv, TypeInv', NEW t \in Callers, LoadLast(t) PROVE FreshInv'
<1> DEFINE p == call[t]
           q == [call[t] EXCEPT !.pc = "get", !.lastSeqNum = last[call[t].type]]
<1>1. call' = [call EXCEPT ![t] = q] /\ UNCHANGED <<stored, unbumped, seq, cache>>
  BY DEF LoadLast, FreshInv, TypeInv
<1>2. p \in Askings /\ p.pc = "load"
  BY CallFields DEF LoadLast, FreshInv
<1>3. /\ q.pc = "get" /\ q.type = p.type /\ q.zones = p.zones /\ q.seqNum = p.seqNum
      /\ q.toRead = p.toRead /\ q.found = p.found /\ q.seenIn = p.seenIn /\ q.seenOut = p.seenOut
  BY <1>2 DEF Askings
<1> HIDE DEF q
<1>4. CallFresh(t, p, cache, Num(seq, p.type), In, Out)
  BY FreshNow
<1>5. CallFresh(t, q, cache, Num(seq, q.type), In, Out)
  <2>1. KeyOf(q) = KeyOf(p) /\ All(q) = All(p)
    BY <1>3 DEF KeyOf, All
  <2>2. SeesNow(q, Num(seq, q.type), In, Out)
    BY <1>2, <1>3, <1>4 DEF CallFresh, SeesNow, Asking
  <2>3. HitFits(q, cache)
    BY <1>2, <1>3, <1>4, <2>1 DEF CallFresh, HitFits
  <2>4. ReadFits(q, Num(seq, q.type), In, Out) /\ OwnFits(t, q, cache) /\ AnswerFresh(q)
    BY <1>3 DEF ReadFits, OwnFits, AnswerFresh
  <2>5. QED
    BY <2>2, <2>3, <2>4 DEF CallFresh
<1>6. ASSUME NEW u \in Callers PROVE Agree(q, call[u]) /\ Agree(call[u], q)
  <2>1. Agree(call[u], p)
    BY DEF FreshInv
  <2>2. QED
    BY <1>2, <1>3, <2>1 DEF Agree
<1>7. QED
  BY <1>1, <1>5, <1>6, QuietStep

\* A cached answer whose number is the one the call read is fresh; without one the call
\* has read nothing yet.
LEMMA FreshGetCached ==
  ASSUME FreshInv, TypeInv', NEW t \in Callers, GetCached(t) PROVE FreshInv'
<1> DEFINE p == call[t]
<1>1. p \in Askings /\ p.pc = "get"
  BY CallFields DEF GetCached, FreshInv
<1>2. CallFresh(t, p, cache, Num(seq, p.type), In, Out)
  BY FreshNow
<1>3. call \in [Callers -> Calls] /\ UNCHANGED <<stored, unbumped, seq, cache>>
  BY DEF GetCached, FreshInv, TypeInv
<1>4. HitFits(p, cache) /\ KeyOf(p) = Key(t)
  BY <1>2 DEF CallFresh, KeyOf, Key
<1>5. CASE Hit(t)
  <2> DEFINE fresh == Fits(p.type, p.zones, cache[Key(t)].unavailable, p.seenIn, p.seenOut)
             q == Done(t, cache[Key(t)].unavailable, cache[Key(t)].number = p.lastSeqNum)
  <2>1. call' = [call EXCEPT ![t] = q]
    BY <1>3, <1>5 DEF GetCached
  <2>2. q.pc = "done" /\ q.matched = (cache[Key(t)].number = p.lastSeqNum) /\ q.fresh = fresh
    BY DEF Done
  <2>3. cache[Key(t)].number = p.lastSeqNum => fresh
    BY <1>1, <1>4, <1>5 DEF Hit, HitFits
  <2> HIDE DEF q, fresh
  <2>4. AnswerFresh(q)
    BY <2>2, <2>3 DEF AnswerFresh
  <2>5. CallFresh(t, q, cache, Num(seq, q.type), In, Out)
    BY <2>2, <2>4, QuietFresh
  <2>6. \A u \in Callers : Agree(q, call[u]) /\ Agree(call[u], q)
    BY <2>2, QuietAgree
  <2>7. QED
    BY <1>3, <2>1, <2>5, <2>6, QuietStep
<1>6. CASE ~Hit(t)
  <2> DEFINE q == [call[t] EXCEPT !.pc = "read", !.lastSeqNum = 0]
  <2>1. call' = [call EXCEPT ![t] = q]
    BY <1>3, <1>6 DEF GetCached
  <2>2. /\ q.pc = "read" /\ q.type = p.type /\ q.zones = p.zones /\ q.seqNum = p.seqNum
        /\ q.toRead = p.toRead /\ q.found = p.found /\ q.seenIn = p.seenIn /\ q.seenOut = p.seenOut
    BY <1>1 DEF Askings
  <2> HIDE DEF q
  <2>3. q.found = {} /\ All(q) = All(p) /\ q.toRead = All(q)
    BY <1>1, <1>4, <2>2 DEF HitFits, All
  <2>4. Missed(q) = {}
    BY <2>3 DEF Missed
  <2>5. SeesNow(q, Num(seq, q.type), In, Out)
    BY <1>1, <1>2, <2>2 DEF CallFresh, SeesNow, Asking
  <2>6. HitFits(q, cache) /\ ReadFits(q, Num(seq, q.type), In, Out) /\ OwnFits(t, q, cache) /\ AnswerFresh(q)
    BY <2>2, <2>3, <2>4 DEF HitFits, ReadFits, OwnFits, AnswerFresh
  <2>7. CallFresh(t, q, cache, Num(seq, q.type), In, Out)
    BY <2>5, <2>6 DEF CallFresh
  <2>8. \A u \in Callers : Agree(q, call[u]) /\ Agree(call[u], q)
    BY <2>2, <2>3, <2>4 DEF Agree
  <2>9. QED
    BY <1>3, <2>1, <2>7, <2>8, QuietStep
<1>7. QED
  BY <1>5, <1>6

\* An entry is found, or not, as it is said to be at that moment, which every running call
\* has seen.
LEMMA FreshReadEntry ==
  ASSUME FreshInv, TypeInv', NEW t \in Callers, NEW e \in Entries, ReadEntry(t, e) PROVE FreshInv'
<1> DEFINE p == call[t]
           found == IF stored[e] = "live" THEN p.found \cup {e} ELSE p.found
           q == [call[t] EXCEPT !.toRead = @ \ {e}, !.found = found]
<1>1. call' = [call EXCEPT ![t] = q] /\ UNCHANGED <<stored, unbumped, seq, cache>>
  BY DEF ReadEntry, FreshInv, TypeInv
<1>2. p \in Askings /\ p.pc = "read" /\ e \in p.toRead
  BY CallFields DEF ReadEntry, IsNext, FreshInv
<1>3. /\ q.pc = "read" /\ q.type = p.type /\ q.zones = p.zones /\ q.seqNum = p.seqNum
      /\ q.toRead = p.toRead \ {e} /\ q.found = found
      /\ q.seenIn = p.seenIn /\ q.seenOut = p.seenOut
  <2> HIDE DEF found
  <2>1. QED
    BY <1>2 DEF Askings
<1>4. (found = p.found \cup {e} /\ e \in In) \/ (found = p.found /\ e \in Out)
  BY DEF In, Out, MayIn, MayOut
<1> HIDE DEF q, found
<1>5. CallFresh(t, p, cache, Num(seq, p.type), In, Out)
  BY FreshNow
<1>6. All(q) = All(p)
  BY <1>3 DEF All
<1>7. found \subseteq p.found \cup In /\ p.found \subseteq found /\ Missed(q) \subseteq Missed(p) \cup Out
  BY <1>3, <1>4, <1>6 DEF Missed
<1>8. In \subseteq p.seenIn /\ Out \subseteq p.seenOut
  BY <1>2, <1>5 DEF CallFresh, SeesNow, Asking
<1>9. CallFresh(t, q, cache, Num(seq, q.type), In, Out)
  <2>1. SeesNow(q, Num(seq, q.type), In, Out)
    BY <1>2, <1>3, <1>5 DEF CallFresh, SeesNow, Asking
  <2>2. ReadFits(q, Num(seq, q.type), In, Out)
    <3>1. ReadFits(p, Num(seq, p.type), In, Out)
      BY <1>5 DEF CallFresh
    <3>2. q.found \subseteq All(q) /\ q.toRead \subseteq All(q)
      BY <1>2, <1>3, <1>4, <1>6, <3>1 DEF ReadFits
    <3>3. QED
      BY <1>2, <1>3, <1>7, <1>8, <3>1, <3>2 DEF ReadFits
  <2>3. HitFits(q, cache) /\ OwnFits(t, q, cache) /\ AnswerFresh(q)
    BY <1>3 DEF HitFits, OwnFits, AnswerFresh
  <2>4. QED
    BY <2>1, <2>2, <2>3 DEF CallFresh
<1>10. ASSUME NEW u \in Callers \ {t} PROVE Agree(q, call[u]) /\ Agree(call[u], q)
  <2>1. Agree(p, call[u]) /\ SeesNow(call[u], Num(seq, call[u].type), In, Out)
    BY FreshNow DEF FreshInv, CallFresh
  <2>2. QED
    BY <1>2, <1>3, <1>7, <2>1 DEF Agree, SeesNow, Asking
<1>11. QED
  BY <1>1, <1>9, <1>10, QuietStep

\* What a call caches has no number yet: nothing goes by it.
LEMMA FreshSetCached ==
  ASSUME FreshInv, TypeInv', NEW t \in Callers, SetCached(t) PROVE FreshInv'
<1> DEFINE p == call[t]
           q == [call[t] EXCEPT !.pc = "store"]
           new == Cached(Computed(t), t)
<1>1. /\ call' = [call EXCEPT ![t] = q] /\ UNCHANGED <<stored, unbumped, seq>>
      /\ cache' = [cache EXCEPT ![KeyOf(p)] = new]
  BY DEF SetCached, FreshInv, TypeInv, Key, KeyOf
<1>2. p \in Askings /\ p.pc = "read" /\ p.toRead = {} /\ KeyOf(p) \in Types \X ZoneSets
  BY CallFields DEF SetCached, FreshInv, Askings, KeyOf
<1>3. /\ q.pc = "store" /\ q.type = p.type /\ q.zones = p.zones /\ q.seqNum = p.seqNum
      /\ q.toRead = p.toRead /\ q.found = p.found /\ q.seenIn = p.seenIn /\ q.seenOut = p.seenOut
  BY <1>2 DEF Askings
<1> HIDE DEF q
<1>4. KeyOf(q) = KeyOf(p) /\ All(q) = All(p) /\ Missed(q) = Missed(p) /\ Answer(q) = Answer(p)
  BY <1>3 DEF KeyOf, All, Missed, Answer
<1>5. /\ new.cached /\ new.number = NoNumber /\ new.by = {t} /\ new.unavailable = Answer(q)
  BY <1>4 DEF Cached, Computed, Answer
<1> HIDE DEF new
<1>6. /\ cache'[KeyOf(p)] = new
      /\ \A k \in Types \X ZoneSets : k # KeyOf(p) => cache'[k] = cache[k]
  BY <1>1, <1>2 DEF FreshInv, TypeInv
<1>7. CallFresh(t, p, cache, Num(seq, p.type), In, Out)
  BY FreshNow
<1>8. CallFresh(t, q, cache', Num(seq, q.type), In, Out)
  <2>1. SeesNow(q, Num(seq, q.type), In, Out)
    BY <1>2, <1>3, <1>7 DEF CallFresh, SeesNow, Asking
  <2>2. ReadFits(q, Num(seq, q.type), In, Out)
    BY <1>2, <1>3, <1>4, <1>7 DEF CallFresh, ReadFits
  <2>3. HitFits(q, cache') /\ OwnFits(t, q, cache') /\ AnswerFresh(q)
    BY <1>3, <1>4, <1>5, <1>6 DEF HitFits, OwnFits, AnswerFresh
  <2>4. QED
    BY <2>1, <2>2, <2>3 DEF CallFresh
<1>9. ASSUME NEW u \in Callers \ {t}
      PROVE  /\ CallFresh(u, call[u], cache', Num(seq, call[u].type), In, Out)
             /\ Agree(q, call[u]) /\ Agree(call[u], q)
  <2>1. CallFresh(u, call[u], cache, Num(seq, call[u].type), In, Out) /\ Agree(p, call[u])
    BY FreshNow DEF FreshInv
  <2>2. Agree(q, call[u]) /\ Agree(call[u], q)
    BY <1>2, <1>3, <1>4, <2>1 DEF Agree
  <2>3. ASSUME call[u].pc \in {"load", "get", "store"}
        PROVE  KeyOf(call[u]) \in Types \X ZoneSets /\ call[u].seqNum \in Nat
    BY <2>3, CallFields DEF FreshInv, Askings, KeyOf
  <2>4. HitFits(call[u], cache')
    <3>1. HitFits(call[u], cache)
      BY <2>1 DEF CallFresh
    <3>2. CASE KeyOf(call[u]) = KeyOf(p)
      BY <1>5, <1>6, <2>3, <3>1, <3>2 DEF HitFits, NoNumber
    <3>3. CASE KeyOf(call[u]) # KeyOf(p)
      BY <1>6, <2>3, <3>1, <3>3 DEF HitFits
    <3>4. QED
      BY <3>2, <3>3
  <2>5. OwnFits(u, call[u], cache')
    <3>1. OwnFits(u, call[u], cache)
      BY <2>1 DEF CallFresh
    <3>2. CASE KeyOf(call[u]) = KeyOf(p)
      BY <1>5, <1>6, <3>2 DEF OwnFits
    <3>3. CASE KeyOf(call[u]) # KeyOf(p)
      BY <1>6, <2>3, <3>1, <3>3 DEF OwnFits
    <3>4. QED
      BY <3>2, <3>3
  <2>6. QED
    BY <2>1, <2>2, <2>4, <2>5 DEF CallFresh
<1>10. ASSUME NEW k \in Types \X ZoneSets PROVE CacheFresh(k, cache'[k], Num(seq, k[1]), In, Out)
  <2>1. CASE k = KeyOf(p)
    <3>1. Num(seq, k[1]) \in Nat
      BY NumbersType DEF FreshInv
    <3>2. QED
      BY <1>5, <1>6, <2>1, <3>1 DEF CacheFresh, NoNumber
  <2>2. CASE k # KeyOf(p)
    BY <1>6, <2>2, FreshNow
  <2>3. QED
    BY <2>1, <2>2
<1>11. QED
  BY <1>1, <1>8, <1>9, <1>10, CallStep

\* The number vouches for the call's own answer, and for no other.
LEMMA FreshStoreLast ==
  ASSUME FreshInv, TypeInv', NEW t \in Callers, StoreLast(t) PROVE FreshInv'
<1> DEFINE p == call[t]
           q == Done(t, Computed(t), TRUE)
           K == KeyOf(p)
           own == cache[K].cached /\ t \in cache[K].by
           new == [cache[K] EXCEPT !.by = {}, !.number = p.seqNum]
<1>1. /\ call' = [call EXCEPT ![t] = q] /\ UNCHANGED <<stored, unbumped, seq>>
      /\ K = Key(t)
  BY DEF StoreLast, Record, FreshInv, TypeInv, Key, KeyOf
<1>2. /\ p \in Askings /\ p.pc = "store" /\ K \in Types \X ZoneSets /\ p.seqNum \in Nat
      /\ K[1] = p.type /\ K[2] = p.zones
  BY CallFields DEF StoreLast, Record, FreshInv, Askings, KeyOf
<1>3. CallFresh(t, p, cache, Num(seq, p.type), In, Out)
  BY FreshNow
<1>4. /\ p.toRead = {} /\ p.found \subseteq p.seenIn /\ Missed(p) \subseteq p.seenOut
      /\ p.seqNum = Num(seq, p.type) => p.found \subseteq In /\ Missed(p) \subseteq Out
      /\ own => cache[K].unavailable = Answer(p)
      /\ p.seqNum <= Num(seq, p.type)
  BY <1>2, <1>3 DEF CallFresh, ReadFits, OwnFits, SeesNow, Asking
<1>5. ASSUME NEW k \in Types \X ZoneSets, ~(k = K /\ own) PROVE cache'[k] = cache[k]
  BY <1>1, <1>5 DEF StoreLast, Record, FreshInv, TypeInv
<1>6. ASSUME own
      PROVE  /\ cache'[K].cached /\ cache'[K].by = {} /\ cache'[K].number = p.seqNum
             /\ cache'[K].unavailable = Answer(p)
  <2>1. cache[K] \in CacheEntries /\ cache[K] # NotCached
    BY <1>2, <1>6 DEF FreshInv, TypeInv, NotCached
  <2>2. cache' = [cache EXCEPT ![K].by = {}, ![K].number = p.seqNum]
    BY <1>1, <1>6 DEF StoreLast, Record
  <2>3. cache'[K] = new
    BY <1>2, <2>2 DEF FreshInv, TypeInv
  <2>4. QED
    BY <1>4, <1>6, <2>1, <2>3 DEF CacheEntries
<1>7. q.pc = "done" /\ (q.fresh = Fits(p.type, p.zones, Computed(t), p.seenIn, p.seenOut))
  BY DEF Done
<1>8. Computed(t) = Answer(p)
  BY DEF Computed, Answer
<1> HIDE DEF q, own, new, K
<1>9. AnswerFresh(q)
  <2>1. Fits(p.type, p.zones, Answer(p), p.seenIn, p.seenOut)
    BY <1>4, AnswerFits
  <2>2. QED
    BY <1>7, <1>8, <2>1 DEF AnswerFresh
<1>10. CallFresh(t, q, cache', Num(seq, q.type), In, Out)
  BY <1>7, <1>9, QuietFresh
<1>11. ASSUME NEW u \in Callers \ {t}
       PROVE  CallFresh(u, call[u], cache', Num(seq, call[u].type), In, Out)
  <2> DEFINE r == call[u]
  <2>1. CallFresh(u, r, cache, Num(seq, r.type), In, Out) /\ Agree(p, r)
    BY FreshNow DEF FreshInv
  <2>2. ASSUME r.pc \in {"load", "get", "store"} PROVE KeyOf(r) \in Types \X ZoneSets
    BY <2>2, CallFields DEF FreshInv, Askings, KeyOf
  <2>3. CASE KeyOf(r) = K /\ own
    <3>1. r.type = p.type /\ r.zones = p.zones
      BY <2>3 DEF KeyOf, K
    <3>2. HitFits(r, cache')
      <4> SUFFICES ASSUME r.pc \in {"load", "get"}, r.seqNum = p.seqNum
                   PROVE  Fits(p.type, p.zones, Answer(p), r.seenIn, r.seenOut)
        BY <1>6, <2>1, <2>3, <3>1 DEF CallFresh, HitFits
      <4>1. p.found \subseteq r.seenIn /\ Missed(p) \subseteq r.seenOut
        BY <1>2, <2>1, <3>1 DEF Agree
      <4>2. QED
        BY <1>4, <4>1, AnswerFits
    <3>3. OwnFits(u, r, cache')
      BY <1>6, <2>3 DEF OwnFits
    <3>4. QED
      BY <2>1, <3>2, <3>3 DEF CallFresh
  <2>4. CASE ~(KeyOf(r) = K /\ own)
    <3>1. HitFits(r, cache') /\ OwnFits(u, r, cache')
      BY <1>5, <2>1, <2>2, <2>4 DEF CallFresh, HitFits, OwnFits
    <3>2. QED
      BY <2>1, <3>1 DEF CallFresh
  <2>5. QED
    BY <2>3, <2>4
<1>12. ASSUME NEW k \in Types \X ZoneSets PROVE CacheFresh(k, cache'[k], Num(seq, k[1]), In, Out)
  <2>1. CASE k = K /\ own
    <3>1. p.seqNum = Num(seq, p.type) => Fits(p.type, p.zones, Answer(p), In, Out)
      BY <1>4, AnswerFits
    <3>2. QED
      BY <1>2, <1>4, <1>6, <2>1, <3>1 DEF CacheFresh
  <2>2. CASE ~(k = K /\ own)
    BY <1>5, <2>2, FreshNow
  <2>3. QED
    BY <2>1, <2>2
<1>13. \A u \in Callers : Agree(q, call[u]) /\ Agree(call[u], q)
  BY <1>7, QuietAgree
<1>14. QED
  BY <1>1, <1>10, <1>11, <1>12, <1>13, CallStep

\* A call that returns leaves its answer.
LEMMA FreshReturn ==
  ASSUME FreshInv, TypeInv', NEW t \in Callers, Return(t) PROVE FreshInv'
<1>1. call' = [call EXCEPT ![t] = Idle] /\ UNCHANGED <<stored, unbumped, seq, cache>>
  BY DEF Return
<1>2. Idle.pc = "idle" /\ AnswerFresh(Idle)
  BY DEF Idle, AnswerFresh
<1>3. CallFresh(t, Idle, cache, Num(seq, Idle.type), In, Out)
  BY <1>2, QuietFresh
<1>4. \A u \in Callers : Agree(Idle, call[u]) /\ Agree(call[u], Idle)
  BY <1>2, QuietAgree
<1>5. QED
  BY <1>1, <1>3, <1>4, QuietStep

\* A cached answer that reaches its TTL vouches for nothing.
LEMMA FreshExpireCached ==
  ASSUME FreshInv, TypeInv', NEW k \in Types \X ZoneSets, ExpireCached(k) PROVE FreshInv'
<1>1. /\ UNCHANGED <<stored, unbumped, seq, call>>
      /\ \A j \in Types \X ZoneSets : cache'[j] = cache[j] \/ ~cache'[j].cached
  BY DEF ExpireCached, NotCached, FreshInv, TypeInv
<1>2. MayIn(stored', unbumped') = In /\ MayOut(stored', unbumped') = Out
  BY <1>1 DEF In, Out
<1>3. ASSUME NEW t \in Callers
      PROVE  CallFresh(t, call'[t], cache', Num(seq', call'[t].type), In, Out)
  <2>1. CallFresh(t, call[t], cache, Num(seq, call[t].type), In, Out)
    BY FreshNow
  <2>2. call[t].pc \in {"load", "get", "store"} => KeyOf(call[t]) \in Types \X ZoneSets
    BY CallFields DEF FreshInv, Askings, KeyOf
  <2>3. HitFits(call[t], cache') /\ OwnFits(t, call[t], cache')
    BY <1>1, <2>1, <2>2 DEF CallFresh, HitFits, OwnFits
  <2>4. QED
    BY <1>1, <2>1, <2>3 DEF CallFresh
<1>4. \A t, u \in Callers : Agree(call'[t], call'[u])
  BY <1>1 DEF FreshInv
<1>5. ASSUME NEW j \in Types \X ZoneSets PROVE CacheFresh(j, cache'[j], Num(seq', j[1]), In, Out)
  <2>1. CacheFresh(j, cache[j], Num(seq, j[1]), In, Out)
    BY FreshNow
  <2>2. QED
    BY <1>1, <2>1 DEF CacheFresh
<1>6. QED
  BY <1>2, <1>3, <1>4, <1>5, FreshNext

\* A step that counts a change: other machine types' entries are said to be what they were.
LEMMA FreshBump ==
  ASSUME FreshInv, TypeInv', NEW m \in Types \cup {AnyType}, Bump(m) PROVE FreshInv'
<1> DEFINE ub == {e \in unbumped : e[1] # m}
<1>1. call \in [Callers -> Calls] /\ seq \in [Numbers -> Nat]
  BY DEF FreshInv, TypeInv
<1>2. ASSUME NEW n \in Types
      PROVE  /\ Num(seq, n) <= Num(seq', n)
             /\ Num(seq', n) = Num(seq, n) => n # m /\ m # AnyType
  BY <1>1 DEF Bump, Num, Numbers
<1>3. ASSUME NEW n \in Types, n # m, m # AnyType, NEW z \in Zones
      PROVE  /\ EntriesOf(n, z) \cap In \subseteq MayIn(stored, ub)
             /\ EntriesOf(n, z) \cap Out \subseteq MayOut(stored, ub)
  BY <1>3 DEF EntriesOf, In, Out, MayIn, MayOut
<1>4. ChangeEntries(stored, ub, call) /\ UNCHANGED <<cache, last>>
  BY DEF Bump
<1> HIDE DEF ub
<1>5. QED
  BY <1>1, <1>2, <1>3, <1>4, EntriesStep

\* A step that changes entries without counting: until it is counted, or once an entry
\* has expired, what could be said of them still can.
LEMMA FreshChange ==
  ASSUME FreshInv, TypeInv', NEW c \in [Callers -> Calls], NEW st, NEW ub, ChangeEntries(st, ub, c),
         \A t \in Callers : c[t] = call[t] \/ c[t] = Idle,
         UNCHANGED <<seq, cache, last>>,
         In \subseteq MayIn(st, ub), Out \subseteq MayOut(st, ub)
  PROVE  FreshInv'
<1>1. \A m \in Types : Num(seq, m) <= Num(seq', m)
  BY DEF FreshInv, TypeInv, Num, Numbers
<1>2. \A m \in Types : \A z \in Zones : /\ EntriesOf(m, z) \cap In \subseteq MayIn(st, ub)
                                       /\ EntriesOf(m, z) \cap Out \subseteq MayOut(st, ub)
  OBVIOUS
<1>3. QED
  BY <1>1, <1>2, EntriesStep

\* The empty caches and the first numbers satisfy the invariant.
LEMMA FreshInit == Init => FreshInv
<1> SUFFICES ASSUME Init PROVE FreshInv
  OBVIOUS
<1>1. \A t \in Callers : call[t].pc = "idle" /\ AnswerFresh(call[t])
  BY DEF Init, Idle, AnswerFresh
<1>2. \A t \in Callers : CallFresh(t, call[t], cache, SeqNum(call[t].type), In, Out)
  BY <1>1, QuietFresh
<1>3. \A t, u \in Callers : Agree(call[t], call[u])
  BY <1>1, QuietAgree
<1>4. \A k \in Types \X ZoneSets : CacheFresh(k, cache[k], SeqNum(k[1]), In, Out)
  BY DEF Init, NotCached, CacheFresh
<1>5. QED
  BY <1>2, <1>3, <1>4, TypeInit DEF FreshInv

\* Every step preserves the invariant.
LEMMA FreshStep == FreshInv /\ [Next]_offeringVars => FreshInv'
<1> SUFFICES ASSUME FreshInv, [Next]_offeringVars PROVE FreshInv'
  OBVIOUS
<1>0. /\ TypeInv /\ TypeInv' /\ call \in [Callers -> Calls]
  BY TypeStep DEF FreshInv, TypeInv
<1>1. ASSUME NEW m \in Types \cup {AnyType}, Bump(m) PROVE FreshInv'
  BY <1>0, <1>1, FreshBump
<1>2. ASSUME NEW e \in Entries, Expire(e) PROVE FreshInv'
  <2> DEFINE st == [stored EXCEPT ![e] = "expired"]
  <2>1. ChangeEntries(st, unbumped, call) /\ UNCHANGED <<seq, cache, last>>
    BY <1>2 DEF Expire
  <2>2. In \subseteq MayIn(st, unbumped) /\ Out \subseteq MayOut(st, unbumped)
    BY <1>0 DEF TypeInv, In, Out, MayIn, MayOut
  <2> HIDE DEF st
  <2>3. QED
    BY <1>0, <2>1, <2>2, FreshChange
<1>3. ASSUME NEW e \in Entries, Evict(e) PROVE FreshInv'
  <2> DEFINE st == [stored EXCEPT ![e] = "absent"]
             ub == unbumped \cup {e}
  <2>1. ChangeEntries(st, ub, call) /\ UNCHANGED <<seq, cache, last>>
    BY <1>3 DEF Evict
  <2>2. In \subseteq MayIn(st, ub) /\ Out \subseteq MayOut(st, ub)
    BY <1>0 DEF TypeInv, In, Out, MayIn, MayOut
  <2> HIDE DEF st, ub
  <2>3. QED
    BY <1>0, <2>1, <2>2, FreshChange
<1>4. ASSUME NEW t \in Callers, NEW z \in Zones, NEW err \in Errors, LaunchFails(t, z, err)
      PROVE  FreshInv'
  <2> DEFINE es == TakenOut(err, call[t].type, z)
             st == [e \in Entries |-> IF e \in es THEN "live" ELSE stored[e]]
             ub == unbumped \cup {e \in es : stored[e] # "live"}
             c  == [call EXCEPT ![t] = Idle]
  <2>1. ChangeEntries(st, ub, c) /\ UNCHANGED <<seq, cache, last>>
    BY <1>4 DEF LaunchFails, MarkEntries
  <2>2. c \in [Callers -> Calls] /\ \A u \in Callers : c[u] = call[u] \/ c[u] = Idle
    BY <1>0 DEF Calls
  <2>3. In \subseteq MayIn(st, ub) /\ Out \subseteq MayOut(st, ub)
    <3> HIDE DEF es
    <3>1. QED
      BY <1>0 DEF TypeInv, In, Out, MayIn, MayOut
  <2> HIDE DEF st, ub, c
  <2>4. QED
    BY <1>0, <2>1, <2>2, <2>3, FreshChange
<1>5. ASSUME NEW t \in Callers, NEW m \in Types, NEW zs \in ZoneSets, ReadSeqNum(t, m, zs)
      PROVE  FreshInv'
  BY <1>0, <1>5, FreshReadSeqNum
<1>6. ASSUME NEW t \in Callers, LoadLast(t) PROVE FreshInv'
  BY <1>0, <1>6, FreshLoadLast
<1>7. ASSUME NEW t \in Callers, GetCached(t) PROVE FreshInv'
  BY <1>0, <1>7, FreshGetCached
<1>8. ASSUME NEW t \in Callers, NEW e \in Entries, ReadEntry(t, e) PROVE FreshInv'
  BY <1>0, <1>8, FreshReadEntry
<1>9. ASSUME NEW t \in Callers, SetCached(t) PROVE FreshInv'
  BY <1>0, <1>9, FreshSetCached
<1>10. ASSUME NEW t \in Callers, StoreLast(t) PROVE FreshInv'
  BY <1>0, <1>10, FreshStoreLast
<1>11. ASSUME NEW t \in Callers, Return(t) PROVE FreshInv'
  BY <1>0, <1>11, FreshReturn
<1>12. ASSUME NEW k \in Types \X ZoneSets, ExpireCached(k) PROVE FreshInv'
  BY <1>0, <1>12, FreshExpireCached
<1>13. CASE UNCHANGED offeringVars
  <2>1. /\ UNCHANGED <<stored, unbumped, seq, cache, call>>
        /\ MayIn(stored', unbumped') = In /\ MayOut(stored', unbumped') = Out
    BY <1>13 DEF offeringVars, In, Out
  <2>2. \A t, u \in Callers : Agree(call[t], call[u])
    BY DEF FreshInv
  <2>3. QED
    BY <1>0, <2>1, <2>2, FreshNow, FreshNext
<1>14. QED
  BY <1>1, <1>2, <1>3, <1>4, <1>5, <1>6, <1>7, <1>8, <1>9, <1>10, <1>11, <1>12, <1>13 DEF Next

\* With any number of callers and of zone lists, in any order: an answer of createOfferings
\* is stale only when the number it went by was recorded by another call.
THEOREM StaleOnlyByAnotherNumberAlways == Spec => []StaleOnlyByAnotherNumber
<1>1. FreshInv => StaleOnlyByAnotherNumber
  BY DEF FreshInv, CallFresh, AnswerFresh, StaleOnlyByAnotherNumber
<1>2. QED
  BY FreshInit, FreshStep, <1>1, PTL DEF Spec

----------------------------------------------------------------------------
(* Failures.                                                               *)

\* Without a 403 every failure for want of capacity, and every failure of STACKIT's own,
\* takes out the entry of the offering or of its zone (recordLaunchFailure).
LEMMA TakenOutLeaves ==
  ASSUME NEW err \in Errors, 403 \notin Statuses, NEW m, NEW z,
         IsInsufficientCapacity(err) \/ IsRetryable(err)
  PROVE  \E e \in EntriesOf(m, z) : e \in TakenOut(err, m, z)
<1>1. err.status \in Nat /\ err.status # 403
  BY OfferingsAssumption DEF Errors
<1>2. ~IsUnauthorized(err)
  BY <1>1 DEF IsUnauthorized, IsInsufficientCapacity, IsRetryable
<1>3. QED
  BY <1>2 DEF TakenOut, EntriesOf

\* Where STACKIT does not report exhausted quotas as 403, a launch that fails for want of
\* capacity, or by STACKIT's own fault, leaves the offering unavailable at once, whatever
\* the caches, the janitor and other calls are doing (recordLaunchFailure).
THEOREM FailureLeavesRotationAlways ==
  ASSUME 403 \notin Statuses PROVE Spec => FailureLeavesRotation
<1> DEFINE Left ==
      \A t \in Callers, z \in Zones, err \in Errors :
        LaunchFails(t, z, err) /\ (IsInsufficientCapacity(err) \/ IsRetryable(err))
        => \E e \in EntriesOf(call[t].type, z) : stored'[e] = "live"
<1>1. TypeInv /\ [Next]_offeringVars => [Left]_offeringVars
  <2> SUFFICES ASSUME TypeInv, NEW t \in Callers, NEW z \in Zones, NEW err \in Errors,
                      LaunchFails(t, z, err), IsInsufficientCapacity(err) \/ IsRetryable(err)
               PROVE  \E e \in EntriesOf(call[t].type, z) : stored'[e] = "live"
    OBVIOUS
  <2> DEFINE es == TakenOut(err, call[t].type, z)
  <2>1. PICK e \in EntriesOf(call[t].type, z) : e \in es
    BY TakenOutLeaves
  <2>2. e \in Entries
    BY CallFields, EntriesOfType DEF LaunchFails, Answers
  <2>3. stored' = [x \in Entries |-> IF x \in es THEN "live" ELSE stored[x]]
    BY DEF LaunchFails, MarkEntries, ChangeEntries
  <2>4. stored'[e] = "live"
    BY <2>1, <2>2, <2>3
  <2>5. QED
    BY <2>1, <2>4
<1>2. QED
  BY <1>1, TypeInit, TypeStep, PTL DEF Spec, FailureLeavesRotation

============================================================================
