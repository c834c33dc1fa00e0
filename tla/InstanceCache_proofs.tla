------------------------ MODULE InstanceCache_proofs ------------------------
(***************************************************************************)
(* Theorems about InstanceCache, for any labels and any number of          *)
(* concurrent calls of the instance provider.                              *)
(***************************************************************************)
EXTENDS InstanceCache, TLAPS

\* The labels a server is to carry are a label set that has the managed key.
LEMMA ManagedLabelsType ==
  ASSUME NEW user \in LabelSets
  PROVE  /\ ManagedLabels(user) \in LabelSets
         /\ ManagedBy \in DOMAIN ManagedLabels(user) /\ ManagedLabels(user)[ManagedBy] = Cluster
<1>1. PICK keys \in SUBSET Keys : user \in [keys -> Values]
  BY DEF LabelSets
<1>2. ManagedLabels(user) \in [keys \cup {ManagedBy} -> Values]
  BY <1>1, InstanceCacheAssumption DEF ManagedLabels
<1>3. ManagedLabels(user) \in LabelSets
  BY <1>2, InstanceCacheAssumption DEF LabelSets
<1>4. QED
  BY <1>3 DEF ManagedLabels

\* The same of every label set a user may ask for.
LEMMA AskedType ==
  ASSUME NEW user \in UserLabels PROVE ManagedLabels(user) \in LabelSets
  BY ManagedLabelsType, InstanceCacheAssumption

\* The state of a call, and of a reconcile, tells its fields.
LEMMA AnsweredFields ==
  ASSUME TypeOK
  PROVE  /\ \A r \in Callers : call[r].pc = "answered" =>
              call[r] \in [pc : {"answered"}, purpose : {"get", "list", "delete"},
                           status : Statuses, labels : LabelSets \cup {None}, outdated : BOOLEAN]
         /\ labeling.pc = "get" => labeling \in [pc : {"get"}, desired : LabelSets]
         /\ labeling.pc = "update" =>
              labeling \in [pc : {"update"}, desired : LabelSets, outdated : BOOLEAN]
         /\ labeling.pc = "answered" =>
              labeling \in [pc : {"answered"}, desired : LabelSets, status : Statuses,
                            labels : LabelSets \cup {None}]
  BY DEF TypeOK, Calls, Labelings

\* An answer has labels exactly if the server was found.
Found ==
  /\ \A r \in Callers :
       call[r].pc = "answered" /\ call[r].status # "gone" => call[r].labels \in LabelSets
  /\ labeling.pc = "answered" /\ labeling.status # "gone" => labeling.labels \in LabelSets

TypeInv == TypeOK /\ Found

\* What the comparison leads to is well-typed.
LEMMA ComparedType ==
  ASSUME NEW copy, labeling.desired \in LabelSets, copy.outdated \in BOOLEAN
  PROVE  Compared(copy) \in Labelings /\ Compared(copy).pc \in {"idle", "update"}
  BY DEF Compared, Labelings, Idle

\* The controller starts in a well-typed state.
LEMMA TypeInit == Init => TypeInv
<1> SUFFICES ASSUME Init PROVE TypeInv
  OBVIOUS
<1>1. server \in [status : Statuses, labels : LabelSets] /\ cached \in Entries
  BY AskedType DEF Init, Statuses, Entry, Entries
<1>2. asked \in UserLabels /\ edits \in 0..MaxEdits
  BY InstanceCacheAssumption DEF Init
<1>3. labeling \in Labelings /\ call \in [Callers -> Calls]
  BY DEF Init, Idle, Labelings, Calls
<1>4. Found
  BY DEF Init, Idle, Found
<1>5. deleted \in BOOLEAN /\ view \in [asked : UserLabels, deleted : BOOLEAN]
  <2>1. asked \in UserLabels /\ view = [asked |-> asked, deleted |-> FALSE] /\ deleted = FALSE
    BY DEF Init
  <2>2. FALSE \in BOOLEAN
    OBVIOUS
  <2>3. QED
    BY Zenon, <2>1, <2>2
<1>6. QED
  BY <1>1, <1>2, <1>3, <1>4, <1>5 DEF TypeInv, TypeOK

\* Every step of the provider and of the labeling controller preserves the types.
LEMMA TypeStep == TypeInv /\ [Next]_vars => TypeInv'
<1> SUFFICES ASSUME TypeInv, [Next]_vars PROVE TypeInv'
  OBVIOUS
<1> USE InstanceCacheAssumption DEF TypeInv, objects
<1>0. Seen \in LabelSets \cup {None} /\ (server.status # "gone" => Seen \in LabelSets)
  BY DEF TypeOK, Seen
<1>1. ASSUME NEW user \in UserLabels, EditLabels(user) PROVE TypeInv'
  BY <1>1 DEF TypeOK, Found, EditLabels
<1>2. CASE DeleteClaim \/ SyncNodeClass \/ SyncClaim \/ DeleteOutOfBand \/ Disappear \/ Expire
  BY <1>2 DEF TypeOK, Found, DeleteClaim, SyncNodeClass, SyncClaim, DeleteOutOfBand, Disappear,
              Expire, Statuses, Entries
<1>3. ASSUME NEW r \in Callers, NEW purpose \in {"get", "list", "delete"}, Ask(r, purpose)
      PROVE  TypeInv'
  <2>1. Answer(purpose) \in Calls /\ (Answer(purpose).status # "gone" => Answer(purpose).labels \in LabelSets)
    BY <1>0 DEF TypeOK, Answer, Calls
  <2>2. call' \in [Callers -> Calls]
    BY <1>3, <2>1 DEF TypeOK, Ask
  <2>3. QED
    BY <1>3, <2>1, <2>2 DEF TypeOK, Found, Ask
<1>4. ASSUME NEW r \in Callers, NotFound(r) PROVE TypeInv'
  BY <1>4 DEF TypeOK, Found, NotFound, Idle, Calls, Entries
<1>5. ASSUME NEW r \in Callers, Store(r) PROVE TypeInv'
  <2>1. Entry(call[r].labels, call[r].outdated) \in Entries
    BY <1>5, AnsweredFields DEF Found, Store, Entry, Entries
  <2>2. call' \in [Callers -> Calls] /\ call'[r].pc # "answered"
    BY <1>5 DEF TypeOK, Store, Idle, Calls
  <2>3. QED
    BY <1>5, <2>1, <2>2 DEF TypeOK, Found, Store
<1>6. ASSUME NEW r \in Callers, DeleteServer(r) PROVE TypeInv'
  BY <1>6 DEF TypeOK, Found, DeleteServer, Calls, Statuses
<1>7. ASSUME NEW r \in Callers, DeleteFails(r) \/ Drop(r) PROVE TypeInv'
  BY <1>7 DEF TypeOK, Found, DeleteFails, Drop, Idle, Calls, Entries
<1>8. CASE Reconcile
  BY <1>8, AskedType DEF TypeOK, Found, Reconcile, Labelings
<1>9. CASE GetCached
  <2>1. labeling.desired \in LabelSets /\ cached.outdated \in BOOLEAN
    BY <1>9, AnsweredFields DEF TypeOK, GetCached, Entries
  <2>2. labeling' \in Labelings /\ labeling'.pc # "answered"
    BY <1>9, <2>1, ComparedType DEF GetCached
  <2>3. QED
    BY <1>9, <2>2 DEF TypeOK, Found, GetCached
<1>10. CASE GetMiss
  <2>1. labeling' \in Labelings
    BY <1>0, <1>10, AnsweredFields DEF TypeOK, GetMiss, Labelings
  <2>2. QED
    BY <1>0, <1>10, <2>1 DEF TypeOK, Found, GetMiss
<1>11. CASE GetFails
  BY <1>11 DEF TypeOK, Found, GetFails, Idle, Labelings
<1>12. CASE GetStore
  <2>1. labeling.desired \in LabelSets
    BY <1>12, AnsweredFields DEF GetStore
  <2>2. CASE labeling.status = "gone"
    BY <1>12, <2>2 DEF TypeOK, Found, GetStore, Idle, Labelings, Entries
  <2>3. CASE labeling.status # "gone"
    <3>0. labeling.labels \in LabelSets /\ cached' = Entry(labeling.labels, FALSE)
      BY <1>12, <2>3 DEF Found, GetStore
    <3>1. cached' \in Entries
      BY <3>0 DEF Entry, Entries
    <3>2. labeling' \in Labelings /\ labeling'.pc # "answered"
      <4>1. labeling' = Compared(Entry(labeling.labels, FALSE))
        BY <1>12, <2>3 DEF GetStore
      <4>2. Entry(labeling.labels, FALSE).outdated \in BOOLEAN
        BY DEF Entry
      <4>3. QED
        BY <2>1, <4>1, <4>2, ComparedType
    <3>3. QED
      BY <1>12, <3>1, <3>2 DEF TypeOK, Found, GetStore
  <2>4. QED
    BY <2>2, <2>3
<1>13. ASSUME NEW answered \in BOOLEAN, UpdateLabels(answered) PROVE TypeInv'
  <2>1. server' \in [status : Statuses, labels : LabelSets] /\ labeling' \in Labelings
    BY <1>13, AnsweredFields DEF TypeOK, UpdateLabels, Idle, Labelings
  <2>2. cached' \in Entries
    BY <1>13 DEF TypeOK, UpdateLabels, Entry, Entries
  <2>3. call' \in [Callers -> Calls]
    BY <1>13, AnsweredFields DEF TypeOK, UpdateLabels, Calls
  <2>4. Found'
    <3>1. \A r \in Callers : call[r].pc = "answered" =>
            /\ call'[r].pc = "answered" /\ call'[r].status = call[r].status
            /\ call'[r].labels = call[r].labels
      BY <1>13, AnsweredFields DEF UpdateLabels
    <3>2. \A r \in Callers : call[r].pc # "answered" => call'[r].pc # "answered"
      BY <1>13 DEF UpdateLabels
    <3>3. labeling'.pc # "answered"
      BY <1>13 DEF UpdateLabels, Idle
    <3>4. QED
      BY <3>1, <3>2, <3>3 DEF Found
  <2>5. QED
    BY <1>13, <2>1, <2>2, <2>3, <2>4 DEF TypeOK, UpdateLabels
<1>14. CASE UpdateFails \/ UpdateDrop
  BY <1>14 DEF TypeOK, Found, UpdateFails, UpdateDrop, Idle, Labelings, Entries
<1>15. CASE UNCHANGED vars
  BY <1>15 DEF TypeOK, Found, vars
<1>16. QED
  BY <1>1, <1>2, <1>3, <1>4, <1>5, <1>6, <1>7, <1>8, <1>9, <1>10, <1>11, <1>12, <1>13, <1>14,
     <1>15 DEF Next, CallStep, LabelingStep

\* Every variable stays within its type: no entry of the cache stands for a server that was
\* not found (Get on a 404).
THEOREM TypeCorrect == Spec => []TypeOK
<1>1. TypeInv => TypeOK
  BY DEF TypeInv
<1>2. QED
  BY TypeInit, TypeStep, <1>1, PTL DEF Spec

----------------------------------------------------------------------------
(* StaysManaged: every update is computed by ManagedLabels.                *)

HasManaged(labels) == ManagedBy \in DOMAIN labels /\ labels[ManagedBy] = Cluster

ManagedInv ==
  /\ StaysManaged
  /\ labeling.pc \in {"get", "answered", "update"} => HasManaged(labeling.desired)

\* The comparison keeps what is to be written.
LEMMA ComparedDesired ==
  ASSUME NEW copy
  PROVE  Compared(copy).pc = "update" => Compared(copy).desired = labeling.desired
  BY DEF Compared, Idle

\* Create stamps the managed labels.
LEMMA ManagedInit == Init => ManagedInv
<1> SUFFICES ASSUME Init PROVE ManagedInv
  OBVIOUS
<1>1. asked \in LabelSets
  BY InstanceCacheAssumption DEF Init
<1>2. QED
  BY <1>1, ManagedLabelsType DEF Init, ManagedInv, StaysManaged, Idle

\* Whatever is about to be written has the managed key.
LEMMA ManagedStep == TypeInv /\ ManagedInv /\ [Next]_vars => ManagedInv'
<1> SUFFICES ASSUME TypeInv, ManagedInv, [Next]_vars PROVE ManagedInv'
  OBVIOUS
<1> USE DEF ManagedInv, objects
<1>1. ASSUME NEW user \in UserLabels, EditLabels(user) PROVE ManagedInv'
  BY <1>1 DEF EditLabels, StaysManaged
<1>2. CASE DeleteClaim \/ SyncNodeClass \/ SyncClaim \/ DeleteOutOfBand \/ Disappear \/ Expire
  BY <1>2 DEF TypeInv, TypeOK, DeleteClaim, SyncNodeClass, SyncClaim, DeleteOutOfBand,
              Disappear, Expire, StaysManaged
<1>3. ASSUME NEW r \in Callers, NEW purpose \in {"get", "list", "delete"},
             Ask(r, purpose) \/ CallStep(r)
      PROVE  ManagedInv'
  BY <1>3 DEF TypeInv, TypeOK, Ask, CallStep, NotFound, Store, DeleteServer, DeleteFails, Drop,
              StaysManaged
<1>4. CASE Reconcile
  <2>1. view.asked \in LabelSets
    BY InstanceCacheAssumption DEF TypeInv, TypeOK
  <2>2. QED
    BY <1>4, <2>1, ManagedLabelsType DEF Reconcile, StaysManaged, HasManaged
<1>5. CASE GetCached \/ GetStore
  <2>1. \A copy : Compared(copy).pc \in {"idle", "update"}
    BY DEF Compared, Idle
  <2>2. server' = server /\ HasManaged(labeling.desired)
    BY <1>5 DEF GetCached, GetStore
  <2>3. labeling' = Idle \/ \E copy : labeling' = Compared(copy)
    BY <1>5 DEF GetCached, GetStore
  <2>4. labeling'.pc \in {"get", "answered", "update"} => labeling'.desired = labeling.desired
    BY <2>1, <2>3, ComparedDesired DEF Idle
  <2>5. QED
    BY <2>2, <2>4 DEF StaysManaged, HasManaged
<1>6. CASE GetMiss \/ GetFails
  BY <1>6 DEF GetMiss, GetFails, StaysManaged, Idle
<1>7. ASSUME NEW answered \in BOOLEAN, UpdateLabels(answered) PROVE ManagedInv'
  <2>1. server'.labels = labeling.desired
    BY <1>7 DEF TypeInv, TypeOK, UpdateLabels
  <2>2. labeling'.pc \in {"drop", "idle"}
    BY <1>7 DEF UpdateLabels, Idle
  <2>3. QED
    BY <1>7, <2>1, <2>2 DEF UpdateLabels, StaysManaged, HasManaged
<1>8. CASE UpdateFails \/ UpdateDrop
  BY <1>8 DEF UpdateFails, UpdateDrop, StaysManaged, Idle
<1>9. CASE UNCHANGED vars
  BY <1>9 DEF vars, StaysManaged
<1>10. QED
  BY <1>1, <1>2, <1>3, <1>4, <1>5, <1>6, <1>7, <1>8, <1>9 DEF Next, LabelingStep

\* A server never loses the label garbage collection finds it by, whatever its NodeClass
\* asks for and however reconciles and edits interleave.
THEOREM StaysManagedAlways == Spec => []StaysManaged
<1>1. ManagedInv => StaysManaged
  BY DEF ManagedInv
<1>2. QED
  BY TypeInit, TypeStep, ManagedInit, ManagedStep, <1>1, PTL DEF Spec

----------------------------------------------------------------------------
(* CacheFollowsUpdates: an answer no update has overtaken has the labels   *)
(* of the server.                                                          *)

AnswersFollow ==
  \A r \in Callers :
    call[r].pc = "answered" /\ call[r].status # "gone" /\ ~call[r].outdated
      => call[r].labels = server.labels

\* No update runs beside the read of the reconcile that would make it.
ReconcileFollows ==
  labeling.pc = "answered" /\ labeling.status # "gone" => labeling.labels = server.labels

FollowInv == CacheFollowsUpdates /\ AnswersFollow /\ ReconcileFollows

\* A new server's entry has its labels.
LEMMA FollowInit == Init => FollowInv
  BY DEF Init, FollowInv, CacheFollowsUpdates, AnswersFollow, ReconcileFollows, Idle, Entry

\* An update marks every answer and entry it overtakes, and drops the entry.
LEMMA FollowStep == TypeInv /\ FollowInv /\ [Next]_vars => FollowInv'
<1> SUFFICES ASSUME TypeInv, FollowInv, [Next]_vars PROVE FollowInv'
  OBVIOUS
<1> USE DEF FollowInv
<1>0. /\ server \in [status : Statuses, labels : LabelSets]
      /\ DOMAIN call = Callers
  BY DEF TypeInv, TypeOK
<1>1. ASSUME NEW user \in UserLabels, EditLabels(user) PROVE FollowInv'
  BY <1>1 DEF EditLabels, CacheFollowsUpdates, AnswersFollow, ReconcileFollows
<1>2. CASE DeleteClaim \/ SyncNodeClass \/ SyncClaim \/ DeleteOutOfBand \/ Disappear \/ Expire
  BY <1>0, <1>2 DEF DeleteClaim, SyncNodeClass, SyncClaim, DeleteOutOfBand, Disappear, Expire,
                    CacheFollowsUpdates,
                    AnswersFollow, ReconcileFollows
<1>3. ASSUME NEW r \in Callers, NEW purpose \in {"get", "list", "delete"}, Ask(r, purpose)
      PROVE  FollowInv'
  BY <1>0, <1>3 DEF Ask, Answer, Seen, CacheFollowsUpdates, AnswersFollow, ReconcileFollows
<1>4. ASSUME NEW r \in Callers, NotFound(r) PROVE FollowInv'
  BY <1>0, <1>4 DEF NotFound, Idle, CacheFollowsUpdates, AnswersFollow, ReconcileFollows
<1>5. ASSUME NEW r \in Callers, Store(r) PROVE FollowInv'
  <2>1. CacheFollowsUpdates'
    <3>1. cached' = Entry(call[r].labels, call[r].outdated) /\ server' = server
      BY <1>5 DEF Store
    <3>2. call[r].outdated \/ call[r].labels = server.labels
      BY <1>5 DEF Store, AnswersFollow
    <3>3. QED
      BY <3>1, <3>2 DEF Entry, CacheFollowsUpdates
  <2>2. call'[r].pc # "answered" /\ \A u \in Callers \ {r} : call'[u] = call[u]
    BY <1>0, <1>5 DEF Store, Idle
  <2>3. QED
    BY <1>5, <2>1, <2>2 DEF Store, AnswersFollow, ReconcileFollows
<1>6. ASSUME NEW r \in Callers, DeleteServer(r) \/ DeleteFails(r) \/ Drop(r) PROVE FollowInv'
  BY <1>0, <1>6 DEF DeleteServer, DeleteFails, Drop, Idle, CacheFollowsUpdates, AnswersFollow,
                    ReconcileFollows
<1>7. CASE Reconcile \/ GetMiss \/ GetFails
  BY <1>0, <1>7 DEF Reconcile, GetMiss, GetFails, Seen, Idle, CacheFollowsUpdates, AnswersFollow,
                    ReconcileFollows
<1>8. CASE GetCached \/ GetStore
  <2>1. \A copy : Compared(copy).pc \in {"idle", "update"}
    BY DEF Compared, Idle
  <2>2. AnswersFollow' /\ ReconcileFollows'
    <3>1. server' = server /\ call' = call
      BY <1>8 DEF GetCached, GetStore
    <3>2. labeling'.pc \in {"idle", "update"}
      <4>1. labeling' = Idle \/ \E copy : labeling' = Compared(copy)
        BY <1>8 DEF GetCached, GetStore
      <4>2. QED
        BY <2>1, <4>1 DEF Idle
    <3>3. QED
      BY <3>1, <3>2 DEF AnswersFollow, ReconcileFollows
  <2>3. CacheFollowsUpdates'
    BY <1>8 DEF GetCached, GetStore, Entry, CacheFollowsUpdates, ReconcileFollows
  <2>4. QED
    BY <2>2, <2>3
<1>9. ASSUME NEW answered \in BOOLEAN, UpdateLabels(answered) PROVE FollowInv'
  <2>1. \A r \in Callers : call[r].pc = "answered" => call'[r].outdated
    BY <1>9, AnsweredFields DEF TypeInv, UpdateLabels
  <2>2. \A r \in Callers : call[r].pc # "answered" => call'[r].pc # "answered"
    BY <1>9 DEF UpdateLabels
  <2>3. AnswersFollow'
    BY <2>1, <2>2 DEF AnswersFollow
  <2>4. ReconcileFollows'
    BY <1>9 DEF UpdateLabels, Idle, ReconcileFollows
  <2>5. CacheFollowsUpdates'
    BY <1>9 DEF UpdateLabels, Entry, CacheFollowsUpdates
  <2>6. QED
    BY <2>3, <2>4, <2>5
<1>10. CASE UpdateFails \/ UpdateDrop
  BY <1>10 DEF UpdateFails, UpdateDrop, Idle, CacheFollowsUpdates, AnswersFollow, ReconcileFollows
<1>11. CASE UNCHANGED vars
  BY <1>11 DEF vars, CacheFollowsUpdates, AnswersFollow, ReconcileFollows
<1>12. QED
  BY <1>1, <1>2, <1>3, <1>4, <1>5, <1>6, <1>7, <1>8, <1>9, <1>10, <1>11
  DEF Next, CallStep, LabelingStep

\* A cached copy that differs from the server's labels is about to be dropped, or its read
\* overlapped with an update: there is no other way for it to be stale.
THEOREM CacheFollowsUpdatesAlways == Spec => []CacheFollowsUpdates
<1>1. FollowInv => CacheFollowsUpdates
  BY DEF FollowInv
<1>2. QED
  BY TypeInit, TypeStep, FollowInit, FollowStep, <1>1, PTL DEF Spec

----------------------------------------------------------------------------
(* RewritesFromOutdated: what the labeling controller compares with is the *)
(* cache's entry or an answer of its own, and nobody else updates labels.  *)

\* No drop is under way while labels are compared, so an entry that differs is outdated; and
\* labels to be written differ from a copy that is not.
RewriteInv ==
  labeling.pc = "update" /\ ~labeling.outdated => labeling.desired # server.labels

\* A comparison carries over whether the copy is outdated.
LEMMA ComparedDiffers ==
  ASSUME NEW copy, Compared(copy).pc = "update"
  PROVE  labeling.desired # copy.labels /\ Compared(copy).desired = labeling.desired
         /\ Compared(copy).outdated = copy.outdated
  BY DEF Compared, Differ, Idle

\* Between the comparison and the update nobody writes the server's labels.
LEMMA RewriteStep == TypeInv /\ FollowInv /\ RewriteInv /\ [Next]_vars => RewriteInv'
<1> SUFFICES ASSUME TypeInv, FollowInv, RewriteInv, [Next]_vars,
                    labeling'.pc = "update", ~labeling'.outdated
             PROVE  labeling'.desired # server'.labels
  BY DEF RewriteInv
<1>0. server \in [status : Statuses, labels : LabelSets]
  BY DEF TypeInv, TypeOK
<1>1. CASE labeling' = labeling /\ server'.labels = server.labels
  BY <1>1 DEF RewriteInv
<1>2. ASSUME NEW user \in UserLabels, EditLabels(user) PROVE labeling' = labeling /\ server' = server
  BY <1>2 DEF EditLabels
<1>3. CASE DeleteClaim \/ SyncNodeClass \/ SyncClaim \/ DeleteOutOfBand \/ Disappear \/ Expire
  BY <1>0, <1>1, <1>3 DEF DeleteClaim, SyncNodeClass, SyncClaim, DeleteOutOfBand, Disappear, Expire
<1>4. ASSUME NEW r \in Callers, NEW purpose \in {"get", "list", "delete"},
             Ask(r, purpose) \/ CallStep(r)
      PROVE  labeling' = labeling /\ server'.labels = server.labels
  BY <1>0, <1>4 DEF Ask, CallStep, NotFound, Store, DeleteServer, DeleteFails, Drop
<1>5. CASE Reconcile \/ GetMiss \/ GetFails \/ UpdateFails \/ UpdateDrop
  BY <1>5 DEF Reconcile, GetMiss, GetFails, UpdateFails, UpdateDrop, Idle
<1>6. CASE GetCached
  <2>1. cached.labels = server.labels \/ cached.outdated
    BY <1>6 DEF GetCached, FollowInv, CacheFollowsUpdates
  <2>2. labeling' = Compared(cached) /\ server' = server
    BY <1>6 DEF GetCached
  <2>3. Compared(cached).pc = "update"
    BY <2>2
  <2>4. /\ labeling.desired # cached.labels /\ Compared(cached).desired = labeling.desired
        /\ Compared(cached).outdated = cached.outdated
    BY <2>3, ComparedDiffers
  <2>5. ~cached.outdated
    BY <2>2, <2>4
  <2> QED  BY <2>1, <2>2, <2>4, <2>5
<1>7. CASE GetStore
  <2>1. labeling.pc = "answered" /\ server' = server
    BY <1>7 DEF GetStore
  <2>2. labeling.status # "gone"
    <3>1. labeling.status = "gone" => labeling' = Idle
      BY <1>7 DEF GetStore
    <3> QED  BY <3>1 DEF Idle
  <2>3. labeling' = Compared(Entry(labeling.labels, FALSE))
    BY <1>7, <2>2 DEF GetStore
  <2>4. labeling.labels = server.labels
    BY <2>1, <2>2 DEF FollowInv, ReconcileFollows
  <2> QED  BY <2>1, <2>3, <2>4, ComparedDiffers DEF Entry
<1>8. ASSUME NEW answered \in BOOLEAN, UpdateLabels(answered) PROVE FALSE
  BY <1>8 DEF UpdateLabels, Idle
<1>9. CASE UNCHANGED vars
  BY <1>1, <1>9 DEF vars
<1>10. QED
  BY <1>1, <1>2, <1>3, <1>4, <1>5, <1>6, <1>7, <1>8, <1>9 DEF Next, LabelingStep

\* Labels the server has already are only written again after a comparison with a copy that
\* an update overlapped with, or could not drop; for any labels, any number of concurrent
\* calls and however late the informers are (labeling Reconcile, UpdateLabels).
THEOREM RewritesFromOutdatedAlways == Spec => []RewritesFromOutdated
<1>1. Init => RewriteInv
  BY DEF Init, RewriteInv, Idle
<1>2. TypeInv /\ RewriteInv => RewritesFromOutdated
  BY DEF RewriteInv, RewritesFromOutdated
<1>3. QED
  BY TypeInit, TypeStep, FollowInit, FollowStep, RewriteStep, <1>1, <1>2, PTL DEF Spec

=============================================================================
