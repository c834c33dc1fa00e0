-------------------------- MODULE Lifecycle_proofs --------------------------
(***************************************************************************)
(* Theorems about Lifecycle, for every set of NodeClaims and servers and   *)
(* every value of the delays.                                              *)
(***************************************************************************)
EXTENDS Lifecycle, TLAPS

\* The controllers start in a well-typed state.
LEMMA TypeInit == Init => TypeOK
  BY LifecycleAssumption DEF Init, TypeOK

\* Every handler, and every step of the cloud around them, preserves the types.
LEMMA TypeStep == TypeOK /\ [Next]_vars => TypeOK'
<1> SUFFICES ASSUME TypeOK /\ [Next]_vars PROVE TypeOK'
  OBVIOUS
<1> USE LifecycleAssumption DEF TypeOK, cloudVars, claimVars, gcVars
<1>1. ASSUME NEW c \in Claims, CreateClaim(c) PROVE TypeOK'
  BY <1>1 DEF CreateClaim
<1>2. ASSUME NEW c \in Claims, DeleteClaim(c) PROVE TypeOK'
  BY <1>2 DEF DeleteClaim
<1>3. ASSUME NEW c \in Claims, LoseLaunch(c) PROVE TypeOK'
  BY <1>3 DEF LoseLaunch
<1>4. ASSUME NEW c \in Claims, Persist(c) PROVE TypeOK'
  BY <1>4 DEF Persist, Alive
<1>5. ASSUME NEW c \in Claims, InformerSync(c) PROVE TypeOK'
  BY <1>5 DEF InformerSync
<1>6. ASSUME NEW c \in Claims, FinalizeUnlaunched(c) PROVE TypeOK'
  BY <1>6 DEF FinalizeUnlaunched
<1>7. ASSUME NEW c \in Claims, NEW s \in Servers, Create(c, s) PROVE TypeOK'
  BY <1>7 DEF Create
<1>8. ASSUME NEW c \in Claims, NEW answered \in BOOLEAN, TerminateGet(c, answered) PROVE TypeOK'
  BY <1>8 DEF TerminateGet, Released, AfterGet, Terminating
<1>9. ASSUME NEW c \in Claims, NEW answered \in BOOLEAN, TerminateDelete(c, answered) PROVE
    TypeOK'
  BY <1>9 DEF TerminateDelete, Released, AfterDelete, DeleteServer
<1>10. ASSUME NEW s \in Servers, Disappear(s) PROVE TypeOK'
  BY <1>10 DEF Disappear
<1>11. ASSUME NEW s \in Servers, DeleteOutOfBand(s) PROVE TypeOK'
  BY <1>11 DEF DeleteOutOfBand
<1>12. ASSUME NEW s \in Servers, Register(s) PROVE TypeOK'
  BY <1>12 DEF Register
<1>13. ASSUME NEW s \in Servers, NodeLifecycle(s) PROVE TypeOK'
  BY <1>13 DEF NodeLifecycle
<1>14. ASSUME NEW s \in Servers, GCInspect(s) PROVE TypeOK'
  BY <1>14 DEF GCInspect, Protected
<1>15. ASSUME NEW s \in Servers, NEW answered \in BOOLEAN, GCGet(s, answered) PROVE TypeOK'
  BY <1>15 DEF GCGet, AfterGet, Terminating
<1>16. ASSUME NEW s \in Servers, NEW answered \in BOOLEAN, GCDelete(s, answered) PROVE TypeOK'
  BY <1>16 DEF GCDelete, AfterDelete, DeleteServer
<1>17. ASSUME GCListCloud PROVE TypeOK'
  BY <1>17 DEF GCListCloud, Listed
<1>18. ASSUME GCListCluster PROVE TypeOK'
  BY <1>18 DEF GCListCluster, ListedIDs
<1>19. ASSUME GCListClusterFails PROVE TypeOK'
  BY <1>19 DEF GCListClusterFails
<1>20. ASSUME GCFinish PROVE TypeOK'
  BY <1>20 DEF GCFinish
<1>21. ASSUME ChangeNodeClass PROVE TypeOK'
  BY <1>21 DEF ChangeNodeClass, SetNodeClass
<1>22. ASSUME Tick PROVE TypeOK'
  BY <1>22 DEF Tick
<1>23. ASSUME Crash PROVE TypeOK'
  BY <1>23 DEF Crash
<1>24. CASE UNCHANGED vars
  BY <1>24 DEF vars
<1>25. QED
  BY <1>1, <1>2, <1>3, <1>4, <1>5, <1>6, <1>7, <1>8, <1>9, <1>10, <1>11, <1>12, <1>13,
     <1>14, <1>15, <1>16, <1>17, <1>18, <1>19, <1>20, <1>21, <1>22, <1>23, <1>24
  DEF Next, ClaimStep, ServerStep

\* Every variable stays within its type, for any number of NodeClaims and servers (the
\* state of the garbage collection controller and of the cloud provider).
THEOREM TypeCorrect == Spec => []TypeOK
  BY TypeInit, TypeStep, PTL DEF Spec

----------------------------------------------------------------------------
(* The inductive invariant.  GCSparesOwned follows from what is known of a *)
(* server before the collector decides about it: a server that is owned    *)
(* and missing from the pass's list of NodeClaims was created at most      *)
(* PersistDelay before that list, so it is younger than GracePeriod when   *)
(* the pass reaches it.                                                    *)

\* A NodeClaim's server is recorded in one place, and only while it may have one.
OneRecord ==
  \A c \in Claims :
    /\ claim[c] = "absent" => launched[c] = None /\ providerID[c] = None
    /\ claim[c] = "gone" => launched[c] = None
    /\ providerID[c] # None => launched[c] = None
    /\ informer[c] # None => informer[c] = providerID[c]
    /\ c \in deleting => claim[c] = "deleted" /\ providerID[c] # None

\* Whatever refers to a server refers to one that was created.
ReferToCreated ==
  /\ \A c \in Claims : launched[c] # None => server[launched[c]] # "none"
  /\ \A c \in Claims : providerID[c] # None => server[providerID[c]] # "none"
  /\ \A s \in gcCloud : server[s] # "none"
  /\ \A s \in Servers : gcItem[s] # "none" => server[s] # "none"
  /\ \A s \in Servers : server[s] = "none" => age[s] = 0

\* The assumption on PersistDelay, as an invariant.
UnseenIsFresh ==
  \A c \in Claims, s \in Servers : Unseen(c, s) => age[s] <= PersistDelay

\* An owned server the pass did not see a NodeClaim for has aged since by the pass's own time.
MissedIsFresh ==
  \A s \in Servers :
    gcItem[s] = "todo" /\ s \notin gcIDs /\ Owned(s) => age[s] <= PersistDelay + gcElapsed

IInv ==
  /\ TypeOK
  /\ OneRecord
  /\ ReferToCreated
  /\ UnseenIsFresh
  /\ MissedIsFresh
  /\ GCSparesOwned

\* OneRecord is kept: Create's result in memory becomes the persisted provider ID, and
\* a NodeClaim never has both.
LEMMA OneRecordStep == TypeOK /\ OneRecord /\ [Next]_vars => OneRecord'
<1> SUFFICES ASSUME TypeOK /\ OneRecord /\ [Next]_vars PROVE OneRecord'
  OBVIOUS
<1> USE LifecycleAssumption DEF TypeOK, OneRecord, Owner, cloudVars, claimVars, gcVars
<1>1. ASSUME NEW c \in Claims, CreateClaim(c) PROVE OneRecord'
  BY <1>1 DEF CreateClaim
<1>2. ASSUME NEW c \in Claims, DeleteClaim(c) PROVE OneRecord'
  BY <1>2 DEF DeleteClaim
<1>3. ASSUME NEW c \in Claims, LoseLaunch(c) PROVE OneRecord'
  BY <1>3 DEF LoseLaunch
<1>4. ASSUME NEW c \in Claims, Persist(c) PROVE OneRecord'
  BY <1>4 DEF Persist, Alive
<1>5. ASSUME NEW c \in Claims, InformerSync(c) PROVE OneRecord'
  BY <1>5 DEF InformerSync
<1>6. ASSUME NEW c \in Claims, FinalizeUnlaunched(c) PROVE OneRecord'
  BY <1>6 DEF FinalizeUnlaunched
<1>7. ASSUME NEW c \in Claims, NEW s \in Servers, Create(c, s) PROVE OneRecord'
  BY <1>7 DEF Create
<1>8. ASSUME NEW c \in Claims, NEW answered \in BOOLEAN, TerminateGet(c, answered) PROVE
    OneRecord'
  BY <1>8 DEF TerminateGet, Released, AfterGet, Terminating
<1>9. ASSUME NEW c \in Claims, NEW answered \in BOOLEAN, TerminateDelete(c, answered) PROVE
    OneRecord'
  BY <1>9 DEF TerminateDelete, Released, AfterDelete, DeleteServer
<1>10. ASSUME NEW s \in Servers, Disappear(s) PROVE OneRecord'
  BY <1>10 DEF Disappear
<1>11. ASSUME NEW s \in Servers, DeleteOutOfBand(s) PROVE OneRecord'
  BY <1>11 DEF DeleteOutOfBand
<1>12. ASSUME NEW s \in Servers, Register(s) PROVE OneRecord'
  BY <1>12 DEF Register
<1>13. ASSUME NEW s \in Servers, NodeLifecycle(s) PROVE OneRecord'
  BY <1>13 DEF NodeLifecycle
<1>14. ASSUME NEW s \in Servers, GCInspect(s) PROVE OneRecord'
  BY <1>14 DEF GCInspect, Protected
<1>15. ASSUME NEW s \in Servers, NEW answered \in BOOLEAN, GCGet(s, answered) PROVE OneRecord'
  BY <1>15 DEF GCGet, AfterGet, Terminating
<1>16. ASSUME NEW s \in Servers, NEW answered \in BOOLEAN, GCDelete(s, answered) PROVE
    OneRecord'
  BY <1>16 DEF GCDelete, AfterDelete, DeleteServer
<1>17. ASSUME GCListCloud PROVE OneRecord'
  BY <1>17 DEF GCListCloud, Listed
<1>18. ASSUME GCListCluster PROVE OneRecord'
  BY <1>18 DEF GCListCluster, ListedIDs
<1>19. ASSUME GCListClusterFails PROVE OneRecord'
  BY <1>19 DEF GCListClusterFails
<1>20. ASSUME GCFinish PROVE OneRecord'
  BY <1>20 DEF GCFinish
<1>21. ASSUME ChangeNodeClass PROVE OneRecord'
  BY <1>21 DEF ChangeNodeClass, SetNodeClass
<1>22. ASSUME Tick PROVE OneRecord'
  BY <1>22 DEF Tick
<1>23. ASSUME Crash PROVE OneRecord'
  BY <1>23 DEF Crash
<1>24. CASE UNCHANGED vars
  BY <1>24 DEF vars
<1>25. QED
  BY <1>1, <1>2, <1>3, <1>4, <1>5, <1>6, <1>7, <1>8, <1>9, <1>10, <1>11, <1>12, <1>13,
     <1>14, <1>15, <1>16, <1>17, <1>18, <1>19, <1>20, <1>21, <1>22, <1>23, <1>24
  DEF Next, ClaimStep, ServerStep

\* NodeClaims, informer and the running pass refer to servers that were created.
LEMMA CreatedStep == TypeOK /\ OneRecord /\ ReferToCreated /\ [Next]_vars => ReferToCreated'
<1> SUFFICES ASSUME TypeOK /\ OneRecord /\ ReferToCreated /\ [Next]_vars PROVE ReferToCreated'
  OBVIOUS
<1> USE LifecycleAssumption DEF TypeOK, OneRecord, ReferToCreated, cloudVars, claimVars, gcVars
<1>1. ASSUME NEW c \in Claims, CreateClaim(c) PROVE ReferToCreated'
  BY <1>1 DEF CreateClaim
<1>2. ASSUME NEW c \in Claims, DeleteClaim(c) PROVE ReferToCreated'
  BY <1>2 DEF DeleteClaim
<1>3. ASSUME NEW c \in Claims, LoseLaunch(c) PROVE ReferToCreated'
  BY <1>3 DEF LoseLaunch
<1>4. ASSUME NEW c \in Claims, Persist(c) PROVE ReferToCreated'
  BY <1>4 DEF Persist, Alive
<1>5. ASSUME NEW c \in Claims, InformerSync(c) PROVE ReferToCreated'
  BY <1>5 DEF InformerSync
<1>6. ASSUME NEW c \in Claims, FinalizeUnlaunched(c) PROVE ReferToCreated'
  BY <1>6 DEF FinalizeUnlaunched
<1>7. ASSUME NEW c \in Claims, NEW s \in Servers, Create(c, s) PROVE ReferToCreated'
  BY <1>7 DEF Create
<1>8. ASSUME NEW c \in Claims, NEW answered \in BOOLEAN, TerminateGet(c, answered) PROVE
    ReferToCreated'
  BY <1>8 DEF TerminateGet, Released, AfterGet, Terminating
<1>9. ASSUME NEW c \in Claims, NEW answered \in BOOLEAN, TerminateDelete(c, answered) PROVE
    ReferToCreated'
  BY <1>9 DEF TerminateDelete, Released, AfterDelete, DeleteServer
<1>10. ASSUME NEW s \in Servers, Disappear(s) PROVE ReferToCreated'
  BY <1>10 DEF Disappear
<1>11. ASSUME NEW s \in Servers, DeleteOutOfBand(s) PROVE ReferToCreated'
  BY <1>11 DEF DeleteOutOfBand
<1>12. ASSUME NEW s \in Servers, Register(s) PROVE ReferToCreated'
  BY <1>12 DEF Register
<1>13. ASSUME NEW s \in Servers, NodeLifecycle(s) PROVE ReferToCreated'
  BY <1>13 DEF NodeLifecycle
<1>14. ASSUME NEW s \in Servers, GCInspect(s) PROVE ReferToCreated'
  BY <1>14 DEF GCInspect, Protected
<1>15. ASSUME NEW s \in Servers, NEW answered \in BOOLEAN, GCGet(s, answered) PROVE
    ReferToCreated'
  BY <1>15 DEF GCGet, AfterGet, Terminating
<1>16. ASSUME NEW s \in Servers, NEW answered \in BOOLEAN, GCDelete(s, answered) PROVE
    ReferToCreated'
  BY <1>16 DEF GCDelete, AfterDelete, DeleteServer
<1>17. ASSUME GCListCloud PROVE ReferToCreated'
  BY <1>17 DEF GCListCloud, Listed
<1>18. ASSUME GCListCluster PROVE ReferToCreated'
  BY <1>18 DEF GCListCluster, ListedIDs
<1>19. ASSUME GCListClusterFails PROVE ReferToCreated'
  BY <1>19 DEF GCListClusterFails
<1>20. ASSUME GCFinish PROVE ReferToCreated'
  BY <1>20 DEF GCFinish
<1>21. ASSUME ChangeNodeClass PROVE ReferToCreated'
  BY <1>21 DEF ChangeNodeClass, SetNodeClass
<1>22. ASSUME Tick PROVE ReferToCreated'
  BY <1>22 DEF Tick
<1>23. ASSUME Crash PROVE ReferToCreated'
  BY <1>23 DEF Crash
<1>24. CASE UNCHANGED vars
  BY <1>24 DEF vars
<1>25. QED
  BY <1>1, <1>2, <1>3, <1>4, <1>5, <1>6, <1>7, <1>8, <1>9, <1>10, <1>11, <1>12, <1>13,
     <1>14, <1>15, <1>16, <1>17, <1>18, <1>19, <1>20, <1>21, <1>22, <1>23, <1>24
  DEF Next, ClaimStep, ServerStep

\* A server the NodeClaim list does not show yet is no older than PersistDelay.
LEMMA UnseenStep == TypeOK /\ OneRecord /\ ReferToCreated /\ UnseenIsFresh /\ [Next]_vars =>
    UnseenIsFresh'
<1> SUFFICES ASSUME TypeOK /\ OneRecord /\ ReferToCreated /\ UnseenIsFresh /\ [Next]_vars PROVE
    UnseenIsFresh'
  OBVIOUS
<1> USE LifecycleAssumption DEF TypeOK, OneRecord, ReferToCreated, UnseenIsFresh, Unseen, Owns,
    Owner, Alive, cloudVars, claimVars, gcVars
<1>1. ASSUME NEW c \in Claims, CreateClaim(c) PROVE UnseenIsFresh'
  BY <1>1 DEF CreateClaim
<1>2. ASSUME NEW c \in Claims, DeleteClaim(c) PROVE UnseenIsFresh'
  BY <1>2 DEF DeleteClaim
<1>3. ASSUME NEW c \in Claims, LoseLaunch(c) PROVE UnseenIsFresh'
  BY <1>3 DEF LoseLaunch
<1>4. ASSUME NEW c \in Claims, Persist(c) PROVE UnseenIsFresh'
  BY <1>4 DEF Persist, Alive
<1>5. ASSUME NEW c \in Claims, InformerSync(c) PROVE UnseenIsFresh'
  BY <1>5 DEF InformerSync
<1>6. ASSUME NEW c \in Claims, FinalizeUnlaunched(c) PROVE UnseenIsFresh'
  BY <1>6 DEF FinalizeUnlaunched
<1>7. ASSUME NEW c \in Claims, NEW s \in Servers, Create(c, s) PROVE UnseenIsFresh'
  BY <1>7 DEF Create
<1>8. ASSUME NEW c \in Claims, NEW answered \in BOOLEAN, TerminateGet(c, answered) PROVE
    UnseenIsFresh'
  BY <1>8 DEF TerminateGet, Released, AfterGet, Terminating
<1>9. ASSUME NEW c \in Claims, NEW answered \in BOOLEAN, TerminateDelete(c, answered) PROVE
    UnseenIsFresh'
  BY <1>9 DEF TerminateDelete, Released, AfterDelete, DeleteServer
<1>10. ASSUME NEW s \in Servers, Disappear(s) PROVE UnseenIsFresh'
  BY <1>10 DEF Disappear
<1>11. ASSUME NEW s \in Servers, DeleteOutOfBand(s) PROVE UnseenIsFresh'
  BY <1>11 DEF DeleteOutOfBand
<1>12. ASSUME NEW s \in Servers, Register(s) PROVE UnseenIsFresh'
  BY <1>12 DEF Register
<1>13. ASSUME NEW s \in Servers, NodeLifecycle(s) PROVE UnseenIsFresh'
  BY <1>13 DEF NodeLifecycle
<1>14. ASSUME NEW s \in Servers, GCInspect(s) PROVE UnseenIsFresh'
  BY <1>14 DEF GCInspect, Protected
<1>15. ASSUME NEW s \in Servers, NEW answered \in BOOLEAN, GCGet(s, answered) PROVE
    UnseenIsFresh'
  BY <1>15 DEF GCGet, AfterGet, Terminating
<1>16. ASSUME NEW s \in Servers, NEW answered \in BOOLEAN, GCDelete(s, answered) PROVE
    UnseenIsFresh'
  BY <1>16 DEF GCDelete, AfterDelete, DeleteServer
<1>17. ASSUME GCListCloud PROVE UnseenIsFresh'
  BY <1>17 DEF GCListCloud, Listed
<1>18. ASSUME GCListCluster PROVE UnseenIsFresh'
  BY <1>18 DEF GCListCluster, ListedIDs
<1>19. ASSUME GCListClusterFails PROVE UnseenIsFresh'
  BY <1>19 DEF GCListClusterFails
<1>20. ASSUME GCFinish PROVE UnseenIsFresh'
  BY <1>20 DEF GCFinish
<1>21. ASSUME ChangeNodeClass PROVE UnseenIsFresh'
  BY <1>21 DEF ChangeNodeClass, SetNodeClass
<1>22. ASSUME Tick PROVE UnseenIsFresh'
  BY <1>22 DEF Tick
<1>23. ASSUME Crash PROVE UnseenIsFresh'
  BY <1>23 DEF Crash
<1>24. CASE UNCHANGED vars
  BY <1>24 DEF vars
<1>25. QED
  BY <1>1, <1>2, <1>3, <1>4, <1>5, <1>6, <1>7, <1>8, <1>9, <1>10, <1>11, <1>12, <1>13,
     <1>14, <1>15, <1>16, <1>17, <1>18, <1>19, <1>20, <1>21, <1>22, <1>23, <1>24
  DEF Next, ClaimStep, ServerStep

\* An owned server that the running pass still has to look at, and that its NodeClaim
\* list missed, is no older than the two delays together.
LEMMA MissedStep == TypeOK /\ OneRecord /\ ReferToCreated /\ UnseenIsFresh /\ MissedIsFresh /\
    [Next]_vars => MissedIsFresh'
<1> SUFFICES ASSUME TypeOK /\ OneRecord /\ ReferToCreated /\ UnseenIsFresh /\ MissedIsFresh /\
    [Next]_vars PROVE MissedIsFresh'
  OBVIOUS
<1> USE LifecycleAssumption DEF TypeOK, OneRecord, ReferToCreated, UnseenIsFresh, MissedIsFresh,
    Unseen, Owned, Owns, Owner, Alive, Todo, cloudVars, claimVars, gcVars
<1>1. ASSUME NEW c \in Claims, CreateClaim(c) PROVE MissedIsFresh'
  BY <1>1 DEF CreateClaim
<1>2. ASSUME NEW c \in Claims, DeleteClaim(c) PROVE MissedIsFresh'
  BY <1>2 DEF DeleteClaim
<1>3. ASSUME NEW c \in Claims, LoseLaunch(c) PROVE MissedIsFresh'
  BY <1>3 DEF LoseLaunch
<1>4. ASSUME NEW c \in Claims, Persist(c) PROVE MissedIsFresh'
  BY <1>4 DEF Persist, Alive
<1>5. ASSUME NEW c \in Claims, InformerSync(c) PROVE MissedIsFresh'
  BY <1>5 DEF InformerSync
<1>6. ASSUME NEW c \in Claims, FinalizeUnlaunched(c) PROVE MissedIsFresh'
  BY <1>6 DEF FinalizeUnlaunched
<1>7. ASSUME NEW c \in Claims, NEW s \in Servers, Create(c, s) PROVE MissedIsFresh'
  BY <1>7 DEF Create
<1>8. ASSUME NEW c \in Claims, NEW answered \in BOOLEAN, TerminateGet(c, answered) PROVE
    MissedIsFresh'
  BY <1>8 DEF TerminateGet, Released, AfterGet, Terminating
<1>9. ASSUME NEW c \in Claims, NEW answered \in BOOLEAN, TerminateDelete(c, answered) PROVE
    MissedIsFresh'
  BY <1>9 DEF TerminateDelete, Released, AfterDelete, DeleteServer
<1>10. ASSUME NEW s \in Servers, Disappear(s) PROVE MissedIsFresh'
  BY <1>10 DEF Disappear
<1>11. ASSUME NEW s \in Servers, DeleteOutOfBand(s) PROVE MissedIsFresh'
  BY <1>11 DEF DeleteOutOfBand
<1>12. ASSUME NEW s \in Servers, Register(s) PROVE MissedIsFresh'
  BY <1>12 DEF Register
<1>13. ASSUME NEW s \in Servers, NodeLifecycle(s) PROVE MissedIsFresh'
  BY <1>13 DEF NodeLifecycle
<1>14. ASSUME NEW s \in Servers, GCInspect(s) PROVE MissedIsFresh'
  BY <1>14 DEF GCInspect, Protected
<1>15. ASSUME NEW s \in Servers, NEW answered \in BOOLEAN, GCGet(s, answered) PROVE
    MissedIsFresh'
  BY <1>15 DEF GCGet, AfterGet, Terminating
<1>16. ASSUME NEW s \in Servers, NEW answered \in BOOLEAN, GCDelete(s, answered) PROVE
    MissedIsFresh'
  BY <1>16 DEF GCDelete, AfterDelete, DeleteServer
<1>17. ASSUME GCListCloud PROVE MissedIsFresh'
  BY <1>17 DEF GCListCloud, Listed
<1>18. ASSUME GCListCluster PROVE MissedIsFresh'
  <2> SUFFICES ASSUME NEW s \in Servers, s \notin gcIDs', Owned(s)'
               PROVE  age'[s] <= PersistDelay + gcElapsed'
    BY DEF MissedIsFresh
  <2>1. PICK c \in Claims : Owns(c, s)
    BY <1>18 DEF Owned, Owns, Owner, Alive, GCListCluster, claimVars
  <2>2. Unseen(c, s)
    BY <2>1, <1>18, LifecycleAssumption DEF Unseen, GCListCluster, ListedIDs
  <2>3. age[s] <= PersistDelay
    BY <2>2 DEF UnseenIsFresh
  <2>4. QED
    BY <2>3, <1>18, LifecycleAssumption DEF TypeOK, GCListCluster, cloudVars
<1>19. ASSUME GCListClusterFails PROVE MissedIsFresh'
  BY <1>19 DEF GCListClusterFails
<1>20. ASSUME GCFinish PROVE MissedIsFresh'
  BY <1>20 DEF GCFinish
<1>21. ASSUME ChangeNodeClass PROVE MissedIsFresh'
  BY <1>21 DEF ChangeNodeClass, SetNodeClass
<1>22. ASSUME Tick PROVE MissedIsFresh'
  <2> SUFFICES ASSUME NEW s \in Servers, gcItem'[s] = "todo", s \notin gcIDs', Owned(s)'
               PROVE  age'[s] <= PersistDelay + gcElapsed'
    BY DEF MissedIsFresh
  <2>1. gcItem[s] = "todo" /\ s \notin gcIDs /\ Owned(s)
    BY <1>22 DEF Tick, Owned, Owns, Owner, Alive, claimVars
  <2>2. age[s] <= PersistDelay + gcElapsed
    BY <2>1 DEF MissedIsFresh
  <2>3. gcElapsed' = gcElapsed + 1
    BY <2>1, <1>22 DEF Tick, Todo
  <2>4. age[s] \in Nat /\ age'[s] \in Nat /\ gcElapsed \in Nat /\ age'[s] <= age[s] + 1
    BY <1>22 DEF Tick
  <2>5. QED
    BY <2>2, <2>3, <2>4
<1>23. ASSUME Crash PROVE MissedIsFresh'
  BY <1>23 DEF Crash
<1>24. CASE UNCHANGED vars
  BY <1>24 DEF vars
<1>25. QED
  BY <1>1, <1>2, <1>3, <1>4, <1>5, <1>6, <1>7, <1>8, <1>9, <1>10, <1>11, <1>12, <1>13,
     <1>14, <1>15, <1>16, <1>17, <1>18, <1>19, <1>20, <1>21, <1>22, <1>23, <1>24
  DEF Next, ClaimStep, ServerStep

\* So the grace period of Reconcile keeps it from being chosen, and nothing gives an
\* owner to a server that was chosen.
LEMMA SparesStep == PersistDelay + PassDelay < GracePeriod /\ IInv /\ [Next]_vars =>
    GCSparesOwned'
<1> SUFFICES ASSUME PersistDelay + PassDelay < GracePeriod /\ IInv /\ [Next]_vars PROVE
    GCSparesOwned'
  OBVIOUS
<1> USE LifecycleAssumption DEF IInv, TypeOK, OneRecord, ReferToCreated, MissedIsFresh,
    GCSparesOwned, Owned, Owns, Owner, Alive, cloudVars, claimVars, gcVars
<1>1. ASSUME NEW c \in Claims, CreateClaim(c) PROVE GCSparesOwned'
  BY <1>1 DEF CreateClaim
<1>2. ASSUME NEW c \in Claims, DeleteClaim(c) PROVE GCSparesOwned'
  BY <1>2 DEF DeleteClaim
<1>3. ASSUME NEW c \in Claims, LoseLaunch(c) PROVE GCSparesOwned'
  BY <1>3 DEF LoseLaunch
<1>4. ASSUME NEW c \in Claims, Persist(c) PROVE GCSparesOwned'
  BY <1>4 DEF Persist, Alive
<1>5. ASSUME NEW c \in Claims, InformerSync(c) PROVE GCSparesOwned'
  BY <1>5 DEF InformerSync
<1>6. ASSUME NEW c \in Claims, FinalizeUnlaunched(c) PROVE GCSparesOwned'
  BY <1>6 DEF FinalizeUnlaunched
<1>7. ASSUME NEW c \in Claims, NEW s \in Servers, Create(c, s) PROVE GCSparesOwned'
  BY <1>7 DEF Create
<1>8. ASSUME NEW c \in Claims, NEW answered \in BOOLEAN, TerminateGet(c, answered) PROVE
    GCSparesOwned'
  BY <1>8 DEF TerminateGet, Released, AfterGet, Terminating
<1>9. ASSUME NEW c \in Claims, NEW answered \in BOOLEAN, TerminateDelete(c, answered) PROVE
    GCSparesOwned'
  BY <1>9 DEF TerminateDelete, Released, AfterDelete, DeleteServer
<1>10. ASSUME NEW s \in Servers, Disappear(s) PROVE GCSparesOwned'
  BY <1>10 DEF Disappear
<1>11. ASSUME NEW s \in Servers, DeleteOutOfBand(s) PROVE GCSparesOwned'
  BY <1>11 DEF DeleteOutOfBand
<1>12. ASSUME NEW s \in Servers, Register(s) PROVE GCSparesOwned'
  BY <1>12 DEF Register
<1>13. ASSUME NEW s \in Servers, NodeLifecycle(s) PROVE GCSparesOwned'
  BY <1>13 DEF NodeLifecycle
<1>14. ASSUME NEW s \in Servers, GCInspect(s) PROVE GCSparesOwned'
  <2>1. CASE Protected(s)
    BY <2>1, <1>14 DEF IInv, TypeOK, GCSparesOwned, Owned, Owns, Owner, Alive, GCInspect,
        cloudVars, claimVars
  <2>2. CASE ~Protected(s)
    <3>1. s \notin gcIDs /\ age[s] >= GracePeriod
      BY <2>2, LifecycleAssumption DEF Protected, IInv, TypeOK
    <3>2. gcElapsed <= PassDelay
      BY LifecycleAssumption DEF IInv, TypeOK
    <3>3. ~Owned(s)
      BY <3>1, <3>2, <1>14, LifecycleAssumption DEF IInv, TypeOK, MissedIsFresh, GCInspect
    <3>4. QED
      BY <2>2, <3>3, <1>14 DEF IInv, TypeOK, GCSparesOwned, Owned, Owns, Owner, Alive,
          GCInspect, cloudVars, claimVars
  <2>3. QED
    BY <2>1, <2>2
<1>15. ASSUME NEW s \in Servers, NEW answered \in BOOLEAN, GCGet(s, answered) PROVE
    GCSparesOwned'
  BY <1>15 DEF GCGet, AfterGet, Terminating
<1>16. ASSUME NEW s \in Servers, NEW answered \in BOOLEAN, GCDelete(s, answered) PROVE
    GCSparesOwned'
  BY <1>16 DEF GCDelete, AfterDelete, DeleteServer
<1>17. ASSUME GCListCloud PROVE GCSparesOwned'
  BY <1>17 DEF GCListCloud, Listed
<1>18. ASSUME GCListCluster PROVE GCSparesOwned'
  BY <1>18 DEF GCListCluster, ListedIDs
<1>19. ASSUME GCListClusterFails PROVE GCSparesOwned'
  BY <1>19 DEF GCListClusterFails
<1>20. ASSUME GCFinish PROVE GCSparesOwned'
  BY <1>20 DEF GCFinish
<1>21. ASSUME ChangeNodeClass PROVE GCSparesOwned'
  BY <1>21 DEF ChangeNodeClass, SetNodeClass
<1>22. ASSUME Tick PROVE GCSparesOwned'
  BY <1>22 DEF Tick
<1>23. ASSUME Crash PROVE GCSparesOwned'
  BY <1>23 DEF Crash
<1>24. CASE UNCHANGED vars
  BY <1>24 DEF vars
<1>25. QED
  BY <1>1, <1>2, <1>3, <1>4, <1>5, <1>6, <1>7, <1>8, <1>9, <1>10, <1>11, <1>12, <1>13,
     <1>14, <1>15, <1>16, <1>17, <1>18, <1>19, <1>20, <1>21, <1>22, <1>23, <1>24
  DEF Next, ClaimStep, ServerStep

\* The invariant holds at the start and is kept, whenever the grace period exceeds the two
\* delays together.
LEMMA IInvAlways ==
  ASSUME PersistDelay + PassDelay < GracePeriod
  PROVE  Spec => []IInv
<1>1. Init => IInv
  BY TypeInit, LifecycleAssumption
  DEF Init, IInv, OneRecord, ReferToCreated, UnseenIsFresh, MissedIsFresh, GCSparesOwned,
      Unseen,
      Owned, Owns, Owner, Alive
<1>2. IInv /\ [Next]_vars => IInv'
  BY TypeStep, OneRecordStep, CreatedStep, UnseenStep, MissedStep, SparesStep DEF IInv
<1>3. QED
  BY <1>1, <1>2, PTL DEF Spec

\* Whenever the grace period exceeds the two delays together, the garbage collector
\* never sets out to delete a server a NodeClaim owns (GCSparesOwned, Reconcile of the
\* garbage collection controller): for any number of NodeClaims, servers and restarts.
THEOREM GCSparesOwnedAlways ==
  ASSUME PersistDelay + PassDelay < GracePeriod
  PROVE  Spec => []GCSparesOwned
<1>1. IInv => GCSparesOwned
  BY DEF IInv
<1>2. QED
  BY <1>1, IInvAlways, PTL

\* A release follows a 404 (Delete), and a server that is gone stays gone.
LEMMA ReleasedStep == TypeOK /\ OneRecord /\ ReleasedAfterServer /\ [Next]_vars =>
    ReleasedAfterServer'
<1> SUFFICES ASSUME TypeOK /\ OneRecord /\ ReleasedAfterServer /\ [Next]_vars PROVE
    ReleasedAfterServer'
  OBVIOUS
<1> USE LifecycleAssumption DEF TypeOK, OneRecord, ReleasedAfterServer, cloudVars, claimVars,
    gcVars
<1>1. ASSUME NEW c \in Claims, CreateClaim(c) PROVE ReleasedAfterServer'
  BY <1>1 DEF CreateClaim
<1>2. ASSUME NEW c \in Claims, DeleteClaim(c) PROVE ReleasedAfterServer'
  BY <1>2 DEF DeleteClaim
<1>3. ASSUME NEW c \in Claims, LoseLaunch(c) PROVE ReleasedAfterServer'
  BY <1>3 DEF LoseLaunch
<1>4. ASSUME NEW c \in Claims, Persist(c) PROVE ReleasedAfterServer'
  BY <1>4 DEF Persist, Alive
<1>5. ASSUME NEW c \in Claims, InformerSync(c) PROVE ReleasedAfterServer'
  BY <1>5 DEF InformerSync
<1>6. ASSUME NEW c \in Claims, FinalizeUnlaunched(c) PROVE ReleasedAfterServer'
  BY <1>6 DEF FinalizeUnlaunched
<1>7. ASSUME NEW c \in Claims, NEW s \in Servers, Create(c, s) PROVE ReleasedAfterServer'
  BY <1>7 DEF Create
<1>8. ASSUME NEW c \in Claims, NEW answered \in BOOLEAN, TerminateGet(c, answered) PROVE
    ReleasedAfterServer'
  BY <1>8 DEF TerminateGet, Released, AfterGet, Terminating
<1>9. ASSUME NEW c \in Claims, NEW answered \in BOOLEAN, TerminateDelete(c, answered) PROVE
    ReleasedAfterServer'
  BY <1>9 DEF TerminateDelete, Released, AfterDelete, DeleteServer
<1>10. ASSUME NEW s \in Servers, Disappear(s) PROVE ReleasedAfterServer'
  BY <1>10 DEF Disappear
<1>11. ASSUME NEW s \in Servers, DeleteOutOfBand(s) PROVE ReleasedAfterServer'
  BY <1>11 DEF DeleteOutOfBand
<1>12. ASSUME NEW s \in Servers, Register(s) PROVE ReleasedAfterServer'
  BY <1>12 DEF Register
<1>13. ASSUME NEW s \in Servers, NodeLifecycle(s) PROVE ReleasedAfterServer'
  BY <1>13 DEF NodeLifecycle
<1>14. ASSUME NEW s \in Servers, GCInspect(s) PROVE ReleasedAfterServer'
  BY <1>14 DEF GCInspect, Protected
<1>15. ASSUME NEW s \in Servers, NEW answered \in BOOLEAN, GCGet(s, answered) PROVE
    ReleasedAfterServer'
  BY <1>15 DEF GCGet, AfterGet, Terminating
<1>16. ASSUME NEW s \in Servers, NEW answered \in BOOLEAN, GCDelete(s, answered) PROVE
    ReleasedAfterServer'
  BY <1>16 DEF GCDelete, AfterDelete, DeleteServer
<1>17. ASSUME GCListCloud PROVE ReleasedAfterServer'
  BY <1>17 DEF GCListCloud, Listed
<1>18. ASSUME GCListCluster PROVE ReleasedAfterServer'
  BY <1>18 DEF GCListCluster, ListedIDs
<1>19. ASSUME GCListClusterFails PROVE ReleasedAfterServer'
  BY <1>19 DEF GCListClusterFails
<1>20. ASSUME GCFinish PROVE ReleasedAfterServer'
  BY <1>20 DEF GCFinish
<1>21. ASSUME ChangeNodeClass PROVE ReleasedAfterServer'
  BY <1>21 DEF ChangeNodeClass, SetNodeClass
<1>22. ASSUME Tick PROVE ReleasedAfterServer'
  BY <1>22 DEF Tick
<1>23. ASSUME Crash PROVE ReleasedAfterServer'
  BY <1>23 DEF Crash
<1>24. CASE UNCHANGED vars
  BY <1>24 DEF vars
<1>25. QED
  BY <1>1, <1>2, <1>3, <1>4, <1>5, <1>6, <1>7, <1>8, <1>9, <1>10, <1>11, <1>12, <1>13,
     <1>14, <1>15, <1>16, <1>17, <1>18, <1>19, <1>20, <1>21, <1>22, <1>23, <1>24
  DEF Next, ClaimStep, ServerStep

\* A NodeClaim that recorded a server is released only when the server is gone
\* (ReleasedAfterServer, DefaultProvider.Delete): whatever the delays are.
THEOREM ReleasedAfterServerAlways == Spec => []ReleasedAfterServer
<1> DEFINE RInv == TypeOK /\ OneRecord /\ ReleasedAfterServer
<1>1. Init => RInv
  BY TypeInit, LifecycleAssumption DEF Init, OneRecord, ReleasedAfterServer
<1>2. RInv /\ [Next]_vars => RInv'
  BY TypeStep, OneRecordStep, ReleasedStep
<1>3. QED
  BY <1>1, <1>2, PTL DEF Spec

----------------------------------------------------------------------------
(* Lifecycle implements Custody: the initial states are initial there, and *)
(* every step is a step of Custody or leaves its variables alone.          *)

\* Before anything is created nobody keeps anything.
LEMMA CustodyInit == Init => Custody!Init
  BY DEF Init, Custody!Init, Life, Closed, Doomed

\* Who keeps a server owns it: a NodeClaim never has a pledge beside its record.
LEMMA KeptIsOwned ==
  ASSUME TypeOK, OneRecord, NEW s \in Servers, Custody!Kept(s)
  PROVE  Owned(s)
<1>1. PICK c \in Claims : claim[c] # "gone" /\ (launched[c] = s \/ providerID[c] = s)
  BY DEF Custody!Kept, Closed
<1>2. s # None
  BY LifecycleAssumption
<1>3. claim[c] \in {"present", "deleted"}
  BY <1>1, <1>2 DEF TypeOK, OneRecord
<1>4. Owner(c) = s
  BY <1>1, <1>2 DEF OneRecord, Owner
<1> QED  BY <1>3, <1>4 DEF Owned, Owns, Alive

\* Most steps touch neither the servers' lives nor who keeps them; servers may be spared.
LEMMA CustodyKept ==
  ASSUME TypeOK, UNCHANGED <<launched, providerID>>, Life' = Life, Closed' = Closed,
         Doomed' \subseteq Doomed
  PROVE  Custody!Next
<1>1. Custody!Forget({})
  BY DEF TypeOK, Custody!Forget
<1> QED  BY <1>1 DEF Custody!Next

\* Pledges are lost by a lost answer and by a restart, which ends the pass as well.
LEMMA PledgesLost ==
  ASSUME UNCHANGED <<server, claim, providerID>>, Doomed' \subseteq Doomed,
         NEW C \in SUBSET Claims,
         launched' = [c \in Claims |-> IF c \in C THEN None ELSE launched[c]]
  PROVE  Custody!Next
<1>1. Custody!Forget(C)
  BY DEF Custody!Forget, Life, Closed
<1> QED  BY <1>1 DEF Custody!Next

\* A NodeClaim is closed when nothing is on record for it, or what is has gone.
LEMMA ClaimClosed ==
  ASSUME TypeOK, OneRecord, NEW c \in Claims, claim[c] # "gone",
         providerID[c] = None \/ server[providerID[c]] = "gone",
         claim' = [claim EXCEPT ![c] = "gone"], launched' = [launched EXCEPT ![c] = None],
         UNCHANGED providerID, Life' = Life, Doomed' = Doomed
  PROVE  Custody!Next
<1>1. c \notin Closed /\ Closed' = Closed \cup {c}
  BY DEF TypeOK, Closed
<1>2. providerID[c] = None \/ Life[providerID[c]] = "gone"
  BY DEF TypeOK, Life
<1>3. Custody!Close(c)
  BY <1>1, <1>2 DEF Custody!Close
<1> QED  BY <1>3 DEF Custody!Next

\* A call of Delete, or a deletion in the portal, changes no life by itself.
LEMMA DeletingLives ==
  ASSUME TypeOK, NEW s \in Servers, server[s] = "live",
         server' = [server EXCEPT ![s] = "deleting"]
  PROVE  Life' = Life
  BY DEF TypeOK, Life

\* DeleteServer changes no life, whether it is answered or not.
LEMMA DeleteServerLives ==
  ASSUME TypeOK, NEW s \in Servers, NEW answered \in BOOLEAN, server' = DeleteServer(s, answered)
  PROVE  Life' = Life
<1>1. CASE answered /\ server[s] = "live"
  BY <1>1, DeletingLives DEF DeleteServer
<1>2. CASE ~(answered /\ server[s] = "live")
  BY <1>2 DEF DeleteServer, Life
<1> QED  BY <1>1, <1>2

\* Each step of a NodeClaim's controllers is one of Custody.
LEMMA ClaimCustody ==
  ASSUME TypeOK, OneRecord, NEW c \in Claims, ClaimStep(c)
  PROVE  Custody!Next
<1> USE DEF cloudVars, gcVars
<1>1. CASE CreateClaim(c)
  <2>1. Closed' = Closed
    BY <1>1 DEF CreateClaim, TypeOK, Closed
  <2> QED  BY <1>1, <2>1, CustodyKept DEF CreateClaim, Life, Doomed
<1>2. CASE DeleteClaim(c)
  <2>1. Closed' = Closed
    BY <1>2 DEF DeleteClaim, TypeOK, Closed
  <2> QED  BY <1>2, <2>1, CustodyKept DEF DeleteClaim, Life, Doomed
<1>3. CASE LoseLaunch(c)
  <2>1. launched' = [d \in Claims |-> IF d \in {c} THEN None ELSE launched[d]]
    BY <1>3 DEF LoseLaunch, TypeOK
  <2>2. UNCHANGED <<server, claim, providerID, gcItem>> /\ {c} \in SUBSET Claims
    BY <1>3 DEF LoseLaunch
  <2> QED  BY <2>1, <2>2, PledgesLost DEF Doomed
<1>4. CASE Persist(c)
  <2>1. Custody!Record(c)
    BY <1>4 DEF Persist, Alive, TypeOK, OneRecord, Custody!Record, Life, Closed, Doomed
  <2> QED  BY <2>1 DEF Custody!Next
<1>5. CASE InformerSync(c)
  BY <1>5, CustodyKept DEF InformerSync, Life, Closed, Doomed
<1>6. CASE FinalizeUnlaunched(c)
  BY <1>6, ClaimClosed DEF FinalizeUnlaunched, Life, Doomed
<1>7. ASSUME NEW s \in Servers, Create(c, s) PROVE Custody!Next
  <2>1. Life[s] = "unborn" /\ Life' = [Life EXCEPT ![s] = "running"]
    BY <1>7 DEF Create, TypeOK, Life
  <2>2. c \notin Closed /\ Closed' = Closed /\ Doomed' = Doomed
    BY <1>7 DEF Create, Closed, Doomed
  <2>3. Custody!Launch(c, s)
    BY <1>7, <2>1, <2>2 DEF Create, Custody!Launch
  <2> QED  BY <2>3 DEF Custody!Next
<1>8. ASSUME NEW answered \in BOOLEAN, TerminateGet(c, answered) PROVE Custody!Next
  <2>1. CASE AfterGet(providerID[c], answered) = "NodeClaimNotFound"
    <3>1. server[providerID[c]] = "gone"
      BY <2>1 DEF AfterGet
    <3>2. claim' = [claim EXCEPT ![c] = "gone"] /\ launched' = [launched EXCEPT ![c] = None]
      BY <1>8, <2>1 DEF TerminateGet, Released, TypeOK, OneRecord
    <3> QED  BY <1>8, <3>1, <3>2, ClaimClosed DEF TerminateGet, Life, Doomed
  <2>2. CASE AfterGet(providerID[c], answered) # "NodeClaimNotFound"
    BY <1>8, <2>2, CustodyKept DEF TerminateGet, Released, Life, Closed, Doomed
  <2> QED  BY <2>1, <2>2
<1>9. ASSUME NEW answered \in BOOLEAN, TerminateDelete(c, answered) PROVE Custody!Next
  <2>1. claim[c] = "deleted" /\ providerID[c] \in Servers /\ providerID[c] # None
    BY <1>9 DEF TerminateDelete, TypeOK, OneRecord
  <2>2. Life' = Life
    BY <1>9, <2>1, DeleteServerLives DEF TerminateDelete
  <2>3. CASE AfterDelete(providerID[c], answered) = "NodeClaimNotFound"
    <3>1. server[providerID[c]] = "gone"
      BY <2>3 DEF AfterDelete
    <3>2. claim' = [claim EXCEPT ![c] = "gone"] /\ launched' = [launched EXCEPT ![c] = None]
      BY <1>9, <2>1, <2>3 DEF TerminateDelete, Released, TypeOK, OneRecord
    <3> QED  BY <1>9, <2>1, <2>2, <3>1, <3>2, ClaimClosed DEF TerminateDelete, Doomed
  <2>4. CASE AfterDelete(providerID[c], answered) # "NodeClaimNotFound"
    BY <1>9, <2>2, <2>4, CustodyKept DEF TerminateDelete, Released, Closed, Doomed
  <2> QED  BY <2>3, <2>4
<1> QED  BY <1>1, <1>2, <1>3, <1>4, <1>5, <1>6, <1>7, <1>8, <1>9 DEF ClaimStep

\* Each step that concerns one server is one of Custody; the collector dooms a server when
\* its inspection does not protect it.
LEMMA ServerCustody ==
  ASSUME IInv, GCSparesOwned', NEW s \in Servers, ServerStep(s)
  PROVE  Custody!Next
<1> USE DEF claimVars, gcVars
<1>0. TypeOK /\ OneRecord /\ ReferToCreated
  BY DEF IInv
<1>1. CASE Disappear(s)
  <2>1. Life[s] = "running" /\ Life' = [Life EXCEPT ![s] = "gone"]
    BY <1>0, <1>1 DEF Disappear, TypeOK, Life
  <2>2. Custody!Die(s)
    BY <1>1, <2>1 DEF Disappear, Custody!Die, Closed, Doomed
  <2> QED  BY <2>2 DEF Custody!Next
<1>2. CASE DeleteOutOfBand(s)
  <2>1. Life' = Life
    BY <1>0, <1>2, DeletingLives DEF DeleteOutOfBand
  <2> QED  BY <1>0, <1>2, <2>1, CustodyKept DEF DeleteOutOfBand, Closed, Doomed
<1>3. CASE Register(s) \/ NodeLifecycle(s)
  BY <1>0, <1>3, CustodyKept DEF Register, NodeLifecycle, cloudVars, Life, Closed, Doomed
<1>4. CASE GCInspect(s)
  <2>1. UNCHANGED <<launched, providerID, Life, Closed>>
    BY <1>4 DEF GCInspect, cloudVars, Life, Closed
  <2>2. CASE Protected(s)
    <3>1. Doomed' \subseteq Doomed
      BY <1>0, <1>4, <2>2 DEF GCInspect, TypeOK, Doomed
    <3> QED  BY <1>0, <2>1, <3>1, CustodyKept
  <2>3. CASE ~Protected(s)
    <3>1. Doomed' = Doomed \cup {s}
      BY <1>0, <1>4, <2>3 DEF GCInspect, TypeOK, Doomed
    <3>2. Life[s] # "unborn"
      BY <1>0, <1>4 DEF GCInspect, ReferToCreated, Life
    <3>3. ~Owned(s)
      <4>1. ~Owned(s)'
        BY <3>1 DEF GCSparesOwned, Doomed
      <4> QED  BY <1>4, <4>1 DEF GCInspect, Owned, Owns, Owner, Alive
    <3>4. Custody!Doom(s)
      BY <1>0, <2>1, <3>1, <3>2, <3>3, KeptIsOwned DEF Custody!Doom
    <3> QED  BY <3>4 DEF Custody!Next
  <2> QED  BY <2>2, <2>3
<1>5. ASSUME NEW answered \in BOOLEAN, GCGet(s, answered) PROVE Custody!Next
  <2>1. Doomed' \subseteq Doomed
    BY <1>0, <1>5 DEF GCGet, TypeOK, Doomed
  <2> QED  BY <1>0, <1>5, <2>1, CustodyKept DEF GCGet, cloudVars, Life, Closed
<1>6. ASSUME NEW answered \in BOOLEAN, GCDelete(s, answered) PROVE Custody!Next
  <2>1. Doomed' \subseteq Doomed
    BY <1>0, <1>6 DEF GCDelete, TypeOK, Doomed
  <2>2. Life' = Life
    BY <1>0, <1>6, DeleteServerLives DEF GCDelete
  <2> QED  BY <1>0, <1>6, <2>1, <2>2, CustodyKept DEF GCDelete, Closed
<1> QED  BY <1>1, <1>2, <1>3, <1>4, <1>5, <1>6 DEF ServerStep

\* Every step of Lifecycle is one of Custody, or leaves its variables alone.
LEMMA CustodyStep ==
  ASSUME IInv, GCSparesOwned', [Next]_vars
  PROVE  [Custody!Next]_(Custody!custodyVars)
<1> USE DEF cloudVars, claimVars, gcVars
<1>0. TypeOK /\ OneRecord
  BY DEF IInv
<1>1. ASSUME NEW c \in Claims, ClaimStep(c) PROVE Custody!Next
  BY <1>0, <1>1, ClaimCustody
<1>2. ASSUME NEW s \in Servers, ServerStep(s) PROVE Custody!Next
  BY <1>2, ServerCustody
<1>3. CASE GCListCloud \/ GCListClusterFails \/ GCFinish \/ ChangeNodeClass \/ Tick
  BY <1>0, <1>3, CustodyKept DEF GCListCloud, GCListClusterFails, GCFinish, ChangeNodeClass,
     SetNodeClass, Tick, Life, Closed, Doomed
<1>4. CASE GCListCluster
  <2>1. Doomed' \subseteq Doomed
    BY <1>4 DEF GCListCluster, Doomed
  <2> QED  BY <1>0, <1>4, <2>1, CustodyKept DEF GCListCluster, Life, Closed
<1>5. CASE Crash
  <2>1. Doomed' \subseteq Doomed
    BY <1>5 DEF Crash, Doomed
  <2>2. launched' = [c \in Claims |-> IF c \in Claims THEN None ELSE launched[c]]
    BY <1>5 DEF Crash
  <2> QED  BY <1>5, <2>1, <2>2, PledgesLost DEF Crash
<1>6. CASE UNCHANGED vars
  BY <1>6 DEF vars, Custody!custodyVars, Life, Closed, Doomed
<1> QED  BY <1>1, <1>2, <1>3, <1>4, <1>5, <1>6 DEF Next

\* Whenever the grace period exceeds the two delays together, Lifecycle implements Custody:
\* across restarts, lost answers and stale lists a server is launched for one NodeClaim,
\* stays on record until it is gone, and is only doomed while nobody keeps it (Create and
\* Delete of the instance provider, Reconcile of the garbage collection controller).
THEOREM KeepsCustodyAlways ==
  ASSUME PersistDelay + PassDelay < GracePeriod
  PROVE  Spec => KeepsCustody
<1>1. IInv /\ IInv' /\ [Next]_vars => [Custody!Next]_(Custody!custodyVars)
  BY CustodyStep DEF IInv
<1> QED  BY <1>1, CustodyInit, IInvAlways, PTL DEF Spec, KeepsCustody, Custody!Spec

----------------------------------------------------------------------------
(* What Custody promises is enough: the two safety properties follow from  *)
(* it alone, without the steps, the lists and the delays of Lifecycle.     *)

CustodyInv ==
  /\ Life \in [Servers -> {"unborn", "running", "gone"}]
  /\ launched \in [Claims -> Servers \cup {None}] /\ providerID \in [Claims -> Servers \cup {None}]
  /\ Doomed \subseteq Servers
  /\ \A s \in Doomed : Life[s] # "unborn" /\ ~Custody!Kept(s)
  /\ \A c \in Closed : providerID[c] # None => Life[providerID[c]] = "gone"

\* Nobody comes to keep a doomed server, and what is on record of a closed NodeClaim stays gone.
LEMMA CustodyInvStep == CustodyInv /\ [Custody!Next]_(Custody!custodyVars) => CustodyInv'
<1> SUFFICES ASSUME CustodyInv, [Custody!Next]_(Custody!custodyVars) PROVE CustodyInv'
  OBVIOUS
<1> USE LifecycleAssumption DEF CustodyInv, Custody!Kept
<1>1. ASSUME NEW C \in SUBSET Claims, Custody!Forget(C) PROVE CustodyInv'
  BY <1>1 DEF Custody!Forget
<1>2. ASSUME NEW c \in Claims, Custody!Record(c) PROVE CustodyInv'
  BY <1>2 DEF Custody!Record
<1>3. ASSUME NEW c \in Claims, Custody!Close(c) PROVE CustodyInv'
  BY <1>3 DEF Custody!Close
<1>4. ASSUME NEW c \in Claims, NEW s \in Servers, Custody!Launch(c, s) PROVE CustodyInv'
  BY <1>4 DEF Custody!Launch
<1>5. ASSUME NEW s \in Servers, Custody!Doom(s) PROVE CustodyInv'
  BY <1>5 DEF Custody!Doom
<1>6. ASSUME NEW s \in Servers, Custody!Die(s) PROVE CustodyInv'
  BY <1>6 DEF Custody!Die
<1>7. CASE UNCHANGED Custody!custodyVars
  BY <1>7 DEF Custody!custodyVars
<1> QED  BY <1>1, <1>2, <1>3, <1>4, <1>5, <1>6, <1>7 DEF Custody!Next

\* Whatever keeps custody of the servers never chooses an owned one for the collector, and
\* releases a NodeClaim after its server: the abstract specification leaves out nothing that
\* the two properties need (garbage collection Reconcile, Delete).
THEOREM CustodySuffices == KeepsCustody => [](GCSparesOwned /\ ReleasedAfterServer)
<1>1. Custody!Init => CustodyInv
  BY DEF Custody!Init, CustodyInv
<1>2. ASSUME CustodyInv PROVE GCSparesOwned
  <2>1. ASSUME NEW s \in Servers, Owned(s) PROVE Custody!Kept(s)
    BY <2>1 DEF Owned, Owns, Alive, Owner, Closed, Custody!Kept
  <2> QED  BY <1>2, <2>1 DEF CustodyInv, Doomed, GCSparesOwned
<1>3. ASSUME CustodyInv PROVE ReleasedAfterServer
  <2>1. \A s \in Servers : Life[s] = "gone" => server[s] = "gone"
    BY DEF Life
  <2> QED  BY <1>3, <2>1 DEF CustodyInv, Closed, ReleasedAfterServer
<1> QED  BY <1>1, <1>2, <1>3, CustodyInvStep, PTL DEF KeepsCustody, Custody!Spec

=============================================================================
