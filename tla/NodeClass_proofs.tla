-------------------------- MODULE NodeClass_proofs --------------------------
(***************************************************************************)
(* Theorems about NodeClass, for every set of NodeClaims, zones and specs  *)
(* and any number of edits.                                                *)
(***************************************************************************)
EXTENDS NodeClass, TLAPS

\* What resolveAvailabilityZones writes are zones of the list it works with.
LEMMA ResolvedInRegion ==
  ASSUME NEW spec, NEW zones PROVE Resolved(spec, zones) \subseteq zones
  BY DEF Resolved

\* The patch the status controller computes from a well-typed copy is well-typed.
LEMMA ComputedTypes ==
  ASSUME NEW object \in Objects, NEW answer, NEW zones \in SUBSET Zones,
         object.zones \subseteq zones, answer # None => answer \subseteq zones
  PROVE  /\ ResolvedZones(object, answer) \subseteq zones
         /\ ResolvedConditions(object, answer) \in Conditions
<1>1. ResolvedZones(object, answer) \subseteq zones
  BY ResolvedInRegion DEF ResolvedZones
<1>2. object.generation \in 0..MaxGeneration
  BY NodeClassAssumption DEF Objects
<1>3. Validation(object.spec) \in {"True", "False"}
  BY DEF Validation
<1>4. ResolvedConditions(object, answer) \in Conditions
  BY <1>2, <1>3 DEF ResolvedConditions, Conditions
<1>5. QED
  BY <1>1, <1>4

\* The controllers start in a well-typed state.
LEMMA TypeInit == Init => TypeOK
<1> SUFFICES ASSUME Init PROVE TypeOK
  OBVIOUS
<1>1. Unknown \in Conditions
  BY NodeClassAssumption DEF Unknown, Conditions
<1>2. nodeClass \in Objects /\ nodeClass.zones = {}
  BY <1>1, NodeClassAssumption DEF Init, Objects
<1>3. QED
  BY <1>2, NodeClassAssumption DEF Init, TypeOK

\* Every handler preserves the types.
LEMMA TypeStep == TypeOK /\ [Next]_vars => TypeOK'
<1> SUFFICES ASSUME TypeOK /\ [Next]_vars PROVE TypeOK'
  OBVIOUS
<1> USE NodeClassAssumption DEF TypeOK
<1>1. ASSUME NEW spec \in Specs, EditSpec(spec) PROVE TypeOK'
  <2>1. nodeClass \in Objects
    OBVIOUS
  <2>2. nodeClass.generation + 1 \in 1..MaxGeneration
    BY <1>1, <2>1 DEF EditSpec, Objects
  <2>3. nodeClass' \in Objects
    BY <1>1, <2>1, <2>2 DEF EditSpec, Objects
  <2>4. QED
    BY <1>1, <2>3 DEF EditSpec
<1>2. ASSUME DeleteNodeClass PROVE TypeOK'
  <2>1. nodeClass' \in Objects
    BY <1>2 DEF DeleteNodeClass, Objects
  <2>2. QED
    BY <1>2, <2>1 DEF DeleteNodeClass
<1>3. ASSUME SyncView PROVE TypeOK'
  BY <1>3 DEF SyncView
<1>4. ASSUME SyncClaims PROVE TypeOK'
  BY <1>4 DEF SyncClaims, Existing
<1>5. ASSUME NEW failed \in BOOLEAN, StatusRead(failed) PROVE TypeOK'
  <2> DEFINE answer == IF zoneList # None THEN zoneList ELSE IF failed THEN None ELSE region
  <2>1. view \in Objects /\ region \in SUBSET Zones
    OBVIOUS
  <2>2. answer \in Regions \cup {None} /\ (answer # None => answer \subseteq region)
    OBVIOUS
  <2>3. zoneList' = answer
    BY <1>5 DEF StatusRead
  <2>4. status' = [pc |-> "patch", failed |-> failed,
                   zones |-> ResolvedZones(view, answer),
                   zonesDiffer |-> ResolvedZones(view, answer) # view.zones,
                   conditions |-> ResolvedConditions(view, answer),
                   conditionsDiffer |-> ResolvedConditions(view, answer) # view.conditions]
    BY <1>5 DEF StatusRead
  <2> HIDE DEF answer
  <2>5. /\ ResolvedZones(view, answer) \subseteq region
        /\ ResolvedConditions(view, answer) \in Conditions
    BY <2>1, <2>2, ComputedTypes
  <2>6. status' \in Patches /\ status'.zones \subseteq region
    BY <2>1, <2>4, <2>5 DEF Patches
  <2>7. QED
    BY <1>5, <2>2, <2>3, <2>6 DEF StatusRead
<1>6. ASSUME StatusPatch PROVE TypeOK'
  <2>1. status \in Patches
    BY <1>6 DEF StatusPatch
  <2>2. nodeClass' \in Objects
    BY <1>6, <2>1 DEF StatusPatch, Objects, Patches
  <2>3. QED
    BY <1>6, <2>2 DEF StatusPatch
<1>7. ASSUME StatusPatchFails PROVE TypeOK'
  BY <1>7 DEF StatusPatchFails
<1>8. ASSUME ExpireZones PROVE TypeOK'
  BY <1>8 DEF ExpireZones
<1>9. ASSUME NEW zones \in Regions, AddZones(zones) PROVE TypeOK'
  BY <1>9 DEF AddZones
<1>10. ASSUME TerminationRead PROVE TypeOK'
  BY <1>10 DEF TerminationRead
<1>11. ASSUME TerminationList PROVE TypeOK'
  BY <1>11 DEF TerminationList
<1>12. ASSUME TerminationPatch PROVE TypeOK'
  <2>1. nodeClass' \in Objects
    BY <1>12 DEF TerminationPatch, Objects
  <2>2. QED
    BY <1>12, <2>1 DEF TerminationPatch
<1>13. ASSUME TerminationPatchFails PROVE TypeOK'
  BY <1>13 DEF TerminationPatchFails
<1>14. ASSUME NEW c \in Claims, AddClaim(c) PROVE TypeOK'
  BY <1>14 DEF AddClaim
<1>15. ASSUME NEW c \in Claims, RemoveClaim(c) PROVE TypeOK'
  BY <1>15 DEF RemoveClaim
<1>16. ASSUME NEW c \in Claims, CreateRead(c) PROVE TypeOK'
  <2>1. launch'[c] \in Creating /\ launch'[c].zones \subseteq region
    BY <1>16 DEF CreateRead, Objects, Creating
  <2>2. QED
    BY <1>16, <2>1 DEF CreateRead
<1>17. ASSUME NEW c \in Claims, CreateFails(c) PROVE TypeOK'
  BY <1>17 DEF CreateFails
<1>18. ASSUME NEW c \in Claims, NEW z \in Zones, CreateServer(c, z) PROVE TypeOK'
  <2>1. launch[c] \in Creating /\ z \in region
    BY <1>18 DEF CreateServer
  <2>2. launch'[c] \in Launched /\ launch'[c].zone \in region
    BY <1>18, <2>1 DEF CreateServer, Creating, Launched
  <2>3. QED
    BY <1>18, <2>2 DEF CreateServer
<1>19. CASE UNCHANGED vars
  BY <1>19 DEF vars
<1>20. QED
    BY <1>1, <1>2, <1>3, <1>4, <1>5, <1>6, <1>7, <1>8, <1>9, <1>10, <1>11, <1>12,
     <1>13, <1>14, <1>15, <1>16, <1>17, <1>18, <1>19 DEF Next

\* Every variable stays within its type and every zone in use is one of the region's, whatever
\* the users and the NodeClaims do (the state of the two NodeClass controllers and of Create).
THEOREM TypeCorrect == Spec => []TypeOK
  BY TypeInit, TypeStep, PTL DEF Spec

----------------------------------------------------------------------------
(* LaunchesFromAcceptedSpec.  Conditions carry the generation they are     *)
(* about; those of an old generation may be written over a newer spec, but *)
(* never claim to be about it.                                             *)

Vouches(conditions, object) ==
  Ready(conditions) = "True" /\ conditions.observed = object.generation => Accepted(object.spec)

\* What a patch under way says of the generation it was computed for still holds of it.
StatusIsSound ==
  /\ Vouches(nodeClass.conditions, nodeClass)
  /\ nodeClass.conditions.observed <= nodeClass.generation
  /\ status.pc = "patch" =>
       /\ Vouches(status.conditions, nodeClass)
       /\ status.conditions.observed <= nodeClass.generation

\* The cache holds an earlier state of the object, of the same spec if of the same generation.
ViewIsSound ==
  /\ Vouches(view.conditions, view)
  /\ view.generation <= nodeClass.generation
  /\ view.generation = nodeClass.generation => view.spec = nodeClass.spec

LaunchIsSound ==
  \A c \in Claims : claim[c] \in {"creating", "launched"} => Accepted(launch[c].spec)

AcceptedInv == StatusIsSound /\ ViewIsSound /\ LaunchIsSound

\* Conditions computed from a copy vouch for that copy's spec.
LEMMA ComputedVouches ==
  ASSUME NEW object \in Objects, NEW answer \in Regions \cup {None},
         Ready(ResolvedConditions(object, answer)) = "True"
  PROVE  Accepted(object.spec)
<1>1. answer \in Regions /\ Resolved(object.spec, answer) # {} /\ Validation(object.spec) = "True"
  BY DEF Ready, ResolvedConditions
<1>2. object.spec.labels = "valid" /\ ValidateNetworking(object.spec)
  BY <1>1 DEF Validation
<1>3. object.spec.network \in BOOLEAN /\ object.spec.nics \in Nat
  BY NodeClassAssumption DEF Objects
<1>4. Networking(object.spec) # "error" /\ object.spec.nics <= 1
  BY <1>2, <1>3 DEF Networking, ValidateNetworking
<1>5. QED
  BY <1>1, <1>2, <1>4 DEF Accepted

\* Nothing is vouched for before the first status patch.
LEMMA AcceptedInit == Init => AcceptedInv
<1> SUFFICES ASSUME Init PROVE AcceptedInv
  OBVIOUS
<1>1. nodeClass.conditions = Unknown /\ nodeClass.generation = 1 /\ view = nodeClass
  BY DEF Init
<1>2. Ready(Unknown) # "True" /\ Unknown.observed = 0
  BY DEF Ready, Unknown
<1>3. QED
  BY <1>1, <1>2 DEF Init, AcceptedInv, StatusIsSound, ViewIsSound, LaunchIsSound, Vouches

\* An edit outdates what was computed before it; a patch computed from an outdated copy
\* never passes for one of the current generation.
LEMMA StatusSoundStep == TypeOK /\ AcceptedInv /\ [Next]_vars => StatusIsSound'
<1> SUFFICES ASSUME TypeOK /\ AcceptedInv /\ [Next]_vars PROVE StatusIsSound'
  OBVIOUS
<1> USE NodeClassAssumption DEF TypeOK, AcceptedInv, StatusIsSound, ViewIsSound, Vouches
<1>1. ASSUME NEW spec \in Specs, EditSpec(spec) PROVE StatusIsSound'
  <2>1. nodeClass.generation \in Nat /\ nodeClass.conditions.observed \in Nat
    BY DEF Objects, Conditions
  <2>2. status.pc = "patch" => status.conditions.observed \in Nat
    BY DEF Patches, Conditions
  <2>3. nodeClass'.generation = nodeClass.generation + 1
        /\ nodeClass'.conditions = nodeClass.conditions /\ status' = status
    BY <1>1 DEF EditSpec, Objects
  <2>4. nodeClass'.conditions.observed < nodeClass'.generation
    BY <2>1, <2>3
  <2>5. status'.pc = "patch" => status'.conditions.observed < nodeClass'.generation
    BY <2>1, <2>2, <2>3
  <2>6. QED
    BY <2>1, <2>2, <2>3, <2>4, <2>5
<1>2. ASSUME DeleteNodeClass PROVE StatusIsSound'
  BY <1>2 DEF DeleteNodeClass, Objects
<1>3. ASSUME SyncView PROVE StatusIsSound'
  BY <1>3 DEF SyncView
<1>4. ASSUME SyncClaims PROVE StatusIsSound'
  BY <1>4 DEF SyncClaims
<1>5. ASSUME NEW failed \in BOOLEAN, StatusRead(failed) PROVE StatusIsSound'
  <2>1. PICK answer \in Regions \cup {None} :
          nodeClass' = nodeClass /\ status'.conditions = ResolvedConditions(view, answer)
    BY <1>5 DEF StatusRead
  <2>2. status'.conditions.observed = view.generation
    BY <2>1 DEF ResolvedConditions
  <2>3. Ready(status'.conditions) = "True" => Accepted(view.spec)
    BY <2>1, ComputedVouches
  <2>4. QED
    BY <2>1, <2>2, <2>3
<1>6. ASSUME StatusPatch PROVE StatusIsSound'
  <2>1. nodeClass'.spec = nodeClass.spec /\ nodeClass'.generation = nodeClass.generation
        /\ nodeClass'.conditions \in {nodeClass.conditions, status.conditions}
    BY <1>6 DEF StatusPatch, Objects
  <2>2. status'.pc # "patch" /\ status.pc = "patch"
    BY <1>6 DEF StatusPatch
  <2>3. QED
    BY <2>1, <2>2
<1>7. ASSUME StatusPatchFails PROVE StatusIsSound'
  BY <1>7 DEF StatusPatchFails
<1>8. ASSUME ExpireZones PROVE StatusIsSound'
  BY <1>8 DEF ExpireZones
<1>9. ASSUME NEW zones \in Regions, AddZones(zones) PROVE StatusIsSound'
  BY <1>9 DEF AddZones
<1>10. ASSUME TerminationRead PROVE StatusIsSound'
  BY <1>10 DEF TerminationRead
<1>11. ASSUME TerminationList PROVE StatusIsSound'
  BY <1>11 DEF TerminationList
<1>12. ASSUME TerminationPatch PROVE StatusIsSound'
  BY <1>12 DEF TerminationPatch, Objects
<1>13. ASSUME TerminationPatchFails PROVE StatusIsSound'
  BY <1>13 DEF TerminationPatchFails
<1>14. ASSUME NEW c \in Claims, AddClaim(c) PROVE StatusIsSound'
  BY <1>14 DEF AddClaim
<1>15. ASSUME NEW c \in Claims, RemoveClaim(c) PROVE StatusIsSound'
  BY <1>15 DEF RemoveClaim
<1>16. ASSUME NEW c \in Claims, CreateRead(c) PROVE StatusIsSound'
  BY <1>16 DEF CreateRead
<1>17. ASSUME NEW c \in Claims, CreateFails(c) PROVE StatusIsSound'
  BY <1>17 DEF CreateFails
<1>18. ASSUME NEW c \in Claims, NEW z \in Zones, CreateServer(c, z) PROVE StatusIsSound'
  BY <1>18 DEF CreateServer
<1>19. CASE UNCHANGED vars
  BY <1>19 DEF vars
<1>20. QED
  BY <1>1, <1>2, <1>3, <1>4, <1>5, <1>6, <1>7, <1>8, <1>9, <1>10, <1>11, <1>12,
     <1>13, <1>14, <1>15, <1>16, <1>17, <1>18, <1>19
  DEF Next

\* The cache moves to the current object as a whole, and the object's spec changes with
\* its generation only.
LEMMA ViewSoundStep == TypeOK /\ AcceptedInv /\ [Next]_vars => ViewIsSound'
<1> SUFFICES ASSUME TypeOK /\ AcceptedInv /\ [Next]_vars PROVE ViewIsSound'
  OBVIOUS
<1> USE NodeClassAssumption DEF TypeOK, AcceptedInv, StatusIsSound, ViewIsSound, Vouches
<1>1. ASSUME NEW spec \in Specs, EditSpec(spec) PROVE ViewIsSound'
  <2>1. nodeClass.generation \in Nat /\ view.generation \in Nat
    BY DEF Objects
  <2>2. nodeClass'.generation = nodeClass.generation + 1 /\ view' = view
    BY <1>1 DEF EditSpec, Objects
  <2>3. QED
    BY <2>1, <2>2
<1>2. ASSUME DeleteNodeClass PROVE ViewIsSound'
  BY <1>2 DEF DeleteNodeClass, Objects
<1>3. ASSUME SyncView PROVE ViewIsSound'
  <2>1. view' = nodeClass /\ nodeClass' = nodeClass /\ nodeClass.generation \in Nat
    BY <1>3 DEF SyncView, Objects
  <2>2. QED
    BY <2>1
<1>4. ASSUME SyncClaims PROVE ViewIsSound'
  BY <1>4 DEF SyncClaims
<1>5. ASSUME NEW failed \in BOOLEAN, StatusRead(failed) PROVE ViewIsSound'
  BY <1>5 DEF StatusRead
<1>6. ASSUME StatusPatch PROVE ViewIsSound'
  BY <1>6 DEF StatusPatch, Objects
<1>7. ASSUME StatusPatchFails PROVE ViewIsSound'
  BY <1>7 DEF StatusPatchFails
<1>8. ASSUME ExpireZones PROVE ViewIsSound'
  BY <1>8 DEF ExpireZones
<1>9. ASSUME NEW zones \in Regions, AddZones(zones) PROVE ViewIsSound'
  BY <1>9 DEF AddZones
<1>10. ASSUME TerminationRead PROVE ViewIsSound'
  BY <1>10 DEF TerminationRead
<1>11. ASSUME TerminationList PROVE ViewIsSound'
  BY <1>11 DEF TerminationList
<1>12. ASSUME TerminationPatch PROVE ViewIsSound'
  BY <1>12 DEF TerminationPatch, Objects
<1>13. ASSUME TerminationPatchFails PROVE ViewIsSound'
  BY <1>13 DEF TerminationPatchFails
<1>14. ASSUME NEW c \in Claims, AddClaim(c) PROVE ViewIsSound'
  BY <1>14 DEF AddClaim
<1>15. ASSUME NEW c \in Claims, RemoveClaim(c) PROVE ViewIsSound'
  BY <1>15 DEF RemoveClaim
<1>16. ASSUME NEW c \in Claims, CreateRead(c) PROVE ViewIsSound'
  BY <1>16 DEF CreateRead
<1>17. ASSUME NEW c \in Claims, CreateFails(c) PROVE ViewIsSound'
  BY <1>17 DEF CreateFails
<1>18. ASSUME NEW c \in Claims, NEW z \in Zones, CreateServer(c, z) PROVE ViewIsSound'
  BY <1>18 DEF CreateServer
<1>19. CASE UNCHANGED vars
  BY <1>19 DEF vars
<1>20. QED
  BY <1>1, <1>2, <1>3, <1>4, <1>5, <1>6, <1>7, <1>8, <1>9, <1>10, <1>11, <1>12,
     <1>13, <1>14, <1>15, <1>16, <1>17, <1>18, <1>19
  DEF Next

\* Create starts from a copy that is ready for its own generation, and keeps that copy.
LEMMA LaunchSoundStep == TypeOK /\ AcceptedInv /\ [Next]_vars => LaunchIsSound'
<1> SUFFICES ASSUME TypeOK /\ AcceptedInv /\ [Next]_vars PROVE LaunchIsSound'
  OBVIOUS
<1> USE DEF TypeOK, AcceptedInv, LaunchIsSound
<1>1. ASSUME NEW spec \in Specs, EditSpec(spec) PROVE LaunchIsSound'
  BY <1>1 DEF EditSpec
<1>2. ASSUME DeleteNodeClass PROVE LaunchIsSound'
  BY <1>2 DEF DeleteNodeClass
<1>3. ASSUME SyncView PROVE LaunchIsSound'
  BY <1>3 DEF SyncView
<1>4. ASSUME SyncClaims PROVE LaunchIsSound'
  BY <1>4 DEF SyncClaims
<1>5. ASSUME NEW failed \in BOOLEAN, StatusRead(failed) PROVE LaunchIsSound'
  BY <1>5 DEF StatusRead
<1>6. ASSUME StatusPatch PROVE LaunchIsSound'
  BY <1>6 DEF StatusPatch
<1>7. ASSUME StatusPatchFails PROVE LaunchIsSound'
  BY <1>7 DEF StatusPatchFails
<1>8. ASSUME ExpireZones PROVE LaunchIsSound'
  BY <1>8 DEF ExpireZones
<1>9. ASSUME NEW zones \in Regions, AddZones(zones) PROVE LaunchIsSound'
  BY <1>9 DEF AddZones
<1>10. ASSUME TerminationRead PROVE LaunchIsSound'
  BY <1>10 DEF TerminationRead
<1>11. ASSUME TerminationList PROVE LaunchIsSound'
  BY <1>11 DEF TerminationList
<1>12. ASSUME TerminationPatch PROVE LaunchIsSound'
  BY <1>12 DEF TerminationPatch
<1>13. ASSUME TerminationPatchFails PROVE LaunchIsSound'
  BY <1>13 DEF TerminationPatchFails
<1>14. ASSUME NEW c \in Claims, AddClaim(c) PROVE LaunchIsSound'
  BY <1>14 DEF AddClaim
<1>15. ASSUME NEW c \in Claims, RemoveClaim(c) PROVE LaunchIsSound'
  BY <1>15 DEF RemoveClaim
<1>16. ASSUME NEW c \in Claims, CreateRead(c) PROVE LaunchIsSound'
  <2>1. Accepted(view.spec)
    BY <1>16 DEF CreateRead, Launchable, ViewIsSound, Vouches
  <2>2. launch'[c].spec = view.spec
    BY <1>16 DEF CreateRead
  <2>3. QED
    BY <1>16, <2>1, <2>2 DEF CreateRead
<1>17. ASSUME NEW c \in Claims, CreateFails(c) PROVE LaunchIsSound'
  BY <1>17 DEF CreateFails
<1>18. ASSUME NEW c \in Claims, NEW z \in Zones, CreateServer(c, z) PROVE LaunchIsSound'
  <2>1. launch'[c].spec = launch[c].spec
    BY <1>18 DEF CreateServer
  <2>2. QED
    BY <1>18, <2>1 DEF CreateServer
<1>19. CASE UNCHANGED vars
  BY <1>19 DEF vars
<1>20. QED
  BY <1>1, <1>2, <1>3, <1>4, <1>5, <1>6, <1>7, <1>8, <1>9, <1>10, <1>11, <1>12,
     <1>13, <1>14, <1>15, <1>16, <1>17, <1>18, <1>19
  DEF Next

\* Every server is launched from a spec whose zones exist and whose labels and networking
\* are valid (LaunchesFromAcceptedSpec, CloudProvider.Create), although no write of the
\* status is checked against the version it was computed from.
THEOREM LaunchesFromAcceptedSpecAlways == Spec => []LaunchesFromAcceptedSpec
<1>1. TypeOK /\ AcceptedInv /\ [Next]_vars => AcceptedInv'
  BY StatusSoundStep, ViewSoundStep, LaunchSoundStep DEF AcceptedInv
<1>2. AcceptedInv => LaunchesFromAcceptedSpec
  BY DEF AcceptedInv, LaunchIsSound, LaunchesFromAcceptedSpec
<1>3. QED
  BY AcceptedInit, TypeCorrect, <1>1, <1>2, PTL DEF Spec

----------------------------------------------------------------------------
(* OutlivesOwned.  It rests on one cache serving all controllers: the      *)
(* cache that shows no NodeClaim shows the deletion as well.               *)

Owned ==
  {c \in Claims : claim[c] \in {"creating", "launched"} /\ launch[c].owned}

\* Once the termination controller decided to let go, no Create finds the finalizer.
RemovalInv ==
  /\ Owned \subseteq seenClaims
  /\ view.deleted => nodeClass.deleted
  /\ termination = "remove" => view.deleted
  /\ nodeClass.finalizer => nodeClass.exists
  /\ view.finalizer /\ ~view.deleted => nodeClass.finalizer
  /\ Owned # {} => nodeClass.finalizer /\ termination # "remove"

\* Nothing is launched yet.
LEMMA RemovalInit == Init => RemovalInv
  BY DEF Init, RemovalInv, Owned

\* Only an empty list of NodeClaims, read after the deletion was seen, lets go.
LEMMA RemovalStep == TypeOK /\ RemovalInv /\ [Next]_vars => RemovalInv'
<1> SUFFICES ASSUME TypeOK /\ RemovalInv /\ [Next]_vars PROVE RemovalInv'
  OBVIOUS
<1> USE DEF TypeOK, RemovalInv, Owned
<1>1. ASSUME NEW spec \in Specs, EditSpec(spec) PROVE RemovalInv'
  BY <1>1 DEF EditSpec, Objects
<1>2. ASSUME DeleteNodeClass PROVE RemovalInv'
  BY <1>2 DEF DeleteNodeClass, Objects
<1>3. ASSUME SyncView PROVE RemovalInv'
  BY <1>3 DEF SyncView
<1>4. ASSUME SyncClaims PROVE RemovalInv'
  BY <1>4 DEF SyncClaims, Existing
<1>5. ASSUME NEW failed \in BOOLEAN, StatusRead(failed) PROVE RemovalInv'
  BY <1>5 DEF StatusRead
<1>6. ASSUME StatusPatch PROVE RemovalInv'
  BY <1>6 DEF StatusPatch, Objects
<1>7. ASSUME StatusPatchFails PROVE RemovalInv'
  BY <1>7 DEF StatusPatchFails
<1>8. ASSUME ExpireZones PROVE RemovalInv'
  BY <1>8 DEF ExpireZones
<1>9. ASSUME NEW zones \in Regions, AddZones(zones) PROVE RemovalInv'
  BY <1>9 DEF AddZones
<1>10. ASSUME TerminationRead PROVE RemovalInv'
  BY <1>10 DEF TerminationRead
<1>11. ASSUME TerminationList PROVE RemovalInv'
  BY <1>11 DEF TerminationList
<1>12. ASSUME TerminationPatch PROVE RemovalInv'
  BY <1>12 DEF TerminationPatch, Objects
<1>13. ASSUME TerminationPatchFails PROVE RemovalInv'
  BY <1>13 DEF TerminationPatchFails
<1>14. ASSUME NEW c \in Claims, AddClaim(c) PROVE RemovalInv'
  BY <1>14 DEF AddClaim
<1>15. ASSUME NEW c \in Claims, RemoveClaim(c) PROVE RemovalInv'
  BY <1>15 DEF RemoveClaim
<1>16. ASSUME NEW c \in Claims, CreateRead(c) PROVE RemovalInv'
  BY <1>16 DEF CreateRead, Launchable
<1>17. ASSUME NEW c \in Claims, CreateFails(c) PROVE RemovalInv'
  BY <1>17 DEF CreateFails
<1>18. ASSUME NEW c \in Claims, NEW z \in Zones, CreateServer(c, z) PROVE RemovalInv'
  BY <1>18 DEF CreateServer
<1>19. CASE UNCHANGED vars
  BY <1>19 DEF vars
<1>20. QED
  BY <1>1, <1>2, <1>3, <1>4, <1>5, <1>6, <1>7, <1>8, <1>9, <1>10, <1>11, <1>12,
     <1>13, <1>14, <1>15, <1>16, <1>17, <1>18, <1>19
  DEF Next

\* A NodeClass outlives every server launched from a copy of it that has the finalizer
\* (OutlivesOwned, the termination controller), for any number of NodeClaims.
THEOREM OutlivesOwnedAlways == Spec => []OutlivesOwned
<1>1. RemovalInv => OutlivesOwned
  BY DEF RemovalInv, Owned, OutlivesOwned
<1>2. QED
  BY TypeCorrect, RemovalInit, RemovalStep, <1>1, PTL DEF Spec

----------------------------------------------------------------------------
(* StaysSettled.                                                           *)

\* What a pass computes from a copy that is right, and from a list that is right or failed,
\* is right.
LEMMA ComputedRight ==
  ASSUME Settled, NEW answer \in {region, None}
  PROVE  /\ ResolvedZones(view, answer) = Resolved(nodeClass.spec, region)
         /\ ResolvedConditions(view, answer) \in RightConditions
<1>1. view.zones = Resolved(nodeClass.spec, region)
  BY DEF Settled
<1>2. ResolvedZones(view, answer) = Resolved(nodeClass.spec, region)
  BY <1>1 DEF Settled, ResolvedZones
<1>3. ResolvedConditions(view, answer) = ResolvedConditions(nodeClass, answer)
  BY DEF Settled, ResolvedConditions, Resolved, Validation
<1> QED  BY <1>2, <1>3 DEF RightConditions

\* Caches that catch up or expire and patches that are given up disturb nothing.
LEMMA ElsewhereSettled ==
  ASSUME Settled, UNCHANGED <<nodeClass, region>>, view' \in {view, nodeClass},
         zoneList' \in {None, zoneList}, status' \in {status, [pc |-> "idle"]}
  PROVE  Settled'
<1>1. RightConditions' = RightConditions
  BY DEF RightConditions
<1>2. /\ view'.spec = nodeClass.spec /\ view'.generation = nodeClass.generation
      /\ {nodeClass.zones, view'.zones} = {Resolved(nodeClass.spec, region)}
  BY DEF Settled
<1>3. status'.pc = "patch" =>
        /\ status'.zonesDiffer => status'.zones = Resolved(nodeClass.spec, region)
        /\ status'.conditionsDiffer => status'.conditions \in RightConditions
  BY DEF Settled
<1> QED  BY <1>1, <1>2, <1>3 DEF Settled

\* Without an edit and a new zone, what is right is computed, written and kept.
LEMMA SettledStep ==
  TypeOK /\ Settled /\ [Next]_vars /\ nodeClass'.spec = nodeClass.spec /\ region' = region
    => Settled'
<1> SUFFICES ASSUME TypeOK, Settled, [Next]_vars, nodeClass'.spec = nodeClass.spec,
                    region' = region
             PROVE  Settled'
  OBVIOUS
<1>1. ASSUME NEW spec \in Specs, EditSpec(spec) PROVE FALSE
  BY <1>1 DEF EditSpec, TypeOK, Objects
<1>2. ASSUME NEW zones \in Regions, AddZones(zones) PROVE FALSE
  BY <1>2 DEF AddZones
<1>3. CASE DeleteNodeClass \/ TerminationPatch
  <2>1. UNCHANGED <<view, region, zoneList, status>>
    BY <1>3 DEF DeleteNodeClass, TerminationPatch
  <2>2. /\ nodeClass'.generation = nodeClass.generation
        /\ nodeClass'.zones = nodeClass.zones /\ nodeClass'.conditions = nodeClass.conditions
    BY <1>3 DEF DeleteNodeClass, TerminationPatch, TypeOK, Objects
  <2>3. RightConditions' = RightConditions
    BY <2>1, <2>2 DEF RightConditions, ResolvedConditions
  <2> QED  BY <2>1, <2>2, <2>3 DEF Settled
<1>4. CASE SyncView \/ SyncClaims \/ ExpireZones \/ StatusPatchFails
  BY <1>4, ElsewhereSettled DEF SyncView, SyncClaims, ExpireZones, StatusPatchFails
<1>5. ASSUME NEW failed \in BOOLEAN, StatusRead(failed) PROVE Settled'
  <2>1. PICK answer \in {region, None} :
          /\ zoneList' = answer
          /\ status'.zones = ResolvedZones(view, answer)
          /\ status'.conditions = ResolvedConditions(view, answer)
    BY <1>5 DEF StatusRead, Settled
  <2>2. RightConditions' = RightConditions
    BY <1>5 DEF StatusRead, RightConditions
  <2> QED  BY <1>5, <2>1, <2>2, ComputedRight DEF StatusRead, Settled
<1>6. CASE StatusPatch
  <2>1. /\ nodeClass'.generation = nodeClass.generation
        /\ nodeClass'.zones \in {nodeClass.zones, Resolved(nodeClass.spec, region)}
        /\ nodeClass'.conditions \in RightConditions
    BY <1>6 DEF StatusPatch, Settled, TypeOK, Objects
  <2>2. RightConditions' = RightConditions
    BY <2>1 DEF RightConditions, ResolvedConditions
  <2> QED  BY <1>6, <2>1, <2>2 DEF StatusPatch, Settled
<1>7. ASSUME UNCHANGED <<nodeClass, view, region, zoneList, status>> PROVE Settled'
  BY <1>7, ElsewhereSettled
<1>8. CASE TerminationRead \/ TerminationList \/ TerminationPatchFails
  BY <1>7, <1>8 DEF TerminationRead, TerminationList, TerminationPatchFails
<1>9. ASSUME NEW c \in Claims,
             \/ AddClaim(c) \/ RemoveClaim(c) \/ CreateRead(c) \/ CreateFails(c)
             \/ \E z \in Zones : CreateServer(c, z)
      PROVE  Settled'
  BY <1>7, <1>9 DEF AddClaim, RemoveClaim, CreateRead, CreateFails, CreateServer
<1>10. CASE UNCHANGED vars
  BY <1>7, <1>10 DEF vars
<1> QED
  BY <1>1, <1>2, <1>3, <1>4, <1>5, <1>6, <1>8, <1>9, <1>10 DEF Next

\* A right status is disturbed by edits and new zones only (nodeclass.status), for any number
\* of specs, zones and edits, and whatever fails.
THEOREM StaysSettledAlways == Spec => StaysSettled
<1>1. TypeOK /\ [Next]_vars =>
        [Settled /\ nodeClass'.spec = nodeClass.spec /\ region' = region => Settled']_vars
  BY SettledStep
<1> QED  BY <1>1, TypeCorrect, PTL DEF Spec, StaysSettled

=============================================================================
