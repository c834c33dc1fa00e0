---------------------------- MODULE Drift_proofs ----------------------------
(***************************************************************************)
(* Theorems about Drift, for any NodeClaims, zones and specs and any       *)
(* number of edits and restarts.                                           *)
(***************************************************************************)
EXTENDS Drift, TLAPS

USE DriftAssumption

LEMMA HashType ==
  ASSUME NEW version \in {"old", "new"}, NEW spec \in Specs
  PROVE  Hash(version, spec) \in Hashes /\ Hash(version, spec) # None
BY DEF Hash, Hashes

LEMMA TypeInit == Init => TypeOK
<1> SUFFICES ASSUME Init PROVE TypeOK
  OBVIOUS
<1>1. nodeClass \in Objects
  BY HashType DEF Init, Objects, Versions
<1>2. claim \in [Claims -> {"absent", "launched"}] /\ server \in [Claims -> Servers \cup {None}]
  BY DEF Init, Servers
<1>3. \A c \in Claims : claim[c] = "launched" => server[c] \in Servers
  BY <1>2 DEF Init, Servers
<1>4. \A c \in Claims :
        IF claim[c] = "absent" THEN marks[c] = None
        ELSE /\ marks[c] \in Annotations
             /\ None \notin {marks[c].hash, marks[c].version}
  BY <1>2, <1>3, HashType DEF Init, Annotations, Servers, Versions
<1>5. marks \in [Claims -> Annotations \cup {None}]
  BY <1>4 DEF Init
<1>6. view \in Objects /\ seen \in [Claims -> Annotations \cup {None}]
  BY <1>1, <1>5 DEF Init
<1>7. calm \in BOOLEAN
  BY Zenon DEF Init, SameServers
<1>10. pass \in [pc : {"idle"}] /\ edits \in 0..MaxEdits /\ restarts \in 0..MaxRestarts
  BY DEF Init
<1>8. claim \in [Claims -> {"absent", "pending", "creating", "launched", "gone"}]
  BY <1>2
<1>9. ASSUME NEW c \in Claims
      PROVE  /\ IF claim[c] \in {"absent", "gone"} THEN marks[c] = None ELSE marks[c] \in Annotations
             /\ claim[c] \in {"creating", "launched"} => server[c] \in Servers
             /\ claim[c] = "launched" => None \notin {marks[c].hash, marks[c].version}
  <2>1. claim[c] \in {"absent", "launched"}
    BY <1>2
  <2> QED
    BY <2>1, <1>3, <1>4
<1> QED
  BY <1>1, <1>2, <1>5, <1>6, <1>7, <1>8, <1>9, <1>10 DEF TypeOK

\* Re-stamping a NodeClaim leaves its annotations well-typed.
LEMMA StampedType ==
  ASSUME TypeOK, NEW c \in Claims, marks[c] \in Annotations,
         NEW hash \in Hashes \cup {None}
  PROVE  /\ Stamped(c, hash) \in [Claims -> Annotations \cup {None}]
         /\ Stamped(c, hash)[c] = [hash |-> hash, version |-> Current, drifted |-> marks[c].drifted]
         /\ \A d \in Claims \ {c} : Stamped(c, hash)[d] = marks[d]
BY DEF TypeOK, Stamped, Annotations, Versions, Current

\* Every step preserves the types.
LEMMA TypeStep == TypeOK /\ [Next]_vars => TypeOK'
<1> SUFFICES ASSUME TypeOK, [Next]_vars PROVE TypeOK'
  OBVIOUS
<1> DEFINE Local(c) ==
      /\ IF claim[c] \in {"absent", "gone"} THEN marks[c] = None ELSE marks[c] \in Annotations
      /\ claim[c] \in {"creating", "launched"} => server[c] \in Servers
      /\ claim[c] = "launched" => None \notin {marks[c].hash, marks[c].version}
<1>1. ASSUME NEW spec \in Specs, EditSpec(spec) PROVE TypeOK'
  <2>1. nodeClass' \in Objects
    BY <1>1 DEF EditSpec, TypeOK, Objects
  <2>2. edits' \in 0..MaxEdits
    BY <1>1 DEF EditSpec, TypeOK
  <2>3. calm' \in BOOLEAN
    BY <1>1, Zenon DEF EditSpec, TypeOK, SameServers
  <2> QED
    BY <1>1, <2>1, <2>2, <2>3 DEF EditSpec, TypeOK
<1>2. CASE SyncView
  BY <1>2 DEF SyncView, TypeOK
<1>3. CASE ResolveZones
  <2>1. nodeClass' \in Objects
    BY <1>3 DEF ResolveZones, TypeOK, Objects
  <2> QED
    BY <1>3, <2>1 DEF ResolveZones, TypeOK
<1>4. CASE Restart
  <2>1. restarts' \in 0..MaxRestarts
    BY <1>4 DEF Restart, TypeOK
  <2>2. claim' \in [Claims -> {"absent", "pending", "creating", "launched", "gone"}]
    BY <1>4 DEF Restart, TypeOK
  <2>3. server' \in [Claims -> Servers \cup {None}]
    BY <1>4 DEF Restart, TypeOK
  <2>4. ASSUME NEW c \in Claims PROVE Local(c)'
    <3>1. CASE claim[c] = "creating"
      BY <1>4, <3>1 DEF Restart, TypeOK
    <3>2. CASE claim[c] # "creating"
      BY <1>4, <3>2 DEF Restart, TypeOK
    <3> QED
      BY <3>1, <3>2
  <2> QED
    BY <1>4, <2>1, <2>2, <2>3, <2>4 DEF Restart, TypeOK
<1>5. CASE HashRead
  <2>1. pass' \in Passes
    BY <1>5 DEF HashRead, Pass, Stale, Passes, TypeOK
  <2> QED
    BY <1>5, <2>1 DEF HashRead, TypeOK
<1>6. CASE PassFails
  BY <1>6 DEF PassFails, TypeOK
<1>7. CASE HashPatch
  <2>1. pass \in Passes
    BY <1>7 DEF HashPatch, TypeOK
  <2>2. Hash(Current, pass.object.spec) \in Hashes
    BY <2>1, HashType DEF Passes, Objects, Current
  <2>3. nodeClass' \in Objects
    BY <1>7, <2>1, <2>2 DEF HashPatch, Patched, TypeOK, Objects, Versions, Current
  <2> QED
    BY <1>7, <2>3 DEF HashPatch, TypeOK
<1>8. CASE HashPatchFails
  BY <1>8 DEF HashPatchFails, TypeOK
<1>9. ASSUME NEW c \in Claims, SyncClaim(c) PROVE TypeOK'
  <2>1. seen' \in [Claims -> Annotations \cup {None}]
    BY <1>9 DEF SyncClaim, TypeOK
  <2> QED
    BY <1>9, <2>1 DEF SyncClaim, TypeOK
<1>10. ASSUME NEW c \in Claims, Stamp(c) PROVE TypeOK'
  <2>1. pass \in Passes
    BY <1>10 DEF Stamp, TypeOK
  <2>2. pass' \in Passes
    BY <1>10, <2>1 DEF Stamp, Passes
  <2>3. CASE marks[c] = None
    BY <1>10, <2>2, <2>3 DEF Stamp, TypeOK
  <2>4. CASE marks[c] # None
    <3> DEFINE hash == IF c \in pass.known THEN marks[c].hash ELSE Hash(Current, pass.object.spec)
    <3>1. marks[c] \in Annotations
      BY <2>4 DEF TypeOK
    <3>2. Hash(Current, pass.object.spec) \in Hashes /\ Hash(Current, pass.object.spec) # None
      BY <2>1, HashType DEF Passes, Objects, Current
    <3>3. hash \in Hashes \cup {None}
      BY <3>1, <3>2 DEF Annotations
    <3>4. marks' = Stamped(c, hash)
      BY <1>10, <2>4 DEF Stamp
    <3> HIDE DEF hash
    <3>5. marks' \in [Claims -> Annotations \cup {None}]
      BY <3>1, <3>3, <3>4, StampedType
    <3>6. /\ marks'[c] = [hash |-> hash, version |-> Current, drifted |-> marks[c].drifted]
          /\ \A d \in Claims \ {c} : marks'[d] = marks[d]
      BY <3>1, <3>3, <3>4, StampedType
    <3>7. ASSUME NEW d \in Claims PROVE Local(d)'
      <4>1. CASE d # c
        BY <1>10, <4>1, <3>6 DEF Stamp, TypeOK
      <4>2. CASE d = c
        <5>1. marks'[c] \in Annotations
          BY <3>1, <3>3, <3>6 DEF Annotations, Versions, Current
        <5>2. claim[c] \notin {"absent", "gone"}
          BY <2>4 DEF TypeOK
        <5>3. claim[c] = "launched" => None \notin {marks'[c].hash, marks'[c].version}
          BY <3>2, <3>6 DEF TypeOK, hash, Current
        <5> QED
          BY <1>10, <4>2, <5>1, <5>2, <5>3 DEF Stamp, TypeOK
      <4> QED
        BY <4>1, <4>2
    <3> QED
      BY <1>10, <2>2, <3>5, <3>7 DEF Stamp, TypeOK
  <2> QED
    BY <2>3, <2>4
<1>11. ASSUME NEW c \in Claims, StampFails(c) PROVE TypeOK'
  <2>1. pass \in Passes
    BY <1>11 DEF StampFails, TypeOK
  <2>2. pass' \in Passes
    BY <1>11, <2>1 DEF StampFails, Passes
  <2> QED
    BY <1>11, <2>2 DEF StampFails, TypeOK
<1>12. ASSUME NEW c \in Claims, AddClaim(c) PROVE TypeOK'
  <2>1. Blank \in Annotations
    BY DEF Blank, Annotations, Versions
  <2> QED
    BY <1>12, <2>1 DEF AddClaim, TypeOK
<1>13. ASSUME NEW c \in Claims, RemoveClaim(c) PROVE TypeOK'
  BY <1>13 DEF RemoveClaim, TypeOK
<1>14. ASSUME NEW c \in Claims, NEW zone \in Zones, Create(c, zone) PROVE TypeOK'
  <2>1. [from |-> view.spec, zone |-> zone, flagged |-> FALSE] \in Servers
    BY DEF TypeOK, Objects, Servers
  <2> QED
    BY <1>14, <2>1 DEF Create, TypeOK
<1>15. ASSUME NEW c \in Claims, Persist(c) PROVE TypeOK'
  <2> DEFINE hash == Hash(Current, server[c].from)
  <2>1. server[c] \in Servers /\ marks[c] \in Annotations
    BY <1>15 DEF Persist, TypeOK
  <2>2. hash \in Hashes /\ hash # None
    BY <2>1, HashType DEF Servers, Current
  <2>3. marks' = Stamped(c, hash)
    BY <1>15 DEF Persist, CreatedMarks
  <2> HIDE DEF hash
  <2>4. marks' \in [Claims -> Annotations \cup {None}]
    BY <2>1, <2>2, <2>3, StampedType
  <2>5. /\ marks'[c] = [hash |-> hash, version |-> Current, drifted |-> marks[c].drifted]
        /\ \A d \in Claims \ {c} : marks'[d] = marks[d]
    BY <2>1, <2>2, <2>3, StampedType
  <2>6. marks'[c] \in Annotations /\ None \notin {marks'[c].hash, marks'[c].version}
    BY <2>1, <2>2, <2>5 DEF Annotations, Versions, Current
  <2>7. ASSUME NEW d \in Claims PROVE Local(d)'
    BY <1>15, <2>1, <2>5, <2>6 DEF Persist, TypeOK
  <2> QED
    BY <1>15, <2>4, <2>7 DEF Persist, TypeOK
<1>16. ASSUME NEW c \in Claims, NEW read \in BOOLEAN, DriftCheck(c, read) PROVE TypeOK'
  <2>1. marks[c] \in Annotations
    BY <1>16 DEF DriftCheck, TypeOK
  <2>2. marks'[c] = [marks[c] EXCEPT !.drifted = ~@] /\ \A d \in Claims \ {c} : marks'[d] = marks[d]
    BY <1>16 DEF DriftCheck, TypeOK
  <2>3. /\ marks'[c] \in Annotations
        /\ marks'[c].hash = marks[c].hash /\ marks'[c].version = marks[c].version
    BY <2>1, <2>2 DEF Annotations
  <2>4. marks' \in [Claims -> Annotations \cup {None}]
    BY <1>16, <2>2, <2>3 DEF DriftCheck, TypeOK
  <2>5. ASSUME NEW d \in Claims PROVE Local(d)'
    BY <1>16, <2>2, <2>3 DEF DriftCheck, TypeOK
  <2> QED
    BY <1>16, <2>4, <2>5 DEF DriftCheck, TypeOK
<1>17. CASE UNCHANGED vars
  BY <1>17 DEF vars, TypeOK
<1> QED
  BY <1>1, <1>2, <1>3, <1>4, <1>5, <1>6, <1>7, <1>8, <1>9, <1>10, <1>11, <1>12, <1>13,
     <1>14, <1>15, <1>16, <1>17 DEF Next

\* Through an upgrade, edits, lagging caches, failed patches and restarts every variable keeps
\* its type, and a launched NodeClaim has both annotations (Create, updateNodeClaimHash).
THEOREM TypeCorrect == Spec => []TypeOK
<1> QED
  BY TypeInit, TypeStep, PTL DEF Spec

----------------------------------------------------------------------------
(* While calm, every spec in use has the zones and the image of the        *)
(* present one, so that a hash says which version computed it and no more. *)

\* The zones and the annotations of a copy of the NodeClass are those its spec calls for.
InStep(object) ==
  /\ SameServers(object.spec, nodeClass.spec)
  /\ object.zones \in {{}, nodeClass.spec.zones}
  /\ object.hash = IF object.version = None THEN None
                   ELSE Hash(object.version, nodeClass.spec)

\* Annotations of a NodeClaim whose server, if any, is of the present spec.
Undrifted(annotations) ==
  /\ ~annotations.drifted
  /\ annotations.version # None => annotations.hash = Hash(annotations.version, nodeClass.spec)

\* NodeClaims without a server, and those whose server is of the present spec.
Fresh(c) ==
  \/ claim[c] \in {"absent", "pending", "creating"}
  \/ claim[c] = "launched" /\ SameServers(server[c].from, nodeClass.spec)

FreshInv(c) ==
  /\ claim[c] # "absent" => Undrifted(marks[c])
  /\ seen[c] # None => Undrifted(seen[c])
  /\ pass.pc = "stamp" => c \notin pass.known
  /\ claim[c] \in {"creating", "launched"} =>
       SameServers(server[c].from, nodeClass.spec) /\ server[c].zone \in nodeClass.spec.zones

\* The inductive invariant.
CalmInv ==
  calm => /\ InStep(nodeClass) /\ InStep(view)
          /\ pass.pc = "stamp" => InStep(pass.object)
          /\ \A c \in Claims : Fresh(c) => FreshInv(c)

LEMMA SameHash ==
  ASSUME NEW version, NEW a, NEW b, SameServers(a, b)
  PROVE  Hash(version, a) = Hash(version, b)
BY DEF SameServers, Hash

\* IsDrifted reports nothing about such a NodeClaim.
LEMMA NotDrifted ==
  ASSUME CalmInv, calm, NEW c \in Claims, claim[c] = "launched", Fresh(c),
         seen[c] = marks[c], NEW read \in BOOLEAN
  PROVE  ~IsDrifted(c, read)
<1>1. InStep(view) /\ FreshInv(c)
  BY DEF CalmInv
<1>2. ~StaticFieldsDrifted(view, seen[c])
  BY <1>1 DEF InStep, FreshInv, Undrifted, StaticFieldsDrifted
<1>3. ~ZoneDrifted(view, server[c].zone)
  BY <1>1 DEF InStep, FreshInv, ZoneDrifted
<1> QED
  BY <1>2, <1>3 DEF IsDrifted

LEMMA CalmInit == Init => CalmInv
<1> SUFFICES ASSUME Init, calm PROVE CalmInv
  BY DEF CalmInv
<1>1. PICK spec \in Specs, stamped \in Specs :
       \/ /\ nodeClass = [spec |-> spec, zones |-> stamped.zones,
                          hash |-> Hash("old", stamped), version |-> "old"]
          /\ calm = SameServers(spec, stamped)
          /\ claim \in [Claims -> {"absent", "launched"}]
          /\ server \in [Claims -> {None} \cup [from : Specs, zone : Zones, flagged : BOOLEAN]]
          /\ \A c \in Claims :
               /\ claim[c] = "absent" <=> server[c] = None
               /\ claim[c] = "launched" =>
                    /\ server[c].zone \in server[c].from.zones
                    /\ server[c].flagged => ~SameServers(server[c].from, stamped)
       \/ /\ nodeClass = [spec |-> spec, zones |-> {}, hash |-> None, version |-> None]
          /\ calm = TRUE
          /\ claim = [c \in Claims |-> "absent"]
          /\ server = [c \in Claims |-> None]
  BY Zenon DEF Init
<1>2. view = nodeClass /\ seen = marks /\ pass.pc = "idle"
  BY DEF Init
<1>5. \/ /\ nodeClass = [spec |-> spec, zones |-> stamped.zones,
                         hash |-> Hash("old", stamped), version |-> "old"]
         /\ SameServers(spec, stamped)
         /\ \A c \in Claims : claim[c] = "launched" =>
              /\ server[c].zone \in server[c].from.zones
              /\ server[c].flagged => ~SameServers(server[c].from, stamped)
      \/ /\ nodeClass = [spec |-> spec, zones |-> {}, hash |-> None, version |-> None]
         /\ claim = [c \in Claims |-> "absent"]
  BY <1>1, Zenon
<1>6. \A c \in Claims : claim[c] \in {"absent", "launched"}
  BY <1>1
<1>3. InStep(nodeClass)
  BY <1>5 DEF InStep, SameServers, Hash
<1>4. ASSUME NEW c \in Claims, Fresh(c) PROVE FreshInv(c)
  <2>1. CASE claim[c] = "absent"
    BY <1>2, <2>1 DEF FreshInv, Init
  <2>2. CASE claim[c] = "launched"
    <3>1. SameServers(server[c].from, nodeClass.spec)
      BY <1>4, <2>2 DEF Fresh
    <3>2. SameServers(nodeClass.spec, stamped) /\ ~server[c].flagged
          /\ server[c].zone \in nodeClass.spec.zones
      <4>1. CASE claim = [d \in Claims |-> "absent"]
        BY <2>2, <4>1
      <4>2. CASE claim # [d \in Claims |-> "absent"]
        BY <1>5, <2>2, <3>1, <4>2 DEF SameServers
      <4> QED
        BY <4>1, <4>2
    <3>3. marks[c] = [hash |-> Hash("old", server[c].from), version |-> "old",
                      drifted |-> server[c].flagged]
      BY <2>2 DEF Init
    <3>4. Undrifted(marks[c])
      BY <3>1, <3>2, <3>3, SameHash DEF Undrifted
    <3> QED
      BY <1>2, <2>2, <3>1, <3>2, <3>4 DEF FreshInv
  <2> QED
    BY <1>6, <2>1, <2>2
<1> QED
  BY <1>2, <1>3, <1>4 DEF CalmInv

\* An edit that keeps the zones and the image keeps the hashes.
LEMMA CalmEdit == ASSUME TypeOK, CalmInv, NEW spec \in Specs, EditSpec(spec) PROVE CalmInv'
<1> SUFFICES ASSUME calm' PROVE CalmInv'
  BY DEF CalmInv
<1>1. calm /\ SameServers(spec, nodeClass.spec)
  BY Zenon DEF EditSpec
<1>2. SameServers(nodeClass.spec, spec) /\ nodeClass'.spec = spec
  BY <1>1 DEF EditSpec, SameServers, TypeOK, Objects
<1>3. nodeClass' = [nodeClass EXCEPT !.spec = spec]
  BY DEF EditSpec
<1>4. UNCHANGED <<view, pass, claim, marks, seen, server>>
  BY DEF EditSpec
<1>5. \A s : SameServers(s, nodeClass'.spec) <=> SameServers(s, nodeClass.spec)
  BY <1>2 DEF SameServers
<1>6. nodeClass'.spec.zones = nodeClass.spec.zones
      /\ \A version : Hash(version, nodeClass'.spec) = Hash(version, nodeClass.spec)
  BY <1>2, SameHash DEF SameServers
<1> QED
  BY <1>1, <1>3, <1>4, <1>5, <1>6 DEF CalmInv, InStep, Fresh, FreshInv, Undrifted, TypeOK, Objects

\* What a pass writes is the hash of a spec with the present zones and image.
LEMMA PassHash ==
  ASSUME CalmInv, calm, pass.pc = "stamp"
  PROVE  Hash(Current, pass.object.spec) = Hash(Current, nodeClass.spec)
BY SameHash DEF CalmInv, InStep

\* A step that changes one NodeClaim, and neither the NodeClass nor what was read of it,
\* has to establish the invariant of that NodeClaim only.
LEMMA CalmOne ==
  ASSUME CalmInv, calm, NEW c \in Claims, UNCHANGED <<nodeClass, view>>,
         \/ pass' = pass
         \/ /\ pass.pc = "stamp" /\ pass'.pc = "stamp"
            /\ pass'.object = pass.object /\ pass'.known = pass.known,
         \A d \in Claims \ {c} : /\ claim'[d] = claim[d] /\ marks'[d] = marks[d]
                                  /\ seen'[d] = seen[d] /\ server'[d] = server[d],
         Fresh(c)' => FreshInv(c)'
  PROVE  CalmInv'
<1>1. ASSUME NEW d \in Claims, d # c, Fresh(d)' PROVE FreshInv(d)'
  <2>1. Fresh(d) /\ FreshInv(d)
    BY <1>1 DEF CalmInv, Fresh
  <2> QED
    BY <1>1, <2>1 DEF FreshInv, Undrifted
<1>2. InStep(nodeClass)' /\ InStep(view)' /\ (pass'.pc = "stamp" => InStep(pass.object)')
  BY DEF CalmInv, InStep
<1> QED
  BY <1>1, <1>2 DEF CalmInv, InStep

LEMMA CalmStep == TypeOK /\ CalmInv /\ [Next]_vars => CalmInv'
<1> SUFFICES ASSUME TypeOK, CalmInv, [Next]_vars PROVE CalmInv'
  OBVIOUS
<1>1. ASSUME NEW spec \in Specs, EditSpec(spec) PROVE CalmInv'
  BY <1>1, CalmEdit
<1>2. CASE SyncView
  BY <1>2 DEF SyncView, CalmInv, InStep, Fresh, FreshInv, Undrifted
<1>3. CASE ResolveZones
  <2>1. nodeClass' = [nodeClass EXCEPT !.zones = view.spec.zones] /\ nodeClass \in Objects
    BY <1>3 DEF ResolveZones, TypeOK
  <2>2. calm => view.spec.zones = nodeClass.spec.zones
    BY DEF CalmInv, InStep, SameServers
  <2>3. calm => InStep(nodeClass)'
    BY <2>1, <2>2 DEF CalmInv, InStep, Objects, SameServers
  <2> QED
    BY <1>3, <2>1, <2>3
    DEF ResolveZones, CalmInv, InStep, Fresh, FreshInv, Undrifted, Objects
<1>4. CASE Restart
  <2> SUFFICES ASSUME calm' PROVE CalmInv'
    BY DEF CalmInv
  <2>1. calm /\ UNCHANGED <<nodeClass, marks>> /\ view' = nodeClass /\ seen' = marks /\ pass'.pc = "idle"
    BY <1>4 DEF Restart
  <2>2. ASSUME NEW c \in Claims, Fresh(c)' PROVE FreshInv(c)'
    <3>1. CASE claim[c] = "creating"
      BY <1>4, <2>1, <3>1 DEF Restart, CalmInv, Fresh, FreshInv, Undrifted
    <3>2. CASE claim[c] # "creating"
      <4>1. claim'[c] = claim[c] /\ server'[c] = server[c]
        BY <1>4, <3>2 DEF Restart
      <4>2. FreshInv(c)
        BY <2>1, <2>2, <4>1 DEF CalmInv, Fresh
      <4>3. claim[c] = "absent" => marks[c] = None
        BY DEF TypeOK
      <4> QED
        BY <2>1, <4>1, <4>2, <4>3 DEF FreshInv, Undrifted
    <3> QED
      BY <3>1, <3>2
  <2> QED
    BY <2>1, <2>2 DEF CalmInv, InStep
<1>5. CASE HashRead
  <2> SUFFICES ASSUME calm' PROVE CalmInv'
    BY DEF CalmInv
  <2>1. calm /\ UNCHANGED <<nodeClass, view, claim, marks, seen, server>>
    BY <1>5 DEF HashRead
  <2>2. pass'.object = view /\ \A c \in pass'.known : seen[c] # None /\ seen[c].drifted
    BY <1>5 DEF HashRead, Pass, Stale
  <2>3. ASSUME NEW c \in Claims, Fresh(c)' PROVE FreshInv(c)'
    <3>1. FreshInv(c)
      BY <2>1, <2>3 DEF CalmInv, Fresh
    <3> QED
      BY <2>1, <2>2, <3>1 DEF FreshInv, Undrifted
  <2> QED
    BY <2>1, <2>2, <2>3 DEF CalmInv, InStep
<1>6. CASE PassFails
  BY <1>6 DEF PassFails, CalmInv, InStep, Fresh, FreshInv, Undrifted
<1>7. CASE HashPatch
  <2> SUFFICES ASSUME calm' PROVE CalmInv'
    BY DEF CalmInv
  <2>1. /\ calm /\ pass.pc = "stamp" /\ pass'.pc = "idle"
        /\ UNCHANGED <<view, claim, marks, seen, server>>
    BY <1>7 DEF HashPatch, Patched
  <2>2. nodeClass \in Objects /\ pass.object \in Objects
    BY <2>1 DEF TypeOK, Passes
  <2>3. InStep(nodeClass) /\ InStep(pass.object)
    BY <2>1 DEF CalmInv
  <2> DEFINE hash == Hash(Current, pass.object.spec)
  <2>4. hash = Hash(Current, nodeClass.spec)
    BY <2>1, PassHash
  <2>5. nodeClass' = [nodeClass EXCEPT
                        !.hash = IF hash = pass.object.hash THEN @ ELSE hash,
                        !.version = IF Current = pass.object.version THEN @ ELSE Current]
    BY <1>7 DEF HashPatch, Patched
  <2>6. nodeClass'.spec = nodeClass.spec /\ nodeClass'.zones = nodeClass.zones
    BY <2>2, <2>5 DEF Objects
  <2>7. CASE pass.object.version = Current
    <3>1. hash = pass.object.hash
      BY <2>3, <2>4, <2>7, DriftAssumption DEF InStep, Current
    <3>2. nodeClass' = nodeClass
      BY <2>2, <2>5, <2>7, <3>1 DEF Objects
    <3> QED
      BY <2>1, <3>2 DEF CalmInv, InStep, Fresh, FreshInv, Undrifted
  <2>8. CASE pass.object.version # Current
    <3>1. pass.object.version \in {"old", None}
      BY <2>2, <2>8 DEF Objects, Versions, Current
    <3>2. hash # pass.object.hash
      <4>1. hash # None
        BY <2>2, HashType DEF Objects, Current
      <4>2. Hash("old", nodeClass.spec) # hash
        BY <2>4 DEF Hash, Current
      <4> QED
        BY <2>3, <3>1, <4>1, <4>2 DEF InStep
    <3>3. nodeClass'.hash = hash /\ nodeClass'.version = Current
      BY <2>2, <2>5, <2>8, <3>2 DEF Objects
    <3>4. InStep(nodeClass)'
      BY <2>3, <2>4, <2>6, <3>3 DEF InStep, Current
    <3> HIDE DEF hash
    <3> QED
      BY <2>1, <2>6, <3>4 DEF CalmInv, InStep, Fresh, FreshInv, Undrifted
  <2> QED
    BY <2>7, <2>8
<1>8. CASE HashPatchFails
  BY <1>8 DEF HashPatchFails, CalmInv, InStep, Fresh, FreshInv, Undrifted
<1>9. ASSUME NEW c \in Claims, SyncClaim(c) PROVE CalmInv'
  <2> SUFFICES ASSUME calm' PROVE CalmInv'
    BY DEF CalmInv
  <2>1. calm /\ UNCHANGED <<nodeClass, view, pass, claim, marks, server>>
        /\ seen' = [seen EXCEPT ![c] = marks[c]]
    BY <1>9 DEF SyncClaim
  <2>2. seen'[c] = marks[c] /\ \A d \in Claims \ {c} : seen'[d] = seen[d]
    BY <2>1 DEF TypeOK
  <2>3. claim[c] = "absent" => marks[c] = None
    BY DEF TypeOK
  <2>4. Fresh(c)' => FreshInv(c)'
    BY <2>1, <2>2, <2>3 DEF CalmInv, Fresh, FreshInv, Undrifted
  <2> QED
    BY <2>1, <2>2, <2>4, CalmOne
<1>10. ASSUME NEW c \in Claims, Stamp(c) PROVE CalmInv'
  <2> SUFFICES ASSUME calm' PROVE CalmInv'
    BY DEF CalmInv
  <2>1. /\ calm /\ pass.pc = "stamp" /\ pass' = [pass EXCEPT !.todo = @ \ {c}]
        /\ UNCHANGED <<nodeClass, view, claim, seen, server>>
    BY <1>10 DEF Stamp
  <2>2. pass'.pc = "stamp" /\ pass'.object = pass.object /\ pass'.known = pass.known
    BY <2>1 DEF TypeOK, Passes
  <2>3. \A d \in Claims \ {c} : marks'[d] = marks[d]
    BY <1>10 DEF Stamp, Stamped, TypeOK
  <2>4. Fresh(c)' => FreshInv(c)'
    <3> SUFFICES ASSUME Fresh(c) PROVE FreshInv(c)'
      BY <2>1 DEF Fresh
    <3>1. FreshInv(c)
      BY <2>1 DEF CalmInv
    <3>2. CASE marks[c] = None
      <4>1. marks' = marks
        BY <1>10, <3>2 DEF Stamp
      <4> QED
        BY <2>1, <2>2, <3>1, <4>1 DEF FreshInv, Undrifted
    <3>3. CASE marks[c] # None
      <4>1. marks[c] \in Annotations /\ claim[c] # "absent"
        BY <3>3 DEF TypeOK
      <4>2. c \notin pass.known
        BY <2>1, <3>1 DEF FreshInv
      <4>3. marks' = Stamped(c, Hash(Current, pass.object.spec))
        BY <1>10, <3>3, <4>2 DEF Stamp
      <4>4. /\ marks'[c].hash = Hash(Current, nodeClass.spec) /\ marks'[c].version = Current
            /\ marks'[c].drifted = marks[c].drifted
        BY <2>1, <4>1, <4>3, PassHash DEF Stamped, TypeOK, Annotations
      <4> HIDE DEF Current
      <4> QED
        BY <2>1, <2>2, <3>1, <4>1, <4>4 DEF FreshInv, Undrifted
    <3> QED
      BY <3>2, <3>3
  <2> QED
    BY <2>1, <2>2, <2>3, <2>4, CalmOne
<1>11. ASSUME NEW c \in Claims, StampFails(c) PROVE CalmInv'
  <2>1. /\ pass.pc = "stamp" /\ pass' = [pass EXCEPT !.todo = @ \ {c}, !.failed = TRUE]
        /\ UNCHANGED <<nodeClass, view, claim, marks, seen, server, calm>>
    BY <1>11 DEF StampFails
  <2>2. pass'.pc = "stamp" /\ pass'.object = pass.object /\ pass'.known = pass.known
    BY <2>1 DEF TypeOK, Passes
  <2> QED
    BY <2>1, <2>2 DEF CalmInv, InStep, Fresh, FreshInv, Undrifted
<1>12. ASSUME NEW c \in Claims, AddClaim(c) PROVE CalmInv'
  <2> SUFFICES ASSUME calm' PROVE CalmInv'
    BY DEF CalmInv
  <2>1. /\ calm /\ claim[c] = "absent" /\ claim'[c] = "pending" /\ marks'[c] = Blank
        /\ UNCHANGED <<nodeClass, view, pass, seen, server>>
        /\ \A d \in Claims \ {c} : claim'[d] = claim[d] /\ marks'[d] = marks[d]
    BY <1>12 DEF AddClaim, TypeOK
  <2>2. Fresh(c)' => FreshInv(c)'
    BY <2>1 DEF CalmInv, Fresh, FreshInv, Undrifted, Blank
  <2> QED
    BY <2>1, <2>2, CalmOne
<1>13. ASSUME NEW c \in Claims, RemoveClaim(c) PROVE CalmInv'
  <2> SUFFICES ASSUME calm' PROVE CalmInv'
    BY DEF CalmInv
  <2>1. /\ calm /\ claim'[c] = "gone"
        /\ UNCHANGED <<nodeClass, view, pass, seen>>
        /\ \A d \in Claims \ {c} : /\ claim'[d] = claim[d] /\ marks'[d] = marks[d]
                                   /\ server'[d] = server[d]
    BY <1>13 DEF RemoveClaim, TypeOK
  <2>2. ~Fresh(c)'
    BY <2>1 DEF Fresh
  <2> QED
    BY <2>1, <2>2, CalmOne
<1>14. ASSUME NEW c \in Claims, NEW zone \in Zones, Create(c, zone) PROVE CalmInv'
  <2> SUFFICES ASSUME calm' PROVE CalmInv'
    BY DEF CalmInv
  <2>1. /\ calm /\ claim[c] = "pending" /\ claim'[c] = "creating" /\ zone \in view.zones
        /\ server'[c] = [from |-> view.spec, zone |-> zone, flagged |-> FALSE]
        /\ UNCHANGED <<nodeClass, view, pass, marks, seen>>
        /\ \A d \in Claims \ {c} : claim'[d] = claim[d] /\ server'[d] = server[d]
    BY <1>14 DEF Create, TypeOK
  <2>2. FreshInv(c) /\ InStep(view)
    BY <2>1 DEF CalmInv, Fresh
  <2>3. Fresh(c)' => FreshInv(c)'
    BY <2>1, <2>2 DEF InStep, FreshInv, Undrifted
  <2> QED
    BY <2>1, <2>3, CalmOne
<1>15. ASSUME NEW c \in Claims, Persist(c) PROVE CalmInv'
  <2> SUFFICES ASSUME calm' PROVE CalmInv'
    BY DEF CalmInv
  <2> DEFINE hash == Hash(Current, server[c].from)
  <2>1. /\ calm /\ claim[c] = "creating" /\ claim'[c] = "launched"
        /\ UNCHANGED <<nodeClass, view, pass, seen, server>>
        /\ \A d \in Claims \ {c} : claim'[d] = claim[d]
    BY <1>15 DEF Persist, TypeOK
  <2>2. /\ marks'[c].hash = hash /\ marks'[c].version = Current
        /\ marks'[c].drifted = marks[c].drifted
        /\ \A d \in Claims \ {c} : marks'[d] = marks[d]
    BY <1>15 DEF Persist, CreatedMarks, Stamped, TypeOK, Annotations
  <2>3. FreshInv(c)
    BY <2>1 DEF CalmInv, Fresh
  <2>4. hash = Hash(Current, nodeClass.spec)
    BY <2>1, <2>3, SameHash DEF FreshInv
  <2> HIDE DEF hash
  <2>5. Fresh(c)' => FreshInv(c)'
    BY <2>1, <2>2, <2>3, <2>4 DEF FreshInv, Undrifted
  <2> QED
    BY <2>1, <2>2, <2>5, CalmOne
<1>16. ASSUME NEW c \in Claims, NEW read \in BOOLEAN, DriftCheck(c, read) PROVE CalmInv'
  <2> SUFFICES ASSUME calm' PROVE CalmInv'
    BY DEF CalmInv
  <2>1. /\ calm /\ claim[c] = "launched" /\ seen[c] = marks[c]
        /\ marks[c].drifted # IsDrifted(c, read)
        /\ UNCHANGED <<nodeClass, view, pass, claim, seen, server>>
    BY <1>16 DEF DriftCheck
  <2>2. \A d \in Claims \ {c} : marks'[d] = marks[d]
    BY <1>16 DEF DriftCheck, TypeOK
  <2>3. ~Fresh(c)
    <3> SUFFICES ASSUME Fresh(c) PROVE FALSE
      OBVIOUS
    <3>1. ~IsDrifted(c, read)
      BY <2>1, NotDrifted
    <3>2. ~marks[c].drifted
      BY <2>1 DEF CalmInv, FreshInv, Undrifted
    <3>3. marks[c].drifted \in BOOLEAN
      BY <2>1 DEF TypeOK, Annotations
    <3>4. IsDrifted(c, read) \in BOOLEAN
      BY Zenon DEF IsDrifted, StaticFieldsDrifted, ZoneDrifted
    <3> QED
      BY <2>1, <3>1, <3>2, <3>3, <3>4, Zenon
  <2>4. ~Fresh(c)'
    BY <2>1, <2>3 DEF Fresh
  <2> QED
    BY <2>1, <2>2, <2>4, CalmOne
<1>17. CASE UNCHANGED vars
  BY <1>17 DEF vars, CalmInv, InStep, Fresh, FreshInv, Undrifted
<1> QED
  BY <1>1, <1>2, <1>3, <1>4, <1>5, <1>6, <1>7, <1>8, <1>9, <1>10, <1>11, <1>12, <1>13,
     <1>14, <1>15, <1>16, <1>17 DEF Next

\* Through an upgrade, at whatever point its patches, failures and caches are and whatever is
\* launched meanwhile, no server of the present spec is flagged as drifted unless a hashed
\* field was edited (updateNodeClaimHash, areStaticFieldsDrifted).
THEOREM NoNeedless == Spec => []NoNeedlessDrift
<1>1. CalmInv => NoNeedlessDrift
  BY DEF CalmInv, Fresh, FreshInv, Undrifted, NoNeedlessDrift
<1> QED
  BY <1>1, TypeInit, TypeStep, CalmInit, CalmStep, PTL DEF Spec

----------------------------------------------------------------------------
(* The order of the migration.  What keeps it is that an old NodeClaim is  *)
(* an old one in the cache too, so every pass that may stamp the NodeClass *)
(* has it on its list until it stamped it.                                 *)

\* A launched NodeClaim that was not stamped yet.
Behind(c) == claim[c] = "launched" /\ marks[c].version # Current

OldShown == \A c \in Claims : Behind(c) => seen[c] # None /\ seen[c].version # Current

Migrating == pass.pc = "stamp" /\ pass.object.version # Current

ListedUntilStamped ==
  Migrating /\ ~pass.failed => \A c \in Claims : Behind(c) => c \in pass.todo

\* A copy of the NodeClass with the new version was read after the NodeClass got it.
CopiesFollow ==
  /\ view.version = Current => nodeClass.version = Current
  /\ pass.pc = "stamp" /\ pass.object.version = Current => nodeClass.version = Current

OrderInv == MigrationOrder /\ OldShown /\ ListedUntilStamped /\ CopiesFollow

\* A launch leaves the new version, so no NodeClaim falls behind.
LEMMA NeverBehind ==
  ASSUME TypeOK, [Next]_vars, NEW c \in Claims, Behind(c)'
  PROVE  Behind(c) /\ marks'[c].version = marks[c].version
<1> USE DEF Behind, TypeOK
<1>1. ASSUME NEW spec \in Specs, EditSpec(spec) PROVE Behind(c) /\ marks'[c] = marks[c]
  BY <1>1 DEF EditSpec
<1>2. CASE SyncView \/ ResolveZones \/ HashRead \/ PassFails \/ HashPatch \/ HashPatchFails
  BY <1>2 DEF SyncView, ResolveZones, HashRead, PassFails, HashPatch, HashPatchFails
<1>3. CASE Restart
  BY <1>3 DEF Restart
<1>4. ASSUME NEW d \in Claims, SyncClaim(d) \/ StampFails(d) PROVE Behind(c) /\ marks'[c] = marks[c]
  BY <1>4 DEF SyncClaim, StampFails
<1>5. ASSUME NEW d \in Claims, Stamp(d) PROVE Behind(c) /\ marks'[c] = marks[c]
  <2>1. CASE d = c
    BY <1>5, <2>1 DEF Stamp, Stamped, Annotations
  <2>2. CASE d # c
    BY <1>5, <2>2 DEF Stamp, Stamped
  <2> QED
    BY <2>1, <2>2
<1>6. ASSUME NEW d \in Claims, AddClaim(d) \/ RemoveClaim(d) PROVE Behind(c) /\ marks'[c] = marks[c]
  BY <1>6 DEF AddClaim, RemoveClaim
<1>7. ASSUME NEW d \in Claims, Persist(d) PROVE Behind(c) /\ marks'[c] = marks[c]
  <2>1. CASE d = c
    BY <1>7, <2>1 DEF Persist, CreatedMarks, Stamped, Annotations
  <2>2. CASE d # c
    BY <1>7, <2>2 DEF Persist, CreatedMarks, Stamped
  <2> QED
    BY <2>1, <2>2
<1>8. ASSUME NEW d \in Claims, NEW zone \in Zones, Create(d, zone)
      PROVE  Behind(c) /\ marks'[c] = marks[c]
  BY <1>8 DEF Create
<1>9. ASSUME NEW d \in Claims, NEW read \in BOOLEAN, DriftCheck(d, read)
      PROVE  Behind(c) /\ marks'[c].version = marks[c].version
  BY <1>9 DEF DriftCheck, Annotations
<1>10. CASE UNCHANGED vars
  BY <1>10 DEF vars
<1> QED
  BY <1>1, <1>2, <1>3, <1>4, <1>5, <1>6, <1>7, <1>8, <1>9, <1>10 DEF Next

\* What an older version leaves behind is in the caches as it is, and the NodeClass is old.
LEMMA OrderInit == Init => OrderInv
<1> SUFFICES ASSUME Init PROVE OrderInv
  OBVIOUS
<1>1. nodeClass.version # Current /\ view = nodeClass /\ seen = marks /\ pass.pc = "idle"
  BY DEF Init, Current
<1>2. \A c \in Claims : claim[c] = "launched" => marks[c] # None
  BY TypeInit DEF TypeOK, Annotations
<1> QED
  BY <1>1, <1>2 DEF OrderInv, MigrationOrder, OldShown, ListedUntilStamped, CopiesFollow, Migrating,
                    Behind

\* A pass patches the NodeClass when it has stamped everything that was behind.
LEMMA PatchesLast == ASSUME TypeOK, OrderInv, HashPatch, NEW c \in Claims PROVE ~Behind(c)
<1>1. CASE pass.object.version = Current
  BY <1>1 DEF HashPatch, OrderInv, CopiesFollow, MigrationOrder, Behind
<1>2. CASE pass.object.version # Current
  BY <1>2 DEF HashPatch, OrderInv, ListedUntilStamped, Migrating
<1> QED
  BY <1>1, <1>2

LEMMA OrderPatch == ASSUME TypeOK, OrderInv, HashPatch PROVE OrderInv'
<1>1. pass \in Passes /\ nodeClass \in Objects
  BY DEF HashPatch, TypeOK
<1>2. nodeClass'.version = Current
  BY <1>1 DEF HashPatch, Patched, Objects, Passes, OrderInv, CopiesFollow
<1>3. UNCHANGED <<claim, marks, seen, view>> /\ pass'.pc = "idle"
  BY DEF HashPatch
<1>4. \A c \in Claims : ~Behind(c)'
  BY <1>3, PatchesLast DEF Behind
<1> QED
  BY <1>2, <1>3, <1>4
  DEF OrderInv, MigrationOrder, OldShown, ListedUntilStamped, CopiesFollow, Migrating, Behind

LEMMA OrderStep == TypeOK /\ OrderInv /\ [Next]_vars => OrderInv'
<1> SUFFICES ASSUME TypeOK, OrderInv, [Next]_vars PROVE OrderInv'
  OBVIOUS
<1>0. \A c \in Claims : Behind(c)' => Behind(c) /\ marks'[c].version = marks[c].version
  BY NeverBehind
<1> DEFINE Parts == OldShown /\ ListedUntilStamped /\ CopiesFollow
<1>1. ASSUME nodeClass'.version = nodeClass.version, Parts' PROVE OrderInv'
  BY <1>0, <1>1 DEF OrderInv, MigrationOrder, Behind
<1> USE DEF OldShown, ListedUntilStamped, CopiesFollow, Migrating
<1>2. ASSUME NEW spec \in Specs, EditSpec(spec) PROVE OrderInv'
  <2>1. nodeClass'.version = nodeClass.version
    BY <1>2 DEF EditSpec, TypeOK, Objects
  <2> QED
    BY <1>0, <1>1, <1>2, <2>1 DEF EditSpec, OrderInv
<1>3. CASE SyncView
  BY <1>0, <1>1, <1>3 DEF SyncView, OrderInv
<1>4. CASE ResolveZones
  <2>1. nodeClass'.version = nodeClass.version
    BY <1>4 DEF ResolveZones, TypeOK, Objects
  <2> QED
    BY <1>0, <1>1, <1>4, <2>1 DEF ResolveZones, OrderInv
<1>5. CASE Restart
  <2>1. \A c \in Claims : Behind(c) => marks[c] # None
    BY DEF Behind, TypeOK, Annotations
  <2>2. \A c \in Claims : Behind(c) => marks[c].version # Current
    BY DEF Behind
  <2> QED
    BY <1>0, <1>1, <1>5, <2>1, <2>2 DEF Restart, OrderInv
<1>6. CASE HashRead
  <2>1. \A c \in Claims : Behind(c) => c \in Stale
    BY DEF OrderInv, Stale
  <2>2. pass'.pc = "stamp" /\ pass'.object = view
        /\ (view.version # Current => pass'.todo = Stale)
    BY <1>6 DEF HashRead, Pass
  <2>3. UNCHANGED <<nodeClass, view, claim, marks, seen>>
    BY <1>6 DEF HashRead
  <2> QED
    BY <1>0, <1>1, <2>1, <2>2, <2>3 DEF OrderInv
<1>7. CASE PassFails \/ HashPatchFails
  BY <1>0, <1>1, <1>7 DEF PassFails, HashPatchFails, OrderInv
<1>8. CASE HashPatch
  BY <1>8, OrderPatch
<1>9. ASSUME NEW c \in Claims, SyncClaim(c) PROVE OrderInv'
  <2>1. \A d \in Claims : Behind(d) => seen'[d] # None /\ seen'[d].version # Current
    BY <1>9 DEF SyncClaim, OrderInv, Behind, TypeOK, Annotations
  <2> QED
    BY <1>0, <1>1, <1>9, <2>1 DEF SyncClaim, OrderInv
<1>10. ASSUME NEW c \in Claims, Stamp(c) PROVE OrderInv'
  <2>1. pass \in Passes /\ pass' = [pass EXCEPT !.todo = @ \ {c}]
    BY <1>10 DEF Stamp, TypeOK
  <2>2. pass'.pc = pass.pc /\ pass'.object = pass.object /\ pass'.failed = pass.failed
        /\ pass'.todo = pass.todo \ {c}
    BY <2>1 DEF Passes
  <2>3. ~Behind(c)'
    BY <1>10 DEF Behind, Stamp, Stamped, TypeOK, Annotations
  <2>4. UNCHANGED <<nodeClass, view, claim, seen>>
    BY <1>10 DEF Stamp
  <2> QED
    BY <1>0, <1>1, <2>2, <2>3, <2>4 DEF OrderInv
<1>11. ASSUME NEW c \in Claims, StampFails(c) PROVE OrderInv'
  <2>1. pass \in Passes /\ pass' = [pass EXCEPT !.todo = @ \ {c}, !.failed = TRUE]
    BY <1>11 DEF StampFails, TypeOK
  <2>2. pass'.pc = pass.pc /\ pass'.object = pass.object /\ pass'.failed
    BY <2>1 DEF Passes
  <2> QED
    BY <1>0, <1>1, <1>11, <2>2 DEF StampFails, OrderInv
<1>12. ASSUME NEW c \in Claims, AddClaim(c) \/ RemoveClaim(c) \/ Persist(c) PROVE OrderInv'
  BY <1>0, <1>1, <1>12 DEF AddClaim, RemoveClaim, Persist, OrderInv
<1>13. ASSUME NEW c \in Claims, NEW zone \in Zones, Create(c, zone) PROVE OrderInv'
  BY <1>0, <1>1, <1>13 DEF Create, OrderInv
<1>14. ASSUME NEW c \in Claims, NEW read \in BOOLEAN, DriftCheck(c, read) PROVE OrderInv'
  BY <1>0, <1>1, <1>14 DEF DriftCheck, OrderInv
<1>15. CASE UNCHANGED vars
  BY <1>0, <1>1, <1>15 DEF vars, OrderInv
<1> QED
  BY <1>2, <1>3, <1>4, <1>5, <1>6, <1>7, <1>8, <1>9, <1>10, <1>11, <1>12, <1>13, <1>14, <1>15
  DEF Next

\* The NodeClass carries the new version only when every launched NodeClaim does: after failed
\* patches, restarts and launches in any order, no NodeClaim is left behind (Reconcile,
\* updateNodeClaimHash).
THEOREM MigrationOrderAlways == Spec => []MigrationOrder
<1>1. OrderInv => MigrationOrder
  BY DEF OrderInv
<1> QED
  BY <1>1, TypeInit, TypeStep, OrderInit, OrderStep, PTL DEF Spec

----------------------------------------------------------------------------
(* Known drift.  Until a flagged NodeClaim is stamped, the NodeClass has   *)
(* the old version and another hash, so its condition stays, the cache     *)
(* shows it, and a pass that stamps it knows.                              *)

Flagged(c) == claim[c] = "launched" /\ server[c].flagged

\* A copy of the NodeClass that tells the NodeClaim is drifted.
Tells(object, c) == object.version = "old" /\ object.hash \notin {None, marks[c].hash}

FlagInv ==
  \A c \in Claims :
    /\ claim[c] = "creating" => ~server[c].flagged
    /\ Flagged(c) =>
         /\ marks[c].hash = Hash("old", server[c].from)
         /\ seen[c] # None /\ (seen[c].version # Current => seen[c].drifted)
         /\ pass.pc = "stamp" /\ c \in pass.todo => c \in pass.known
         /\ Behind(c) => /\ marks[c].version = "old" /\ marks[c].drifted
                         /\ Tells(nodeClass, c) /\ Tells(view, c)

\* A condition that is there stays while the versions agree and the hashes do not.
LEMMA ConditionStays ==
  ASSUME TypeOK, FlagInv, NEW c \in Claims, Flagged(c), Behind(c), NEW read \in BOOLEAN
  PROVE  ~DriftCheck(c, read)
<1> SUFFICES ASSUME DriftCheck(c, read) PROVE FALSE
  OBVIOUS
<1>1. seen[c] = marks[c] /\ marks[c].drifted # IsDrifted(c, read)
  BY DEF DriftCheck
<1>2. marks[c].hash = Hash("old", server[c].from) /\ marks[c].version = "old" /\ marks[c].drifted
      /\ Tells(view, c)
  BY DEF FlagInv
<1>3. server[c].from \in Specs
  BY DEF Flagged, TypeOK, Servers
<1>4. marks[c].hash # None
  BY <1>2, <1>3, HashType
<1>5. StaticFieldsDrifted(view, seen[c])
  BY <1>1, <1>2, <1>4 DEF StaticFieldsDrifted, Tells
<1>6. IsDrifted(c, read) /\ IsDrifted(c, read) \in BOOLEAN
  BY <1>5, Zenon DEF IsDrifted, StaticFieldsDrifted
<1>7. marks[c].drifted \in BOOLEAN
  BY DEF Flagged, TypeOK, Annotations
<1> QED
  BY <1>1, <1>2, <1>6, <1>7, Zenon

\* The old version flagged a NodeClaim because its hash differed from that of the NodeClass.
LEMMA FlagInit == Init => FlagInv
<1> SUFFICES ASSUME Init, NEW c \in Claims, claim[c] # "absent"
             PROVE  /\ claim[c] = "launched"
                    /\ Flagged(c) =>
                         /\ marks[c].hash = Hash("old", server[c].from)
                         /\ seen[c] # None /\ (seen[c].version # Current => seen[c].drifted)
                         /\ pass.pc # "stamp"
                         /\ marks[c].version = "old" /\ marks[c].drifted
                         /\ Tells(nodeClass, c) /\ Tells(view, c)
  BY DEF FlagInv, Flagged
<1>1. PICK stamped \in Specs :
        /\ nodeClass.hash = Hash("old", stamped) /\ nodeClass.version = "old"
        /\ claim \in [Claims -> {"absent", "launched"}]
        /\ server \in [Claims -> {None} \cup Servers]
        /\ \A d \in Claims : claim[d] = "launched" =>
             /\ server[d] # None
             /\ server[d].flagged => ~SameServers(server[d].from, stamped)
  BY DEF Init, Servers
<1>2. claim[c] = "launched" /\ server[c] \in Servers
  BY <1>1
<1>3. marks[c] = [hash |-> Hash("old", server[c].from), version |-> "old",
                  drifted |-> server[c].flagged]
  BY <1>2 DEF Init
<1>4. ASSUME Flagged(c) PROVE Tells(nodeClass, c)
  <2>1. ~SameServers(server[c].from, stamped)
    BY <1>1, <1>4 DEF Flagged
  <2>2. Hash("old", stamped) # Hash("old", server[c].from)
    BY <2>1 DEF Hash, SameServers
  <2>3. Hash("old", stamped) # None
    BY HashType
  <2> QED
    BY <1>1, <1>3, <2>2, <2>3 DEF Tells
<1>5. marks[c] # None
  BY <1>2, TypeInit DEF TypeOK, Annotations
<1>6. view = nodeClass /\ seen = marks /\ pass.pc = "idle"
  BY DEF Init
<1> QED
  BY <1>2, <1>3, <1>4, <1>5, <1>6 DEF Tells, Flagged

\* A server is flagged at the start or not at all.
LEMMA FlaggedBefore ==
  ASSUME TypeOK, FlagInv, [Next]_vars, NEW c \in Claims
  PROVE  /\ Flagged(c)' => Flagged(c) /\ server'[c] = server[c]
         /\ claim'[c] = "creating" => ~server'[c].flagged
<1> USE DEF Flagged, FlagInv, TypeOK
<1> DEFINE Goal == /\ Flagged(c)' => Flagged(c) /\ server'[c] = server[c]
                   /\ claim'[c] = "creating" => ~server'[c].flagged
<1>1. ASSUME NEW spec \in Specs, EditSpec(spec) PROVE Goal
  BY <1>1 DEF EditSpec
<1>2. CASE SyncView \/ ResolveZones \/ HashRead \/ PassFails \/ HashPatch \/ HashPatchFails
  BY <1>2 DEF SyncView, ResolveZones, HashRead, PassFails, HashPatch, HashPatchFails
<1>3. CASE Restart
  BY <1>3 DEF Restart
<1>4. ASSUME NEW d \in Claims, SyncClaim(d) \/ Stamp(d) \/ StampFails(d) PROVE Goal
  BY <1>4 DEF SyncClaim, Stamp, StampFails
<1>5. ASSUME NEW d \in Claims, AddClaim(d) \/ RemoveClaim(d) \/ Persist(d) PROVE Goal
  BY <1>5 DEF AddClaim, RemoveClaim, Persist
<1>6. ASSUME NEW d \in Claims, NEW zone \in Zones, Create(d, zone) PROVE Goal
  BY <1>6 DEF Create
<1>7. ASSUME NEW d \in Claims, NEW read \in BOOLEAN, DriftCheck(d, read) PROVE Goal
  BY <1>7 DEF DriftCheck
<1>8. CASE UNCHANGED vars
  BY <1>8 DEF vars
<1> QED
  BY <1>1, <1>2, <1>3, <1>4, <1>5, <1>6, <1>7, <1>8 DEF Next

LEMMA FlagStep == TypeOK /\ OrderInv /\ FlagInv /\ [Next]_vars => FlagInv'
<1> SUFFICES ASSUME TypeOK, OrderInv, FlagInv, [Next]_vars, NEW c \in Claims,
                    Flagged(c), server'[c] = server[c], claim'[c] = "launched"
             PROVE  /\ marks'[c].hash = Hash("old", server[c].from)
                    /\ seen'[c] # None /\ (seen'[c].version # Current => seen'[c].drifted)
                    /\ pass'.pc = "stamp" /\ c \in pass'.todo => c \in pass'.known
                    /\ Behind(c)' => /\ marks'[c].version = "old" /\ marks'[c].drifted
                                     /\ Tells(nodeClass, c)' /\ Tells(view, c)'
  BY FlaggedBefore DEF FlagInv, Flagged
<1> DEFINE Marks == /\ marks'[c].hash = Hash("old", server[c].from)
                    /\ seen'[c] # None /\ (seen'[c].version # Current => seen'[c].drifted)
           Known == pass'.pc = "stamp" /\ c \in pass'.todo => c \in pass'.known
           Old == Behind(c)' => /\ marks'[c].version = "old" /\ marks'[c].drifted
                                /\ Tells(nodeClass, c)' /\ Tells(view, c)'
<1>0. /\ marks[c].hash = Hash("old", server[c].from)
      /\ seen[c] # None /\ (seen[c].version # Current => seen[c].drifted)
      /\ pass.pc = "stamp" /\ c \in pass.todo => c \in pass.known
      /\ Behind(c) => /\ marks[c].version = "old" /\ marks[c].drifted
                      /\ Tells(nodeClass, c) /\ Tells(view, c)
  BY DEF FlagInv
<1>a. marks[c] \in Annotations /\ marks[c] # None /\ claim[c] = "launched"
  BY DEF Flagged, TypeOK
<1>1. ASSUME NEW spec \in Specs, EditSpec(spec) PROVE Marks /\ Known /\ Old
  <2>1. nodeClass'.version = nodeClass.version /\ nodeClass'.hash = nodeClass.hash
    BY <1>1 DEF EditSpec, TypeOK, Objects
  <2> QED
    BY <1>0, <1>1, <2>1 DEF EditSpec, Behind, Tells
<1>2. CASE SyncView
  BY <1>0, <1>2 DEF SyncView, Behind, Tells
<1>3. CASE ResolveZones
  <2>1. nodeClass'.version = nodeClass.version /\ nodeClass'.hash = nodeClass.hash
    BY <1>3 DEF ResolveZones, TypeOK, Objects
  <2> QED
    BY <1>0, <1>3, <2>1 DEF ResolveZones, Behind, Tells
<1>4. CASE Restart
  <2>1. marks' = marks /\ seen' = marks /\ nodeClass' = nodeClass /\ view' = nodeClass
        /\ pass'.pc = "idle"
    BY <1>4 DEF Restart
  <2>2. Behind(c)' <=> Behind(c)
    BY <1>a, <2>1 DEF Behind
  <2>3. marks[c].version # Current => Behind(c)
    BY <1>a DEF Behind
  <2> QED
    BY <1>0, <1>a, <2>1, <2>2, <2>3 DEF Tells
<1>5. CASE HashRead
  <2>1. Known
    BY <1>0, <1>5 DEF HashRead, Pass, Stale
  <2> QED
    BY <1>0, <1>5, <2>1 DEF HashRead, Behind, Tells
<1>6. CASE PassFails \/ HashPatchFails
  BY <1>0, <1>6 DEF PassFails, HashPatchFails, Behind, Tells
<1>7. CASE HashPatch
  <2>1. ~Behind(c)
    BY <1>7, PatchesLast
  <2>2. pass'.pc = "idle" /\ UNCHANGED <<claim, marks, seen>>
    BY <1>7 DEF HashPatch
  <2> QED
    BY <1>0, <2>1, <2>2 DEF Behind
<1>8. ASSUME NEW d \in Claims, SyncClaim(d) PROVE Marks /\ Known /\ Old
  <2>1. seen'[c] = seen[c] \/ seen'[c] = marks[c]
    BY <1>8 DEF SyncClaim, TypeOK
  <2>2. marks[c].version # Current => Behind(c)
    BY <1>a DEF Behind
  <2> QED
    BY <1>0, <1>a, <1>8, <2>1, <2>2 DEF SyncClaim, Behind, Tells
<1>9. ASSUME NEW d \in Claims, Stamp(d) PROVE Marks /\ Known /\ Old
  <2>1. pass \in Passes /\ pass' = [pass EXCEPT !.todo = @ \ {d}] /\ pass.pc = "stamp"
    BY <1>9 DEF Stamp, TypeOK
  <2>2. pass'.todo = pass.todo \ {d} /\ pass'.known = pass.known
    BY <2>1 DEF Passes
  <2>3. UNCHANGED <<nodeClass, view, claim, seen>>
    BY <1>9 DEF Stamp
  <2>4. CASE d = c
    <3>1. c \in pass.known
      BY <1>0, <1>9, <2>4 DEF Stamp
    <3>2. marks' = Stamped(c, marks[c].hash)
      BY <1>9, <1>a, <2>4, <3>1 DEF Stamp
    <3>3. marks'[c].hash = marks[c].hash /\ marks'[c].version = Current
      BY <1>a, <3>2 DEF Stamped, TypeOK, Annotations
    <3> QED
      BY <1>0, <2>1, <2>2, <2>3, <3>3 DEF Behind
  <2>5. CASE d # c
    <3>1. marks'[c] = marks[c]
      BY <1>9, <2>5 DEF Stamp, Stamped, TypeOK
    <3> QED
      BY <1>0, <2>1, <2>2, <2>3, <3>1 DEF Behind, Tells
  <2> QED
    BY <2>4, <2>5
<1>10. ASSUME NEW d \in Claims, StampFails(d) PROVE Marks /\ Known /\ Old
  <2>1. pass \in Passes /\ pass' = [pass EXCEPT !.todo = @ \ {d}, !.failed = TRUE]
        /\ pass.pc = "stamp"
    BY <1>10 DEF StampFails, TypeOK
  <2>2. pass'.todo = pass.todo \ {d} /\ pass'.known = pass.known
    BY <2>1 DEF Passes
  <2> QED
    BY <1>0, <1>10, <2>1, <2>2 DEF StampFails, Behind, Tells
<1>11. ASSUME NEW d \in Claims, AddClaim(d) \/ RemoveClaim(d) \/ Persist(d)
       PROVE  Marks /\ Known /\ Old
  <2>1. d # c
    BY <1>11, <1>a DEF AddClaim, RemoveClaim, Persist, TypeOK
  <2>2. marks'[c] = marks[c]
    BY <1>11, <2>1 DEF AddClaim, RemoveClaim, Persist, CreatedMarks, Stamped, TypeOK
  <2> QED
    BY <1>0, <1>11, <1>a, <2>2 DEF AddClaim, RemoveClaim, Persist, Behind, Tells
<1>12. ASSUME NEW d \in Claims, NEW zone \in Zones, Create(d, zone) PROVE Marks /\ Known /\ Old
  BY <1>0, <1>12, <1>a DEF Create, Behind, Tells
<1>13. ASSUME NEW d \in Claims, NEW read \in BOOLEAN, DriftCheck(d, read)
       PROVE  Marks /\ Known /\ Old
  <2>1. marks'[c].hash = marks[c].hash /\ marks'[c].version = marks[c].version
        /\ (Behind(c) => marks'[c] = marks[c])
    <3>1. CASE d = c
      BY <1>13, <1>a, <3>1, ConditionStays DEF DriftCheck, TypeOK, Annotations
    <3>2. CASE d # c
      BY <1>13, <3>2 DEF DriftCheck, TypeOK
    <3> QED
      BY <3>1, <3>2
  <2> QED
    BY <1>0, <1>13, <1>a, <2>1 DEF DriftCheck, Behind, Tells
<1>14. CASE UNCHANGED vars
  BY <1>0, <1>14 DEF vars, Behind, Tells
<1> QED
  BY <1>1, <1>2, <1>3, <1>4, <1>5, <1>6, <1>7, <1>8, <1>9, <1>10, <1>11, <1>12, <1>13, <1>14
  DEF Next

\* What the old version flagged stays flagged until the NodeClaim is stamped and keeps the hash
\* of its launch afterwards, through failed patches, restarts, late caches and any number of
\* edits: the bump of the version forgives nothing that was known (updateNodeClaimHash).
THEOREM FlaggedKeepsHashAlways == Spec => []FlaggedKeepsHash
<1>1. FlagInv => FlaggedKeepsHash
  BY DEF FlagInv, Flagged, Behind, FlaggedKeepsHash
<1> QED
  BY <1>1, TypeInit, TypeStep, OrderInit, OrderStep, FlagInit, FlagStep, PTL DEF Spec

----------------------------------------------------------------------------
(* StaysSettled: once the migration is through, no pass starts, and one    *)
(* that is under way writes the hash that is there.                        *)

\* Drift is reported for exactly the servers of another hash or zone.
Reported ==
  \A c \in Claims : claim[c] = "launched" /\ seen[c] = marks[c] => ReportedExactly(c)

\* Of a migration that is through nothing is missing that would hide drift: no annotation,
\* no version, and no zones.
LEMMA SettledReports == TypeOK /\ OrderInv /\ Settled => Reported
<1> SUFFICES ASSUME TypeOK, OrderInv, Settled, NEW c \in Claims, claim[c] = "launched",
                    seen[c] = marks[c]
             PROVE  ReportedExactly(c)
  BY DEF Reported
<1>1. marks[c].version = Current
  BY DEF OrderInv, MigrationOrder, Settled
<1>2. None \notin {marks[c].hash, marks[c].version}
  BY DEF TypeOK
<1>3. nodeClass.spec \in Specs
  BY DEF TypeOK, Objects
<1>4. view.version = Current /\ view.hash = Hash(Current, nodeClass.spec) /\ view.hash # None
  BY <1>3, HashType DEF Settled, Current
<1>5. StaticFieldsDrifted(view, seen[c]) <=> marks[c].hash # Hash(Current, nodeClass.spec)
  BY <1>1, <1>2, <1>4 DEF StaticFieldsDrifted
<1>6. view.zones = nodeClass.spec.zones /\ nodeClass.spec.zones # {}
  BY <1>3 DEF Settled
<1>7. ZoneDrifted(view, server[c].zone) <=> server[c].zone \notin nodeClass.spec.zones
  BY <1>6 DEF ZoneDrifted
<1> QED
  BY <1>5, <1>7, Zenon DEF ReportedExactly, IsDrifted

\* Every step that leaves the spec alone keeps the migration through.
LEMMA SettledStep ==
  TypeOK /\ Settled /\ [Next]_vars /\ nodeClass'.spec = nodeClass.spec => Settled'
<1> SUFFICES ASSUME TypeOK, Settled, [Next]_vars, nodeClass'.spec = nodeClass.spec
             PROVE  Settled'
  OBVIOUS
<1> USE DEF Settled
<1>0. nodeClass \in Objects /\ (pass.pc = "stamp" => pass \in Passes)
  BY DEF TypeOK
<1> DEFINE Kept == /\ nodeClass' = nodeClass /\ view' = nodeClass
                   /\ pass'.pc = "stamp" => pass.pc = "stamp" /\ pass'.object = pass.object
\* It is enough that the NodeClass and the copies of it stay as they are.
<1>a. ASSUME Kept PROVE Settled'
  BY <1>a DEF Hash, Current
<1>1. ASSUME NEW spec \in Specs, EditSpec(spec) PROVE FALSE
  BY <1>0, <1>1 DEF EditSpec, Objects
<1>2. CASE SyncView \/ ResolveZones \/ HashRead
  BY <1>2 DEF SyncView, ResolveZones, HashRead
<1>3. CASE Restart
  <2>1. Kept
    BY <1>3 DEF Restart
  <2> QED
    BY <1>a, <2>1
<1>4. CASE PassFails \/ HashPatchFails
  <2>1. Kept
    BY <1>4 DEF PassFails, HashPatchFails
  <2> QED
    BY <1>a, <2>1
\* The patch of a pass that is late writes the hash and the version that are there.
<1>5. CASE HashPatch
  <2>1. Hash(Current, pass.object.spec) = nodeClass.hash /\ nodeClass.version = Current
    BY <1>5 DEF HashPatch
  <2>2. nodeClass' = Patched /\ pass'.pc = "idle" /\ view' = view
    BY <1>5 DEF HashPatch
  <2>3. Patched = nodeClass
    BY <1>0, <2>1 DEF Patched, Objects
  <2>4. Kept
    BY <2>2, <2>3
  <2> QED
    BY <1>a, <2>4
<1>6. ASSUME NEW c \in Claims, Stamp(c) \/ StampFails(c) PROVE Settled'
  <2>1. pass'.object = pass.object
    BY <1>0, <1>6 DEF Stamp, StampFails, Passes
  <2>2. Kept
    BY <1>6, <2>1 DEF Stamp, StampFails
  <2> QED
    BY <1>a, <2>2
<1>7. ASSUME NEW c \in Claims, SyncClaim(c) \/ AddClaim(c) \/ RemoveClaim(c) \/ Persist(c)
      PROVE  Settled'
  <2>1. Kept
    BY <1>7 DEF SyncClaim, AddClaim, RemoveClaim, Persist
  <2> QED
    BY <1>a, <2>1
<1>8. ASSUME NEW c \in Claims, NEW zone \in Zones, Create(c, zone) PROVE Settled'
  <2>1. Kept
    BY <1>8 DEF Create
  <2> QED
    BY <1>a, <2>1
<1>9. ASSUME NEW c \in Claims, NEW read \in BOOLEAN, DriftCheck(c, read) PROVE Settled'
  <2>1. Kept
    BY <1>9 DEF DriftCheck
  <2> QED
    BY <1>a, <2>1
<1>10. CASE UNCHANGED vars
  <2>1. Kept
    BY <1>10 DEF vars
  <2> QED
    BY <1>a, <2>1
<1> QED
  BY <1>1, <1>2, <1>3, <1>4, <1>5, <1>6, <1>7, <1>8, <1>9, <1>10 DEF Next

\* A migration that is through stays so until the spec is edited, and drift is reported for
\* exactly the servers of another hash or zone meanwhile, with late passes, failing patches,
\* launches and restarts in any order: the safety half of DriftSettles.
THEOREM StaysSettledAlways == Spec => StaysSettled
<1>1. (TypeOK /\ OrderInv /\ Settled => Reported)'
  BY SettledReports, PTL
<1>2. ASSUME TypeOK, TypeOK', OrderInv', [Next]_vars, Settled, nodeClass'.spec = nodeClass.spec
      PROVE  /\ Settled'
             /\ \A c \in Claims : claim'[c] = "launched" /\ seen'[c] = marks'[c] => ReportedExactly(c)'
  <2>1. Settled'
    BY <1>2, SettledStep
  <2>2. Reported'
    BY <1>1, <1>2, <2>1
  <2> QED
    BY <2>1, <2>2 DEF Reported
<1>3. TypeOK /\ TypeOK' /\ OrderInv' /\ [Next]_vars
        => [Settled /\ nodeClass'.spec = nodeClass.spec
              => /\ Settled'
                 /\ \A c \in Claims : claim'[c] = "launched" /\ seen'[c] = marks'[c]
                                        => ReportedExactly(c)']_vars
  BY <1>2
<1> QED
  BY <1>3, TypeInit, TypeStep, OrderInit, OrderStep, PTL DEF Spec, StaysSettled

\* What was flagged before the upgrade is reported as drifted whenever the migration is through
\* and the informer has the NodeClaim's annotations, whatever it was stamped with and however
\* its condition moved in between: DriftSettles leaves none of them out (updateNodeClaimHash).
THEOREM FlaggedReportedAlways ==
  Spec => [](Settled => \A c \in Claims : Flagged(c) /\ seen[c] = marks[c] => IsDrifted(c, TRUE))
<1>1. ASSUME TypeOK, OrderInv, FlagInv, Settled, NEW c \in Claims, Flagged(c), seen[c] = marks[c]
      PROVE  IsDrifted(c, TRUE)
  <2>1. ReportedExactly(c)
    BY <1>1, SettledReports DEF Reported, Flagged
  <2>2. marks[c].hash = Hash("old", server[c].from)
    BY <1>1 DEF FlagInv
  <2>3. marks[c].hash # Hash(Current, nodeClass.spec)
    BY <2>2 DEF Hash, Current
  <2> QED
    BY <2>1, <2>3 DEF ReportedExactly
<1>2. TypeOK /\ OrderInv /\ FlagInv =>
        (Settled => \A c \in Claims : Flagged(c) /\ seen[c] = marks[c] => IsDrifted(c, TRUE))
  BY <1>1
<1> QED
  BY <1>2, TypeInit, TypeStep, OrderInit, OrderStep, FlagInit, FlagStep, PTL DEF Spec

=============================================================================
