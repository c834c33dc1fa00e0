------------------------------- MODULE Drift -------------------------------
(***************************************************************************)
(* Drift detection across an upgrade of the controller.  The hash of a     *)
(* StackitNodeClass and the version of the hash algorithm are annotations  *)
(* of the NodeClass, written by the hash controller, and of every          *)
(* NodeClaim, written when its server is launched.  After an upgrade the   *)
(* hash controller re-stamps the NodeClaims one patch at a time, then the  *)
(* NodeClass, while users edit the spec, servers are launched and          *)
(* Karpenter looks for drift.                                              *)
(*                                                                         *)
(* Everyone reads the informer caches, which lag.  A merge patch carries   *)
(* the fields that differ from the copy it was computed from.              *)
(***************************************************************************)
EXTENDS Naturals

CONSTANTS
  Claims,      \* NodeClaims that refer to the NodeClass
  Zones,       \* availability zones of the region
  Specs,       \* the specs users write
  Images, Labels, \* what else a spec has, hashed and not hashed
  None,        \* no annotation, no object
  MaxEdits,    \* bound on the edits of the spec
  MaxRestarts  \* bound on the restarts of the controller

Hashes == [version : {"old", "new"}, zones : SUBSET Zones, image : Images,
           labels : Labels \cup {None}]

Versions == {"old", "new", None}

Annotations == [hash : Hashes \cup {None}, version : Versions, drifted : BOOLEAN]

ASSUME DriftAssumption ==
  /\ Specs \subseteq [zones : (SUBSET Zones) \ {{}}, image : Images, labels : Labels]
  /\ None \notin Hashes \cup {"old", "new"} \cup Annotations
  /\ MaxEdits \in Nat /\ MaxRestarts \in Nat

VARIABLES
  nodeClass,  \* its spec, the zones of its status, and the two annotations
  view,       \* the same in the informer cache
  pass,       \* the hash controller's local state
  claim,      \* how far each NodeClaim is
  marks,      \* its annotations and whether it has a Drifted condition
  seen,       \* the same in the informer cache
  server,     \* the spec and the zone of its server, and (history) flagged by the old version
  calm,       \* history: no edit of a hashed field since the old version's last stamp
  edits,
  restarts

vars == <<nodeClass, view, pass, claim, marks, seen, server, calm, edits, restarts>>

Current == "new"

\* Mutant: the labels are hashed as well.
Hash_WithLabels(version, spec) ==
  [version |-> version, zones |-> spec.zones, image |-> spec.image, labels |-> spec.labels]

\* Labels are updated in place on servers and stay out of the hash.
Hash(version, spec) ==
  [version |-> version, zones |-> spec.zones, image |-> spec.image, labels |-> None]

\* Two specs that servers need not be replaced between.
SameServers(a, b) == a.zones = b.zones /\ a.image = b.image

----------------------------------------------------------------------------
(* IsDrifted.                                                              *)

\* Mutant: the versions are not compared.
StaticFieldsDrifted_AnyVersion(object, annotations) ==
  /\ None \notin {object.hash, object.version, annotations.hash, annotations.version}
  /\ object.hash # annotations.hash

\* Hashes of different versions are not comparable: no drift.
StaticFieldsDrifted(object, annotations) ==
  /\ None \notin {object.hash, object.version, annotations.hash, annotations.version}
  /\ object.version = annotations.version
  /\ object.hash # annotations.hash

\* The zone is the server's own; a status without zones is one not resolved yet.
ZoneDrifted(object, zone) == object.zones # {} /\ zone \notin object.zones

\* If the server cannot be read, its zone is left out.  The NodePool and the NodeClass are
\* there throughout.
IsDrifted(c, read) ==
  \/ StaticFieldsDrifted(view, seen[c])
  \/ read /\ ZoneDrifted(view, server[c].zone)

----------------------------------------------------------------------------
(* Either the old version has been running when this one starts, and may   *)
(* have left an edit it did not stamp any more, and drift that was not     *)
(* flagged any more; or the NodeClass was created just now.                *)

Blank == [hash |-> None, version |-> None, drifted |-> FALSE]

Init ==
  /\ \E spec, stamped \in Specs :
       \/ /\ nodeClass = [spec |-> spec, zones |-> stamped.zones,
                          hash |-> Hash("old", stamped), version |-> "old"]
          /\ calm = SameServers(spec, stamped)
          /\ claim \in [Claims -> {"absent", "launched"}]
          /\ server \in [Claims -> {None} \cup [from : Specs, zone : Zones, flagged : BOOLEAN]]
          /\ \A c \in Claims :
               /\ claim[c] = "absent" <=> server[c] = None
               /\ claim[c] = "launched" =>
                    /\ server[c].zone \in server[c].from.zones
                    /\ server[c].flagged => ~SameServers(server[c].from, stamped)
       \/ /\ nodeClass = [spec |-> spec, zones |-> {}, hash |-> None, version |-> None]
          /\ calm = TRUE
          /\ claim = [c \in Claims |-> "absent"]
          /\ server = [c \in Claims |-> None]
  /\ marks = [c \in Claims |->
                IF claim[c] = "absent" THEN None
                ELSE [hash |-> Hash("old", server[c].from), version |-> "old",
                      drifted |-> server[c].flagged]]
  /\ view = nodeClass /\ seen = marks
  /\ pass = [pc |-> "idle"]
  /\ edits = 0 /\ restarts = 0

----------------------------------------------------------------------------
(* Users, the informers and the status controller.                         *)

EditSpec(spec) ==
  /\ edits < MaxEdits /\ spec # nodeClass.spec
  /\ edits' = edits + 1
  /\ calm' = (calm /\ SameServers(spec, nodeClass.spec))
  /\ nodeClass' = [nodeClass EXCEPT !.spec = spec]
  /\ UNCHANGED <<view, pass, claim, marks, seen, server, restarts>>

SyncView ==
  /\ view # nodeClass
  /\ view' = nodeClass
  /\ UNCHANGED <<nodeClass, pass, claim, marks, seen, server, calm, edits, restarts>>

SyncClaim(c) ==
  /\ seen[c] # marks[c]
  /\ seen' = [seen EXCEPT ![c] = marks[c]]
  /\ UNCHANGED <<nodeClass, view, pass, claim, marks, server, calm, edits, restarts>>

\* All zones the spec names exist; the rest of the status is the subject of NodeClass.
ResolveZones ==
  /\ nodeClass.zones # view.spec.zones
  /\ nodeClass' = [nodeClass EXCEPT !.zones = view.spec.zones]
  /\ UNCHANGED <<view, pass, claim, marks, seen, server, calm, edits, restarts>>

\* The caches of a new process start with what the API server has.  A Create that was
\* under way is lost (Lifecycle), and its NodeClaim is launched anew.
Restart ==
  /\ restarts < MaxRestarts
  /\ restarts' = restarts + 1
  /\ pass' = [pc |-> "idle"]
  /\ view' = nodeClass /\ seen' = marks
  /\ claim' = [c \in Claims |-> IF claim[c] = "creating" THEN "pending" ELSE claim[c]]
  /\ server' = [c \in Claims |-> IF claim[c] = "creating" THEN None ELSE server[c]]
  /\ UNCHANGED <<nodeClass, marks, calm, edits>>

----------------------------------------------------------------------------
(* The hash controller.                                                    *)

\* The NodeClaims a pass has to stamp.
Stale == {c \in Claims : seen[c] # None /\ seen[c].version # Current}

\* What a pass holds: the NodeClass it read, and of the NodeClaims it listed those left to
\* stamp and those with a Drifted condition.
Pass(todo) ==
  [pc |-> "stamp", object |-> view, failed |-> FALSE,
   todo |-> todo, known |-> {c \in todo : seen[c].drifted}]

\* Mutant: the hash is stamped once per version.
HashRead_Once ==
  /\ pass.pc = "idle"
  /\ view.version # Current
  /\ pass' = Pass(Stale)
  /\ UNCHANGED <<nodeClass, view, claim, marks, seen, server, calm, edits, restarts>>

\* A pass lists the NodeClaims if the NodeClass is of another version.
HashRead ==
  /\ pass.pc = "idle"
  /\ view.version # Current \/ view.hash # Hash(Current, view.spec)
  /\ pass' = Pass(IF view.version # Current THEN Stale ELSE {})
  /\ UNCHANGED <<nodeClass, view, claim, marks, seen, server, calm, edits, restarts>>

Stamped(c, hash) == [marks EXCEPT ![c].version = Current, ![c].hash = hash]

\* Mutant: drift that is known is forgiven.
Stamp_Forgives(c) ==
  /\ pass.pc = "stamp" /\ c \in pass.todo
  /\ marks' = IF marks[c] = None THEN marks ELSE Stamped(c, Hash(Current, pass.object.spec))
  /\ pass' = [pass EXCEPT !.todo = @ \ {c}]
  /\ UNCHANGED <<nodeClass, view, claim, seen, server, calm, edits, restarts>>

\* Mutant: the version moves and the hash does not.
Stamp_VersionOnly(c) ==
  /\ pass.pc = "stamp" /\ c \in pass.todo
  /\ marks' = IF marks[c] = None THEN marks ELSE Stamped(c, marks[c].hash)
  /\ pass' = [pass EXCEPT !.todo = @ \ {c}]
  /\ UNCHANGED <<nodeClass, view, claim, seen, server, calm, edits, restarts>>

\* A NodeClaim known to be drifted keeps its hash; one that is gone is passed over.
Stamp(c) ==
  /\ pass.pc = "stamp" /\ c \in pass.todo
  /\ marks' = IF marks[c] = None THEN marks
              ELSE Stamped(c, IF c \in pass.known THEN marks[c].hash
                                                  ELSE Hash(Current, pass.object.spec))
  /\ pass' = [pass EXCEPT !.todo = @ \ {c}]
  /\ UNCHANGED <<nodeClass, view, claim, seen, server, calm, edits, restarts>>

\* Mutant: the errors of the loop are dropped.
StampFails_Dropped(c) ==
  /\ pass.pc = "stamp" /\ c \in pass.todo
  /\ pass' = [pass EXCEPT !.todo = @ \ {c}]
  /\ UNCHANGED <<nodeClass, view, claim, marks, seen, server, calm, edits, restarts>>

\* The loop goes on.
StampFails(c) ==
  /\ pass.pc = "stamp" /\ c \in pass.todo
  /\ pass' = [pass EXCEPT !.todo = @ \ {c}, !.failed = TRUE]
  /\ UNCHANGED <<nodeClass, view, claim, marks, seen, server, calm, edits, restarts>>

\* After any error the NodeClass is left alone, and the pass comes again.
PassFails ==
  /\ pass.pc = "stamp" /\ pass.todo = {} /\ pass.failed
  /\ pass' = [pc |-> "idle"]
  /\ UNCHANGED <<nodeClass, view, claim, marks, seen, server, calm, edits, restarts>>

Patched ==
  LET hash == Hash(Current, pass.object.spec) IN
    [nodeClass EXCEPT !.hash = IF hash = pass.object.hash THEN @ ELSE hash,
                      !.version = IF Current = pass.object.version THEN @ ELSE Current]

\* Mutant: errors of the loop do not keep the NodeClass from being stamped.
HashPatch_IgnoresErrors ==
  /\ pass.pc = "stamp" /\ pass.todo = {}
  /\ nodeClass' = Patched
  /\ pass' = [pc |-> "idle"]
  /\ UNCHANGED <<view, claim, marks, seen, server, calm, edits, restarts>>

HashPatch ==
  /\ pass.pc = "stamp" /\ pass.todo = {} /\ ~pass.failed
  /\ nodeClass' = Patched
  /\ pass' = [pc |-> "idle"]
  /\ UNCHANGED <<view, claim, marks, seen, server, calm, edits, restarts>>

HashPatchFails ==
  /\ pass.pc = "stamp" /\ pass.todo = {} /\ ~pass.failed
  /\ pass' = [pc |-> "idle"]
  /\ UNCHANGED <<nodeClass, view, claim, marks, seen, server, calm, edits, restarts>>

----------------------------------------------------------------------------
(* NodeClaims and the cloud provider.                                      *)

AddClaim(c) ==
  /\ claim[c] = "absent"
  /\ claim' = [claim EXCEPT ![c] = "pending"]
  /\ marks' = [marks EXCEPT ![c] = Blank]
  /\ UNCHANGED <<nodeClass, view, pass, seen, server, calm, edits, restarts>>

RemoveClaim(c) ==
  /\ claim[c] \in {"pending", "launched"}
  /\ claim' = [claim EXCEPT ![c] = "gone"]
  /\ marks' = [marks EXCEPT ![c] = None]
  /\ server' = [server EXCEPT ![c] = None]
  /\ UNCHANGED <<nodeClass, view, pass, seen, calm, edits, restarts>>

\* Create works on the NodeClass it read: the server is in one of its zones.
Create(c, zone) ==
  /\ claim[c] = "pending" /\ seen[c] # None
  /\ zone \in view.zones
  /\ claim' = [claim EXCEPT ![c] = "creating"]
  /\ server' = [server EXCEPT ![c] = [from |-> view.spec, zone |-> zone, flagged |-> FALSE]]
  /\ UNCHANGED <<nodeClass, view, pass, marks, seen, calm, edits, restarts>>

\* Mutant: the version is not among the annotations.
CreatedMarks_NoVersion(c) == [marks EXCEPT ![c].hash = Hash(Current, server[c].from)]

\* The annotations of Create's answer, beside the Drifted condition of the NodeClaim.
CreatedMarks(c) == Stamped(c, Hash(Current, server[c].from))

\* Karpenter writes Create's answer to the NodeClaim.
Persist(c) ==
  /\ claim[c] = "creating"
  /\ claim' = [claim EXCEPT ![c] = "launched"]
  /\ marks' = CreatedMarks(c)
  /\ UNCHANGED <<nodeClass, view, pass, seen, server, calm, edits, restarts>>

\* Karpenter keeps the Drifted condition at what IsDrifted says, under an optimistic lock.
DriftCheck(c, read) ==
  /\ claim[c] = "launched" /\ seen[c] = marks[c]
  /\ marks[c].drifted # IsDrifted(c, read)
  /\ marks' = [marks EXCEPT ![c].drifted = ~@]
  /\ UNCHANGED <<nodeClass, view, pass, claim, seen, server, calm, edits, restarts>>

----------------------------------------------------------------------------
Next ==
  \/ \E spec \in Specs : EditSpec(spec)
  \/ SyncView \/ ResolveZones \/ Restart
  \/ HashRead \/ PassFails \/ HashPatch \/ HashPatchFails
  \/ \E c \in Claims :
       \/ SyncClaim(c) \/ Stamp(c) \/ StampFails(c)
       \/ AddClaim(c) \/ RemoveClaim(c) \/ Persist(c)
       \/ \E zone \in Zones : Create(c, zone)
       \/ \E read \in BOOLEAN : DriftCheck(c, read)

Spec == Init /\ [][Next]_vars

(* Reconciles are retried, caches catch up, and a patch that is repeated   *)
(* for ever succeeds.                                                      *)
Fairness ==
  /\ WF_vars(SyncView) /\ WF_vars(ResolveZones) /\ WF_vars(HashRead)
  /\ SF_vars(HashPatch) /\ WF_vars(PassFails)
  /\ \A c \in Claims :
       WF_vars(SyncClaim(c)) /\ SF_vars(Stamp(c)) /\ WF_vars(Stamp(c) \/ StampFails(c))

FairSpec == Spec /\ Fairness

----------------------------------------------------------------------------
(* Properties.                                                              *)

Objects == [spec : Specs, zones : SUBSET Zones, hash : Hashes \cup {None}, version : Versions]

Passes == [pc : {"stamp"}, object : Objects, failed : BOOLEAN,
           todo : SUBSET Claims, known : SUBSET Claims]

Servers == [from : Specs, zone : Zones, flagged : BOOLEAN]

\* Every variable stays within its type, and a launched NodeClaim has both annotations.
TypeOK ==
  /\ nodeClass \in Objects /\ view \in Objects
  /\ pass \in Passes \cup [pc : {"idle"}]
  /\ claim \in [Claims -> {"absent", "pending", "creating", "launched", "gone"}]
  /\ marks \in [Claims -> Annotations \cup {None}]
  /\ seen \in [Claims -> Annotations \cup {None}]
  /\ server \in [Claims -> Servers \cup {None}]
  /\ calm \in BOOLEAN /\ edits \in 0..MaxEdits /\ restarts \in 0..MaxRestarts
  /\ \A c \in Claims :
       /\ IF claim[c] \in {"absent", "gone"} THEN marks[c] = None ELSE marks[c] \in Annotations
       /\ claim[c] \in {"creating", "launched"} => server[c] \in Servers
       /\ claim[c] = "launched" => None \notin {marks[c].hash, marks[c].version}

\* An upgrade replaces no node needlessly: while no hashed field is edited, a server that
\* was launched from the present spec has no Drifted condition, at whatever point the
\* migration, its failures and the caches are (updateNodeClaimHash, areStaticFieldsDrifted).
NoNeedlessDrift ==
  calm => \A c \in Claims :
            claim[c] = "launched" /\ SameServers(server[c].from, nodeClass.spec) =>
              ~marks[c].drifted

\* The NodeClass gets the new version last: once it has it, no launched NodeClaim is left
\* with an old one that nothing would re-stamp any more, whichever patches failed, whatever
\* the list of the pass did not show, and across restarts (Reconcile, updateNodeClaimHash).
MigrationOrder ==
  nodeClass.version = Current =>
    \A c \in Claims : claim[c] = "launched" => marks[c].version = Current

\* Known drift is not forgiven: a NodeClaim that was flagged before the upgrade keeps the
\* hash of its launch, which no hash of the new version equals, and its condition is not
\* cleared before it carries the new version (updateNodeClaimHash, areStaticFieldsDrifted).
FlaggedKeepsHash ==
  \A c \in Claims : claim[c] = "launched" /\ server[c].flagged =>
    /\ marks[c].hash = Hash("old", server[c].from)
    /\ marks[c].version # Current => marks[c].drifted

\* A server is reported as drifted if its hash differs or its zone is not listed.
ReportedExactly(c) ==
  IsDrifted(c, TRUE) <=> \/ marks[c].hash # Hash(Current, nodeClass.spec)
                         \/ server[c].zone \notin nodeClass.spec.zones

\* The migration ends, although patches fail and the controller restarts: everything carries
\* the new version and the NodeClass the hash of its last spec, and then exactly the servers
\* of another hash, or of a zone that is not listed, are reported as drifted (nodeclass.hash
\* Reconcile, IsDrifted).
DriftSettles ==
  <>[](/\ nodeClass.version = Current /\ nodeClass.hash = Hash(Current, nodeClass.spec)
       /\ \A c \in Claims : claim[c] = "launched" => marks[c].version = Current /\ ReportedExactly(c))

\* The migration is through, nothing that is under way will write an older hash, and the
\* zones of the status are those of the spec.
Settled ==
  /\ nodeClass.version = Current /\ nodeClass.hash = Hash(Current, nodeClass.spec)
  /\ nodeClass.zones = nodeClass.spec.zones
  /\ view = nodeClass
  /\ pass.pc = "stamp" => Hash(Current, pass.object.spec) = nodeClass.hash

\* A migration that is through stays so until the spec is edited, and whenever the informer
\* has a NodeClaim's annotations, drift is reported for exactly the servers of another hash
\* or zone: neither a late pass nor a launch, a failing patch or a restart changes that
\* (nodeclass.hash Reconcile, IsDrifted).
StaysSettled ==
  [][Settled /\ nodeClass'.spec = nodeClass.spec
       => /\ Settled'
          /\ \A c \in Claims : claim'[c] = "launched" /\ seen'[c] = marks'[c] => ReportedExactly(c)']_vars

=============================================================================
