----------------------------- MODULE NodeClass -----------------------------
(***************************************************************************)
(* One StackitNodeClass and the controllers that share it: the status      *)
(* controller (zones and conditions), the termination controller           *)
(* (finalizer), and the cloud provider, which launches servers from it.    *)
(* The hash controller and drift are the subject of Drift.                 *)
(*                                                                         *)
(* All of them read the same informer cache, which lags behind the API     *)
(* server, and write merge patches without a resource version: a patch     *)
(* carries the fields that differ from the copy it was computed from and   *)
(* is applied to whatever the object is by then.                           *)
(***************************************************************************)
EXTENDS Naturals, FiniteSets

CONSTANTS
  Claims,        \* NodeClaims that refer to the NodeClass
  Zones,         \* zone IDs a spec may name
  Regions,       \* the lists of zones STACKIT reports for the region, as it adds some
  Specs,         \* the specs users write
  None,
  Finalized,     \* whether the NodeClass starts with its finalizer
  MaxGeneration  \* bound on the edits of the spec

ASSUME NodeClassAssumption ==
  /\ Regions \subseteq SUBSET Zones
  /\ Specs \subseteq [zones : SUBSET Zones, network : BOOLEAN, nics : Nat,
                      labels : {"valid", "invalid"}]
  /\ Finalized \in BOOLEAN /\ MaxGeneration \in Nat \ {0}

VARIABLES
  nodeClass,    \* the object in the API server
  view,         \* the same in the informer cache
  region,       \* the zones of the region
  zoneList,     \* the status controller's cached list of them, or None
  status,       \* the status controller: idle, or a patch about to be sent
  termination,  \* the termination controller: "idle", "add" or "remove" the finalizer
  claim,        \* the state of each NodeClaim
  seenClaims,   \* NodeClaims in the informer cache
  launch        \* what a NodeClaim's server is, or is about to be, launched from

vars == <<nodeClass, view, region, zoneList, status, termination, claim, seenClaims, launch>>

----------------------------------------------------------------------------
(* Pure parts.                                                             *)

Unknown == [zonesReady |-> "Unknown", validation |-> "Unknown", observed |-> 0]

\* The status package: Ready is False if a condition is, True if both are.
Ready(conditions) ==
  LET both == {conditions.zonesReady, conditions.validation} IN
  IF "False" \in both THEN "False" ELSE IF both = {"True"} THEN "True" ELSE "Unknown"

\* Mutant: zones the region does not have are resolved all the same.
Resolved_KeepsUnknown(spec, zones) == IF spec.zones = {} THEN zones ELSE spec.zones

\* The zones a spec resolves to, given those the region has: all that it asks for, or none.
Resolved(spec, zones) ==
  LET requested == IF spec.zones = {} THEN zones ELSE spec.zones IN
  IF requested \subseteq zones THEN requested ELSE {}

\* One of network and NICs, and of NICs only one: they cannot be shared between servers.
ValidateNetworking(spec) == spec.network # (spec.nics > 0) /\ spec.nics <= 1

Validation(spec) ==
  IF spec.labels = "valid" /\ ValidateNetworking(spec) THEN "True" ELSE "False"

\* Mutant: the zones resolved for an earlier spec survive a spec that names unknown ones.
ResolvedZones_Kept(object, answer) ==
  IF answer = None \/ Resolved(object.spec, answer) = {} THEN object.zones
  ELSE Resolved(object.spec, answer)

\* Mutant: a list that failed counts as an empty one.
ResolvedZones_Cleared(object, answer) ==
  IF answer = None THEN {} ELSE Resolved(object.spec, answer)

\* resolveAvailabilityZones: a list that failed leaves the zones as they are.
ResolvedZones(object, answer) ==
  IF answer = None THEN object.zones ELSE Resolved(object.spec, answer)

ResolvedConditions(object, answer) ==
  [zonesReady |-> IF answer = None THEN "Unknown"
                  ELSE IF Resolved(object.spec, answer) # {} THEN "True" ELSE "False",
   validation |-> Validation(object.spec),
   observed   |-> object.generation]

----------------------------------------------------------------------------
Init ==
  /\ \E spec \in Specs :
       nodeClass = [exists |-> TRUE, generation |-> 1, spec |-> spec, deleted |-> FALSE,
                    finalizer |-> Finalized, zones |-> {}, conditions |-> Unknown]
  /\ view = nodeClass
  /\ region \in Regions /\ zoneList = None
  /\ status = [pc |-> "idle"]
  /\ termination = "idle"
  /\ claim = [c \in Claims |-> "absent"]
  /\ seenClaims = {}
  /\ launch = [c \in Claims |-> None]

----------------------------------------------------------------------------
(* Users, STACKIT, time and the informers.                                 *)

EditSpec(spec) ==
  /\ nodeClass.exists /\ nodeClass.generation < MaxGeneration
  /\ spec # nodeClass.spec
  /\ nodeClass' = [nodeClass EXCEPT !.spec = spec, !.generation = @ + 1]
  /\ UNCHANGED <<view, region, zoneList, status, termination, claim, seenClaims, launch>>

\* Without a finalizer the object goes at once.
DeleteNodeClass ==
  /\ nodeClass.exists /\ ~nodeClass.deleted
  /\ nodeClass' = [nodeClass EXCEPT !.deleted = TRUE, !.exists = nodeClass.finalizer]
  /\ UNCHANGED <<view, region, zoneList, status, termination, claim, seenClaims, launch>>

SyncView ==
  /\ view # nodeClass
  /\ view' = nodeClass
  /\ UNCHANGED <<nodeClass, region, zoneList, status, termination, claim, seenClaims, launch>>

\* STACKIT adds zones to the region.
AddZones(zones) ==
  /\ region \subseteq zones /\ region # zones
  /\ region' = zones
  /\ UNCHANGED <<nodeClass, view, zoneList, status, termination, claim, seenClaims, launch>>

\* ValidationTTL passes.
ExpireZones ==
  /\ zoneList # None
  /\ zoneList' = None
  /\ UNCHANGED <<nodeClass, view, region, status, termination, claim, seenClaims, launch>>

Existing == {c \in Claims : claim[c] \in {"present", "creating", "launched"}}

SyncClaims ==
  /\ seenClaims # Existing
  /\ seenClaims' = Existing
  /\ UNCHANGED <<nodeClass, view, region, zoneList, status, termination, claim, launch>>

----------------------------------------------------------------------------
(* The status controller.                                                  *)

\* A pass works with the cached list of zones, or with the answer of a call, which is
\* cached whatever it lists, unless it failed.
StatusRead(failed) ==
  /\ status.pc = "idle" /\ view.exists /\ ~view.deleted
  /\ failed => zoneList = None
  /\ LET answer == IF zoneList # None THEN zoneList ELSE IF failed THEN None ELSE region IN
       /\ zoneList' = answer
       /\ status' = [pc |-> "patch", failed |-> failed,
                     zones |-> ResolvedZones(view, answer),
                     zonesDiffer |-> ResolvedZones(view, answer) # view.zones,
                     conditions |-> ResolvedConditions(view, answer),
                     conditionsDiffer |-> ResolvedConditions(view, answer) # view.conditions]
  /\ UNCHANGED <<nodeClass, view, region, termination, claim, seenClaims, launch>>

\* Each list is replaced as a whole, and only if it differs from the copy that was read.
StatusPatch ==
  /\ status.pc = "patch"
  /\ nodeClass' = IF ~nodeClass.exists THEN nodeClass
                  ELSE [nodeClass EXCEPT
                          !.zones = IF status.zonesDiffer THEN status.zones ELSE @,
                          !.conditions = IF status.conditionsDiffer THEN status.conditions ELSE @]
  /\ status' = [pc |-> "idle"]
  /\ UNCHANGED <<view, region, zoneList, termination, claim, seenClaims, launch>>

StatusPatchFails ==
  /\ status.pc = "patch"
  /\ status' = [pc |-> "idle"]
  /\ UNCHANGED <<nodeClass, view, region, zoneList, termination, claim, seenClaims, launch>>

----------------------------------------------------------------------------
(* The termination controller.                                             *)

TerminationRead ==
  /\ termination = "idle" /\ view.exists
  /\ ~view.deleted /\ ~view.finalizer
  /\ termination' = "add"
  /\ UNCHANGED <<nodeClass, view, region, zoneList, status, claim, seenClaims, launch>>

\* Mutant: the NodeClaims are not waited for.
TerminationList_NoWait ==
  /\ termination = "idle" /\ view.exists
  /\ view.deleted
  /\ termination' = "remove"
  /\ UNCHANGED <<nodeClass, view, region, zoneList, status, claim, seenClaims, launch>>

\* Mutant: NodeClaims that are already gone are waited for as well.
TerminationList_Gone ==
  /\ termination = "idle" /\ view.exists
  /\ view.deleted /\ \A c \in Claims : claim[c] = "absent"
  /\ termination' = "remove"
  /\ UNCHANGED <<nodeClass, view, region, zoneList, status, claim, seenClaims, launch>>

TerminationList ==
  /\ termination = "idle" /\ view.exists
  /\ view.deleted /\ seenClaims = {}
  /\ termination' = "remove"
  /\ UNCHANGED <<nodeClass, view, region, zoneList, status, claim, seenClaims, launch>>

\* The API server refuses a new finalizer on an object that is being deleted, and drops
\* a deleted object with its last finalizer.
TerminationPatch ==
  /\ termination # "idle"
  /\ nodeClass' =
       IF termination = "add" /\ nodeClass.exists /\ ~nodeClass.deleted
       THEN [nodeClass EXCEPT !.finalizer = TRUE]
       ELSE IF termination = "remove" /\ nodeClass.exists
       THEN [nodeClass EXCEPT !.finalizer = FALSE, !.exists = FALSE]
       ELSE nodeClass
  /\ termination' = "idle"
  /\ UNCHANGED <<view, region, zoneList, status, claim, seenClaims, launch>>

TerminationPatchFails ==
  /\ termination # "idle"
  /\ termination' = "idle"
  /\ UNCHANGED <<nodeClass, view, region, zoneList, status, claim, seenClaims, launch>>

----------------------------------------------------------------------------
(* NodeClaims and the cloud provider.                                      *)

AddClaim(c) ==
  /\ claim[c] = "absent"
  /\ claim' = [claim EXCEPT ![c] = "present"]
  /\ UNCHANGED <<nodeClass, view, region, zoneList, status, termination, seenClaims, launch>>

\* The NodeClaim was deleted and its server, if any, is gone.
RemoveClaim(c) ==
  /\ claim[c] \in {"present", "launched"}
  /\ claim' = [claim EXCEPT ![c] = "gone"]
  /\ launch' = [launch EXCEPT ![c] = None]
  /\ UNCHANGED <<nodeClass, view, region, zoneList, status, termination, seenClaims>>

\* Mutant: the status may be that of an earlier spec.
Launchable_AnyGeneration(object) ==
  object.exists /\ ~object.deleted /\ Ready(object.conditions) = "True"

\* What Create requires of the NodeClass before it asks for instance types.
Launchable(object) ==
  /\ object.exists /\ ~object.deleted
  /\ Ready(object.conditions) = "True"
  /\ object.conditions.observed = object.generation

\* Create resolves the NodeClass once and works on that copy; without zones there are
\* no instance types.
CreateRead(c) ==
  /\ claim[c] = "present" /\ c \in seenClaims
  /\ Launchable(view) /\ view.zones # {}
  /\ claim' = [claim EXCEPT ![c] = "creating"]
  /\ launch' = [launch EXCEPT ![c] =
                  [spec |-> view.spec, owned |-> view.finalizer, zones |-> view.zones]]
  /\ UNCHANGED <<nodeClass, view, region, zoneList, status, termination, seenClaims>>

\* What the payload asks for; without exactly one of network and NICs there is no payload.
Networking(spec) ==
  CASE spec.network /\ spec.nics = 0 -> "network"
    [] ~spec.network /\ spec.nics > 0 -> "nics"
    [] OTHER -> "error"

\* The server is in one zone of the copy.
CreateServer(c, z) ==
  /\ claim[c] = "creating" /\ z \in launch[c].zones
  /\ Networking(launch[c].spec) # "error"
  /\ claim' = [claim EXCEPT ![c] = "launched"]
  /\ launch' = [launch EXCEPT ![c] = [spec |-> @.spec, owned |-> @.owned, zone |-> z]]
  /\ UNCHANGED <<nodeClass, view, region, zoneList, status, termination, seenClaims>>

CreateFails(c) ==
  /\ claim[c] = "creating"
  /\ claim' = [claim EXCEPT ![c] = "present"]
  /\ launch' = [launch EXCEPT ![c] = None]
  /\ UNCHANGED <<nodeClass, view, region, zoneList, status, termination, seenClaims>>

----------------------------------------------------------------------------
Next ==
  \/ \E spec \in Specs : EditSpec(spec)
  \/ DeleteNodeClass \/ SyncView \/ SyncClaims \/ ExpireZones
  \/ \E zones \in Regions : AddZones(zones)
  \/ \E failed \in BOOLEAN : StatusRead(failed)
  \/ StatusPatch \/ StatusPatchFails
  \/ TerminationRead \/ TerminationList \/ TerminationPatch \/ TerminationPatchFails
  \/ \E c \in Claims :
       \/ AddClaim(c) \/ RemoveClaim(c) \/ CreateRead(c) \/ CreateFails(c)
       \/ \E z \in Zones : CreateServer(c, z)

Spec == Init /\ [][Next]_vars

(* Reconciles are retried with backoff and repeated by the resync, caches   *)
(* catch up and expire, and a call that is repeated for ever succeeds: so a *)
(* pass of the status controller in which its calls succeed comes again.    *)
Fairness ==
  /\ WF_vars(SyncView) /\ WF_vars(SyncClaims) /\ WF_vars(ExpireZones)
  /\ SF_vars(StatusRead(FALSE)) /\ WF_vars(StatusPatch \/ StatusPatchFails)
  /\ SF_vars(status.pc = "patch" /\ ~status.failed /\ StatusPatch)
  /\ WF_vars(TerminationRead) /\ WF_vars(TerminationList) /\ SF_vars(TerminationPatch)

FairSpec == Spec /\ Fairness

----------------------------------------------------------------------------
(* Properties.                                                              *)

Conditions == [zonesReady : {"True", "False", "Unknown"},
               validation : {"True", "False", "Unknown"}, observed : 0..MaxGeneration]

Objects == [exists : BOOLEAN, generation : 1..MaxGeneration, spec : Specs, deleted : BOOLEAN,
            finalizer : BOOLEAN, zones : SUBSET Zones, conditions : Conditions]

Patches == [pc : {"patch"}, failed : BOOLEAN, zones : SUBSET Zones,
            zonesDiffer : BOOLEAN, conditions : Conditions, conditionsDiffer : BOOLEAN]

Creating == [spec : Specs, owned : BOOLEAN, zones : SUBSET Zones]
Launched == [spec : Specs, owned : BOOLEAN, zone : Zones]

\* Every variable stays within its type, and every zone in use is one of the region's.
TypeOK ==
  /\ nodeClass \in Objects /\ view \in Objects
  /\ region \in Regions /\ zoneList \in Regions \cup {None}
  /\ status \in Patches \cup [pc : {"idle"}]
  /\ termination \in {"idle", "add", "remove"}
  /\ claim \in [Claims -> {"absent", "present", "creating", "launched", "gone"}]
  /\ seenClaims \subseteq Claims
  /\ launch \in [Claims -> {None} \cup Creating \cup Launched]
  /\ \A c \in Claims :
       /\ claim[c] = "creating" => launch[c] \in Creating /\ launch[c].zones \subseteq region
       /\ claim[c] = "launched" => launch[c] \in Launched /\ launch[c].zone \in region
  /\ nodeClass.zones \subseteq region /\ view.zones \subseteq region
  /\ zoneList # None => zoneList \subseteq region
  /\ status.pc = "patch" => status.zones \subseteq region

\* What a launch needs of a spec: valid labels, a payload that names a network or a single
\* NIC, and zones that the region has had.
Accepted(spec) ==
  /\ spec.labels = "valid"
  /\ Networking(spec) # "error" /\ spec.nics <= 1
  /\ \E zones \in Regions : Resolved(spec, zones) # {}

\* A launch is only begun from a spec that the status controller's checks accept and the
\* payload can express, however often the spec is edited while status patches are under way
\* (Create's readiness and ObservedGeneration checks, validateNetworking, networking).
LaunchesFromAcceptedSpec ==
  \A c \in Claims : claim[c] \in {"creating", "launched"} => Accepted(launch[c].spec)

\* The NodeClass is not removed while a NodeClaim has a server, or is getting one, that was
\* launched from a copy with the finalizer: that goes only after a list without NodeClaims,
\* and no Create that starts after that list finds the NodeClass (termination controller).
OutlivesOwned ==
  ~nodeClass.exists =>
    \A c \in Claims : claim[c] \in {"creating", "launched"} => ~launch[c].owned

\* "There is no window in which a NodeClass can be deleted out from under running nodes",
\* whatever copy they were launched from (termination controller).
OutlivesLaunched ==
  ~nodeClass.exists => \A c \in Claims : claim[c] \notin {"creating", "launched"}

\* The conditions of the present spec and region; failures of the list leave Unknown.
RightConditions == {ResolvedConditions(nodeClass, answer) : answer \in {region, None}}

\* The status ends up as that of the last spec and of the zones the region has by then,
\* although each patch was computed from copies of both that lagged behind (nodeclass.status,
\* listAvailabilityZones).
StatusConverges ==
  <>[](nodeClass.exists /\ ~nodeClass.deleted =>
         nodeClass.zones = Resolved(nodeClass.spec, region) /\ nodeClass.conditions \in RightConditions)

\* The status is right, and so are the copies it is compared with and a patch under way.
Settled ==
  /\ view.spec = nodeClass.spec /\ view.generation = nodeClass.generation
  /\ zoneList \in {None, region}
  /\ {nodeClass.zones, view.zones} = {Resolved(nodeClass.spec, region)}
  /\ nodeClass.conditions \in RightConditions
  /\ status.pc = "patch" =>
       /\ status.zonesDiffer => status.zones = Resolved(nodeClass.spec, region)
       /\ status.conditionsDiffer => status.conditions \in RightConditions

\* A status that is right stays so until the spec is edited or the region gets a zone: failed
\* calls, caches that expire, patches that arrive late and a deletion do not disturb it
\* (nodeclass.status; a failed list keeps the zones).
StaysSettled ==
  [][Settled /\ nodeClass'.spec = nodeClass.spec /\ region' = region => Settled']_vars

\* A NodeClass whose deletion was asked for goes once its NodeClaims are gone.
Terminates ==
  nodeClass.deleted /\ Existing = {} ~> ~nodeClass.exists \/ Existing # {}

=============================================================================
