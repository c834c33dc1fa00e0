----------------------------- MODULE Lifecycle -----------------------------
(***************************************************************************)
(* The life of STACKIT servers and of the NodeClaims that own them:        *)
(* Create and Delete of the cloud provider, called by Karpenter's own      *)
(* NodeClaim controllers, and the garbage collector that reaps the servers *)
(* no NodeClaim owns.  The garbage collector works on two lists taken at   *)
(* different moments and on the age of a server, so what protects a server *)
(* that was just launched is a race between three delays: the grace period *)
(* of the code and two that the code does not control, which are constants *)
(* here:                                                                   *)
(*   PersistDelay  from the server's createdAt until the provider ID is    *)
(*                 visible to a NodeClaim list (Create's answer, the       *)
(*                 status patch and the informer);                         *)
(*   PassDelay     from the NodeClaim list of a garbage collection pass    *)
(*                 until the age of the last listed server is read.        *)
(***************************************************************************)
EXTENDS Integers, FiniteSets

CONSTANTS
  Claims,           \* NodeClaims
  Servers,          \* server IDs STACKIT may assign
  None,             \* no server: an empty Status.ProviderID
  Unstamped,        \* servers whose createdAt the API leaves out
  Joining,          \* servers whose kubelet may register a Node
  NodeClassStates,  \* the states the NodeClass changes between
  GracePeriod,      \* gcGracePeriod
  PersistDelay,
  PassDelay,
  Restarts          \* whether the controller restarts now and then

ASSUME LifecycleAssumption ==
  /\ None \notin Servers
  /\ Unstamped \subseteq Servers /\ Joining \subseteq Servers
  /\ NodeClassStates \subseteq {"ready", "unresolved", "absent"}
  /\ GracePeriod \in Nat /\ PersistDelay \in Nat /\ PassDelay \in Nat
  /\ Restarts \in BOOLEAN

VARIABLES
  server,      \* the IaaS API's state of each server
  age,         \* time.Since(createdAt), counted up to GracePeriod
  claim,       \* the NodeClaim object in the API server
  launched,    \* memory: the server of a Create whose result is not persisted
  providerID,  \* NodeClaim.Status.ProviderID in the API server
  informer,    \* Status.ProviderID as the controller's cache of NodeClaims has it
  deleting,    \* NodeClaims whose Delete call is between GetServer and DeleteServer
  nodes,       \* the servers that have a Node object
  nodeClass,   \* the NodeClass of the NodePool, as the cloud provider resolves it
  gcPhase, gcCloud, gcIDs, gcNodes, gcElapsed, gcItem    \* the running pass

gcVars    == <<gcPhase, gcCloud, gcIDs, gcNodes, gcElapsed, gcItem>>
cloudVars == <<server, age>>
claimVars == <<claim, launched, providerID, informer, deleting>>
vars == <<cloudVars, claimVars, nodes, nodeClass, gcVars>>

----------------------------------------------------------------------------
(* Who owns a server.                                                      *)

Alive(c) == claim[c] \in {"present", "deleted"}

Owner(c) == IF providerID[c] # None THEN providerID[c] ELSE launched[c]

Owns(c, s) == Alive(c) /\ Owner(c) = s

Owned(s) == \E c \in Claims : Owns(c, s)

\* The server is the NodeClaim's, and a list of NodeClaims does not show it yet.
Unseen(c, s) == Owns(c, s) /\ informer[c] # s

Todo == {s \in Servers : gcItem[s] = "todo"}

----------------------------------------------------------------------------
Init ==
  /\ server = [s \in Servers |-> "none"]
  /\ age = [s \in Servers |-> 0]
  /\ claim = [c \in Claims |-> "absent"]
  /\ launched = [c \in Claims |-> None]
  /\ providerID = [c \in Claims |-> None]
  /\ informer = [c \in Claims |-> None]
  /\ deleting = {}
  /\ nodes = {}
  /\ nodeClass \in NodeClassStates
  /\ gcPhase = "idle"
  /\ gcCloud = {} /\ gcIDs = {} /\ gcNodes = {}
  /\ gcElapsed = 0
  /\ gcItem = [s \in Servers |-> "none"]

----------------------------------------------------------------------------
(* The NodeClass, as the status, termination and status-less states of it  *)
(* decide what the cloud provider may do: "ready" (zones resolved),        *)
(* "unresolved" (zones unknown or not yet resolved), "absent" (not found,  *)
(* or being deleted, which the cloud provider treats alike).               *)

SetNodeClass(to) ==
  /\ nodeClass' = to
  /\ UNCHANGED <<cloudVars, claimVars, nodes, gcVars>>

ChangeNodeClass == \E to \in NodeClassStates : SetNodeClass(to)

----------------------------------------------------------------------------
(* NodeClaims: Karpenter's lifecycle controller calls Create, keeps the    *)
(* result in memory, patches the provider ID into the status, and calls    *)
(* Delete until it reports NodeClaimNotFound.                              *)

CreateClaim(c) ==
  /\ claim[c] = "absent"
  /\ claim' = [claim EXCEPT ![c] = "present"]
  /\ UNCHANGED <<cloudVars, launched, providerID, informer, deleting, nodes, nodeClass,
                 gcVars>>

DeleteClaim(c) ==
  /\ claim[c] = "present"
  /\ claim' = [claim EXCEPT ![c] = "deleted"]
  /\ UNCHANGED <<cloudVars, launched, providerID, informer, deleting, nodes, nodeClass,
                 gcVars>>

\* Create launches a server when its NodeClass resolves and is ready.  Until the result
\* is persisted only the controller's memory ties the server to the NodeClaim.
Create(c, s) ==
  /\ claim[c] = "present" /\ providerID[c] = None /\ launched[c] = None
  /\ nodeClass = "ready"
  /\ server[s] = "none"
  /\ server' = [server EXCEPT ![s] = "live"]
  /\ launched' = [launched EXCEPT ![c] = s]
  /\ UNCHANGED <<age, claim, providerID, informer, deleting, nodes, nodeClass, gcVars>>

\* The answer of CreateServer is lost (Create returns an error although the server
\* exists), or Karpenter drops the unpersisted result: the server is nobody's.
LoseLaunch(c) ==
  /\ launched[c] # None
  /\ launched' = [launched EXCEPT ![c] = None]
  /\ UNCHANGED <<cloudVars, claim, providerID, informer, deleting, nodes, nodeClass, gcVars>>

Persist(c) ==
  /\ Alive(c) /\ launched[c] # None
  /\ providerID' = [providerID EXCEPT ![c] = launched[c]]
  /\ launched' = [launched EXCEPT ![c] = None]
  /\ UNCHANGED <<cloudVars, claim, informer, deleting, nodes, nodeClass, gcVars>>

InformerSync(c) ==
  /\ informer' = [informer EXCEPT ![c] = IF claim[c] = "gone" THEN None ELSE providerID[c]]
  /\ UNCHANGED <<cloudVars, claim, launched, providerID, deleting, nodes, nodeClass, gcVars>>

\* A NodeClaim deleted before it has a provider ID is released without a Delete call.
FinalizeUnlaunched(c) ==
  /\ claim[c] = "deleted" /\ providerID[c] = None
  /\ claim' = [claim EXCEPT ![c] = "gone"]
  /\ launched' = [launched EXCEPT ![c] = None]
  /\ UNCHANGED <<cloudVars, providerID, informer, deleting, nodes, nodeClass, gcVars>>

----------------------------------------------------------------------------
(* DefaultProvider.Delete: GetServer with the cache skipped, then          *)
(* DeleteServer.  "answered" is whether STACKIT carried the call out;      *)
(* when it did not (a 409, a 5xx, a timeout) the error is returned.        *)

Terminating(s) == server[s] = "deleting"

\* Mutant: a server that is being deleted counts as gone.
AfterGet_DeletingIsGone(s, answered) ==
  IF ~answered THEN "error"
  ELSE IF server[s] \in {"gone", "deleting"} THEN "NodeClaimNotFound"
  ELSE "delete"

\* Mutant: the 404 of GetServer is returned as it is.
AfterGet_PlainNotFound(s, answered) ==
  IF answered /\ server[s] = "live" THEN "delete" ELSE "error"

\* What the first call leads to: an early return, or DeleteServer.
AfterGet(s, answered) ==
  IF ~answered THEN "error"
  ELSE IF server[s] = "gone" THEN "NodeClaimNotFound"
  ELSE IF Terminating(s) THEN "error"
  ELSE "delete"

\* Mutant: an accepted deletion is reported as a server that is gone.
AfterDelete_Accepted(s, answered) == IF answered THEN "NodeClaimNotFound" ELSE "error"

\* What Delete returns after DeleteServer.  An accepted deletion is reported as an
\* error too, so that Karpenter asks again until the server is gone.
AfterDelete(s, answered) ==
  IF answered /\ server[s] = "gone" THEN "NodeClaimNotFound" ELSE "error"

DeleteServer(s, answered) ==
  IF answered /\ server[s] = "live" THEN [server EXCEPT ![s] = "deleting"] ELSE server

\* Karpenter removes the NodeClaim's finalizer on NodeClaimNotFound only.
Released(c, result) ==
  IF result = "NodeClaimNotFound" THEN [claim EXCEPT ![c] = "gone"] ELSE claim

TerminateGet(c, answered) ==
  /\ claim[c] = "deleted" /\ providerID[c] # None /\ c \notin deleting
  /\ LET result == AfterGet(providerID[c], answered) IN
       /\ claim' = Released(c, result)
       /\ deleting' = IF result = "delete" THEN deleting \cup {c} ELSE deleting
  /\ UNCHANGED <<cloudVars, launched, providerID, informer, nodes, nodeClass, gcVars>>

TerminateDelete(c, answered) ==
  /\ c \in deleting
  /\ server' = DeleteServer(providerID[c], answered)
  /\ claim' = Released(c, AfterDelete(providerID[c], answered))
  /\ deleting' = deleting \ {c}
  /\ UNCHANGED <<age, launched, providerID, informer, nodes, nodeClass, gcVars>>

----------------------------------------------------------------------------
(* The cloud and the cluster around the controllers.                       *)

Disappear(s) ==
  /\ server[s] = "deleting"
  /\ server' = [server EXCEPT ![s] = "gone"]
  /\ UNCHANGED <<age, claimVars, nodes, nodeClass, gcVars>>

\* Somebody deletes the server in the portal.
DeleteOutOfBand(s) ==
  /\ server[s] = "live"
  /\ server' = [server EXCEPT ![s] = "deleting"]
  /\ UNCHANGED <<age, claimVars, nodes, nodeClass, gcVars>>

Register(s) ==
  /\ server[s] = "live" /\ s \in Joining \ nodes
  /\ nodes' = nodes \cup {s}
  /\ UNCHANGED <<cloudVars, claimVars, nodeClass, gcVars>>

\* The node lifecycle controller removes the Node of a server that is gone.
NodeLifecycle(s) ==
  /\ server[s] = "gone" /\ s \in nodes
  /\ nodes' = nodes \ {s}
  /\ UNCHANGED <<cloudVars, claimVars, nodeClass, gcVars>>

\* Time passes, unless one of the two assumed delays is used up.
Tick ==
  /\ \A c \in Claims, s \in Servers : Unseen(c, s) => age[s] < PersistDelay
  /\ Todo # {} => gcElapsed < PassDelay
  /\ age' = [s \in Servers |->
               IF server[s] # "none" /\ age[s] < GracePeriod THEN age[s] + 1 ELSE age[s]]
  /\ gcElapsed' = IF Todo # {} THEN gcElapsed + 1 ELSE gcElapsed
  /\ UNCHANGED <<server, claimVars, nodes, nodeClass, gcPhase, gcCloud, gcIDs, gcNodes, gcItem>>

----------------------------------------------------------------------------
(* The garbage collector: list the servers, then the NodeClaims and Nodes, *)
(* then look at each server on its own (workqueue.ParallelizeUntil).       *)

Listed == {s \in Servers : server[s] \in {"live", "deleting"}}

\* Mutant: a NodeClass that is not found fails the list as well.
ListFails_NotFound == Listed # {} /\ nodeClass # "ready"

\* CloudProvider.List resolves the instance type of every server it returns.  A
\* NodeClass that is not found is ignored; one without zones fails the whole list.
ListFails == Listed # {} /\ nodeClass = "unresolved"

GCListCloud ==
  /\ gcPhase = "idle"
  /\ ~ListFails
  /\ gcPhase' = "listed"
  /\ gcCloud' = Listed
  /\ UNCHANGED <<cloudVars, claimVars, nodes, nodeClass, gcIDs, gcNodes, gcElapsed, gcItem>>

\* Mutant: NodeClaims without a provider ID are not filtered out.
ListedIDs_Unfiltered == {informer[c] : c \in Claims}

ListedIDs == {informer[c] : c \in Claims} \ {None}

GCListCluster ==
  /\ gcPhase = "listed"
  /\ gcPhase' = "running"
  /\ gcIDs' = ListedIDs
  /\ gcNodes' = nodes
  /\ gcElapsed' = 0
  /\ gcItem' = [s \in Servers |-> IF s \in gcCloud THEN "todo" ELSE "none"]
  /\ gcCloud' = {}
  /\ UNCHANGED <<cloudVars, claimVars, nodes, nodeClass>>

GCListClusterFails ==
  /\ gcPhase = "listed"
  /\ gcPhase' = "idle"
  /\ gcCloud' = {}
  /\ UNCHANGED <<cloudVars, claimVars, nodes, nodeClass, gcIDs, gcNodes, gcElapsed, gcItem>>

\* Mutant: no grace period.
Protected_NoGrace(s) == s \in gcIDs \/ s \in Unstamped

\* Mutant: a missing createdAt reads as infinitely old.
Protected_ZeroIsOld(s) == s \in gcIDs \/ (s \notin Unstamped /\ age[s] < GracePeriod)

\* Why a listed server is left alone.
Protected(s) ==
  \/ s \in gcIDs
  \/ s \in Unstamped
  \/ age[s] < GracePeriod

GCInspect(s) ==
  /\ gcItem[s] = "todo"
  /\ gcItem' = [gcItem EXCEPT ![s] = IF Protected(s) THEN "none" ELSE "due"]
  /\ UNCHANGED <<cloudVars, claimVars, nodes, nodeClass, gcPhase, gcCloud, gcIDs, gcNodes, gcElapsed>>

GCGet(s, answered) ==
  /\ gcItem[s] = "due"
  /\ gcItem' = [gcItem EXCEPT ![s] = IF AfterGet(s, answered) = "delete" THEN "got" ELSE "none"]
  /\ UNCHANGED <<cloudVars, claimVars, nodes, nodeClass, gcPhase, gcCloud, gcIDs, gcNodes, gcElapsed>>

\* garbageCollect removes the Node of the list when Delete returned no error.
GCDelete(s, answered) ==
  /\ gcItem[s] = "got"
  /\ server' = DeleteServer(s, answered)
  /\ nodes' = IF AfterDelete(s, answered) = "nil" /\ s \in gcNodes THEN nodes \ {s} ELSE nodes
  /\ gcItem' = [gcItem EXCEPT ![s] = "none"]
  /\ UNCHANGED <<age, claimVars, nodeClass, gcPhase, gcCloud, gcIDs, gcNodes, gcElapsed>>

GCFinish ==
  /\ gcPhase = "running"
  /\ \A s \in Servers : gcItem[s] = "none"
  /\ gcPhase' = "idle"
  /\ gcIDs' = {} /\ gcNodes' = {} /\ gcElapsed' = 0
  /\ UNCHANGED <<cloudVars, claimVars, nodes, nodeClass, gcCloud, gcItem>>

----------------------------------------------------------------------------
\* A restart loses what was only in memory; the informers list afresh.
Crash ==
  /\ Restarts
  /\ launched' = [c \in Claims |-> None]
  /\ informer' = [c \in Claims |-> IF claim[c] = "gone" THEN None ELSE providerID[c]]
  /\ deleting' = {}
  /\ gcPhase' = "idle"
  /\ gcCloud' = {} /\ gcIDs' = {} /\ gcNodes' = {} /\ gcElapsed' = 0
  /\ gcItem' = [s \in Servers |-> "none"]
  /\ UNCHANGED <<cloudVars, claim, providerID, nodes, nodeClass>>

ClaimStep(c) ==
  \/ CreateClaim(c) \/ DeleteClaim(c)
  \/ LoseLaunch(c) \/ Persist(c) \/ InformerSync(c) \/ FinalizeUnlaunched(c)
  \/ \E s \in Servers : Create(c, s)
  \/ \E answered \in BOOLEAN : TerminateGet(c, answered) \/ TerminateDelete(c, answered)

ServerStep(s) ==
  \/ Disappear(s) \/ DeleteOutOfBand(s) \/ Register(s) \/ NodeLifecycle(s)
  \/ GCInspect(s)
  \/ \E answered \in BOOLEAN : GCGet(s, answered) \/ GCDelete(s, answered)

Next ==
  \/ \E c \in Claims : ClaimStep(c)
  \/ \E s \in Servers : ServerStep(s)
  \/ GCListCloud \/ GCListCluster \/ GCListClusterFails \/ GCFinish
  \/ ChangeNodeClass \/ Tick \/ Crash

Spec == Init /\ [][Next]_vars

(* What the scheduling of the controllers justifies: every controller runs  *)
(* again (retries, resyncs, periodic passes), the informer catches up, and  *)
(* STACKIT carries out a call that is repeated for ever.                    *)
Fairness ==
  /\ SF_vars(Tick)
  /\ \A c \in Claims :
       /\ WF_vars(InformerSync(c)) /\ WF_vars(Persist(c)) /\ WF_vars(FinalizeUnlaunched(c))
       /\ SF_vars(TerminateGet(c, TRUE)) /\ SF_vars(TerminateDelete(c, TRUE))
  /\ \A s \in Servers :
       /\ WF_vars(Disappear(s)) /\ WF_vars(GCInspect(s))
       /\ SF_vars(GCGet(s, TRUE)) /\ SF_vars(GCDelete(s, TRUE))
  /\ SF_vars(GCListCloud) /\ SF_vars(GCListCluster) /\ WF_vars(GCFinish)

FairSpec == Spec /\ Fairness

----------------------------------------------------------------------------
(* Properties.                                                              *)

\* Every variable stays within its type.
TypeOK ==
  /\ server \in [Servers -> {"none", "live", "deleting", "gone"}]
  /\ age \in [Servers -> 0..GracePeriod]
  /\ claim \in [Claims -> {"absent", "present", "deleted", "gone"}]
  /\ launched \in [Claims -> Servers \cup {None}]
  /\ providerID \in [Claims -> Servers \cup {None}]
  /\ informer \in [Claims -> Servers \cup {None}]
  /\ deleting \subseteq Claims
  /\ nodes \subseteq Servers
  /\ nodeClass \in NodeClassStates
  /\ gcPhase \in {"idle", "listed", "running"}
  /\ gcCloud \subseteq Servers /\ gcIDs \subseteq Servers /\ gcNodes \subseteq Servers
  /\ gcElapsed \in 0..PassDelay
  /\ gcItem \in [Servers -> {"none", "todo", "due", "got"}]

\* The garbage collector never sets out to delete a server that a NodeClaim owns: not
\* one launched while a pass runs, not one whose provider ID the lists did not show yet
\* (Reconcile, its gcGracePeriod and the order of its two lists).
GCSparesOwned == \A s \in Servers : gcItem[s] \in {"due", "got"} => ~Owned(s)

\* A NodeClaim that recorded a server is released only once the server is gone, whoever
\* else is deleting the same server, and across restarts (Delete reports
\* NodeClaimNotFound on a 404 only).
ReleasedAfterServer ==
  \A c \in Claims : claim[c] = "gone" /\ providerID[c] # None => server[providerID[c]] = "gone"

Life == [s \in Servers |-> CASE server[s] = "none" -> "unborn"
                              [] server[s] = "gone" -> "gone"
                              [] OTHER -> "running"]
Closed == {c \in Claims : claim[c] = "gone"}
Doomed == {s \in Servers : gcItem[s] \in {"due", "got"}}

Custody == INSTANCE Custody WITH
  life <- Life, pledge <- launched, record <- providerID, closed <- Closed, doomed <- Doomed

\* All of Create, Delete, the restarts and the garbage collector together keep custody of
\* the servers as Custody describes it: one launch for one NodeClaim, nothing on record is
\* dropped before its server is gone, and only what nobody keeps is set to be deleted.
KeepsCustody == Custody!Spec

\* Servers owned by no NodeClaim, left by a lost answer, a restart or an early NodeClaim
\* deletion, are deleted in the end, if the NodeClass does not stay without zones.
OrphansReaped ==
  <>[](nodeClass # "unresolved") =>
    \A s \in Servers \ Unstamped : (server[s] = "live" /\ ~Owned(s)) ~> (server[s] = "gone")

\* A deleted NodeClaim is released in the end: the retries of Delete come to an end
\* although no call of it ever returns success.
DeletedReleased == \A c \in Claims : claim[c] = "deleted" ~> claim[c] = "gone"

\* garbageCollect: "Removing the Node too lets the scheduler forget about it immediately":
\* the step in which the collector gets a server deleted removes its listed Node.
GCRemovesNode ==
  [][\A s \in Servers :
       gcItem[s] = "got" /\ gcItem'[s] = "none" /\ server[s] = "live" /\ server'[s] = "deleting"
       /\ s \in gcNodes => s \notin nodes']_vars

============================================================================
