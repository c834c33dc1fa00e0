--------------------------- MODULE InstanceCache ---------------------------
(***************************************************************************)
(* The instance cache of the instance provider and the labeling            *)
(* controller, which keeps the labels of one server equal to what its      *)
(* NodeClass asks for, as the informers show it.  Get, List and Delete run *)
(* concurrently with it and store their answers in the cache after they    *)
(* got them: an answer may be older than the entry it replaces, or than    *)
(* the deletion of an entry.                                               *)
(***************************************************************************)
EXTENDS Naturals, FiniteSets

CONSTANTS
  Callers,      \* concurrent calls of Get, List and Delete
  Keys, Values, \* label keys and values
  ManagedBy,    \* the label key List selects servers by
  Cluster,      \* its value
  UserLabels,   \* the label sets users write into the NodeClass
  None,
  MaxEdits      \* bound on the edits of the NodeClass's labels

LabelSets == UNION {[keys -> Values] : keys \in SUBSET Keys}

ASSUME InstanceCacheAssumption ==
  /\ ManagedBy \in Keys /\ Cluster \in Values
  /\ UserLabels \subseteq LabelSets
  /\ None \notin LabelSets
  /\ MaxEdits \in Nat

VARIABLES
  server,    \* status and labels of the server in STACKIT
  cached,    \* its entry in the instance cache: None or labels, with the history of outdated
  asked,     \* the labels of the NodeClass
  deleted,   \* the NodeClaim has a deletion timestamp
  view,      \* both as the informers show them
  labeling,  \* the labeling controller's reconcile
  call,      \* the local state of each other call of the provider
  edits

objects == <<asked, deleted, view>>
vars == <<server, cached, asked, deleted, view, labeling, call, edits>>

----------------------------------------------------------------------------
\* Mutant: the user's labels win over the managed ones.
ManagedLabels_UserWins(user) ==
  [key \in DOMAIN user \cup {ManagedBy} |-> IF key \in DOMAIN user THEN user[key] ELSE Cluster]

\* The labels a server is to carry: the managed keys always win.
ManagedLabels(user) ==
  [key \in DOMAIN user \cup {ManagedBy} |-> IF key = ManagedBy THEN Cluster ELSE user[key]]

\* An entry of the cache.  History: outdated tells that the labels were replaced after the
\* entry's answer was given, by an update that could not drop the entry.
Entry(labels, outdated) == [labels |-> labels, outdated |-> outdated]

Idle == [pc |-> "idle"]

Init ==
  /\ asked \in UserLabels
  /\ server = [status |-> "live", labels |-> ManagedLabels(asked)]
  /\ cached = Entry(ManagedLabels(asked), FALSE)
  /\ deleted = FALSE
  /\ view = [asked |-> asked, deleted |-> FALSE]
  /\ labeling = Idle
  /\ call = [r \in Callers |-> Idle]
  /\ edits = 0

----------------------------------------------------------------------------
(* Users, the informers, and the server itself.                            *)

EditLabels(user) ==
  /\ edits < MaxEdits /\ user # asked
  /\ edits' = edits + 1
  /\ asked' = user
  /\ UNCHANGED <<server, cached, deleted, view, labeling, call>>

DeleteClaim ==
  /\ ~deleted
  /\ deleted' = TRUE
  /\ UNCHANGED <<server, cached, asked, view, labeling, call, edits>>

\* Each informer catches up on its own.
SyncNodeClass ==
  /\ view.asked # asked
  /\ view' = [view EXCEPT !.asked = asked]
  /\ UNCHANGED <<server, cached, asked, deleted, labeling, call, edits>>

SyncClaim ==
  /\ view.deleted # deleted
  /\ view' = [view EXCEPT !.deleted = deleted]
  /\ UNCHANGED <<server, cached, asked, deleted, labeling, call, edits>>

\* Somebody deletes the server in the portal.
DeleteOutOfBand ==
  /\ server.status = "live"
  /\ server' = [server EXCEPT !.status = "deleting"]
  /\ UNCHANGED <<cached, objects, labeling, call, edits>>

Disappear ==
  /\ server.status = "deleting"
  /\ server' = [server EXCEPT !.status = "gone"]
  /\ UNCHANGED <<cached, objects, labeling, call, edits>>

Expire ==
  /\ cached # None
  /\ cached' = None
  /\ UNCHANGED <<server, objects, labeling, call, edits>>

----------------------------------------------------------------------------
(* Get past the cache, List, and Delete, each with its answer stored later. *)

\* A server that is not found has no labels.
Seen == IF server.status = "gone" THEN None ELSE server.labels

\* The answer of GetServer or ListServers.
Answer(purpose) ==
  [pc |-> "answered", purpose |-> purpose, status |-> server.status, labels |-> Seen,
   outdated |-> FALSE]

Ask(r, purpose) ==
  /\ call[r].pc = "idle"
  /\ purpose = "delete" => deleted
  /\ call' = [call EXCEPT ![r] = Answer(purpose)]
  /\ UNCHANGED <<server, cached, objects, labeling, edits>>

\* Get drops the entry of a server that is not found, List does not mention it.
NotFound(r) ==
  /\ call[r].pc = "answered" /\ call[r].status = "gone"
  /\ cached' = IF call[r].purpose = "list" THEN cached ELSE None
  /\ call' = [call EXCEPT ![r] = Idle]
  /\ UNCHANGED <<server, objects, labeling, edits>>

\* Mutant: a server that is not found is cached like any other.
Store_NotFound(r) ==
  /\ call[r].pc = "answered"
  /\ cached' = Entry(call[r].labels, call[r].outdated)
  /\ call' = [call EXCEPT ![r] =
       IF @.purpose = "delete" /\ @.status = "live" THEN [pc |-> "delete"] ELSE Idle]
  /\ UNCHANGED <<server, objects, labeling, edits>>

\* Delete goes on with a server that is not being deleted yet.
Store(r) ==
  /\ call[r].pc = "answered" /\ call[r].status # "gone"
  /\ cached' = Entry(call[r].labels, call[r].outdated)
  /\ call' = [call EXCEPT ![r] =
       IF @.purpose = "delete" /\ @.status = "live" THEN [pc |-> "delete"] ELSE Idle]
  /\ UNCHANGED <<server, objects, labeling, edits>>

\* Accepted, or a 404: the entry is dropped next.
DeleteServer(r) ==
  /\ call[r].pc = "delete"
  /\ server' = [server EXCEPT !.status = IF @ = "live" THEN "deleting" ELSE @]
  /\ call' = [call EXCEPT ![r] = [pc |-> "drop"]]
  /\ UNCHANGED <<cached, objects, labeling, edits>>

DeleteFails(r) ==
  /\ call[r].pc = "delete"
  /\ call' = [call EXCEPT ![r] = Idle]
  /\ UNCHANGED <<server, cached, objects, labeling, edits>>

Drop(r) ==
  /\ call[r].pc = "drop"
  /\ cached' = None
  /\ call' = [call EXCEPT ![r] = Idle]
  /\ UNCHANGED <<server, objects, labeling, edits>>

----------------------------------------------------------------------------
(* The labeling controller.                                                *)

\* The NodeClaim and the NodeClass are read first, from the informers' caches; what the
\* labels are by the end may differ.
Reconcile ==
  /\ labeling.pc = "idle" /\ ~view.deleted
  /\ labeling' = [pc |-> "get", desired |-> ManagedLabels(view.asked)]
  /\ UNCHANGED <<server, cached, objects, call, edits>>

\* Mutant: labels the NodeClass no longer has are not removed.
Differ_Missing(desired, labels) ==
  \E key \in DOMAIN desired : key \notin DOMAIN labels \/ labels[key] # desired[key]

\* Mutant: the labels are written whether or not they differ.
Differ_Always(desired, labels) == TRUE

\* The whole maps are compared.
Differ(desired, labels) == desired # labels

\* History: whether the copy compared with is outdated.
Compared(copy) ==
  IF Differ(labeling.desired, copy.labels)
  THEN [pc |-> "update", desired |-> labeling.desired, outdated |-> copy.outdated] ELSE Idle

GetCached ==
  /\ labeling.pc = "get" /\ cached # None
  /\ labeling' = Compared(cached)
  /\ UNCHANGED <<server, cached, objects, call, edits>>

GetMiss ==
  /\ labeling.pc = "get" /\ cached = None
  /\ labeling' = [pc |-> "answered", desired |-> labeling.desired,
                  status |-> server.status, labels |-> Seen]
  /\ UNCHANGED <<server, cached, objects, call, edits>>

GetFails ==
  /\ labeling.pc = "get" /\ cached = None
  /\ labeling' = Idle
  /\ UNCHANGED <<server, cached, objects, call, edits>>

GetStore ==
  /\ labeling.pc = "answered"
  /\ LET entry == Entry(labeling.labels, FALSE)
     IN  IF labeling.status = "gone"
         THEN cached' = None /\ labeling' = Idle
         ELSE cached' = entry /\ labeling' = Compared(entry)
  /\ UNCHANGED <<server, objects, call, edits>>

\* UpdateServerLabels replaces the whole set.  History: the answers calls have by now are
\* outdated, and so is the entry if the update is not known to have been made.
UpdateLabels(answered) ==
  /\ labeling.pc = "update" /\ server.status # "gone"
  /\ server' = [server EXCEPT !.labels = labeling.desired]
  /\ labeling' = IF answered THEN [pc |-> "drop"] ELSE Idle
  /\ cached' = IF answered \/ cached = None THEN cached ELSE Entry(cached.labels, TRUE)
  /\ call' = [r \in Callers |->
       IF call[r].pc = "answered" THEN [call[r] EXCEPT !.outdated = TRUE] ELSE call[r]]
  /\ UNCHANGED <<objects, edits>>

\* A 404, or an error without effect.
UpdateFails ==
  /\ labeling.pc = "update"
  /\ labeling' = Idle
  /\ UNCHANGED <<server, cached, objects, call, edits>>

\* Mutant: the entry survives the update.
UpdateDrop_Keeps ==
  /\ labeling.pc = "drop"
  /\ labeling' = Idle
  /\ UNCHANGED <<server, cached, objects, call, edits>>

UpdateDrop ==
  /\ labeling.pc = "drop"
  /\ cached' = None
  /\ labeling' = Idle
  /\ UNCHANGED <<server, objects, call, edits>>

----------------------------------------------------------------------------
CallStep(r) == NotFound(r) \/ Store(r) \/ DeleteServer(r) \/ DeleteFails(r) \/ Drop(r)

LabelingStep ==
  \/ GetCached \/ GetMiss \/ GetFails \/ GetStore
  \/ \E answered \in BOOLEAN : UpdateLabels(answered)
  \/ UpdateFails \/ UpdateDrop

Next ==
  \/ \E user \in UserLabels : EditLabels(user)
  \/ DeleteClaim \/ SyncNodeClass \/ SyncClaim \/ DeleteOutOfBand \/ Disappear \/ Expire
  \/ \E r \in Callers, purpose \in {"get", "list", "delete"} : Ask(r, purpose)
  \/ \E r \in Callers : CallStep(r)
  \/ Reconcile \/ LabelingStep

Spec == Init /\ [][Next]_vars

(* A NodeClaim is reconciled again and again (its events, and the periodic *)
(* resync of the informer), the informers catch up, a call that is         *)
(* repeated succeeds in the end, and entries reach their TTL.              *)
Fairness ==
  /\ WF_vars(Reconcile) /\ WF_vars(LabelingStep)
  /\ SF_vars(GetMiss) /\ SF_vars(UpdateLabels(TRUE))
  /\ WF_vars(SyncNodeClass) /\ WF_vars(SyncClaim) /\ WF_vars(Expire)
  /\ \A r \in Callers : WF_vars(CallStep(r))

FairSpec == Spec /\ Fairness

----------------------------------------------------------------------------
(* Properties.                                                             *)

Entries == {None} \cup [labels : LabelSets, outdated : BOOLEAN]

Statuses == {"live", "deleting", "gone"}

Calls ==
  [pc : {"idle", "delete", "drop"}]
    \cup [pc : {"answered"}, purpose : {"get", "list", "delete"},
          status : Statuses, labels : LabelSets \cup {None}, outdated : BOOLEAN]

Labelings ==
  [pc : {"idle", "drop"}]
    \cup [pc : {"get"}, desired : LabelSets]
    \cup [pc : {"update"}, desired : LabelSets, outdated : BOOLEAN]
    \cup [pc : {"answered"}, desired : LabelSets, status : Statuses,
          labels : LabelSets \cup {None}]

\* Every variable stays within its type: the cache has no entry without labels, which
\* would be that of a server that was not found.
TypeOK ==
  /\ server \in [status : Statuses, labels : LabelSets]
  /\ cached \in Entries
  /\ asked \in UserLabels
  /\ deleted \in BOOLEAN
  /\ view \in [asked : UserLabels, deleted : BOOLEAN]
  /\ labeling \in Labelings
  /\ call \in [Callers -> Calls]
  /\ edits \in 0..MaxEdits

\* The server carries the managed-by label of its cluster at all times, whatever labels a
\* user asks for: a server without it "is invisible to this controller and will never be
\* garbage collected" (ManagedLabels, and UpdateLabels, which replaces the whole set).
StaysManaged ==
  ManagedBy \in DOMAIN server.labels /\ server.labels[ManagedBy] = Cluster

\* The cache has the labels of the server, unless the entry is about to be dropped or an
\* update and the read behind the entry overlapped (UpdateLabels, Get, List).
CacheFollowsUpdates ==
  cached # None /\ cached.labels # server.labels
    => cached.outdated \/ labeling.pc = "drop"

\* The labels of a server that stays end up as those its NodeClass asks for last, although
\* the labeling controller takes them from a copy of the NodeClass that lags and compares
\* them with entries that may be stale, and it stops writing then (labeling Reconcile, and
\* the TTL of the instance cache).
LabelsConverge ==
  <>[](/\ ~deleted /\ server.status # "gone" => server.labels = ManagedLabels(asked)
       /\ labeling.pc # "update")

\* The labeling controller "avoids rewriting identical labels on every NodeClaim event":
\* about to write labels the server has already, it compared them with a copy whose read an
\* update had overlapped with, or with one an update could not drop because its answer was
\* lost.  An update that was answered is never repeated because of the cache (labeling
\* Reconcile, UpdateLabels).
RewritesFromOutdated ==
  labeling.pc = "update" /\ labeling.desired = server.labels => labeling.outdated

=============================================================================
