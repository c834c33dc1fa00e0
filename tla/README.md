# TLA+ models of karpenter-provider-stackit

Karpenter provisions Kubernetes nodes for pods that do not fit. This repository is its
provider for STACKIT: it turns NodeClaims into STACKIT servers, tells Karpenter which
machine types exist, where they can be had and what they cost, and removes servers again.
The specifications here model that program, TLC checks them on small instances, and TLAPS
proves the results that matter most for every value of the constants.

Every definition is translated from `src/`; `PROJECT.json` maps each to its lines
(`map`), and names the hazards of the code, the runs, the mutants that show that each
property can fail, and the theorems. Karpenter's core, the API server, the informers,
go-cache and the STACKIT API are not in `src/`: they are modelled from how the code uses
them, and their definitions are marked `external`.

## 1. The system

| Component | State | Operations | What makes it hard |
|---|---|---|---|
| Cloud provider (`pkg/cloudprovider`) | none of its own | Create, Delete, Get, List, IsDrifted, GetInstanceTypes | reads NodeClass, NodeClaim and catalog through caches that lag; one unresolvable instance type fails List |
| Instance provider (`pkg/providers/instance`) | instance cache (1 min TTL) | Create, Get, List, Delete, UpdateLabels | Delete never returns success; answers are stored in the cache after later calls dropped the entry |
| Unavailable offerings (`pkg/cache`) | two TTL caches, sequence numbers | MarkUnavailable, MarkZoneUnavailable, IsUnavailable, SeqNum, eviction | entry and number change in two steps; expiry and eviction at different times |
| Offering provider (`.../instancetype/offering`) | offering cache, last number for each machine type | InjectOfferings | a cached answer is good only if nothing changed since; check, read, store and record are separate steps |
| Instance type provider (`.../instancetype`) | catalog behind a RWMutex, instance type cache | List, Get, UpdateMachineTypes, MachineTypeSpecs | STACKIT is called with the write lock held; caches are flushed while others fill them |
| Instance type resolver (`types.go`) | none | capacity, overhead, requirements | tiers, truncation, percentages, defaults and overrides |
| Pricing provider (`.../pricing`) | price list | UpdatePrices, Price, ModelPrice, ParseOverrides | priced from a catalog that may be replaced meanwhile |
| Refresh controllers (`pkg/controllers/providers`) | none | call the two refreshes every 12 hours, after failures sooner | no order between them |
| Garbage collector (`.../garbagecollection`) | none between passes | list servers, list NodeClaims, reap | the lists are from different moments; only age protects a new server |
| Labeling controller (`.../labeling`) | none | compare and replace a server's labels | compares with cached labels; replaces the whole set |
| NodeClass status and termination controllers (`pkg/controllers/nodeclass`) | status and finalizer of the StackitNodeClass, a cached list of zones | resolve zones, validate, finalize | several writers patch one object from lagging copies |
| NodeClass hash controller (`.../nodeclass/hash`) and drift (`pkg/cloudprovider/drift.go`) | hash and version annotations of the NodeClass and of every NodeClaim | stamp the NodeClass, migrate NodeClaims to a new version, compare | a migration of many patches, any of which may fail, under edits, launches and restarts |
| STACKIT client (`pkg/stackit`) | none | API calls, classes of errors | one status belongs to several classes |
| API types, utilities | none | Hash, conditions, ManagedLabels, names | |
| Operator, options, main | flags and wiring | fill the catalog, then the prices, then start | the order of the two |
| Events, metrics, charts | | | no state: not modelled |

How they interact: Karpenter calls the cloud provider, which reads the NodeClass and asks
the instance type provider (catalog, then offerings, which combine prices and
unavailable offerings) and the instance provider, which calls STACKIT. A failed launch
writes to the unavailable offerings, which the next List reads. Controllers share the
Kubernetes objects with one another and with Karpenter, each through a cache; they share
the providers, and so their caches and locks, with the cloud provider.

What makes the parts correct:

* **Servers and NodeClaims.** No server of a NodeClaim is reaped; every server without
  one is; a NodeClaim is released after its server is gone, and is released.
* **Offerings.** What is offered was available at some moment of the call, unless another
  call's number made an older answer pass for current; what failed is taken out, and comes back.
* **Launching.** What is launched fits and is not what just failed; what can be launched is.
* **Catalog.** An answer is of one catalog, the present one, is priced from the start on, and
  ends up with STACKIT's types at their present prices; List always returns.
* **NodeClass.** Launches come from accepted specs; the status converges to the spec and the
  region; the NodeClass outlives its servers and goes after them.
* **Drift.** An upgrade replaces no node needlessly and forgives none that was flagged; the
  migration completes; in the end drift is reported exactly.
* **Labels.** The managed-by label stays; labels converge; the controller then rests.

## 2. The modules

| Module | Models | Checked by | Proofs |
|---|---|---|---|
| `Lifecycle` | Create, Delete, List of the cloud provider, garbage collector, with Karpenter's NodeClaim lifecycle, the informer, restarts and STACKIT around them | `MCLifecycle` | `Lifecycle_proofs` |
| `Custody` | abstract: what the provider promises about servers and who keeps them | refined by `Lifecycle` | |
| `Offerings` | UnavailableOfferings, createOfferings, error classes, recordLaunchFailure | `MCOfferings` | `Offerings_proofs` |
| `InstanceTypes` | resolver and price model as operators | through `Launch` | `InstanceTypes_proofs` |
| `Launch` | instance provider's Create: answers of the offering cache, choice of the offering, failures, rotation over time | `MCLaunch` | `Launch_proofs` |
| `Catalog` | the start, instance type provider, price list, both refreshes, List | `Catalog` itself | `Catalog_proofs` |
| `InstanceCache` | Get, List, Delete, UpdateLabels over the instance cache, and the labeling controller over lagging informers | `MCInstanceCache` | `InstanceCache_proofs` |
| `NodeClass` | status and termination controllers, the cached list of zones, Create's view of a NodeClass, the networking of its payload | `MCNodeClass` | `NodeClass_proofs` |
| `Drift` | hash controller and its migration, the hash of a spec, the annotations Create leaves, IsDrifted, an upgrade and restarts | `MCDrift` | `Drift_proofs` |

The components meet in places where one is a small abstraction in the other's module, and
a property of the first justifies it: `Launch` takes its answers from the offering cache in
one step, and an answer is right unless the entry was given another call's number, which is
what `Offerings` shows of any number of callers and lists of zones (`StaleOnlyByAnotherNumber`);
`Lifecycle` has a NodeClass that resolves or does not, whose details are in `NodeClass`;
`Catalog` lets a cached offering vanish at any time, which covers what `Offerings` does;
`Drift` has a status controller that resolves what the spec names, and a NodeClass that is
not deleted: both are the subject of `NodeClass`.

**State and code.** `Lifecycle`: `server`/`age` are what ListServers shows, `claim`,
`providerID` and `informer` are the NodeClaim in the API server and in the cache,
`launched` is the result of Create before Karpenter persisted it, the `gc*` variables are
the local variables of `Reconcile`. A step ends where the code calls out (GetServer,
DeleteServer, a list) or another goroutine may run; what happens between two calls is one
action. `Offerings`: `stored` and `unbumped` tell whether an entry is found and whether
its number was counted yet; `call` holds the local variables of `createOfferings`. That an
entry of `cache` tells who stored it (`by`) and the number recorded with it (`number`) is
history: the code keeps the numbers elsewhere, one for each machine type.
`Catalog`: `refresh` and `pricing` are the program counters of the two refreshes, and the
RWMutex is `Readers`, `CanRead` and the guard of `RefreshLock` (a waiting writer keeps
new readers out, as Go's does). `InstanceCache`: `asked` and `deleted` are the NodeClass and
the NodeClaim in the API server, `view` is what the informers show of them; an `outdated` mark
on an entry is history, it says that the read behind the entry overlapped with an update, or
that an update could not drop it because its answer was lost. `NodeClass`:
`view` and `claimView` are the informers' copies, and a status patch is the difference
between the copy it was computed from and the result, applied to whatever the object is
by then, which is what a merge patch does; `zoneList` is the entry of the validation cache.
`Drift`: `marks` and `seen` are a NodeClaim's annotations and its Drifted condition in the API
server and in the informer, `pass` holds the local variables of a pass of the hash
controller, and `server` tells from which spec a server was launched; `calm` and `flagged`
are history. The initial states are what an older version leaves behind, which may not have
stamped the last edit or flagged the last drift, or a NodeClass created just now. `Launch`:
`allocatable` is the resolved instance types; `cached` is the offering cache as far as an entry
counts, that is while the two numbers agree, so a change of availability empties it; `Restamp`
is what a call for other zones, or one that overlaps with another, does to an entry computed
before; `refused` and `restamped` are history.

**An abstract specification.** `Custody`
knows servers that are running or gone, and for each NodeClaim a pledge that may be lost and a
record that may not. In `Lifecycle` a pledge is the result of Create in memory (`launched`), the
record is the providerID in the API server, a NodeClaim is closed when its finalizer went, and a
server is doomed while the running pass of the collector has it on its way to `DeleteServer`.
Informers, lists, clocks, answers and Nodes are invisible. What `Custody` forbids is a launch
beside another one, a record that changes, a NodeClaim closed before its server is gone, a
server set to be deleted while somebody keeps it, and anybody coming to keep a server after that.

## 3. The runs

All with two workers; the times are of a small machine. "Violation" runs check one
statement of a comment that the code does not keep (section 6).

| Run | States | Shows |
|---|---|---|
| `Lifecycle_safety` | 1.3M, 57 s | `GCSparesOwned`, `ReleasedAfterServer`, and the refinement `KeepsCustody`: two NodeClaims and two servers, one of them without createdAt, one with a Node; lost answers, failed calls, portal deletions, any number of restarts |
| `Lifecycle_liveness` | 19k, 64 s | `OrphansReaped`, `DeletedReleased` |
| `Lifecycle_node` | violation | `GCRemovesNode` |
| `Offerings_rotation` | 0.72M, 67 s | `StaleOnlyByAnotherNumber`, `FailureLeavesRotation`, `BackInRotation`: two callers, a machine type, two lists of one zone each, a failure (409 or 503) |
| `Offerings_zonesets` | violation | `NoStaleOfferings` with two NodeClasses of different zones, one caller at a time |
| `Offerings_quota` | violation | `FailureLeavesRotation` with failures reported as 403 |
| `Launch_rotation` | 0.17M, 52 s | `FailedStaysOut`, `RequestsFit`, `EventuallyLaunched`: two NodeClaims, two machine types in two zones, three NodeClasses (two kubelet configurations, boot volumes of 3, 5 and 20 GB), two changes of what STACKIT delivers (an offering, or a whole zone), one entry of the offering cache that gets another call's number |
| `Catalog_refresh` | 0.29M, 75 s | `CacheMatchesCatalog`, `AnswersFromCatalog`, `PricedFromStart`, `OffersSettle`, `StaysSettled`, `ListAnswers`: the start, then two types, two sizes, one overridden price, two changes at STACKIT |
| `InstanceCache_labels` | 0.58M, 55 s | `StaysManaged`, `CacheFollowsUpdates`, `LabelsConverge`, `RewritesFromOutdated`: two calls at a time, two edits between no labels and labels that claim the managed key, informers that lag |
| `NodeClass_lifecycle` | 0.31M, 63 s | `LaunchesFromAcceptedSpec`, `OutlivesOwned`, `StatusConverges`, `StaysSettled`, `Terminates`: two specs (all zones; a zone the region may lack, with NICs that cannot be shared), an edit between them, a region that grows, the finalizer still to be added |
| `NodeClass_nofinalizer` | violation | `OutlivesLaunched`: every server, not only those launched from a copy with the finalizer |
| `Drift_upgrade` | 0.3M, 27 s | `NoNeedlessDrift`, `MigrationOrder`, `FlaggedKeepsHash`, `DriftSettles`, `StaysSettled`: three specs that differ in labels or zones, an edit, a restart, failing patches |

**Bounds and why they are enough.**

* `MaxFailures`, `MaxChanges`, `MaxEdits`, `MaxRestarts` and `MaxGeneration` bound what the
  environment does, never what the code does; each is at least as large as the number of
  such events in the shortest behaviour that would break a property (the mutants' traces
  use one or two).
* Restarts are not counted in `Lifecycle`: with `Restarts` TRUE the controller restarts at any
  moment, as often as it likes. `Lifecycle_safety` leaves out the NodeClass that is absent: it
  keeps Create from launching and lets everything else go on, which is less than an unresolved
  one does. `Lifecycle_liveness` has all three states and no restart, whose effect there, a lost
  pledge, is that of a lost answer.
* `GracePeriod` 3, `PersistDelay` 1, `PassDelay` 1 is the smallest instance of the
  theorem's assumption with a tick to spare; ages are counted up to the grace period
  because nothing compares them with more. Liveness does not depend on the delays: they
  are 1, 0 and 0 there, with one NodeClaim and a second server to lose a launch to.
* Two of everything else is one to be right about and one to confuse it with. `Catalog`
  runs one call of List against both refreshes, because the temporal properties are
  checked in the same run; the theorems about `Catalog` are for any number of calls.
* One NodeClaim is enough in `Drift_upgrade`: what another one does to it is make the pass
  fail or last longer, which a failing patch of the NodeClass does too. (Two NodeClaims
  without an edit, and one with two edits, were checked as well: 4.2M states.) The theorems
  are for any number.
* One NodeClaim is enough in `NodeClass_lifecycle` for the same reason: the controllers ask
  whether there are any. The theorems are for any number.
* In `Offerings_rotation` each caller may ask for either list, so the two calls are for the same
  list or for different ones, and the lists share the machine type's number. `Offerings_zonesets`
  has lists that overlap. The theorems are for any.
* In `Launch_rotation` at most two failures are in the way, and `TTL` is 3 ticks, one more.
  With 2 `EventuallyLaunched` fails, also without `Restamp`: the bound is the smallest that works.
  `MaxRestamps` is 1: one stale answer sends an attempt to an offering that just failed, and that
  failure empties the entry. The theorem about `FailedStaysOut` is for any number of them.
* Requests in `MCLaunch` are exactly what the small machine type has left (940 thousandths
  of a CPU and 2223 MiB), and the server names have 62, 63 and 64 characters with the
  two prefixes, so every comparison is exercised on both sides.
* `CHECK_DEADLOCK FALSE` stands where the bounded environment runs out and everything is
  settled: that is the system at rest. `Catalog_refresh` and `Launch_rotation` never rest, and
  deadlock is checked there; it matters for the former, which has the lock.

**Fairness and why the code justifies it.**

* `Lifecycle`: the collector and Karpenter's NodeClaim controllers are requeued after success
  and failure, informers catch up, time passes (strong fairness of `Tick`: a pass cannot
  take for ever longer than `PassDelay`), and a call STACKIT is asked again and again
  succeeds in the end. Nothing is assumed of Create or of the environment's mischief.
* `Offerings`: an entry expires, the janitor evicts it, a marker that stored an entry goes on to
  count it, and a started call goes on. The offering cache's own TTL is not relied upon.
* `Launch`: Karpenter provisions and retries every NodeClaim, STACKIT answers, an entry of the
  offering cache that nobody stores again reaches its TTL, and `Tick` waits for an
  attempt of every pending NodeClaim: this is the assumption that attempts are closer
  together than a tick, made explicit.
* `Catalog`: both controllers run again, their calls succeed again, a call with the lock
  goes on, offerings reach their TTL; Go's RWMutex lets the readers that wait in when a
  writer leaves, hence strong fairness of `ListLock`. The TTL of the instance type cache
  is not relied upon: it is flushed when the catalog changes.
* `InstanceCache`: NodeClaim events and the informer's resync reconcile again, the informers
  catch up, repeated calls succeed, entries expire. What brings the next reconcile is assumed,
  so nothing is shown of how soon an edit of the NodeClass is noticed.
* `NodeClass`: reconciles are retried with backoff and repeated by the resync, and by the
  termination controller's requeue while NodeClaims are left (which is assumed, not shown), caches catch
  up, the cached list of zones expires, and a status pass in which both its calls succeed
  comes again and again.
* `Drift`: a failed pass is requeued (it returns the error), caches catch up, and a patch that
  is repeated for ever succeeds. Karpenter looking for drift is not relied upon: the
  properties are about what IsDrifted answers.

## 4. The proofs

`tlapm` checks every step of the eight proof modules; no theorem assumes more than the
named `ASSUME`s of the module it is about and what its statement says.

* **`TypeCorrect`** (`Lifecycle`, `Offerings`, `Launch`, `Catalog`, `InstanceCache`, `NodeClass`, `Drift`): the
  type invariants. Where a type invariant says less than what the fields of the records are,
  a stronger one is proved first. That of `NodeClass` says in addition that every zone in
  use is one of the region's, that of `Drift` that a launched NodeClaim has both annotations.
* **`StaleOnlyByAnotherNumberAlways`** (Offerings): for any number of concurrent callers, any lists
  of zones, machine types, failures and interleavings. That no answer is stale is false there
  (finding 2); what holds is that an answer which was computed, or found under the number that
  was recorded with it, agrees with what was available at some moment of the call. The invariant
  `FreshInv` says that numbers only grow, that what is cached under the current number agrees
  with the entries (`CacheFresh`), and the same of what a call hits (`HitFits`) and has read
  (`ReadFits`), as long as the number is the one it read; that a call records its number with
  its own answer only (`OwnFits`); and that what one call read is right for every other call
  that started under the same number (`Agree`), which is why it may store it while the other
  compares. A change that is not counted yet leaves both answers right (`FreshChange`), and one
  that is makes the number differ (`FreshBump`).
* **`FailureLeavesRotationAlways`** (Offerings): what a launch failure stores covers the offering in
  the same step. Its hypothesis, that STACKIT does not report failures of capacity with status
  403, is needed: `Offerings_quota` is the counterexample without it.
* **`NoNeedless`** (Drift): the invariant `CalmInv` says that while no hashed field is edited, every
  copy of the NodeClass, also the one a pass works with, and the annotations of every server
  of the present spec carry the hash of that spec under whatever version they name; hashes
  of two versions are never compared. For any number of NodeClaims, restarts and failures.
* **`MigrationOrderAlways`** (Drift): a NodeClass of the new version leaves no launched NodeClaim
  behind. The invariant `OrderInv` adds why a pass cannot miss one: a NodeClaim that is behind is
  shown so by the informer (`OldShown`), because launches leave the new version; so a pass that
  has not failed still has it on its list (`ListedUntilStamped`); and a copy of the NodeClass
  with the new version is no older than the NodeClass getting it (`CopiesFollow`).
* **`FlaggedKeepsHashAlways`** (Drift): `FlagInv` follows a NodeClaim that was flagged before the
  upgrade: until it is stamped, the informer and the pass that is about to stamp it know of its
  condition, and the NodeClass and every copy of it still tell that it drifted (`Tells`), so
  looking for drift cannot clear it. Afterwards nothing writes its hash any more.
  Both, like all theorems of `Drift`, take `None` for neither a hash nor a version.
* **`StaysSettledAlways`** (Catalog, NodeClass, Drift): that something converges
  rests on fairness, that it stays where it arrived does not. `Settled` says that the result is
  right and so is all that later steps will read, compare with or write: caches, answers on
  their way, patches under way, a pass that is late. Each theorem says that no step of
  anybody, failing ones included, leaves `Settled` unless the input changes (STACKIT's machine
  types, the spec or the region), and that what is observable is right
  meanwhile. These are the safety halves of `OffersSettle`, `StatusConverges`
  and `DriftSettles`, and they say nothing of work under way that is out of date, which is not
  `Settled`: that it does no lasting harm is for the liveness properties. The mutants of the three
  runs violate the property from a state that is
  `Settled`, so there are such states; that they last holds for any instance. In `Drift` the
  part about what is reported needs `OrderInv` as well (`SettledReports`).
* **`FlaggedReportedAlways`** (Drift): while the migration is through, what was flagged before it is
  reported, because its hash is of the old version; so `DriftSettles` leaves none of it out.
* **`PricedFromStartAlways`** (Catalog): until STACKIT's types change, the catalog is that of the
  start, and once the start filled the prices too everything is `Settled` (`AsStarted`);
  `SettledStep` carries it on.
* **`GCSparesOwnedAlways`** (Lifecycle): if `PersistDelay + PassDelay < GracePeriod`, the collector
  never chooses an owned server, for any number of NodeClaims, servers and restarts. By
  itself the property is not inductive: that a server is old says something about its
  owner only through what the lists showed. The invariant `IInv` adds that a server has at
  most one owner and that owners refer to created servers (`OneRecord`, `ReferToCreated`),
  that a server whose owner the informer does not show is at most `PersistDelay` old
  (`UnseenIsFresh`), and that an owned server the NodeClaim list of the running pass missed
  is at most `PersistDelay` plus the pass's elapsed time old (`MissedIsFresh`). A server
  that passed the age check is then older than both delays allow and cannot be owned.
* **`ReleasedAfterServerAlways`** (Lifecycle): without any assumption on the delays.
* **`KeepsCustodyAlways`** (Lifecycle): `Lifecycle` implements `Custody`, under the same hypothesis on
  the two delays. The initial states map to the initial state (`CustodyInit`); every action
  maps to one of `Custody`, mostly to `Forget` of some pledges, which includes the stutter. The
  collector's check maps to `Doom` because `IInv` gives that the server has no owner (`KeptIsOwned`),
  the finalizer's removal to `Close` because Delete saw that the server is gone (`ClaimClosed`).
* **`CustodySuffices`** (Lifecycle): `Custody` alone implies `GCSparesOwned` and
  `ReleasedAfterServer`, without the steps of `Lifecycle` and without a hypothesis: the abstract
  specification is not too weak. Its invariant `CustodyInv` says that nobody keeps a doomed
  server and that what is on record of a closed NodeClaim is gone.
* **`AllocatableAmount`** (InstanceTypes): what is allocatable of each resource, for every machine type,
  boot volume and kubelet configuration: the capacity without the reservations, by
  configuration or by tier, and without the larger of the eviction thresholds. The tiers are
  a sum of four differences; `TiersAddUp` shows that for every number of CPUs up to the end
  of the last tier it is Karpenter's table (`ReservedCPU`).
* **`RequestsFitAlways`** (Launch): a server is asked for only where the requests fit beside all that
  is held back, with each term of `RequestsFit` written from the configuration and not from
  `Allocatable`. `FitInv` carries it from the choice to the launch (`Fits`). Assumed are what
  the validation rules establish (`OverheadAssumption`; `IsKubelet`, which lets eviction signals
  be negative, as the rules do) and that vCPUs fit in the last tier (`ResourcesAssumption`).
* **`FailedStaysOutAlways`** (Launch): by `OutInv`, every offering that failed is covered at least
  as long by its own entry or by its zone's (`Covered`), and what the offering cache answers is
  what a call would compute now (`Right`), unless the entry was given another call's number.
  A later failure resets one entry to the full TTL, so it cannot shorten what another entry
  covers, and it changes the number even if the entry was there. The exception is needed: from
  an entry that passes for current by another call's number, an attempt does return to what
  just failed, and TLC finds that without it.
* **`CacheMatchesCatalogAlways`, `AnswersFromCatalogAlways`** (Catalog): by `LockInv`, whose
  heart is that the writer excludes readers (`Exclusion`) and that a caller inside the lock
  works with the catalog in use (`WorksOnCatalog`) and has offered every type it has
  ticked off (`Accounted`). For any number of concurrent calls.
* **`StaysManagedAlways`, `CacheFollowsUpdatesAlways`** (InstanceCache): `ManagedInv` says the
  labels about to be written are managed ones too. `FollowInv` adds to the cache property
  the same statement about answers on their way (`AnswersFollow`) and about what the
  labeling controller compares with (`ReconcileFollows`).
* **`RewritesFromOutdatedAlways`** (InstanceCache): nobody but the labeling controller updates labels,
  so between its comparison and its update the server's labels stay; what it compared with is
  the server's by `FollowInv`, or outdated (`RewriteInv`). Through a copy of the NodeClass that
  lags it can still write labels that are no longer asked for, or were before: the theorem is
  about identical labels, which is what the comment promises.
* **`LaunchesFromAcceptedSpecAlways`** (NodeClass): no patch is checked against the version it was
  computed from, so the invariant has to follow a status through three places: the object
  (`StatusIsSound`), the copies and patches made of it (`ViewIsSound`) and the Creates that
  read a copy (`LaunchIsSound`). What holds everywhere is that a status observed at a
  generation and Ready is the answer to that generation's spec.
* **`OutlivesOwnedAlways`** (NodeClass): Create and the termination controller read the same cache, so
  once that shows the deletion no Create begins, and a NodeClaim that is being launched is in
  it (`RemovalInv`): the list that lets the finalizer go is empty of them. Servers launched
  from a copy without the finalizer are the subject of `NodeClass_nofinalizer`.

Every invariant and action property and the refinement that a passing run checks are
theorems. Only model-checked are the liveness properties: `OrphansReaped`, `DeletedReleased`,
`BackInRotation`, `EventuallyLaunched`, `OffersSettle`, `ListAnswers`, `LabelsConverge`,
`StatusConverges`, `Terminates` and `DriftSettles`. They rest on fairness, and so on ENABLED, which
the prover cannot reason about.

## 5. What is not modelled

* The HTTP client, logging, events, metrics, flags, wiring, charts and generated code. Of the
  start only the order of the two hydrations is modelled.
* Functions on single strings: provider IDs, zone names, label validation, the parsing of
  price overrides. Zones are the sanitized names throughout; labels are valid or not. That
  trimming precedes the cap at 63 characters (`utils.go:89`) needs strings character by
  character, and STACKIT's zone IDs are short.
* Fields that createPayload only passes on; which image, key or network a server gets.
* The deletion of a NodeClass or NodePool while drift is looked for: IsDrifted then returns an
  error and Karpenter leaves the condition alone.
* `UnavailableOfferings.Delete`/`Flush` and `Provider.Reset`, which only tests call, and
  `UpdateInstanceTypeCapacityFromNode`, which nothing calls.
* The units below a MiB: percentages of eviction signals are rounded up to bytes in the code and
  to MiB in `EvictionSignal`. Capacity, reservations and requests are whole MiB, so the same
  requests fit.
* What brings a reconcile: events, resyncs and requeues are fairness, and a controller that
  loses its requeue or watches too little is not told apart (`hazards` without properties).
* Several NodeClasses in `Lifecycle`: List fails or not as one NodeClass does.
* Floating point: shares and prices are integers. For whole CPUs and machine types of whole
  256 MiB the floating-point results of the reservations truncate to the same values.

## 6. What the models showed

Four statements of comments that the code does not keep, each with a run whose
counterexample shows how (`findings` in `PROJECT.json`):

1. `Lifecycle_node`: Delete reports an accepted deletion as an error, so `garbageCollect`
   returns before it removes the Node (`garbagecollection/controller.go:126`).
2. `Offerings_zonesets`: the last number is kept for a machine type, the offerings for a
   machine type and a list of zones; recomputing one makes another's stale offerings look
   current until their TTL (`offering.go:116`). Two callers of the same list break the
   property too: the one that read the older number stores its answer last. Launches then go
   to offerings that just failed (`Restamp` in `Launch`); each such failure counts a change and
   ends it (`EventuallyLaunched`).
3. `Offerings_quota`: a quota failure with status 403 counts as rejected credentials and
   leaves the offering in rotation (`instance.go:315`).
4. `NodeClass_nofinalizer`: Create does not look for the finalizer, so a server can be
   launched before it is added and the NodeClass removed from under it
   (`termination/controller.go:56`).

Observations without a run:

* The grace period has no slack of its own: if persisting a launch and running a pass
  together take as long, the collector may choose a server that has an owner.
* An attempt for a NodeClaim takes one offering out of rotation. If more offerings fail than
  there are attempts in the TTL of 3 minutes, the first is tried again before the last is
  reached (`EventuallyLaunched` fails with a shorter TTL). Karpenter's retries back off.
* A NodeClass without resolved zones makes `CloudProvider.List` fail
  (`cloudprovider.go:133`), against the comment at 286-287, and with it the collector:
  hence the premise of `OrphansReaped`.
* Until the hash controller caught up with an edit, a new server can look drifted and an old
  one not (`drift.go:45`); `DriftSettles` is about the end. The comment at `drift.go:64-66`
  says zones are not part of the hash, but it covers the whole spec except the labels.
* The migration stamps NodeClaims with the hash of the present spec, so it forgives what
  nobody flagged: an edit made while the controller was down or between a failed pass and
  its retry, and drift whose condition the pass's cached list did not show yet, although the
  comment at `hash/controller.go:87-88` speaks of any NodeClaim already known to be drifted.
  `NoNeedlessDrift` and `FlaggedKeepsHash` say what remains.
* A flagged NodeClaim keeps the hash of the old version under the new version: it stays drifted
  even if the edit is reverted. While the versions differ, its Drifted condition is cleared
  (`drift.go:57`), and set again afterwards.
* A pass that listed a NodeClaim before its launch was persisted can overwrite the hash of the
  launch with its own; if the spec was edited in between, that server's drift is lost.
* The list of zones is cached for 30 minutes, an empty one too, while `resyncPeriod` promises to
  notice changed zones within 5 (`nodeclass/controller.go:40-42`).
* Two status patches from stale copies can leave zones of one spec with conditions of
  another for a moment, and a launch can then use a zone the present spec does not list.
* The offering cache keeps prices when the price list moves, and a machine type that
  appears stays without offerings until prices were refreshed and its empty list expired.
* STACKIT is called with the catalog's write lock held: a call that hangs blocks every List.
  `ListAnswers` assumes that it returns, with an answer or an error.
* An answer that was under way when Delete dropped the cache entry can put the server back
  into the instance cache until the TTL.
* The labeling controller reads the NodeClass from the informer's cache: after two edits, one
  reverting the other, it can replace right labels by those in between, until the informer and
  the next reconcile put them right (`LabelsConverge`).
* Allocatable amounts can be negative: 1Gi of at least 1G of ephemeral storage, and 1465 MiB
  plus the eviction threshold of a machine type's memory with 110 pods. Nothing is placed
  there (`RequestsFit`). A boot volume under 5 GB counts as one of 5 (so `RequestsFit` says):
  the capacity is overstated, and a kubelet configured to reserve less than 1G of storage
  could be overcommitted. No rule keeps the percentages of eviction signals from being
  negative; the theorems hold for those too.
* `UpdateInstanceTypeCapacityFromNode` has no caller, although `types.go:197` leaves the correction
  of the memory overhead to it.
* `NaN` passes the check of price overrides, and that of the memory overhead. The cluster's name is
  not restricted, though the label selector of ListServers is
  built from it with `,` and `=`.
* `ValidateLabels` accepts values with `=`, against its comment (`utils.go:50-52`).
* `MachineTypeSpecs` handles an empty catalog, which does not occur after start, and the
  comment on `UpdateMachineTypes` promises one request for a burst of callers, while each
  makes its own.

## 7. Plan

Done, in this order: `Lifecycle` with the garbage collector; `Offerings`; `NodeClass`; `Catalog` and
the lock; `InstanceCache` and the labeling controller;
`InstanceTypes` and `Launch`; `Drift` with the upgrade; the start in `Catalog`; the proofs of
`Offerings` and of all type invariants; the order of the migration and what was
flagged; the amounts of `InstanceTypes` and what `Launch` fits in; `Custody`, its refinement and
what follows from it;
what has settled and stays so in `Catalog`, `NodeClass` and `Drift`; the offering cache in `Launch`, any
number of callers and lists in `Offerings`, and the informers in `InstanceCache`.

What is left:

1. A variant of `Offerings` with the number kept for each list of zones, to show that it repairs
   finding 2, and what two callers of one list then still see.
2. Two NodePools and several NodeClasses in `Lifecycle`, for the partial failure of List.
3. The deletion of a NodeClass during drift detection.
4. Abstract specifications of `Catalog` (a List answers from one moment) and of the finalizer
   protocol of `NodeClass`, refined as `Lifecycle` is.
