------------------------------ MODULE Catalog ------------------------------
(***************************************************************************)
(* The machine type catalog: the instance type provider, which keeps it    *)
(* behind a readers-writer lock together with the instance types resolved  *)
(* from it, the price list computed from it on a schedule of its own, and  *)
(* the offerings that calls of List put together from all three.  All of   *)
(* it is in memory: a process starts by loading the catalog and the        *)
(* prices, and one that fails to exits and starts again, as does one that  *)
(* crashes later; it is then in an initial state once more.                *)
(*                                                                         *)
(* There is one NodeClass, that is one key of each cache.  Availability is *)
(* the subject of Offerings: here it only drops a cached offering earlier  *)
(* than its TTL would.  An instance type stands for the size it was        *)
(* resolved from, an offering for its price.                               *)
(***************************************************************************)
EXTENDS Integers, FiniteSets

CONSTANTS
  Callers,      \* concurrent calls of List
  Types,        \* names of machine types
  Sizes,        \* their resources, ordered by what the price model makes of them
  Overridden,   \* machine types the pricing overrides name
  None,         \* not cached
  MaxChanges    \* bound on the changes of STACKIT's machine types

ASSUME CatalogAssumption ==
  /\ Sizes \subseteq Nat \ {0}
  /\ Overridden \subseteq Types
  /\ MaxChanges \in Nat

VARIABLES
  boot,           \* NewOperator: loading the "types", then the "prices", then "running"
  api,            \* the machine types STACKIT lists
  machineTypes,   \* the catalog
  refresh,        \* UpdateMachineTypes: idle, waiting for the lock, calling with it held
  prices,         \* the price list
  pricing,        \* UpdatePrices: None, or the machine types about to be priced
  instanceTypes,  \* instance type cache
  offerings,      \* offering cache: a price, or Unpriced for an empty list of offerings
  call,           \* the local state of each call of List
  changes

vars == <<boot, api, machineTypes, refresh, prices, pricing, instanceTypes, offerings, call,
          changes>>

\* Machine types are never all gone: an empty list is an error for the provider.
Catalogs == UNION {[names -> Sizes] : names \in SUBSET Types \ {{}}}

NoTypes == [m \in {} |-> 0]

Unpriced == 0

Idle == [pc |-> "idle"]

----------------------------------------------------------------------------
(* Prices.                                                                 *)

\* Mutant: a machine type without resources is free.
Price_Free(m, size) == IF m \in Overridden THEN 1 ELSE size - 1

\* Every price is positive: an override is checked when it is parsed, and the model
\* falls back to the price of one vCPU.
Price(m, size) == IF m \in Overridden THEN 1 ELSE size

PriceList(specs) == [m \in DOMAIN specs |-> Price(m, specs[m])]

PriceOf(m) == IF m \in DOMAIN prices THEN prices[m] ELSE Unpriced

----------------------------------------------------------------------------
Init ==
  /\ boot = "types"
  /\ api \in Catalogs
  /\ machineTypes = NoTypes
  /\ refresh = "idle"
  /\ prices = NoTypes
  /\ pricing = None
  /\ instanceTypes = None
  /\ offerings = [m \in Types |-> None]
  /\ call = [t \in Callers |-> Idle]
  /\ changes = 0

ChangeTypes(catalog) ==
  /\ changes < MaxChanges /\ catalog # api
  /\ changes' = changes + 1
  /\ api' = catalog
  /\ UNCHANGED <<boot, machineTypes, refresh, prices, pricing, instanceTypes, offerings, call>>

----------------------------------------------------------------------------
(* NewOperator, before any controller starts.                              *)

\* Mutant: the prices are left to the pricing controller.
BootTypes_Only ==
  /\ boot = "types"
  /\ boot' = "running"
  /\ machineTypes' = api
  /\ UNCHANGED <<api, refresh, prices, pricing, instanceTypes, offerings, call, changes>>

\* UpdateMachineTypes, with nobody to lock out and nothing cached.
BootTypes ==
  /\ boot = "types"
  /\ boot' = "prices"
  /\ machineTypes' = api
  /\ UNCHANGED <<api, refresh, prices, pricing, instanceTypes, offerings, call, changes>>

\* UpdatePrices.
BootPrices ==
  /\ boot = "prices"
  /\ boot' = "running"
  /\ prices' = PriceList(machineTypes)
  /\ UNCHANGED <<api, machineTypes, refresh, pricing, instanceTypes, offerings, call, changes>>

----------------------------------------------------------------------------
(* muMachineTypes.  A writer that waits keeps new readers out.             *)

Readers == {t \in Callers : call[t].pc \notin {"idle", "waiting"}}

CanRead == refresh = "idle"

----------------------------------------------------------------------------
(* UpdateMachineTypes, called by the catalog controller.                   *)

RefreshStart ==
  /\ boot = "running" /\ refresh = "idle"
  /\ refresh' = "waiting"
  /\ UNCHANGED <<boot, api, machineTypes, prices, pricing, instanceTypes, offerings, call, changes>>

\* Mutant: the refresh does not wait for the readers.
RefreshLock_NoWait ==
  /\ refresh = "waiting"
  /\ refresh' = "calling"
  /\ UNCHANGED <<boot, api, machineTypes, prices, pricing, instanceTypes, offerings, call, changes>>

RefreshLock ==
  /\ refresh = "waiting" /\ Readers = {}
  /\ refresh' = "calling"
  /\ UNCHANGED <<boot, api, machineTypes, prices, pricing, instanceTypes, offerings, call, changes>>

\* Mutant: only the names of the machine types are compared.
HasChanged_Names == DOMAIN api # DOMAIN machineTypes

\* The change monitor remembers the last list, which is the catalog.
HasChanged == api # machineTypes

RefreshStore ==
  /\ refresh = "calling"
  /\ machineTypes' = api
  /\ instanceTypes' = IF HasChanged THEN None ELSE instanceTypes
  /\ refresh' = "idle"
  /\ UNCHANGED <<boot, api, prices, pricing, offerings, call, changes>>

\* Mutant: the error return leaves the lock held.
RefreshFails_KeepsLock ==
  /\ refresh = "calling"
  /\ refresh' = "locked"
  /\ UNCHANGED <<boot, api, machineTypes, prices, pricing, instanceTypes, offerings, call, changes>>

\* Mutant: an empty list is stored like any other.
RefreshFails_Empties ==
  /\ refresh = "calling"
  /\ machineTypes' = NoTypes
  /\ refresh' = "idle"
  /\ UNCHANGED <<boot, api, prices, pricing, instanceTypes, offerings, call, changes>>

\* An error, or an empty list: the catalog stays.
RefreshFails ==
  /\ refresh = "calling"
  /\ refresh' = "idle"
  /\ UNCHANGED <<boot, api, machineTypes, prices, pricing, instanceTypes, offerings, call, changes>>

----------------------------------------------------------------------------
(* UpdatePrices, called by the pricing controller: it copies the catalog   *)
(* under the lock and replaces the price list later.  That MachineTypeSpecs *)
(* refreshes an empty catalog itself is left out: it is never empty then   *)
(* (TypeOK).                                                               *)

MachineTypeSpecs ==
  /\ boot = "running" /\ pricing = None /\ CanRead
  /\ pricing' = machineTypes
  /\ UNCHANGED <<boot, api, machineTypes, refresh, prices, instanceTypes, offerings, call, changes>>

\* Mutant: machine types that have a price keep it.
StorePrices_Keep ==
  /\ pricing # None
  /\ prices' = [m \in DOMAIN pricing |->
                  IF m \in DOMAIN prices THEN prices[m] ELSE Price(m, pricing[m])]
  /\ pricing' = None
  /\ UNCHANGED <<boot, api, machineTypes, refresh, instanceTypes, offerings, call, changes>>

StorePrices ==
  /\ pricing # None
  /\ prices' = PriceList(pricing)
  /\ pricing' = None
  /\ UNCHANGED <<boot, api, machineTypes, refresh, instanceTypes, offerings, call, changes>>

----------------------------------------------------------------------------
(* List and, under its read lock, InjectOfferings.                         *)

ListStart(t) ==
  /\ boot = "running" /\ call[t].pc = "idle"
  /\ call' = [call EXCEPT ![t] = [pc |-> "waiting"]]
  /\ UNCHANGED <<boot, api, machineTypes, refresh, prices, pricing, instanceTypes, offerings, changes>>

ListLock(t) ==
  /\ call[t].pc = "waiting" /\ CanRead
  /\ call' = [call EXCEPT ![t] = [pc |-> "locked"]]
  /\ UNCHANGED <<boot, api, machineTypes, refresh, prices, pricing, instanceTypes, offerings, changes>>

Injecting(types) == [pc |-> "inject", types |-> types, todo |-> DOMAIN types, offers |-> {}]

ListCached(t) ==
  /\ call[t].pc = "locked" /\ instanceTypes # None
  /\ call' = [call EXCEPT ![t] = Injecting(instanceTypes)]
  /\ UNCHANGED <<boot, api, machineTypes, refresh, prices, pricing, instanceTypes, offerings, changes>>

\* Every machine type of the catalog resolves.
ListResolve(t) ==
  /\ call[t].pc = "locked" /\ instanceTypes = None
  /\ call' = [call EXCEPT ![t] = [pc |-> "resolved", types |-> machineTypes]]
  /\ UNCHANGED <<boot, api, machineTypes, refresh, prices, pricing, instanceTypes, offerings, changes>>

ListStore(t) ==
  /\ call[t].pc = "resolved"
  /\ instanceTypes' = call[t].types
  /\ call' = [call EXCEPT ![t] = Injecting(call[t].types)]
  /\ UNCHANGED <<boot, api, machineTypes, refresh, prices, pricing, offerings, changes>>

Offer(t, m, price) ==
  [pc |-> "inject", types |-> call[t].types, todo |-> call[t].todo \ {m},
   offers |-> call[t].offers \cup {<<m, price>>}]

OfferCached(t, m) ==
  /\ call[t].pc = "inject" /\ m \in call[t].todo
  /\ offerings[m] # None
  /\ call' = [call EXCEPT ![t] = Offer(t, m, offerings[m])]
  /\ UNCHANGED <<boot, api, machineTypes, refresh, prices, pricing, instanceTypes, offerings, changes>>

\* A machine type without a price gets an empty list of offerings.
OfferPrice(t, m) ==
  /\ call[t].pc = "inject" /\ m \in call[t].todo
  /\ offerings[m] = None
  /\ call' = [call EXCEPT ![t] =
       [pc |-> "priced", types |-> @.types, todo |-> @.todo, offers |-> @.offers,
        type |-> m, price |-> PriceOf(m)]]
  /\ UNCHANGED <<boot, api, machineTypes, refresh, prices, pricing, instanceTypes, offerings, changes>>

OfferStore(t) ==
  /\ call[t].pc = "priced"
  /\ offerings' = [offerings EXCEPT ![call[t].type] = call[t].price]
  /\ call' = [call EXCEPT ![t] = Offer(t, call[t].type, call[t].price)]
  /\ UNCHANGED <<boot, api, machineTypes, refresh, prices, pricing, instanceTypes, changes>>

Answered(t) == call[t].pc = "inject" /\ call[t].todo = {}

ListReturn(t) ==
  /\ Answered(t)
  /\ call' = [call EXCEPT ![t] = Idle]
  /\ UNCHANGED <<boot, api, machineTypes, refresh, prices, pricing, instanceTypes, offerings, changes>>

ExpireTypes ==
  /\ instanceTypes # None
  /\ instanceTypes' = None
  /\ UNCHANGED <<boot, api, machineTypes, refresh, prices, pricing, offerings, call, changes>>

\* The TTL, or a change of availability.
ExpireOffer(m) ==
  /\ offerings[m] # None
  /\ offerings' = [offerings EXCEPT ![m] = None]
  /\ UNCHANGED <<boot, api, machineTypes, refresh, prices, pricing, instanceTypes, call, changes>>

----------------------------------------------------------------------------
\* What List does once it has the lock.
ListStep(t) ==
  \/ ListCached(t) \/ ListResolve(t) \/ ListStore(t) \/ OfferStore(t) \/ ListReturn(t)
  \/ \E m \in Types : OfferCached(t, m) \/ OfferPrice(t, m)

Next ==
  \/ \E catalog \in Catalogs : ChangeTypes(catalog)
  \/ BootTypes \/ BootPrices
  \/ RefreshStart \/ RefreshLock \/ RefreshStore \/ RefreshFails
  \/ MachineTypeSpecs \/ StorePrices
  \/ \E t \in Callers : ListStart(t) \/ ListLock(t) \/ ListStep(t)
  \/ ExpireTypes \/ \E m \in Types : ExpireOffer(m)

Spec == Init /\ [][Next]_vars

(* The two controllers run again and again and their calls succeed again,  *)
(* a call that has the lock goes on, TTLs pass, and the lock lets a waiting *)
(* reader in before the next writer.  That the instance type cache expires *)
(* is not relied upon.                                                     *)
Fairness ==
  /\ WF_vars(RefreshStart) /\ WF_vars(RefreshLock)
  /\ WF_vars(RefreshStore \/ RefreshFails) /\ SF_vars(RefreshStore)
  /\ SF_vars(MachineTypeSpecs) /\ WF_vars(StorePrices)
  /\ \A t \in Callers : SF_vars(ListLock(t)) /\ WF_vars(ListStep(t))
  /\ \A m \in Types : WF_vars(ExpireOffer(m))

FairSpec == Spec /\ Fairness

----------------------------------------------------------------------------
(* Properties.                                                             *)

Prices == Sizes \cup {1}

PriceLists == UNION {[names -> Prices] : names \in SUBSET Types}

Offers == SUBSET (Types \X (Prices \cup {Unpriced}))

Resolved == [pc : {"resolved"}, types : Catalogs]
Injected == [pc : {"inject"}, types : Catalogs, todo : SUBSET Types, offers : Offers]
Priced == [pc : {"priced"}, types : Catalogs, todo : SUBSET Types, offers : Offers,
           type : Types, price : Prices \cup {Unpriced}]

Calls == [pc : {"idle", "waiting", "locked"}] \cup Resolved \cup Injected \cup Priced

\* Every variable stays within its type: prices are positive, only an empty list of offerings
\* counts as unpriced, and once loaded the catalog is never empty.
TypeOK ==
  /\ boot \in {"types", "prices", "running"}
  /\ api \in Catalogs
  /\ machineTypes \in IF boot = "types" THEN {NoTypes} ELSE Catalogs
  /\ refresh \in {"idle", "waiting", "calling"}
  /\ prices \in PriceLists
  /\ pricing \in Catalogs \cup {None}
  /\ instanceTypes \in Catalogs \cup {None}
  /\ offerings \in [Types -> Prices \cup {Unpriced, None}]
  /\ call \in [Callers -> Calls]
  /\ changes \in 0..MaxChanges

\* "None of the cached instance types are valid once the machine type catalog moves":
\* whatever is cached was resolved from the catalog, although calls of List resolve and
\* store instance types while the catalog is refreshed (UpdateMachineTypes, List).
CacheMatchesCatalog == instanceTypes # None => instanceTypes = machineTypes

\* An answer of List is one catalog's, the one in use when it is given: never some
\* machine types of one and some of another, nor one that was replaced meanwhile.
AnswersFromCatalog ==
  \A t \in Callers : Answered(t) =>
    /\ call[t].types = machineTypes
    /\ {offer[1] : offer \in call[t].offers} = DOMAIN machineTypes

\* The offers of an answer that is as it should be.
Exact == {<<m, Price(m, api[m])>> : m \in DOMAIN api}

\* "Otherwise the first scheduling pass sees an empty instance type list": from the first call
\* on, and until STACKIT's machine types change, every answer has all of them, each at its
\* price (NewOperator's hydration, InjectOfferings).
PricedFromStart ==
  changes = 0 => \A t \in Callers : Answered(t) => call[t].offers = Exact

AnswersExact ==
  \A t \in Callers : Answered(t) => call[t].types = api /\ call[t].offers = Exact

\* Once STACKIT's machine types stop changing, every answer of List has exactly those
\* machine types, each at the price of its present size: prices are recomputed and no
\* cache keeps an old price, or the empty offerings of an unpriced machine type, for ever.
OffersSettle == <>[]AnswersExact

\* Everything an answer is put together from is of STACKIT's present machine types.
Settled ==
  /\ machineTypes = api
  /\ prices = PriceList(api) /\ pricing \in {None, api}
  /\ \A m \in DOMAIN api : offerings[m] \in {None, Price(m, api[m])}
  /\ \A t \in Callers :
       /\ call[t].pc \in {"inject", "priced"} => call[t].offers \subseteq Exact
       /\ call[t].pc = "priced" => call[t].price = Price(call[t].type, api[call[t].type])

\* What has settled stays so until STACKIT's machine types change: no refresh that fails, no
\* price list that is computed meanwhile, no cache and no call that began earlier brings an
\* old price or an old machine type back (UpdateMachineTypes, UpdatePrices, InjectOfferings).
StaysSettled == [][Settled /\ api' = api => Settled' /\ AnswersExact']_vars

\* Every call of List comes to its end, whatever the refreshes that lock it out return.
ListAnswers == \A t \in Callers : call[t].pc # "idle" ~> call[t].pc = "idle"

=============================================================================
