--------------------------- MODULE Catalog_proofs ---------------------------
(***************************************************************************)
(* Theorems about Catalog, for any number of concurrent calls of List and  *)
(* any machine types: the lock keeps what is cached and what is answered   *)
(* in step with the catalog.                                               *)
(***************************************************************************)
EXTENDS Catalog, TLAPS

\* The price list of well-typed machine types is well-typed.
LEMMA PriceListType ==
  ASSUME NEW specs \in Catalogs PROVE PriceList(specs) \in PriceLists
<1>1. PICK names \in SUBSET Types : specs \in [names -> Sizes]
  BY DEF Catalogs
<1>2. PriceList(specs) \in [names -> Prices]
  BY <1>1 DEF PriceList, Price, Prices
<1>3. QED
  BY <1>2 DEF PriceLists

\* What Price returns is a price, or no price.
LEMMA PriceOfType ==
  ASSUME TypeOK, NEW m \in Types PROVE PriceOf(m) \in Prices \cup {Unpriced}
<1>1. PICK names \in SUBSET Types : prices \in [names -> Prices]
  BY DEF TypeOK, PriceLists
<1>2. QED
  BY <1>1 DEF PriceOf

\* A catalog names machine types only.
LEMMA CatalogDomain ==
  ASSUME NEW catalog \in Catalogs PROVE DOMAIN catalog \in SUBSET Types
  BY DEF Catalogs

\* The state of a call tells its fields.
LEMMA CallFields ==
  ASSUME TypeOK, NEW t \in Callers
  PROVE  /\ call[t].pc = "resolved" => call[t] \in Resolved
         /\ call[t].pc = "inject" => call[t] \in Injected
         /\ call[t].pc = "priced" => call[t] \in Priced
  BY DEF TypeOK, Calls, Resolved, Injected, Priced

----------------------------------------------------------------------------
\* Until NewOperator has returned, no controller runs and List is not called.
Quiet ==
  boot # "running" =>
    /\ refresh = "idle" /\ prices = NoTypes /\ pricing = None /\ instanceTypes = None
    /\ offerings = [m \in Types |-> None]
    /\ call = [t \in Callers |-> Idle]

\* A process starts well-typed and quiet.
LEMMA TypeInit == Init => TypeOK /\ Quiet
<1> SUFFICES ASSUME Init PROVE TypeOK /\ Quiet
  OBVIOUS
<1>1. prices \in [{} -> Prices]
  BY DEF Init, NoTypes
<1>2. prices \in PriceLists
  BY <1>1 DEF PriceLists
<1>3. call \in [Callers -> Calls]
  BY DEF Init, Idle, Calls
<1>4. QED
  BY <1>2, <1>3, CatalogAssumption DEF Init, TypeOK, Quiet

\* Only the steps that load the catalog and the prices are possible before.
LEMMA QuietStep == Quiet /\ [Next]_vars => Quiet'
<1> SUFFICES ASSUME Quiet, [Next]_vars PROVE Quiet'
  OBVIOUS
<1>1. CASE boot = "running"
  <2>1. boot' = "running"
    BY <1>1 DEF Next, ListStep, vars, ChangeTypes, BootTypes, BootPrices, RefreshStart, RefreshLock,
                RefreshStore, RefreshFails, MachineTypeSpecs, StorePrices, ListStart, ListLock,
                ListCached, ListResolve, ListStore, OfferStore, ListReturn, OfferCached,
                OfferPrice, ExpireTypes, ExpireOffer
  <2>2. QED
    BY <2>1 DEF Quiet
<1>2. CASE boot # "running"
  <2>1. \A t \in Callers : call[t].pc = "idle"
    BY <1>2 DEF Quiet, Idle
  <2>2. \A t \in Callers : ~ListStart(t) /\ ~ListLock(t) /\ ~ListStep(t)
    BY <1>2, <2>1 DEF ListStart, ListLock, ListStep, ListCached, ListResolve, ListStore, OfferStore,
                      ListReturn, Answered, OfferCached, OfferPrice
  <2>3. /\ ~RefreshStart /\ ~RefreshLock /\ ~RefreshStore /\ ~RefreshFails
        /\ ~MachineTypeSpecs /\ ~StorePrices /\ ~ExpireTypes
        /\ \A m \in Types : ~ExpireOffer(m)
    BY <1>2 DEF Quiet, RefreshStart, RefreshLock, RefreshStore, RefreshFails, MachineTypeSpecs,
                StorePrices, ExpireTypes, ExpireOffer
  <2>4. CASE (\E catalog \in Catalogs : ChangeTypes(catalog)) \/ BootTypes \/ UNCHANGED vars
    BY <2>4 DEF Quiet, ChangeTypes, BootTypes, vars
  <2>5. CASE BootPrices
    BY <2>5 DEF BootPrices, Quiet
  <2>6. QED
    BY <2>2, <2>3, <2>4, <2>5 DEF Next
<1>3. QED
  BY <1>1, <1>2

\* Past NewOperator the catalog is loaded.
LEMMA Running ==
  ASSUME TypeOK, boot = "running" PROVE machineTypes \in Catalogs
  BY DEF TypeOK

\* Every step of the refreshes and of List preserves the types.
LEMMA TypeStep == TypeOK /\ Quiet /\ [Next]_vars => TypeOK'
<1> SUFFICES ASSUME TypeOK, Quiet, [Next]_vars PROVE TypeOK'
  OBVIOUS
<1> USE CatalogAssumption
<1>1. ASSUME NEW catalog \in Catalogs, ChangeTypes(catalog) PROVE TypeOK'
  BY <1>1 DEF TypeOK, ChangeTypes
<1>2. CASE RefreshStart \/ RefreshLock \/ RefreshFails
  BY <1>2 DEF TypeOK, RefreshStart, RefreshLock, RefreshFails
<1>3. CASE RefreshStore
  <2>1. boot = "running"
    BY <1>3 DEF Quiet, RefreshStore
  <2>2. QED
    BY <1>3, <2>1 DEF TypeOK, RefreshStore
<1>4. CASE MachineTypeSpecs
  BY <1>4, Running DEF TypeOK, MachineTypeSpecs
<1>5. CASE StorePrices
  <2>1. prices' \in PriceLists
    BY <1>5, PriceListType DEF TypeOK, StorePrices
  <2>2. QED
    BY <1>5, <2>1 DEF TypeOK, StorePrices
<1>6. ASSUME NEW t \in Callers, ListStart(t) \/ ListLock(t) \/ ListReturn(t) PROVE TypeOK'
  <2>1. call' \in [Callers -> Calls]
    BY <1>6 DEF TypeOK, ListStart, ListLock, ListReturn, Idle, Calls
  <2>2. QED
    BY <1>6, <2>1 DEF TypeOK, ListStart, ListLock, ListReturn
<1>7. ASSUME NEW t \in Callers, ListCached(t) PROVE TypeOK'
  <2>1. Injecting(instanceTypes) \in Injected
    BY <1>7, CatalogDomain DEF TypeOK, ListCached, Injecting, Injected, Offers
  <2>2. call' \in [Callers -> Calls]
    BY <1>7, <2>1 DEF TypeOK, ListCached, Calls
  <2>3. QED
    BY <1>7, <2>2 DEF TypeOK, ListCached
<1>8. ASSUME NEW t \in Callers, ListResolve(t) PROVE TypeOK'
  <2>0. machineTypes \in Catalogs
    BY <1>8, Running DEF Quiet, ListResolve, Idle
  <2>1. call' \in [Callers -> Calls]
    BY <1>8, <2>0 DEF TypeOK, ListResolve, Calls, Resolved
  <2>2. QED
    BY <1>8, <2>1 DEF TypeOK, ListResolve
<1>9. ASSUME NEW t \in Callers, ListStore(t) PROVE TypeOK'
  <2>1. call[t].types \in Catalogs
    BY <1>9, CallFields DEF ListStore, Resolved
  <2>2. Injecting(call[t].types) \in Injected
    BY <2>1, CatalogDomain DEF Injecting, Injected, Offers
  <2>3. call' \in [Callers -> Calls]
    BY <1>9, <2>2 DEF TypeOK, ListStore, Calls
  <2>4. QED
    BY <1>9, <2>1, <2>3 DEF TypeOK, ListStore
<1>10. ASSUME NEW t \in Callers, NEW m \in Types, OfferCached(t, m) PROVE TypeOK'
  <2>1. call[t] \in Injected /\ offerings[m] \in Prices \cup {Unpriced}
    BY <1>10, CallFields DEF TypeOK, OfferCached
  <2>2. Offer(t, m, offerings[m]) \in Injected
    BY <2>1 DEF Offer, Injected, Offers
  <2>3. call' \in [Callers -> Calls]
    BY <1>10, <2>2 DEF TypeOK, OfferCached, Calls
  <2>4. QED
    BY <1>10, <2>3 DEF TypeOK, OfferCached
<1>11. ASSUME NEW t \in Callers, NEW m \in Types, OfferPrice(t, m) PROVE TypeOK'
  <2>1. call[t] \in Injected /\ PriceOf(m) \in Prices \cup {Unpriced}
    BY <1>11, CallFields, PriceOfType DEF OfferPrice
  <2>2. [pc |-> "priced", types |-> call[t].types, todo |-> call[t].todo,
         offers |-> call[t].offers, type |-> m, price |-> PriceOf(m)] \in Priced
    BY <2>1 DEF Injected, Priced
  <2>3. call' \in [Callers -> Calls]
    BY <1>11, <2>2 DEF TypeOK, OfferPrice, Calls
  <2>4. QED
    BY <1>11, <2>3 DEF TypeOK, OfferPrice
<1>12. ASSUME NEW t \in Callers, OfferStore(t) PROVE TypeOK'
  <2>1. call[t] \in Priced
    BY <1>12, CallFields DEF OfferStore
  <2>2. Offer(t, call[t].type, call[t].price) \in Injected
    BY <2>1 DEF Offer, Injected, Priced, Offers
  <2>3. call' \in [Callers -> Calls] /\ offerings' \in [Types -> Prices \cup {Unpriced, None}]
    BY <1>12, <2>1, <2>2 DEF TypeOK, OfferStore, Calls, Priced
  <2>4. QED
    BY <1>12, <2>3 DEF TypeOK, OfferStore
<1>13. CASE ExpireTypes
  BY <1>13 DEF TypeOK, ExpireTypes
<1>14. ASSUME NEW m \in Types, ExpireOffer(m) PROVE TypeOK'
  BY <1>14 DEF TypeOK, ExpireOffer
<1>15. CASE UNCHANGED vars
  BY <1>15 DEF TypeOK, vars
<1>16. CASE BootTypes
  BY <1>16 DEF TypeOK, BootTypes
<1>17. CASE BootPrices
  <2>1. machineTypes \in Catalogs
    BY <1>17 DEF TypeOK, BootPrices
  <2>2. prices' \in PriceLists
    BY <1>17, <2>1, PriceListType DEF BootPrices
  <2>3. QED
    BY <1>17, <2>1, <2>2 DEF TypeOK, BootPrices
<1>18. QED
  BY <1>1, <1>2, <1>3, <1>4, <1>5, <1>6, <1>7, <1>8, <1>9, <1>10, <1>11, <1>12, <1>13, <1>14,
     <1>15, <1>16, <1>17 DEF Next, ListStep

\* Every variable stays within its type: in particular a price is never zero (ModelPrice).
THEOREM TypeCorrect == Spec => []TypeOK
  BY TypeInit, TypeStep, QuietStep, PTL DEF Spec

----------------------------------------------------------------------------
(* CacheMatchesCatalog and AnswersFromCatalog.  Both are about the lock:   *)
(* the catalog is replaced only while no call of List is past RLock.       *)

\* UpdateMachineTypes calls STACKIT and replaces the catalog without readers.
Exclusion == refresh = "calling" => Readers = {}

\* A call that holds the lock works on the catalog in use.
WorksOnCatalog ==
  \A t \in Callers :
    call[t].pc \in {"resolved", "inject", "priced"} => call[t].types = machineTypes

\* Each machine type of a call has its offerings, or is still to get them.
Accounted ==
  \A t \in Callers :
    /\ call[t].pc \in {"inject", "priced"} =>
         {offer[1] : offer \in call[t].offers} \cup call[t].todo = DOMAIN call[t].types
    /\ call[t].pc = "priced" => call[t].type \in call[t].todo

LockInv == TypeOK /\ Quiet /\ Exclusion /\ CacheMatchesCatalog /\ WorksOnCatalog /\ Accounted

\* Adding an offering moves its machine type from the ones still to come.
LEMMA OfferAccounts ==
  ASSUME NEW t \in Callers, NEW m, NEW price, m \in call[t].todo,
         {offer[1] : offer \in call[t].offers} \cup call[t].todo = DOMAIN call[t].types
  PROVE  LET new == Offer(t, m, price) IN
           {offer[1] : offer \in new.offers} \cup new.todo = DOMAIN new.types
<1>1. {offer[1] : offer \in call[t].offers \cup {<<m, price>>}}
        = {offer[1] : offer \in call[t].offers} \cup {m}
  <2> DEFINE old == call[t].offers
  <2>1. <<m, price>>[1] = m
    OBVIOUS
  <2>2. \A x : x \in {offer[1] : offer \in old \cup {<<m, price>>}}
               <=> x \in {offer[1] : offer \in old} \cup {m}
    <3> HIDE DEF old
    <3>1. \A x : x \in {offer[1] : offer \in old \cup {<<m, price>>}}
                 <=> \E offer \in old \cup {<<m, price>>} : x = offer[1]
      OBVIOUS
    <3>2. QED
      BY <2>1, <3>1
  <2>3. QED
    BY <2>2
<1>2. QED
  BY <1>1 DEF Offer

\* The providers start with the catalog unlocked and nothing cached.
LEMMA LockInit == Init => LockInv
  BY TypeInit DEF Init, NoTypes, LockInv, Exclusion, CacheMatchesCatalog, WorksOnCatalog, Accounted, Idle

\* Steps other than those of List.
LEMMA LockStepProviders ==
  ASSUME LockInv,
         \/ \E catalog \in Catalogs : ChangeTypes(catalog)
         \/ BootTypes \/ BootPrices
         \/ RefreshStart \/ RefreshLock \/ RefreshStore \/ RefreshFails
         \/ MachineTypeSpecs \/ StorePrices
         \/ ExpireTypes \/ \E m \in Types : ExpireOffer(m)
         \/ UNCHANGED vars
  PROVE  Exclusion' /\ CacheMatchesCatalog' /\ WorksOnCatalog' /\ Accounted'
<1> USE DEF LockInv
<1>1. CASE \E catalog \in Catalogs : ChangeTypes(catalog)
  BY <1>1 DEF ChangeTypes, Exclusion, Readers, CacheMatchesCatalog, WorksOnCatalog, Accounted
<1>2. CASE RefreshStart \/ RefreshLock \/ RefreshFails
  BY <1>2 DEF RefreshStart, RefreshLock, RefreshFails, Exclusion, Readers, CacheMatchesCatalog,
              WorksOnCatalog, Accounted
<1>3. CASE RefreshStore
  <2>1. Readers = {}
    BY <1>3 DEF RefreshStore, Exclusion
  <2>2. CacheMatchesCatalog'
    BY <1>3 DEF RefreshStore, HasChanged, CacheMatchesCatalog
  <2>3. WorksOnCatalog'
    BY <1>3, <2>1 DEF RefreshStore, Readers, WorksOnCatalog
  <2>4. QED
    BY <1>3, <2>2, <2>3 DEF RefreshStore, Exclusion, Accounted
<1>4. CASE MachineTypeSpecs \/ StorePrices
  BY <1>4 DEF MachineTypeSpecs, StorePrices, Exclusion, Readers, CacheMatchesCatalog,
              WorksOnCatalog, Accounted
<1>5. CASE ExpireTypes \/ \E m \in Types : ExpireOffer(m)
  BY <1>5 DEF ExpireTypes, ExpireOffer, Exclusion, Readers, CacheMatchesCatalog, WorksOnCatalog,
              Accounted
<1>6. CASE BootTypes
  <2>1. /\ refresh = "idle" /\ instanceTypes = None
        /\ \A t \in Callers : call[t].pc = "idle"
    BY <1>6 DEF BootTypes, Quiet, Idle
  <2>2. QED
    BY <1>6, <2>1 DEF BootTypes, Exclusion, Readers, CacheMatchesCatalog, WorksOnCatalog, Accounted
<1>7. CASE BootPrices
  BY <1>7 DEF BootPrices, Exclusion, Readers, CacheMatchesCatalog, WorksOnCatalog, Accounted
<1>8. CASE UNCHANGED vars
  BY <1>8 DEF vars, Exclusion, Readers, CacheMatchesCatalog, WorksOnCatalog, Accounted
<1>9. QED
  BY <1>1, <1>2, <1>3, <1>4, <1>5, <1>6, <1>7, <1>8

\* Steps of List: a call gets the lock only without a writer, and what it resolves and
\* stores is the catalog.
LEMMA LockStepList ==
  ASSUME LockInv, NEW t \in Callers, ListStart(t) \/ ListLock(t) \/ ListStep(t)
  PROVE  Exclusion' /\ CacheMatchesCatalog' /\ WorksOnCatalog' /\ Accounted'
<1> USE DEF LockInv
<1>0. DOMAIN call = Callers
  BY DEF TypeOK
<1>1. CASE ListStart(t)
  BY <1>0, <1>1 DEF ListStart, Exclusion, Readers, CacheMatchesCatalog, WorksOnCatalog, Accounted
<1>2. CASE ListLock(t)
  BY <1>0, <1>2 DEF ListLock, CanRead, Exclusion, Readers, CacheMatchesCatalog, WorksOnCatalog,
                    Accounted
<1>3. ASSUME ListStep(t) PROVE Exclusion'
  <2>1. t \in Readers
    BY <1>3 DEF ListStep, ListCached, ListResolve, ListStore, OfferStore, ListReturn, Answered,
                OfferCached, OfferPrice, Readers
  <2>2. refresh # "calling"
    BY <2>1 DEF Exclusion
  <2>3. QED
    BY <1>3, <2>2 DEF ListStep, ListCached, ListResolve, ListStore, OfferStore, ListReturn,
                      OfferCached, OfferPrice, Exclusion
<1>4. ASSUME ListStep(t) PROVE CacheMatchesCatalog' /\ WorksOnCatalog'
  <2>1. CASE ListCached(t)
    BY <1>0, <2>1 DEF ListCached, Injecting, CacheMatchesCatalog, WorksOnCatalog
  <2>2. CASE ListResolve(t)
    BY <1>0, <2>2 DEF ListResolve, CacheMatchesCatalog, WorksOnCatalog
  <2>3. CASE ListStore(t)
    BY <1>0, <2>3 DEF ListStore, Injecting, CacheMatchesCatalog, WorksOnCatalog
  <2>4. ASSUME NEW m \in Types, OfferCached(t, m) PROVE CacheMatchesCatalog' /\ WorksOnCatalog'
    BY <1>0, <2>4 DEF OfferCached, Offer, CacheMatchesCatalog, WorksOnCatalog
  <2>5. ASSUME NEW m \in Types, OfferPrice(t, m) PROVE CacheMatchesCatalog' /\ WorksOnCatalog'
    BY <1>0, <2>5 DEF OfferPrice, CacheMatchesCatalog, WorksOnCatalog
  <2>6. CASE OfferStore(t)
    BY <1>0, <2>6 DEF OfferStore, Offer, CacheMatchesCatalog, WorksOnCatalog
  <2>7. CASE ListReturn(t)
    BY <1>0, <2>7 DEF ListReturn, Idle, CacheMatchesCatalog, WorksOnCatalog
  <2>8. QED
    BY <1>4, <2>1, <2>2, <2>3, <2>4, <2>5, <2>6, <2>7 DEF ListStep
<1>5. ASSUME ListStep(t) PROVE Accounted'
  <2>1. CASE ListCached(t)
    BY <1>0, <2>1 DEF ListCached, Injecting, Accounted
  <2>2. CASE ListResolve(t)
    BY <1>0, <2>2 DEF ListResolve, Accounted
  <2>3. CASE ListStore(t)
    BY <1>0, <2>3 DEF ListStore, Injecting, Accounted
  <2>4. ASSUME NEW m \in Types, OfferCached(t, m) PROVE Accounted'
    <3>1. call'[t] = Offer(t, m, offerings[m]) /\ call'[t].pc = "inject"
      BY <1>0, <2>4 DEF OfferCached, Offer
    <3>2. {offer[1] : offer \in call'[t].offers} \cup call'[t].todo = DOMAIN call'[t].types
      BY <2>4, <3>1, OfferAccounts DEF OfferCached, Accounted
    <3>3. QED
      BY <1>0, <2>4, <3>1, <3>2 DEF OfferCached, Accounted
  <2>5. ASSUME NEW m \in Types, OfferPrice(t, m) PROVE Accounted'
    BY <1>0, <2>5 DEF OfferPrice, Accounted
  <2>6. CASE OfferStore(t)
    <3>1. call'[t] = Offer(t, call[t].type, call[t].price) /\ call'[t].pc = "inject"
      BY <1>0, <2>6 DEF OfferStore, Offer
    <3>2. {offer[1] : offer \in call'[t].offers} \cup call'[t].todo = DOMAIN call'[t].types
      BY <2>6, <3>1, OfferAccounts DEF OfferStore, Accounted
    <3>3. QED
      BY <1>0, <2>6, <3>1, <3>2 DEF OfferStore, Accounted
  <2>7. CASE ListReturn(t)
    BY <1>0, <2>7 DEF ListReturn, Idle, Accounted
  <2>8. QED
    BY <1>5, <2>1, <2>2, <2>3, <2>4, <2>5, <2>6, <2>7 DEF ListStep
<1>6. QED
  BY <1>1, <1>2, <1>3, <1>4, <1>5

\* Every step preserves the invariant.
LEMMA LockStep == LockInv /\ [Next]_vars => LockInv'
<1> SUFFICES ASSUME LockInv, [Next]_vars PROVE LockInv'
  OBVIOUS
<1>1. TypeOK' /\ Quiet'
  BY TypeStep, QuietStep DEF LockInv
<1>2. Exclusion' /\ CacheMatchesCatalog' /\ WorksOnCatalog' /\ Accounted'
  BY LockStepProviders, LockStepList DEF Next
<1>3. QED
  BY <1>1, <1>2 DEF LockInv

\* Cached instance types are always those of the catalog in use (UpdateMachineTypes
\* flushes the cache under the lock List stores them under).
THEOREM CacheMatchesCatalogAlways == Spec => []CacheMatchesCatalog
<1>1. LockInv => CacheMatchesCatalog
  BY DEF LockInv
<1>2. QED
  BY LockInit, LockStep, <1>1, PTL DEF Spec

\* Every answer of List has each machine type of the catalog in use, and no other.
THEOREM AnswersFromCatalogAlways == Spec => []AnswersFromCatalog
<1>1. LockInv => AnswersFromCatalog
  BY DEF LockInv, WorksOnCatalog, Accounted, AnswersFromCatalog, Answered
<1>2. QED
  BY LockInit, LockStep, <1>1, PTL DEF Spec

----------------------------------------------------------------------------
(* StaysSettled.  With the lock, a call that goes on works on the catalog, *)
(* which is STACKIT's list, and finds the prices of it.                    *)

\* Whatever a call that has a machine type in hand offers next is exact.
LEMMA ExactOffer ==
  ASSUME LockInv, Settled, NEW t \in Callers, NEW m \in call[t].todo,
         call[t].pc \in {"inject", "priced"}
  PROVE  /\ m \in DOMAIN api
         /\ PriceOf(m) = Price(m, api[m])
         /\ \A price : price = Price(m, api[m]) => <<m, price>> \in Exact
<1>1. m \in DOMAIN api
  BY DEF LockInv, WorksOnCatalog, Accounted, Settled
<1>2. PriceOf(m) = Price(m, api[m])
  BY <1>1 DEF Settled, PriceOf, PriceList
<1> QED  BY <1>1, <1>2 DEF Exact

\* A step of List leaves things settled.
LEMMA SettledList ==
  ASSUME LockInv, Settled, NEW t \in Callers, ListStart(t) \/ ListLock(t) \/ ListStep(t)
  PROVE  Settled'
<1>0. DOMAIN call = Callers
  BY DEF LockInv, TypeOK
<1>1. CASE ListStart(t) \/ ListLock(t) \/ ListResolve(t) \/ ListReturn(t)
  BY <1>0, <1>1 DEF ListStart, ListLock, ListResolve, ListReturn, Idle, Settled, Exact
<1>2. CASE ListCached(t) \/ ListStore(t)
  BY <1>0, <1>2 DEF ListCached, ListStore, Injecting, Settled, Exact
<1>3. ASSUME NEW m \in Types, OfferCached(t, m) PROVE Settled'
  <2>1. offerings[m] = Price(m, api[m]) /\ <<m, offerings[m]>> \in Exact
    BY <1>3, ExactOffer DEF OfferCached, Settled
  <2>2. call'[t].pc = "inject" /\ call'[t].offers = call[t].offers \cup {<<m, offerings[m]>>}
    BY <1>0, <1>3 DEF OfferCached, Offer
  <2>3. call'[t].offers \subseteq Exact
    BY <1>3, <2>1, <2>2 DEF OfferCached, Settled
  <2> QED  BY <1>0, <1>3, <2>2, <2>3 DEF OfferCached, Settled, Exact
<1>4. ASSUME NEW m \in Types, OfferPrice(t, m) PROVE Settled'
  <2>1. PriceOf(m) = Price(m, api[m])
    BY <1>4, ExactOffer DEF OfferPrice
  <2> QED  BY <1>0, <1>4, <2>1 DEF OfferPrice, Settled, Exact
<1>5. ASSUME OfferStore(t) PROVE Settled'
  <2> DEFINE m == call[t].type
  <2>1. call[t].price = Price(m, api[m])
    BY <1>5 DEF OfferStore, Settled
  <2>2. m \in call[t].todo /\ m \in Types
    BY <1>5, CallFields DEF OfferStore, LockInv, Accounted, Priced
  <2>3. <<m, call[t].price>> \in Exact
    BY <1>5, <2>1, <2>2, ExactOffer DEF OfferStore
  <2>4. call'[t].pc = "inject" /\ call'[t].offers = call[t].offers \cup {<<m, call[t].price>>}
    BY <1>0, <1>5 DEF OfferStore, Offer
  <2>5. call'[t].offers \subseteq Exact
    BY <1>5, <2>3, <2>4 DEF OfferStore, Settled
  <2>6. \A n \in DOMAIN api : offerings'[n] \in {None, Price(n, api[n])}
    BY <1>5, <2>1 DEF OfferStore, Settled, LockInv, TypeOK
  <2> QED  BY <1>0, <1>5, <2>4, <2>5, <2>6 DEF OfferStore, Settled, Exact
<1> QED  BY <1>1, <1>2, <1>3, <1>4, <1>5 DEF ListStep

\* Only STACKIT unsettles what has settled: a refresh that fails changes nothing, one that
\* succeeds stores what is there.
LEMMA SettledStep == LockInv /\ Settled /\ [Next]_vars /\ api' = api => Settled'
<1> SUFFICES ASSUME LockInv, Settled, [Next]_vars, api' = api PROVE Settled'
  OBVIOUS
<1>1. CASE RefreshStart \/ RefreshLock \/ RefreshStore \/ RefreshFails \/ ExpireTypes
  BY <1>1 DEF RefreshStart, RefreshLock, RefreshStore, RefreshFails, ExpireTypes, Settled, Exact
<1>2. CASE BootTypes \/ BootPrices \/ MachineTypeSpecs \/ StorePrices
  BY <1>2 DEF BootTypes, BootPrices, MachineTypeSpecs, StorePrices, Settled, Exact
<1>3. ASSUME NEW m \in Types, ExpireOffer(m) PROVE Settled'
  BY <1>3 DEF ExpireOffer, Settled, Exact, LockInv, TypeOK
<1>4. ASSUME NEW catalog \in Catalogs, ChangeTypes(catalog) PROVE FALSE
  BY <1>4 DEF ChangeTypes
<1>5. CASE UNCHANGED vars
  BY <1>5 DEF vars, Settled, Exact
<1> QED  BY <1>1, <1>2, <1>3, <1>4, <1>5, SettledList DEF Next

\* Answers are exact once things have settled, and complete by the lock.
LEMMA SettledExact == LockInv /\ Settled => AnswersExact
<1> SUFFICES ASSUME LockInv, Settled, NEW t \in Callers, Answered(t)
             PROVE  call[t].types = api /\ call[t].offers = Exact
  BY DEF AnswersExact
<1>1. call[t].types = api /\ call[t].offers \subseteq Exact
  BY DEF Answered, LockInv, WorksOnCatalog, Settled
<1>2. {offer[1] : offer \in call[t].offers} = DOMAIN api
  BY <1>1 DEF Answered, LockInv, Accounted
<1>3. Exact \subseteq call[t].offers
  <2> SUFFICES ASSUME NEW m \in DOMAIN api PROVE <<m, Price(m, api[m])>> \in call[t].offers
    BY DEF Exact
  <2>1. PICK offer \in call[t].offers : offer[1] = m
    BY <1>2
  <2> QED  BY <1>1, <2>1 DEF Exact
<1> QED  BY <1>1, <1>3

\* While STACKIT's machine types stay, what is offered stays right: every refresh, every call
\* of List and every expiry in any order, and for any number of calls.
THEOREM StaysSettledAlways == Spec => StaysSettled
<1>1. LockInv /\ [Next]_vars => [Settled /\ api' = api => Settled' /\ AnswersExact']_vars
  <2>1. LockInv' /\ Settled' => AnswersExact'
    BY SettledExact, PTL
  <2> QED  BY <2>1, LockStep, SettledStep
<1> QED  BY <1>1, LockInit, LockStep, PTL DEF Spec, StaysSettled

----------------------------------------------------------------------------
(* PricedFromStart.  While STACKIT's machine types are those the process   *)
(* started with, what it loads first is settled.                           *)

AsStarted ==
  changes = 0 =>
    /\ boot # "types" => machineTypes = api
    /\ boot = "running" => Settled

StartInv == LockInv /\ AsStarted

\* A process starts with nothing cached.
LEMMA StartInit == Init => StartInv
  BY LockInit DEF Init, StartInv, AsStarted

\* No other steps than those of STACKIT count its changes.
LEMMA StartStep == StartInv /\ [Next]_vars => StartInv'
<1> SUFFICES ASSUME StartInv, [Next]_vars PROVE AsStarted'
  BY LockStep DEF StartInv
<1> USE DEF StartInv, LockInv
<1>1. ASSUME NEW catalog \in Catalogs, ChangeTypes(catalog) PROVE AsStarted'
  <2>1. changes \in 0..MaxChanges /\ changes' = changes + 1
    BY <1>1 DEF ChangeTypes, TypeOK
  <2>2. changes' # 0
    BY <2>1, CatalogAssumption
  <2> QED  BY <2>2 DEF AsStarted
<1>2. CASE BootTypes
  BY <1>2 DEF BootTypes, AsStarted
<1>3. CASE BootPrices
  <2>1. call = [t \in Callers |-> Idle] /\ pricing = None /\ offerings = [m \in Types |-> None]
    BY <1>3 DEF BootPrices, Quiet
  <2>2. DOMAIN machineTypes \subseteq Types
    BY <1>3, CatalogDomain DEF BootPrices, TypeOK
  <2>3. changes = 0 => Settled'
    BY <1>3, <2>1, <2>2 DEF BootPrices, AsStarted, Settled, Idle
  <2> QED  BY <1>3, <2>3 DEF BootPrices, AsStarted
<1>4. ASSUME api' = api, changes' = changes, boot' = boot, machineTypes' = machineTypes \/ boot = "running"
      PROVE  AsStarted'
  BY <1>4, SettledStep DEF AsStarted, Settled
<1>5. ASSUME ~BootTypes, ~BootPrices, ~(\E catalog \in Catalogs : ChangeTypes(catalog))
      PROVE  AsStarted'
  <2>1. /\ api' = api /\ changes' = changes /\ boot' = boot
        /\ machineTypes' = machineTypes \/ boot = "running"
    BY <1>5 DEF Next, vars, Quiet, RefreshStart, RefreshLock, RefreshStore, RefreshFails,
                MachineTypeSpecs, StorePrices, ListStart, ListLock, ListStep, ListCached,
                ListResolve, ListStore, OfferCached, OfferPrice, OfferStore, ListReturn,
                ExpireTypes, ExpireOffer
  <2> QED  BY <1>4, <2>1
<1> QED  BY <1>1, <1>2, <1>3, <1>5

\* From its first call on, and until STACKIT's machine types change, List answers with all of
\* them at their prices (NewOperator loads the catalog and the prices before it returns).
THEOREM PricedFromStartAlways == Spec => []PricedFromStart
<1>1. ASSUME StartInv, changes = 0, NEW t \in Callers, Answered(t)
      PROVE  call[t].offers = Exact
  <2>1. boot = "running"
    BY <1>1 DEF StartInv, LockInv, Quiet, Answered, Idle
  <2> QED  BY <1>1, <2>1, SettledExact DEF StartInv, AsStarted, AnswersExact
<1>2. StartInv => PricedFromStart
  BY <1>1 DEF PricedFromStart
<1> QED  BY StartInit, StartStep, <1>2, PTL DEF Spec

=============================================================================
