SPECIFICATION FairSpec
CONSTANTS
  Callers = {t1}
  Types = {m1, m2}
  Sizes = {1, 2}
  Overridden = {m2}
  None = None
  MaxChanges = 2
INVARIANTS TypeOK CacheMatchesCatalog AnswersFromCatalog PricedFromStart
PROPERTIES OffersSettle ListAnswers StaysSettled
