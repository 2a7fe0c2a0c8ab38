\* One key, with database calls that fail, and a host NSU that outgrows its
\* field in the third request: 8 and 9 fit, 9 is also the fallback, and of
\* 10 the field keeps 1.
CONSTANTS
  IntHalf <- MCIntHalf
  MaxRequests = 3
  Keys = {k1}
  PurchaseAmounts <- OneAmount
  ReversalAmounts <- OneAmount
  Pins <- NoPins
  NoPin = NoPin
  FirstHost = 7
  FirstAcq = 7
  NsuLimit = 10
  AcqFallback = 999
  DbFaults = TRUE
  None = None
SPECIFICATION Spec
INVARIANTS DamageIsContained AcquirerNsuUnique
