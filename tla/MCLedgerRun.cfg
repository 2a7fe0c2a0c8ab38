\* Purchases and reversals, with crashes, no failing call.
CONSTANTS
  IntHalf <- MCIntHalf
  MaxRequests = 3
  Keys = {k1, k2}
  PurchaseAmounts <- LedgerAmounts
  ReversalAmounts <- MCReversalAmounts
  Pins <- TwoPins
  NoPin = NoPin
  FirstHost = 5
  FirstAcq = 7
  NsuLimit = 1000
  AcqFallback = 999
  DbFaults = FALSE
  None = None
SPECIFICATION Spec
INVARIANTS
  TypeOK OutcomeIsBooked CheckedPinDecides
  ReversalFindsOriginal BlankReversalFindsOnlyLost
PROPERTIES ImplementsLedger
