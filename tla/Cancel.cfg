SPECIFICATION Spec
CONSTANTS
  c1 = c1  c2 = c2  rx = rx  tx = tx  d1 = d1  d2 = d2  d3 = d3  none = none
  Cancellers <- TwoCancellers
  RxReqs <- OneRx
  TxReqs <- OneTx
  Dummies <- ThreeDummies
  RxSize = 1
  TxSize = 2
  MaxSem = 1
  None = none
SYMMETRY Symmetry
INVARIANTS DummyOwnedOnce RequestsAccounted EndForEachWait ResultIsTrue CancelIsSeen
CONSTRAINT NotCrossed
