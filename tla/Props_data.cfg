CONSTANTS
  c1 = c1
  c2 = c2
  Callers <- TwoCallers
  ReqTypes <- ExchangeTypes
  Air <- ExchangeAir
  TxCsduNum = 1
  MaxData = 1
  MaxTimeout = 1
  MaxFault = 1
SYMMETRY Symmetry
CONSTRAINT OneMishap
SPECIFICATION Spec
INVARIANTS TypeOK SleepsOnlyWhenDone NoCallerForgotten
CHECK_DEADLOCK FALSE
