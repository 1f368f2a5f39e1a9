CONSTANTS
  c1 = c1
  c2 = c2
  Callers <- OneCaller
  ReqTypes <- InitiatorTypes
  Air <- ReleasingAir
  TxCsduNum = 1
  MaxData = 0
  MaxTimeout = 0
  MaxFault = 0
SPECIFICATION Spec
INVARIANT CloseIsNotified
CHECK_DEADLOCK FALSE
