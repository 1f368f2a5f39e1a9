CONSTANTS
  c1 = c1
  c2 = c2
  Callers <- OneCaller
  ReqTypes <- InitiatorTypes
  Air <- InitiatorAir
  TxCsduNum = 1
  MaxData = 0
  MaxTimeout = 0
  MaxFault = 1
SPECIFICATION Spec
INVARIANT AnsweredOnce
PROPERTY LinkRefined
CHECK_DEADLOCK FALSE
