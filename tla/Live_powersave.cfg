CONSTANTS
  c1 = c1
  c2 = c2
  Callers <- OneCaller
  ReqTypes <- PowersaveTypes
  Air <- WakingAir
  TxCsduNum = 1
  MaxData = 0
  MaxTimeout = 0
  MaxFault = 0
SPECIFICATION FairSpec
PROPERTIES CallersAnswered PowerSettles

