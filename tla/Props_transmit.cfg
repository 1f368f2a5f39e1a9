CONSTANTS
  c1 = c1
  c2 = c2
  Callers <- OneCaller
  ReqTypes <- TransmitTypes
  Air <- TransmitAir
  TxCsduNum = 2
  MaxData = 2
  MaxTimeout = 0
  MaxFault = 0
SPECIFICATION Spec
INVARIANTS TxReadyNotLost SendsOnlyWhenConnected BanksAccounted NothingLeftInBanks
CHECK_DEADLOCK FALSE
