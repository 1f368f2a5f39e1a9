CONSTANTS
  c1 = c1
  c2 = c2
  Callers <- OneCaller
  ReqTypes <- ResponderTypes
  Air <- ResponderAir
  TxCsduNum = 1
  MaxData = 0
  MaxTimeout = 0
  MaxFault = 0
SPECIFICATION Spec
INVARIANTS NoUseAfterReturn ViewMatchesLink ListensWhileWaiting
           TransitionIsAwaited ChipAwakeWhenUsed FilterOnlyInExchange
CHECK_DEADLOCK FALSE
