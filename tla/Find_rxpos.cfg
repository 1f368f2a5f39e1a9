SPECIFICATION Spec
CONSTANTS
  r1 = r1  d1 = d1  p0 = p0  p1 = p1
  Reqs <- OneReq
  Discards <- NoDiscards
  Profiles <- BothProfiles
  NoPid = NoPid
  CsduSize = 2
  RxCsduNum = 2
  Lengths <- OneLength
  QueueSize <- TwoEach
  Word = 64
  ReadsFail = FALSE
  MaxCsdus = 3
  MaxLinks = 2
CHECK_DEADLOCK FALSE
INVARIANT ReadyIsLeft
