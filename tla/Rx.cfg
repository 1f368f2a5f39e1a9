SPECIFICATION FairSpec
CONSTANTS
  r1 = r1  d1 = d1  p0 = p0  p1 = p1
  Reqs <- OneReq
  Discards <- OneDiscard
  Profiles <- BothProfiles
  NoPid = NoPid
  CsduSize = 2
  RxCsduNum = 2
  Lengths <- OneLength
  QueueSize <- TwoEach
  Word = 64
  ReadsFail = FALSE
  MaxCsdus = 3
  MaxLinks = 1
CHECK_DEADLOCK FALSE
INVARIANTS ReadyIsLeft FifoAtRest Reported OneMessage RequestsSound
PROPERTY DataTaken
