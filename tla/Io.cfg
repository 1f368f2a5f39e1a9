SPECIFICATION FairSpec
CONSTANTS
  t1 = t1  t2 = t2  r1 = r1  r2 = r2  r3 = r3  b1 = b1  b2 = b2  none = none
  Threads <- TwoThreads
  Reqs <- ThreeReqs
  Bufs <- TwoBufs
  None = none
INVARIANTS NoUseOfFreedBox BuffersKept PollNotLost
CONSTRAINT NotMistaken
PROPERTY CompletionTaken
