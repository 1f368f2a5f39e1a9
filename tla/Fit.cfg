SPECIFICATION Spec
CONSTANTS
  t1 = t1  t2 = t2  c1 = c1  c2 = c2  c3 = c3  fc = fc  fa = fa  fb = fb  none = none
  Threads <- TwoThreads
  CtrlFiles <- OneFile
  AdptFiles <- TwoFiles
  Conts <- ThreeConts
  MaxData = 3
  None = none
SYMMETRY Symmetry
INVARIANTS OneOwner PortInUse DisablingToldOnce
CONSTRAINT NotTwice
CHECK_DEADLOCK FALSE
