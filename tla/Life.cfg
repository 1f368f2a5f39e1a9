SPECIFICATION FairSpec
CONSTANTS
  t1 = t1  t2 = t2  t3 = t3
  Threads <- ThreeThreads
  Bus = bus
  Irq = irq
  MaxWake = 3
  None = none
INVARIANTS DeviceOutlivesFile UnregisteredUnused NoLostSignal
PROPERTY SignalHandled
