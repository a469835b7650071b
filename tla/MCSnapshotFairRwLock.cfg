SPECIFICATION FairSpec
CONSTANTS
  t1 = t1
  t2 = t2
  t3 = t3
  Thread <- MCThread
  MaxPins = 1
INVARIANT TypeOK
INVARIANT StructuralExclusive
INVARIANT NoLostWakeup
PROPERTY BackgroundYields
PROPERTY LastWaiterServed
