\* Two calls and two closes, of which the store may fail some; fairness of
\* the event loop.
SPECIFICATION FairSpec
CONSTANTS
  Calls = {c1, c2}
  Closers = {k1, k2}
  NoCloser = NoCloser
  MaxStoreCalls = 2
INVARIANTS
  LifecycleInv
  StoreClosesAlone
PROPERTIES
  EverythingSettles
