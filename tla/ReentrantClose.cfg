\* An onEvent hook that calls close() when it hears of a close.
SPECIFICATION ReentrantSpec
CONSTANTS
  Calls = {c1}
  Closers = {k1, k2}
  NoCloser = NoCloser
  MaxStoreCalls = 1
INVARIANTS
  OneClose
