\* Three keys compete for two places and three bytes; entries outlive one
\* clock unit and the clock runs long enough for an entry to expire, be
\* overwritten and expire again. No symmetry: the run checks liveness.
CONSTANTS
  k1 = k1
  k2 = k2
  k3 = k3
  small = small
  large = large
  c1 = c1
  c2 = c2
  Keys <- MCKeys3
  Records <- MCRecords
  Size <- MCSize
  Closers = {c1, c2}
  TTL = 1
  MaxEntries = 2
  MaxBytes = 3
  Horizon = 3
SPECIFICATION FairSpec
INVARIANTS
  TypeOK
  ByteAccounting
  WithinLimits
  CloseJoins
PROPERTIES
  ImplementsTTLMap
  ExpiredReclaimed
  CloseReturns
