\* A time to live of zero: an entry put at one instant is gone at the next.
CONSTANTS
  k1 = k1
  k2 = k2
  k3 = k3
  small = small
  large = large
  c1 = c1
  c2 = c2
  Keys <- MCKeys3
  Records <- MCRecords
  Size <- MCSize
  Closers = {c1, c2}
  TTL = 0
  MaxEntries = 2
  MaxBytes = 3
  Horizon = 4
SPECIFICATION Spec
INVARIANTS
  NonPositiveTTLIsUnlimited
