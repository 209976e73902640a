\* Concurrent requests of two consumers, one of them the public one, under
\* one payload id, two at a time,
\* with room for a single record that lives for one clock unit.
CONSTANTS
  alice = alice
  bob = bob
  r1 = r1
  r2 = r2
  r3 = r3
  id1 = id1
  email = email
  phone = phone
  v = v
  letter = letter
  reply = reply
  ka = ka
  kb = kb
  bad = bad
  NoKey = NoKey
  None = None
  MaxRestarts = 0
  Consumers = {alice, bob}
  Kinds = {email, phone}
  Registered <- MCRegistered
  PublicConsumer = {bob}
  Requests <- MCRequests3
  PayloadIDs = {id1}
  Values = {v}
  Skeletons = {letter, reply}
  Reply = reply
  Originals <- MCOneText
  HeaderSets <- MCPublicHeaders
  MaxInflight = 2
  SerialKeys = FALSE
  TTL = 0
  MaxEntries = 1
  MaxBytes = 0
  Horizon = 1
SPECIFICATION Spec
SYMMETRY Symmetry3
CHECK_DEADLOCK FALSE
INVARIANTS
  TypeOK
  SlotAccounting
  NobodyWaits
  ValuesStayWithOwner
  MaskHidesItems
  StoredMeansAnswered
  RestoredExactly
