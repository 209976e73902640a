\* Two requests under one payload id, nothing expires, nothing is refused.
CONSTANTS
  alice = alice
  bob = bob
  r1 = r1
  r2 = r2
  r3 = r3
  id1 = id1
  email = email
  phone = phone
  v = v
  letter = letter
  reply = reply
  ka = ka
  kb = kb
  bad = bad
  NoKey = NoKey
  None = None
  MaxRestarts = 0
  Consumers = {alice, bob}
  Kinds = {email, phone}
  Registered <- MCRegistered
  PublicConsumer = {}
  Requests = {r1, r2}
  PayloadIDs = {id1}
  Values = {v}
  Skeletons = {letter, reply}
  Reply = reply
  Originals <- MCOneText
  HeaderSets <- MCHeaders
  MaxInflight = 2
  SerialKeys = FALSE
  TTL = 1
  MaxEntries = 0
  MaxBytes = 0
  Horizon = 1
SPECIFICATION Spec
CHECK_DEADLOCK FALSE
INVARIANTS
  RepeatedMaskIsSame
