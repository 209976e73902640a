\* Three requests of one consumer under one payload id, none of which waits
\* for another; time for a record to expire, and a process that may die once:
\* nothing shows but RacyService.
CONSTANTS
  alice = alice
  bob = bob
  r1 = r1
  r2 = r2
  r3 = r3
  id1 = id1
  email = email
  phone = phone
  v = v
  letter = letter
  reply = reply
  ka = ka
  kb = kb
  bad = bad
  NoKey = NoKey
  None = None
  MaxRestarts = 1
  Consumers = {alice}
  Kinds = {email}
  Registered <- MCRegistered
  PublicConsumer = {}
  Requests <- MCRequests3
  PayloadIDs = {id1}
  Values = {v}
  Skeletons = {letter, reply}
  Reply = reply
  Originals <- MCOneText
  HeaderSets <- MCAliceHeaders
  MaxInflight = 3
  SerialKeys = FALSE
  TTL = 0
  MaxEntries = 0
  MaxBytes = 0
  Horizon = 1
SPECIFICATION Spec
SYMMETRY Symmetry3
CHECK_DEADLOCK FALSE
PROPERTIES
  ImplementsRacyService
