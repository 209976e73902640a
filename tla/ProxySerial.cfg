\* Clients that wait for each answer before they use a payload id again; room
\* for one record of the two consumers, and time for it to expire: nothing
\* shows but MaskService, and while nothing is forgotten, masks are kept.
CONSTANTS
  alice = alice
  bob = bob
  r1 = r1
  r2 = r2
  r3 = r3
  id1 = id1
  email = email
  phone = phone
  v = v
  letter = letter
  reply = reply
  ka = ka
  kb = kb
  bad = bad
  NoKey = NoKey
  None = None
  MaxRestarts = 0
  Consumers = {alice, bob}
  Kinds = {email, phone}
  Registered <- MCRegistered
  PublicConsumer = {}
  Requests <- MCRequests3
  PayloadIDs = {id1}
  Values = {v}
  Skeletons = {letter, reply}
  Reply = reply
  Originals <- MCTwoTexts
  HeaderSets <- MCHeaders
  MaxInflight = 2
  SerialKeys = TRUE
  TTL = 0
  MaxEntries = 1
  MaxBytes = 0
  Horizon = 1
SPECIFICATION Spec
SYMMETRY Symmetry3
CHECK_DEADLOCK FALSE
INVARIANTS
  RepeatedMaskIsSame
  AnsweredMaskIsKept
  RoundTrip
PROPERTIES
  ImplementsMaskService
