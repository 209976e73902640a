\* Something behind the first document that does not decode.
CONSTANTS
  q1 = q1
  q2 = q2
  Connections <- MCConnections
  Largest = 15
  Second = 3
  Megabyte = 4
  Default <- MCDefault
  Environments <- MCEnvironments
  one = one
  two = two
  bad = bad
  envA = envA
  envA2 = envA2
  envB = envB
  unset = unset
  ka = ka
  kb = kb
  email = email
  typo = typo
  NoKey = NoKey
  IDs = {one, two, bad}
  GoodIDs = {one, two}
  Envs = {envA, envA2, envB, unset}
  Environ <- MCEnviron
  TypeNames = {email, typo}
  KnownTypes = {email}
  Files <- MCFiles
SPECIFICATION MCSpec
CHECK_DEADLOCK FALSE
INVARIANTS
  OneDocument
