\* One phone, two ticket providers, an administrator, two requests at a time, two codes and two tokens.
CONSTANTS
  Phones = {p1}
  Providers = {a1, a2}
  Admins = {m1}
  Devices = {d1, d2}
  Requests = {w1, w2}
  MaxUsers = 2
  MaxCodes = 2
  MaxTokens = 2
  MaxDisturbances = 1
  None = None
SPECIFICATION Spec
SYMMETRY Symmetry
INVARIANTS TypeOK SignInsBoundedByConcurrency OneTokenPerSession SessionKeepsItsOwner UsersOfPhoneBounded
CHECK_DEADLOCK FALSE
