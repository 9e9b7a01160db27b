SPECIFICATION Spec
CONSTANTS
  Ids = {alice, bob, stranger}
  Candidates = {alice, bob}
  Passwords = {p, q}
  Calls = {c1, c2, c3, c4}
  NoUser = NoUser
  NoId = NoId
SYMMETRY MCSymmetry
CHECK_DEADLOCK FALSE
INVARIANTS
  TypeOK
  OneWelcome
  RegisteredHasUser
  TokenIsEarned
PROPERTIES
  PasswordStays
