SPECIFICATION Spec
CONSTANTS
  User = {u1}
  Token = {t1}
  Request = {r1}
  NoUser = NoUser
  NoToken = NoToken
  Lifetime = 2
  Day = 1
  MaxTime = 1
INVARIANT
  LoggedOutRefused
