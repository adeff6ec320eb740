SPECIFICATION SideBySide
CONSTANTS
  User = {u1, u2}
  Token = {t1, t2}
  Request = {r1, r2}
  NoUser = NoUser
  NoToken = NoToken
  Lifetime = 2
  Day = 1
  MaxTime = 3
  LimitedRequest = {q1, q2, q3}
  TTL = 2
  MaxTicks = 7
  Wide = {0, 1, 2}
SYMMETRY Symmetry
INVARIANTS
  AdmissionTypeOK
  DeletedUserRefused
  LogoutSurvivesRestart
  AdmittedAsOwner
  FormsChecked
PROPERTIES
  NoLateExtension
  RateLimited
