SPECIFICATION SideBySide
CONSTANTS
  User = {u1, u2}
  Server = {v1}
  Channel = {c1, c2}
  Request = {r1, r2}
  NoUser = NoUser
  NoServer = NoServer
  NoChannel = NoChannel
  File = {f1, f2}
  Upload = {a1, a2, a3}
  MaxFiles = 2
SYMMETRY Symmetry
INVARIANTS
  AccessKept
  AttachmentsKept
PROPERTY
  ImplementsRegistry
