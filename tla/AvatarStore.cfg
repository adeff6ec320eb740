SPECIFICATION FairSpec
CONSTANTS
  User = {u1, u2}
  Avatar = {a1}
  Request = {r1, r2, r3}
  Size = {s80, s96}
  Original = Original
  NoUser = NoUser
  NoAvatar = NoAvatar
INVARIANT AvatarsWhole
PROPERTIES
  ImplementsContentStore
  RequestsFinish
