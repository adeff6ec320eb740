SPECIFICATION SideBySide
CONSTANTS
  Request = {r1, r2, r3}
  Field = {display_name, picture}
  NoField = NoField
  MaxUpdates = 3
  Listener = {l1, l2}
  Announcer = {r1, r2, r3}
  MaxChanges = 6
  Reporter = {p1, p2}
  MaxReports = 3
  NameSymbol = {"x", "nl", "data_field"}
  MaxName = 3
  Capacity = 2
  MaxEvents = 3
SYMMETRY Symmetry
CONSTRAINT UnheardBound
INVARIANTS
  ProfileFollowed
  PresenceFollowed
  TypingSettles
  StreamIntact
