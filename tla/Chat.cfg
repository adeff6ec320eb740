SPECIFICATION SideBySide
CONSTANTS
  MessageId = {m1, m2}
  Text = {x, y}
  Session = {s1}
  Request = {r1, r2}
  NoMessage = NoMessage
  NoText = NoText
  NoSession = NoSession
  MaxChanges = 3
  Limit = 2
  MaxMessages = 5
SYMMETRY Symmetry
INVARIANTS
  ChatTypeOK
  OnlyTheGapIsMissed
  ViewConverges
  PagesComplete
