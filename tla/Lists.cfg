SPECIFICATION SideBySide
CONSTANTS
  Server = {v1}
  Session = {s1, s2}
  Request = {r1, r2}
  NoServer = NoServer
  MaxChanges = 3
  Home = {s1, s2}
  Channel = {c1}
  Tab = {t1}
  NoChannel = NoChannel
  NoTab = NoTab
  MaxChannelChanges = 3
SYMMETRY Symmetry
CONSTRAINT OneTroubleBound
INVARIANTS
  ServersFollowed
  ChannelsFollowed
  ListsConverge
