SPECIFICATION Spec
CONSTANTS
  UserId = {u1, u2}
  ServerId = {v1, v2}
  ChannelId = {c1}
  SessionId = {s1, s2}
  Request = {r1}
  Payload = {e1}
  NoId = NoId
  EventBusCap = 1
CONSTRAINT EarlyIdBound
SYMMETRY Symmetry
INVARIANTS
  TypeOK
  RoomsMatchSessions
  SubscribersMoveOwnSession
  EmissionTargetsSubscribers
  NoSendOnClosedBus
  OneCopyPerSession
  OnlineMatchesSessions
  StreamingSessionRegistered
PROPERTIES
  ImplementsSubscriptions
  PresenceChangeAnnounced
