SPECIFICATION Spec
CONSTANTS
  UserId = {u1}
  ServerId = {v1}
  ChannelId = {c1}
  SessionId = {s1}
  Request = {r1}
  Payload = {e1}
  NoId = NoId
  EventBusCap = 1
CONSTRAINT GeneratedIdBound
INVARIANT EverySessionHasUser
