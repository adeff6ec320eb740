SPECIFICATION Spec
CONSTANTS
  Goroutine = {g1, g2, g3}
  Handler = {"session", "getMembers", "getMembersFails", "updateServerInfo", "getMessages"}
  PoolSize = 1
PROPERTY
  RequestsFinish
