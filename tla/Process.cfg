SPECIFICATION SideBySide
CONSTANTS
  Goroutine = {g1, g2, g3}
  Handler = {"session", "sessionEnds", "updateUserInfo", "getFriends", "getMembers",
             "getMembersFails", "updateServerInfo", "updateServerInfoFails",
             "deleteServer", "getChannels", "getMessages", "createMessage"}
  PoolSize = 2
  Request = {r1, r2}
INVARIANTS
  MutexHolderNeverWaits
  PoolRespected
  RunsWithDatabase
