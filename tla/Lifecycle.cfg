SPECIFICATION FairSpec
CONSTANTS
  Request = {r1, r2}
PROPERTIES
  ProcessEnds
  ExpiredAreCleaned
CHECK_DEADLOCK FALSE
