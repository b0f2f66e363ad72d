SPECIFICATION FairSpec
CONSTANTS
  Request = {r1, r2}
  Nobody = Nobody
  MaxConns = 4
  MaxNested = 2
  MaxLeaked = 0
PROPERTIES EveryRequestEnds
CHECK_DEADLOCK FALSE
