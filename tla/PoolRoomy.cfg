SPECIFICATION FairSpec
CONSTANTS
  Request = {r1, r2}
  Nobody = Nobody
  MaxConns = 7
  MaxNested = 2
  MaxLeaked = 2
INVARIANTS TypeOK WaitersHaveLeader NeverStuck
PROPERTIES EveryRequestEnds
