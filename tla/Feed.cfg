SPECIFICATION FairSpec
CONSTANTS
  Reader = {r1, r2}
  Editor = {e1}
  Nobody = Nobody
  L1TTL = 1
  L2TTL = 2
  MaxVersion = 1
  MaxPurges = 1
INVARIANTS TypeOK FeedAgeBounded HerdProtected
PROPERTIES EveryReaderServed StaleFeedsDie
