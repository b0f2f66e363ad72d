SPECIFICATION SiteSpec
CONSTANTS
  Scopes = {"all", "own"}
  MaxPermWrites = 2
  MaxCodes = 1
  MaxSignIns = 2
  Decider = {d1, d2}
  Category = {c1, c2}
  Nobody = Nobody
  Story = {1, 2}
  t1 = t1
  t2 = t2
  t3 = t3
  Title = {t1, t2, t3}
  TitleLength <- MCTitleLength
  StoryRow <- MCStoryRow
  ColumnSettings <- MCColumnSettings
  SectionRoom = 2
  MaxTroubles = 1
  Entry = {n1, n2}
  Client = {r1}
  Free = Free
  MaxStreams = 2
  MaxBuffer = 1
  Media = {m1, m2}
  Remover = {x1, x2}
  NoMedia = NoMedia
  MaxCrashes = 1
  k1 = k1
  k2 = k2
  DefaultKeys <- MCDefaultKeys
  OtherKeys = {k3}
  Editor = {e1, e2}
  Server = {s1}
  NoEditor = NoEditor
  NoKey = NoKey
  MaxOrder = 4
  MaxEdits = 3
  Person = {p1, p2}
  Clerk = {w1, w2}
  MaxID = 4
  MaxEvents = 2
  Asker = {a1, a2}
  NoAsker = NoAsker
  Article = {g1, g2}
  NoArticle = NoArticle
  Caster = {b1, b2, b3}
  HistoryMax = 2
  MaxAsks = 3
  Piece = {q1}
  Seeker = {z1, z2}
  SearchTTL = 2
  EdgeAge = 1
  MaxSearchTime = 1
  MaxSearchClock = 6
  MaxRequests = 2
  Window = 2
  MaxTicks = 7
  Runner = {h1, h2}
  LastFile = 5
  MaxRuns = 2
INVARIANT AllowedOnStandingGround
INVARIANT ShownIsWhatRowsGive
INVARIANT PassedOnlyAsSuperAdmin
INVARIANT GovernanceSound
INVARIANT FeedWhole
INVARIANT ListedHasFile
INVARIANT LayoutAsAsked
INVARIANT OnboardedStay
INVARIANT DeskSound
INVARIANT SearchKeepsUp
INVARIANT RateBounded
INVARIANT MigrationsKeep
PROPERTY NothingMissed
CHECK_DEADLOCK FALSE
