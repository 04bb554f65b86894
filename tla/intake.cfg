SPECIFICATION IntakeSpec
CONSTANTS
  Parts = {"signals", "calls", "run"}
  Backends = {"dynamodb", "postgres"}
  Workers = {w1, w2}
  Reviewers = {v1, v2}
  MaxSignals = 2
  MaxMentions <- MCMentions
  MaxReviews = 2
  Calls <- MCCalls
  Roles = {r1, r2}
  MaxAttempts = 3
  Root = root
  FeedPage = feed
  MapPage = map
  Articles = {a1, a2}
  Allowed = {root, feed, a1, a2}
  Barred = {feed}
  MaxPages = 4
  MaxDepth = 2
INVARIANT IntakeTypeOK
INVARIANT AttemptHistory
INVARIANT AcceptedIsComplete
INVARIANT AcceptedReachesPlanning
INVARIANT AnswerIsWhole
INVARIANT EachUrlOnce
INVARIANT RunAccounted
PROPERTY FinishedVersionFrozen
PROPERTY MappingEnds
PROPERTY RemoteWorkEnds
CHECK_DEADLOCK FALSE
