SPECIFICATION FairSpec
CONSTANTS
  c1 = c1
  c2 = c2
  c3 = c3
  c4 = c4
  c5 = c5
  news = news
  None = None
  Commands <- Five
  Kind <- FiveKinds
  Names <- FiveNames
  Topics <- News
  NullFn = {}
  Adapters <- SomeAdapters
  MaxIssued = 3
  MaxWaiting = 1
  MaxSpontaneous = 1
  EarlyEvents = TRUE
INVARIANTS OwnReply OncePerCommand
PROPERTIES EveryCommandAnswered
CHECK_DEADLOCK FALSE
