SPECIFICATION FeedSpec
CONSTANTS
  StaleAfter = 2
  KillAfter = 3
  BaseDelay = 1
  MaxDelay = 4
  MaxTime = 12
INVARIANTS FeedTypeOK DownFeedKills QuietConnectionEnds
CHECK_DEADLOCK FALSE
