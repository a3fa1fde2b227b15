SPECIFICATION FeedSpec
CONSTANTS
  StaleAfter = 2
  KillAfter = 3
  BaseDelay = 1
  MaxDelay = 4
  MaxTime = 8
PROPERTIES OnlyDownFeedKills
CHECK_DEADLOCK FALSE
