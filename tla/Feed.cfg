SPECIFICATION FairSpec
CONSTANTS
  Stale = 2
  ConnectTime = 1
  LimitTime = 3
  CloseTime = 1
  MaxWait = 3
  QueueMax = 2
  MaxTicks = 4
  MaxFaults = 3
INVARIANTS TypeOK QueueIsLatest SilenceIsBounded
PROPERTIES FeedRecovers QuitEnds
