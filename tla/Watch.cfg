\* Two watches on a lane through commits, resnapshots and the close.
SPECIFICATION FairSpec
CONSTANTS
  w1 = w1
  w2 = w2
  Watchers <- TwoWatchers
  MaxEvents = 2
  MaxResnapshots = 1
CHECK_DEADLOCK FALSE
INVARIANTS
  TypeOK
  NothingFallsBetween
PROPERTIES
  FollowsHistory
  WatchersCatchUp
