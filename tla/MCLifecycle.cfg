SPECIFICATION FairSpec
CONSTANTS
  Configs <- SomeConfigs
  Window = 5
  CommandsMayFail = TRUE
  MaxStarts = 3
CHECK_DEADLOCK FALSE
INVARIANTS TypeOK OwnPacketsPass NothingLeftBehind CapturesItsPorts
PROPERTIES SignalEnds
