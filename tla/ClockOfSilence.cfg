CONSTANTS
  Tags <- MCTags
  MaxTags = 50
  Wrap = 1000
  RegistryRefresh = 150
  RegistryRetry = 15
  Heartbeat = 5
  IdleCheckin = 3
  Unauthorized = 30
  RateLimited = 8
  WifiTimeout = 10
  HttpTimeout = 1
  MaxChanges = 0
  Touch = 15
  Online = 15
  RunEvery = 5
  Absent = 60
SPECIFICATION ClockSpec
INVARIANTS
  OnlyOutagesRestartTheClock
