CONSTANTS
  Tags <- MCTags
  MaxTags = 1
  Wrap = 8
  RegistryRefresh = 3
  RegistryRetry = 2
  Heartbeat = 2
  IdleCheckin = 1
  Unauthorized = 3
  RateLimited = 2
  WifiTimeout = 1
  HttpTimeout = 1
  MaxChanges = 2
SPECIFICATION Spec
INVARIANTS
  TypeOK
PROPERTIES
  SilentAsTold
  FollowsTheSession
