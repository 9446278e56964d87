SPECIFICATION PickerSpec
CONSTANTS
  Null = Null
  b1 = b1  b2 = b2  v1 = v1  v2 = v2
  Brokers <- TwoBrokers
  Vpns <- TwoVpns
  Contexts <- TwoContexts
  VpnPages <- PagesOfVpns
  QueuePages <- PagesOfQueues
  MaxFetches = 2
  MaxGen = 2
INVARIANTS PickIsListed CacheIsWhole
PROPERTY ListsOnlyGrow
CHECK_DEADLOCK FALSE
