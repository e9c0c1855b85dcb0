CONSTANTS
  Accounts = {1, 2}
  Limits <- MCLimits
  Prices = {1, 2}
  Levels = 2
  OrdersPerLevel = 2
  Reports = 2
  RiskOrders = 3
  Instrument = 9
  NewOrders <- MCNewOrders
  Cancels <- MCCancels
  Replaces <- MCReplaces
  KillSets = {{}}
  MaxId = 3
  MaxSeq = 4
SPECIFICATION RecoverySpec
INVARIANTS RestoredIsHistory SoundArchiveRestores
CHECK_DEADLOCK FALSE
