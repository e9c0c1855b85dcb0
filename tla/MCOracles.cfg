CONSTANTS
  a1 = a1
  a2 = a2
  inst = inst
  Accounts = {a1, a2}
  Limits <- MCLimits
  Prices = {1, 2}
  Levels = 2
  OrdersPerLevel = 2
  Reports = 2
  RiskOrders = 4
  Instrument = inst
  NewOrders <- MCNewOrders
  Cancels <- MCCancels
  Replaces <- MCReplaces
  KillSets = {{}}
  MaxId = 4
  MaxSeq = 5
  QueueCap = 2
SPECIFICATION OracleSpec
INVARIANTS ModelAgrees FeedTracksBook BatchesValidate
