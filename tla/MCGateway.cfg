CONSTANTS
  a1 = a1
  a2 = a2
  a3 = a3
  inst = inst
  other = other
  Accounts = {a1, a2}
  Limits <- MCLimits
  Prices = {1, 2, 3, 4}
  Levels = 2
  OrdersPerLevel = 2
  Reports = 2
  RiskOrders = 4
  Instrument = inst
  NewOrders <- MCNewOrders
  Cancels <- MCCancels
  Replaces <- MCReplaces
  KillSets = {{}, {a1, a2}}
  MaxId = 4
  MaxSeq = 5
SYMMETRY AccountSymmetry
SPECIFICATION GatewaySpec
INVARIANTS StateValidates NoStateError
PROPERTIES RefusalLeavesNoTrace PriceTimePriority PriorityIsEarned
