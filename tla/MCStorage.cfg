CONSTANTS
  anyone = anyone
  inst = inst
  Owner = anyone
  Instrument = inst
  Prices = {1, 2}
  Levels = 2
  OrdersPerLevel = 3
  Reports = 4
  Ids = {1, 2, 3}
  Offers <- MCOffers
  Homes <- MCHomes
  Accounts = {1, 2}
  Limits <- MCLimits
  RiskOrders = 3
  OrderIds = {1, 2, 3, 4, 5}
  Asked <- MCAsked
  AskedFills = {1, 2}
  RiskHomes <- MCRiskHomes
SPECIFICATION StorageSpec
INVARIANTS StoreIsBook HandlesAgree ReservationsFound
