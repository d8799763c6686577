CONSTANTS
  u1 = u1
  u2 = u2
  planA = planA
  planB = planB
  Users = {u1}
  Buyers = {u1}
  Plans = {planA}
  Requests = {r1, r2}
  Workers = {}
  MaxOrders = 3
  MaxJobs = 1
  MaxFailures = 0
  Prices = {2}
  Catalog <- MonthOnly
  Codes = {}
  Gifts = {}
  Binds = {NoUser}
  InitTables <- OneSaver
  TrialPlan = planT
  RewardOn = FALSE
  Bonus = 1
  BonusFrom = 2
  NoPlan = NoPlan
  NoUser = NoUser
  Month = 3
  ShortPeriod = 3
  Length <- Lengths
  Price <- PriceList
  Months <- LengthInMonths
  Horizon = 13
  MaxQuota = 2
SPECIFICATION Spec
INVARIANTS
  BalanceAccounted
  PeriodFair
  OneTimeExact
SYMMETRY Interchangeable
