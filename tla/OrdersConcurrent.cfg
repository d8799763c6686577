CONSTANTS
  u1 = u1
  u2 = u2
  planA = planA
  planB = planB
  Users = {u1}
  Buyers = {u1}
  Plans = {planA}
  Requests = {r1, r2}
  Workers = {w1, w2}
  MaxOrders = 1
  MaxJobs = 1
  MaxFailures = 1
  Prices = {0, 2}
  Catalog <- MonthOnly
  Codes = {}
  Gifts = {}
  Binds = {NoUser}
  InitTables <- OneNewcomer
  TrialPlan = planT
  RewardOn = FALSE
  Bonus = 1
  BonusFrom = 2
  NoPlan = NoPlan
  NoUser = NoUser
SPECIFICATION FairSpec
INVARIANTS
  RefundedOnce
  FulfilledIsPaid
  OpenedOnce
PROPERTIES
  PaidIsOpened
  PendingIsLeft
