CONSTANTS
  u1 = u1
  u2 = u2
  planA = planA
  planB = planB
  Users = {u1, u2}
  Buyers = {u1}
  Plans = {planA, planB}
  Requests = {r1}
  Workers = {w1}
  MaxOrders = 3
  MaxJobs = 1
  MaxFailures = 0
  Prices = {2}
  Catalog <- Shop
  Codes <- CodeForB
  Gifts = {"gift", "nogift"}
  Binds = {u2}
  InitTables <- Customers
  TrialPlan = planT
  RewardOn = TRUE
  Bonus = 1
  BonusFrom = 2
  NoPlan = NoPlan
  NoUser = NoUser
SPECIFICATION Spec
INVARIANTS
  RewardedOnce
  
  
PROPERTIES
  PromiseKept
