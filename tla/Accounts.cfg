CONSTANTS
  u1 = u1
  u2 = u2
  Users = {u1, u2}
  Inviter <- Invited
  Procs = {p1, p2}
  MaxOrders = 2
  Shares <- Halves
  Transfers <- Ones
  CommissionOf <- Double
  Price = 1
  Period = 3
  Due = 1
  ResetPeriod = 1
  WithdrawClosed = FALSE
  MaxOthers = 1
  MaxFailures = 1
  FirstRow <- Rows
  FirstOrders <- OneOrder
  Nobody = Nobody
SPECIFICATION FairSpec
INVARIANTS
  WithinCredits
  Accounted
  PaidOnce
PROPERTIES
  ConfirmedIsPaid
