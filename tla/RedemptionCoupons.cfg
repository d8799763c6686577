CONSTANTS
  Users = {u1, u2}
  Coupons = {c1}
  Cards = {}
  CouponLimit <- Once
  CardLimit <- OnceCard
  PerUser = 1
  Redeemable = {c1}
  Channels = {"save", "legacy", "app"}
  Procs = {p1, p2}
  MaxOrders = 2
  MaxFailures = 1
  Wallet = 1
  NoCoupon = NoCoupon
  Nobody = Nobody
SPECIFICATION FairSpec
INVARIANTS
  CouponAccounted
PROPERTIES
  TransactionsEnd
CHECK_DEADLOCK FALSE
