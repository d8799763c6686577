CONSTANTS
  Users = {u1, u2}
  Coupons = {c1}
  Cards = {}
  CouponLimit <- Twice
  CardLimit <- OnceCard
  PerUser = 1
  Redeemable = {c1}
  Channels = {"save", "legacy"}
  Procs = {p1, p2}
  MaxOrders = 2
  MaxFailures = 0
  Wallet = 1
  NoCoupon = NoCoupon
  Nobody = Nobody
SPECIFICATION Spec
INVARIANTS
  PerPerson
SYMMETRY Interchangeable
CHECK_DEADLOCK FALSE
