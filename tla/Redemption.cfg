CONSTANTS
  Users = {u1, u2}
  Coupons = {c1}
  Cards = {g1}
  CouponLimit <- Twice
  CardLimit <- TwiceCard
  PerUser = 1
  Redeemable = {}
  Channels = {"save", "card", "web"}
  Procs = {p1, p2}
  MaxOrders = 2
  MaxFailures = 0
  Wallet = 1
  NoCoupon = NoCoupon
  Nobody = Nobody
SPECIFICATION Spec
INVARIANTS
  UsedPerUser
  WalletAccounted
  CardWithinLimit
SYMMETRY Interchangeable
CHECK_DEADLOCK FALSE
