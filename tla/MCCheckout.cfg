SPECIFICATION Spec
CONSTANTS
  u1 = u1
  u2 = u2
  p1 = p1
  p2 = p2
  o1 = o1
  o2 = o2
  o3 = o3
  NoOrder = NoOrder
  NoUser = NoUser
  NoEvent = NoEvent
  Users = {u1, u2}
  Products <- TwoProducts
  OrderIds = {o1, o2}
  InitialStock <- ScarceStock
  Baskets <- MixedBaskets
  FaultKinds = {}
  MaxFaults = 0
  Requests = {r1, r2, r3}
  MaxIDRetries = 2
  Payable = {}
  Mispriced <- NoMispricing
  Callbacks = {}
  Deliveries = {}
  Sweepers = {s1}
  SweepBatch = 1
INVARIANTS StockIsConserved OnePendingPerUser
SYMMETRY Symmetry
CHECK_DEADLOCK FALSE
