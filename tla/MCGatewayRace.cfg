SPECIFICATION Spec
CONSTANTS
  u1 = u1
  u2 = u2
  p1 = p1
  p2 = p2
  o1 = o1
  o2 = o2
  o3 = o3
  NoOrder = NoOrder
  NoUser = NoUser
  NoEvent = NoEvent
  Users = {u1}
  Products <- OneProduct
  OrderIds = {o1, o2}
  InitialStock <- TwoUnits
  Baskets <- BuyTwo
  FaultKinds = {"gateway"}
  MaxFaults = 1
  Requests = {r1, r2}
  MaxIDRetries = 1
  Payable = {}
  Mispriced <- NoMispricing
  Callbacks = {}
  Deliveries = {}
  Sweepers = {}
  SweepBatch = 1
INVARIANT NeverOversold
SYMMETRY Symmetry
CHECK_DEADLOCK FALSE
