SPECIFICATION Spec
CONSTANTS
  u1 = u1
  u2 = u2
  p1 = p1
  p2 = p2
  o1 = o1
  o2 = o2
  o3 = o3
  NoOrder = NoOrder
  NoUser = NoUser
  NoEvent = NoEvent
  Users = {u1}
  Products <- OneProduct
  OrderIds = {o1}
  InitialStock <- TwoUnits
  Baskets <- BuyTwo
  FaultKinds = {}
  MaxFaults = 0
  Requests = {r1}
  MaxIDRetries = 1
  Payable = {o1}
  Mispriced <- NoMispricing
  Callbacks = {c1}
  Deliveries = {d1}
  Sweepers = {s1}
  SweepBatch = 1
INVARIANT PlacedHasMethod
CHECK_DEADLOCK FALSE
