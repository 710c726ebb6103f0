SPECIFICATION Spec
CONSTANTS
  p1 = p1
  p2 = p2
  a1 = a1
  a2 = a2
  u1 = u1
  o1 = o1
  o2 = o2
  None = None
  Products = {p1, p2}
  Shoppers = {u1}
  AddressIds = {a1, a2}
  OrderIds = {o1, o2}
  MaxQty = 2
  MaxSessions = 2
  MaxFlows = 6
  Habits <- Returning
INVARIANTS
  SigningInIsInFlight
CHECK_DEADLOCK FALSE
