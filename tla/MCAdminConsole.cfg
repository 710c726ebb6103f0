SPECIFICATION Spec
CONSTANTS
  op1 = op1
  op2 = op2
  o1 = o1
  o2 = o2
  o3 = o3
  o4 = o4
  x1 = x1
  x2 = x2
  i1 = i1
  i2 = i2
  i3 = i3
  None = None
  OrderIds = {o1, o2, o3, o4}
  ProductIds = {x1, x2}
  Images = {i1, i2, i3}
  MaxImages = 2
  MaxStock = 2
  MaxTime = 4
  PageSize = 2
  Operators = {op1, op2}
  MaxCalls = 3
  Filters <- MCFilters
  Desks <- MCDesks
INVARIANTS
  EachStepOnce
  WalkMissesNothing
  DraftKeepsEdits
PROPERTIES
  BadgeNeverGoesBack
  UntouchedStockIsKept
CHECK_DEADLOCK FALSE
