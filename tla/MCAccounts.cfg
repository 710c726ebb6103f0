SPECIFICATION Spec
CONSTANTS
  n1 = n1
  l1 = l1
  u1 = u1
  u2 = u2
  p1 = p1
  p2 = p2
  c1 = c1
  c2 = c2
  a1 = a1
  a2 = a2
  NoPhone = NoPhone
  NoUser = NoUser
  NoCode = NoCode
  Numbers <- MCNumbers
  LegacyForms <- MCLegacyForms
  Legacy <- MCLegacy
  OldAccount <- MCOldAccount
  Users <- MCUsers
  Codes <- MCCodes
  Addresses <- MCAddresses
  Works <- MCWorks
  Calls <- MCCalls
  CodeTTL = 2
  MaxAttempts = 1
  ResendInterval = 1
  RateWindow = 2
  MaxRequestsPerWindow = 2
  MaxNow = 2
SYMMETRY Symmetry
INVARIANTS
  NumberKeepsItsAccount
  CodesAreGuarded
  OneDefaultAddress
