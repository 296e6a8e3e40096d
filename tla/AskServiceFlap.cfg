SPECIFICATION Spec
CONSTANTS
  r1 = r1  r2 = r2
  k1 = k1
  Requests <- MCRequests
  Keys <- MCKeys
  Wants <- DirectOnly
  Cap = 1
  MaxDay = 0
  MaxKept = 1
  MaxCalls = 2
  MaxBoots = 1
PROPERTIES FlapStaysPaid
CHECK_DEADLOCK FALSE
