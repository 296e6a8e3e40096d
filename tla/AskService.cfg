SPECIFICATION FairSpec
CONSTANTS
  r1 = r1  r2 = r2
  k1 = k1
  Requests <- MCRequests
  Keys <- MCKeys
  Wants <- MCWants
  Cap = 1
  MaxDay = 1
  MaxKept = 1
  MaxCalls = 2
  MaxBoots = 2
INVARIANTS TypeOK CapHolds RowTellsTheBill BillIsExact RunningIsKept
PROPERTIES EveryStreamEnds BudgetRefined
CHECK_DEADLOCK FALSE
