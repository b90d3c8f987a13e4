SPECIFICATION FlowSpec
CONSTANTS
  Item = {i1}
  Writer = {c1, c2}
  Status = {open, closed}
  Closed = closed
  None = None
  TicksPerDay = 2
  Horizon = 1
  LogStart = 3
  DurableAfter = 1
  Windows = {1, 2, 3}
  LastDay = 3
  MaxLog = 3
INVARIANT BacklogIsHistory
INVARIANT BalancesOnceClosed
INVARIANT DurableSplitAgrees
PROPERTY PastDaysStand
CHECK_DEADLOCK FALSE
SYMMETRY FlowSymmetry
