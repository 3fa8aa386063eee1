SPECIFICATION DSpec
CONSTANTS
  t1 = t1
  t2 = t2
  salon = salon
  Null = Null
  Tabs <- MCTabs
  CallerOf <- MCCallerOf
  Industries = {salon}
  Lengths <- MCLengths
  DailyCap = 2
  CallerCap = 1
  MaxLoads = 1
  MaxClicks = 3
  VisitBounds <- MCVisitBounds
INVARIANTS CallsAreClosed LinksAreLimited
PROPERTIES PanelsMoveOn
CHECK_DEADLOCK FALSE
