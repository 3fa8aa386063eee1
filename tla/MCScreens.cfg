SPECIFICATION Spec
CONSTANTS
  Parts = {"way in", "console", "activity", "history"}
  MAX_FAILURES = 2
  Disturbances = 3
  Moves = 4
  ACTIVITY_PAGE = 2
  OldEntries = 4
  Events = 3
  Filters = {"all", "booked"}
  PAGE_SIZE = 1
  MaxCalls = 4
  MaxLoads = 2
  Clicks = 1
INVARIANTS NothingOfferedIsRefused ActivityIsWhole HistoryIsWhole
PROPERTIES EveryoneGetsIn ListOnlyGetsNewer ConfirmedIsSettled
CHECK_DEADLOCK FALSE
