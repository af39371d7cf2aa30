\* Two refreshes at a time, an API client next to the loader, a table of one row.
SPECIFICATION FairSpec
CONSTANTS
  SocketThread = SocketThread
  ApiThread = ApiThread
  Free = Free
  Thread <- MCThread
  Refresh = {r1, r2}
  LIMIT = 1
  PageRows = 1
  MaxAlerts = 2
  MaxClears = 1
  MaxRaised = 1
  MaxClicks = 1
INVARIANTS PushedOnceStored StatsAddUp
PROPERTIES PageCatchesUp
