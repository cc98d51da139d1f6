CONSTANTS
  Conns = {c1, c2}
  NoConn = NoConn
  App = App
  Watchdog = Watchdog
  PingEnabled = TRUE
  WatchdogEnabled = FALSE
  HookWrites = TRUE
  AppDisconnects = FALSE
  MayClose = TRUE
  MayCancel = TRUE
  MayRefuse = FALSE
SPECIFICATION FairSpec
PROPERTY CloseAlwaysReturns
CHECK_DEADLOCK FALSE
