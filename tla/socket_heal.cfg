CONSTANTS
  Conns = {c1, c2}
  NoConn = NoConn
  App = App
  Watchdog = Watchdog
  PingEnabled = FALSE
  WatchdogEnabled = TRUE
  HookWrites = TRUE
  AppDisconnects = TRUE
  MayClose = FALSE
  MayCancel = TRUE
  MayRefuse = TRUE
SPECIFICATION FairSpec
PROPERTIES DropReported Reconnects
CHECK_DEADLOCK FALSE
