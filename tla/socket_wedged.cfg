CONSTANTS
  Conns = {c1, c2}
  NoConn = NoConn
  App = App
  Watchdog = Watchdog
  PingEnabled = TRUE
  WatchdogEnabled = FALSE
  HookWrites = TRUE
  AppDisconnects = FALSE
  MayClose = FALSE
  MayCancel = FALSE
  MayRefuse = FALSE
SPECIFICATION FairSpec
PROPERTY Reconnects
CHECK_DEADLOCK FALSE
