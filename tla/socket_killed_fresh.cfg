CONSTANTS
  Conns = {c1, c2}
  NoConn = NoConn
  App = App
  Watchdog = Watchdog
  PingEnabled = TRUE
  WatchdogEnabled = TRUE
  HookWrites = TRUE
  AppDisconnects = FALSE
  MayClose = FALSE
  MayCancel = FALSE
  MayRefuse = FALSE
SPECIFICATION Spec
PROPERTY FreshSocketNotStale
CHECK_DEADLOCK FALSE
