CONSTANTS
  Conns = {c1, c2}
  NoConn = NoConn
  App = App
  Watchdog = Watchdog
  PingEnabled = TRUE
  WatchdogEnabled = FALSE
  HookWrites = FALSE
  AppDisconnects = FALSE
  MayClose = TRUE
  MayCancel = TRUE
  MayRefuse = FALSE
SPECIFICATION FairSpec
INVARIANTS TypeOK NoLeakedSocket ConnImpliesConnected
PROPERTIES CloseIsFinal CloseReturns ShutdownReleasesSockets HalfOpenCaught
CHECK_DEADLOCK FALSE
