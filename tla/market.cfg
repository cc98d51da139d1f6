CONSTANTS
  Assets = {a1}
  Callers = {t1}
  FlushLoop = FlushLoop
  Conns = {c1, c2}
  NoConn = NoConn
  MaxReports = 1
  CtxMayExpire = TRUE
SPECIFICATION FairSpec
INVARIANTS TypeOK IntentKept BelievedIsStreamed
PROPERTY QueueDrains
CHECK_DEADLOCK FALSE
