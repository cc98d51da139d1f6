CONSTANTS
  Base = 1
  MaxDelay = 60
  MinStable = 10
  MaxStreak = 6
  Symbols <- SymbolsMC
  Topics <- TopicsMC
  Topic <- TopicMC
  FrameEach = TRUE
  AppPing = TRUE
  Callers = {t1, t2}
  Conns = {c1, c2}
  NoConn = NoConn
  Markets = {m1}
  UserCallers = {u1, u2}
  UserConns = {d1, d2}
  Nil = Nil
  Streams <- StreamsMC
SPECIFICATION ChannelsSpec
SYMMETRY Symmetry
INVARIANTS
  BackoffTypeOK
  LossNoticedWithinBase
  ChannelsTypeOK
  StreamsMatch
  PingGuards
  UserWishKept
  UserFilterIsRecorded
  RoutedAsAsked
PROPERTIES
  DialsSpaced
  ResetOnlyAfterStable
  StableNeverPunished
\* Every channel may stop, and nothing moves when it has.
CHECK_DEADLOCK FALSE
