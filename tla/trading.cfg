CONSTANTS
  Streams <- StreamsMC
  Traffic <- StreamsMC
  Sources = {"hyperliquid", "rtds"}
  Workers <- WorkersMC
  Draining = {"hyperliquid"}
  QueueSize = 1
  DispatchSize = 1
  Async = TRUE
  MaxItems = 2
  MaxMessages = 2
  OrderNames = {o1, o2}
  BatchSize = 2
  MaxIDs = 3
  Scale = 64
  MakerTrunc = 16
  TakerTrunc = 4
  MaxInt = 8191
  Sizes <- SizesMC
  Prices <- PricesMC
  PositionIDs = {p1, p2}
  MaxPolls = 1
  Readers = {r1, r2}
  TTL = 1
  MaxTime = 3
  MaxVersion = 2
  MaxEvents = 4
  Offsets = {1}
  Limits = {0, 9}
  DefaultLimit = 3
  MaxLimit = 4
  PageSize = 2
SPECIFICATION TradingSpec
INVARIANTS
  TradingTypeOK
  SourceOrder
  GapMeansDrop
  NeverWorseThanLimit
  PlacementReported
  EveryCancelAnswered
  EventsTruthful
  CacheFresh
  PagesComplete
PROPERTIES
  QueuedIsDelivered
  CallsReported
\* Every part may stop, and nothing moves when it has.
CHECK_DEADLOCK FALSE
