------------------------------ MODULE MCTrading ------------------------------
(***************************************************************************)
(* The event pipeline, the orders, the position calls and the discovery of *)
(* series, explored side by side: they share no state, so `part` says in   *)
(* each behaviour which of them moves.                                     *)
(***************************************************************************)
EXTENDS EventPipeline, Orders, PositionCalls, SeriesDiscovery

VARIABLE part

Stream(venue, kind, arg) == [venue |-> venue, kind |-> kind, sym |-> "btc", arg |-> arg]

\* One stream of a socket with one dispatcher, whose frames have up to MaxItems trades,
\* and one of a socket with two.
StreamsMC == {Stream("hyperliquid", "trades", NoParams), Stream("rtds", "crypto_prices", 0)}
WorkersMC == [s \in Sources |-> IF s = "rtds" THEN {"w2", "w3"} ELSE {"w1"}]

\* Sizes on both sides of the largest product, prices at both ends of the range.
SizesMC == 0 .. 20 \cup 120 .. 130
PricesMC == {0, 1, 2, 7, 31, 32, 33, 63, 64}

tradingVars == <<pipelineVars, orderVars, positionVars, cacheVars, pageVars>>

TradingInit ==
  /\ PipelineInit /\ OrdersInit /\ PositionsInit /\ CacheInit /\ PagesInit
  /\ part \in {"pipeline", "amounts", "orders", "positions", "cache", "pages"}
  \* What a part that rests begins with does not matter: one beginning of each is enough.
  /\ part # "orders" => trading = "live"
  /\ part # "positions" => path = "relayer"
  /\ part # "pages" => /\ listing = <<>> /\ closed = {} /\ ~query.openOnly
                       /\ query.offset \in Offsets /\ query.limit = MaxLimit

TradingNext ==
  /\ UNCHANGED part
  /\ \/ /\ part = "pipeline" /\ PipelineNext
        /\ UNCHANGED <<orderVars, positionVars, cacheVars, pageVars>>
     \/ /\ \/ part = "amounts" /\ BuildNext
           \/ part = "orders" /\ ExecNext
        /\ UNCHANGED <<pipelineVars, positionVars, cacheVars, pageVars>>
     \/ /\ part = "positions" /\ PositionsNext
        /\ UNCHANGED <<pipelineVars, orderVars, cacheVars, pageVars>>
     \/ /\ part = "cache" /\ CacheNext
        /\ UNCHANGED <<pipelineVars, orderVars, positionVars, pageVars>>
     \/ /\ part = "pages" /\ PagesNext
        /\ UNCHANGED <<pipelineVars, orderVars, positionVars, cacheVars>>

TradingSpec ==
  TradingInit /\ [][TradingNext]_<<tradingVars, part>> /\ PipelineFairness /\ PositionsFairness

\* Every variable has its type, in all parts.
TradingTypeOK == PipelineTypeOK /\ OrdersTypeOK /\ PositionsTypeOK /\ SeriesTypeOK
=============================================================================
