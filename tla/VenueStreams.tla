---------------------------- MODULE VenueStreams ----------------------------
(***************************************************************************)
(* The streams of the four channels: the key under which a subscription is *)
(* registered, the frames the venue sends for it, and what the dispatcher  *)
(* of each channel makes of a frame while some keys are registered.  A     *)
(* stream or a frame is a record [venue, kind, sym, arg]; a key is a tuple *)
(* of the parts its string is built from.  Symbols stand for their         *)
(* normalized form, which both sides of every comparison use.              *)
(***************************************************************************)
EXTENDS Naturals, Sequences

-----------------------------------------------------------------------------
(* Binance: arg is <<market, interval>> for klines and <<market>> for the rest *)

\* The stream names: streamFor, klineStream, partialDepthStream.
BinanceKey(st) == <<st.arg[1], st.sym, st.kind>> \o Tail(st.arg)

\* Which connection carries a stream: spot has one, perp splits its streams.
streamClassOf(st) ==
  IF st.arg[1] = "spot" THEN "spot"
  ELSE IF st.kind \in {"bookTicker", "depth", "partialDepth"} THEN "public" ELSE "market"

\* A frame's stream is matched by its whole name, a partial depth by the symbol alone,
\* whatever its levels and speed.
isSubscribed(f, keys) == BinanceKey(f) \in keys
subscribedPartialDepth(f, keys) == <<f.arg[1], f.sym, "partialDepth">> \in keys

klineIntervals == {"1m", "5m", "15m", "1h", "4h", "1d"}

\* SubscribeKlines and UnsubscribeKlines refuse any other interval.
KlineAccepted(st) == st.kind = "kline" => st.arg[2] \in klineIntervals

\* handleDepth: diffs and partial depth have the same frame; a partial subscription
\* of the symbol makes every one of them a snapshot.  The diff's own path, the local
\* book, is the subject of DepthBook.
DepthEvent(f, keys) ==
  IF subscribedPartialDepth(f, keys) THEN {"partialDepth"}
  ELSE IF isSubscribed([f EXCEPT !.kind = "depth"], keys) THEN {"depth"} ELSE {}

\* handleKline: the interval of the frame is part of the stream's name.
KlineEvent(f, keys) == IF isSubscribed(f, keys) THEN {"kline"} ELSE {}

\* processMessage: a spot partial-depth frame has neither "e" nor "u" and is ignored.
BinanceEvents(f, keys) ==
  IF f.kind = "partialDepth" /\ f.arg[1] = "spot" THEN {}
  ELSE IF f.kind \in {"depth", "partialDepth"} THEN DepthEvent(f, keys)
  ELSE IF f.kind = "kline" THEN KlineEvent(f, keys)
  ELSE IF isSubscribed(f, keys) THEN {f.kind} ELSE {}

-----------------------------------------------------------------------------
(* Hyperliquid: arg is [interval, nSigFigs, mantissa, fast]                *)

HyperliquidChannels == {"l2Book", "trades", "bbo", "activeAssetCtx", "allMids", "candle"}
CandleIntervals == {"1m", "1h"}
NoParams == [interval |-> "", nSigFigs |-> 0, mantissa |-> 0, fast |-> FALSE]

\* SubParams.validate: which parameters a channel takes.
validate(p, ch) ==
  CASE ch = "candle" -> p = [NoParams EXCEPT !.interval = p.interval]
                          /\ p.interval \in CandleIntervals
    [] ch = "l2Book" -> /\ p.interval = ""
                        /\ p.nSigFigs \in {0} \cup 2 .. 5
                        /\ p.mantissa # 0 => p.nSigFigs = 5 /\ p.mantissa \in {1, 2, 5}
    [] OTHER -> p = NoParams

\* Subscribe: a known channel, its parameters, and a coin unless it is allMids.
SubscriptionAccepted(st) ==
  /\ st.kind \in HyperliquidChannels
  /\ validate(st.arg, st.kind)
  /\ st.kind = "allMids" <=> st.sym = ""

\* BuildSubscriptions: a valid request has one coin at least and none twice, or none
\* at all for allMids; an invalid one subscribes nothing.
BuildSubscriptions(ch, coins, p) ==
  LET names == IF ch = "allMids" /\ coins = <<>> THEN <<"">> ELSE coins
      built == {[venue |-> "hyperliquid", kind |-> ch, sym |-> names[i], arg |-> p] : i \in DOMAIN names}
  IN IF /\ \A st \in built : SubscriptionAccepted(st)
        /\ \A i, j \in DOMAIN names : names[i] = names[j] => i = j
     THEN built ELSE {}

\* Mutant: the interval is not part of the key.
KeyWithoutInterval(st) == <<st.kind, st.sym>>

\* Subscription.Key: the thinning of a book is not part of its identity.
Key(st) == <<st.kind, st.sym, st.arg.interval>>

\* subscribed and hasSubscription: a frame's channel, coin and interval make its key.
subscribed(keys, ch, coin, interval) ==
  Key([kind |-> ch, sym |-> coin, arg |-> [interval |-> interval]]) \in keys

\* handleL2Book, handleTrades, handleBBO and handleActiveAssetCtx.
CoinEvent(f, keys) == IF subscribed(keys, f.kind, f.sym, "") THEN {f.kind} ELSE {}

\* handleAllMids: one frame has the mids of every coin.
AllMidsEvent(keys) == IF subscribed(keys, "allMids", "", "") THEN {"allMids"} ELSE {}

\* handleCandle, for one candle of the frame.
CandleEvent(f, keys) == IF subscribed(keys, "candle", f.sym, f.arg.interval) THEN {"candle"} ELSE {}

\* processFrame; the venue's error frames always become an event.
HyperliquidEvents(f, keys) ==
  CASE f.kind = "error" -> {"error"}
    [] f.kind \in {"l2Book", "trades", "bbo", "activeAssetCtx"} -> CoinEvent(f, keys)
    [] f.kind = "allMids" -> AllMidsEvent(keys)
    [] f.kind = "candle" -> CandleEvent(f, keys)
    [] OTHER -> {}

-----------------------------------------------------------------------------
(* RTDS: arg is the TWAP window, or 0                                      *)

\* subsKey and the Subscribe methods; the window is part of the key.
subsKey(topic, window) == IF window > 0 THEN <<topic, window>> ELSE <<topic>>
RtdsKey(st) == Append(subsKey(st.kind, st.arg), st.sym)

\* The entries that ask the server for a stream: crypto prices and a TWAP window that
\* exists are broadcasts of every symbol, the other topics are asked for by symbol.
RtdsEntries(st) ==
  CASE st.kind = "crypto_prices" -> {<<st.kind>>}
    [] st.kind = "twap" -> IF st.arg \in {30, 60} THEN {<<st.kind, st.arg>>} ELSE {}
    [] OTHER -> {<<st.kind, st.sym>>}

\* processMessage: a history of the crypto topic is a Chainlink snapshot; the TWAP
\* window is the wire topic's, whatever the subscription recorded.
RtdsEvents(f, keys) ==
  IF f.kind = "crypto_prices.subscribe"
  THEN IF <<"chainlink", f.sym>> \in keys THEN {"snapshot"} ELSE {}
  ELSE IF f.kind = "equity.subscribe"
  THEN IF <<"equity", f.sym>> \in keys THEN {"snapshot"} ELSE {}
  ELSE IF RtdsKey(f) \in keys THEN {f.kind} ELSE {}

\* Which frames the venue sends for a stream: Chainlink and equities begin with a
\* history, and the Chainlink history comes under the crypto topic.
RtdsFrames(st) ==
  CASE st.kind = "chainlink" -> {st, [st EXCEPT !.kind = "crypto_prices.subscribe"]}
    [] st.kind = "equity" -> {st, [st EXCEPT !.kind = "equity.subscribe"]}
    [] OTHER -> {st}

-----------------------------------------------------------------------------
(* Polymarket market channel                                               *)

\* processMessage and its handlers: a resolution is passed on whatever is
\* subscribed, a new market never.
MarketEvents(f, keys) ==
  CASE f.kind \in {"price_change", "book", "last_trade_price", "tick_size_change"} ->
         IF <<f.sym>> \in keys THEN {f.kind} ELSE {}
    [] f.kind = "market_resolved" -> {f.kind}
    [] OTHER -> {}

MarketFrames(st) ==
  {[st EXCEPT !.kind = k] :
     k \in {"price_change", "book", "last_trade_price", "tick_size_change"}}

-----------------------------------------------------------------------------
(* All venues                                                              *)

RegistryKey(st) ==
  CASE st.venue = "binance" -> BinanceKey(st)
    [] st.venue = "hyperliquid" -> Key(st)
    [] st.venue = "rtds" -> RtdsKey(st)
    [] OTHER -> <<st.sym>>

\* The kinds of event that a frame becomes while these keys are registered.
Events(f, keys) ==
  CASE f.venue = "binance" -> BinanceEvents(f, keys)
    [] f.venue = "hyperliquid" -> HyperliquidEvents(f, keys)
    [] f.venue = "rtds" -> RtdsEvents(f, keys)
    [] OTHER -> MarketEvents(f, keys)

FramesOf(st) ==
  CASE st.venue = "rtds" -> RtdsFrames(st)
    [] st.venue = "market" -> MarketFrames(st)
    [] OTHER -> {st}

\* What a subscriber of the stream is promised for one of its frames.
Promised(f) ==
  IF f.kind \in {"crypto_prices.subscribe", "equity.subscribe"} THEN {"snapshot"} ELSE {f.kind}
-----------------------------------------------------------------------------
(* The registry of keys, as the public Subscribe and Unsubscribe methods see it *)

CONSTANT Streams  \* the streams that the application may subscribe

VARIABLES keys,  \* the keys registered, of all channels
          asked  \* history: the streams whose last call was a Subscribe

Accepted(st) ==
  CASE st.venue = "binance" -> KlineAccepted(st)
    [] st.venue = "hyperliquid" -> SubscriptionAccepted(st)
    [] OTHER -> TRUE

\* addStreams, removeStreams and their like: a set of names, nothing counts references.
addStreams(st) == keys' = keys \cup {RegistryKey(st)}
removeStreams(st) == keys' = keys \ {RegistryKey(st)}

SubscribeStream(st) == Accepted(st) /\ addStreams(st) /\ asked' = asked \cup {st}
UnsubscribeStream(st) == removeStreams(st) /\ asked' = asked \ {st}

StreamsInit == keys = {} /\ asked = {}
StreamsNext == \E st \in Streams : SubscribeStream(st) \/ UnsubscribeStream(st)

\* The frames of all streams, and the streams that have a frame.
StreamFrames == UNION {FramesOf(st) : st \in Streams}
StreamsWith == [f \in StreamFrames |-> {st \in Streams : f \in FramesOf(st)}]
streamVars == <<keys, asked>>
StreamsSpec == StreamsInit /\ [][StreamsNext]_streamVars
-----------------------------------------------------------------------------
(* Properties                                                              *)

BinanceKinds == {"bookTicker", "aggTrade", "kline", "depth", "partialDepth"}
RtdsTopics == {"crypto_prices", "chainlink", "twap", "equity"}
DepthKinds == {"depth", "partialDepth"}

\* A stream that a venue has: a market, with an interval for klines; a channel with the
\* parameters it takes; a topic, with a window for the TWAP.
Known(st) ==
  /\ st = [venue |-> st.venue, kind |-> st.kind, sym |-> st.sym, arg |-> st.arg]
  /\ \/ /\ st.venue = "binance" /\ st.kind \in BinanceKinds
        /\ st.arg \in Seq(STRING) /\ Len(st.arg) = IF st.kind = "kline" THEN 2 ELSE 1
        /\ st.arg[1] \in {"spot", "perp"}
     \/ st.venue = "hyperliquid" /\ SubscriptionAccepted(st)
     \/ /\ st.venue = "rtds" /\ st.kind \in RtdsTopics
        /\ st.arg \in Nat /\ (st.kind = "twap" <=> st.arg > 0)
     \/ st.venue = "market" /\ st.kind = "market" /\ st.arg = 0

\* Streams whose frames the code cannot tell apart: the thinnings of a book, and the
\* depth streams of a symbol.
Alike(s, t) ==
  /\ s.venue = t.venue /\ s.sym = t.sym
  /\ \/ s.venue = "hyperliquid" /\ s.kind = t.kind /\ s.arg.interval = t.arg.interval
     \/ s.venue = "binance" /\ {s.kind, t.kind} \subseteq DepthKinds /\ s.arg = t.arg

\* No two of the streams are alike, and none is a partial depth of the spot market.
SeparateStreams ==
  /\ \A st \in Streams : Known(st) /\ ~(st.kind = "partialDepth" /\ st.arg = <<"spot">>)
  /\ \A s, t \in Streams : Alike(s, t) => s = t

\* What is subscribed on one side is what passes on the other: a frame becomes the
\* event that its subscriber was promised when a stream that has it is subscribed,
\* whatever else is, and nothing when none is.  It fails for the two depth streams of
\* one symbol together, and for partial depth on the spot market.
RoutedAsAsked ==
  \A f \in StreamFrames :
    Events(f, keys) = IF StreamsWith[f] \cap asked # {} THEN Promised(f) ELSE {}
=============================================================================
