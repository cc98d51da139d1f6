# Formal models of go-exchange-connector

TLA+ models of the concurrent core of `go-exchange-connector`, checked with TLC
on small instances and, for every safety property that those runs check, proved with TLAPS
for every value of the constants. Line numbers refer to the source under `src/`.

Contents: [inventory](#inventory), [plan](#plan), [modules](#modules),
[runs](#runs), [fairness](#fairness), [proofs](#proofs),
[disagreements](#where-the-code-and-its-documentation-disagree),
[not modelled](#not-modelled).

## Inventory

The library connects a trading engine to three venues. Each venue channel embeds
one reconnecting WebSocket, keeps the set of streams it should be subscribed to,
queues raw messages to dispatcher goroutines, and hands typed events to one root
connector. REST calls, order placement and on-chain transactions sit beside it.

    application ──calls──▶ venue channels (market, rtds, user, binance, hyperliquid)
         ▲                    │  ▲ hooks: ShouldConnect, OnConnect,
         │ events             ▼  │        OnMessage, OnDisconnect
    root Connector ◀── dispatchers   BaseWebSocket (one per connection) ◀──▶ venue

| Component | State | Operations | Hard behaviour | What makes it correct |
|---|---|---|---|---|
| `pkg/websocket` BaseWebSocket | `conn`, `status`, `connEstablishedAt` under one mutex; last-data clock; `done` | `Connect`, `Close`, `Disconnect`, `dialSync`; goroutines `readLoop`, `pingLoop`, `reconnLoop`, `dataStaleWatchdog` | goroutines of an old connection meet the new one; half-open sockets; shutdown during a dial | no socket leaked or forgotten, status agrees with the connection, every loss reported and repaired, Close final and finite |
| its reconnection timing | `delay`, `connEstablishedAt`, timers | `reconnLoop`, `nextDelayAfterDrop`, `nextBackoff` | flap or success, cap, base/cap/window boundaries | no reconnect storm, no needless wait, escalation and reset as documented |
| Polymarket market channel `market.go` | three asset sets under two locks, event queue | `SubscribeAssets`, `UnsubscribeAssets`, `flushLoop`, `flushPending`, hooks, `Stop` | frames written outside the state locks; failed frames queued again; late OnDisconnect | the sets follow the caller's wishes; what is believed subscribed is streamed; the queue drains |
| Binance depth books `binance.go` | book table under `booksMu`, a mutex per book, stream registry, queue | `SubscribeDepth`, `UnsubscribeDepth`, `handleDepth`, `snapshotDepthBook`, hooks, `Stop` | REST snapshot held under the book's mutex, gaps, orphaned books, lock held while waiting for locks | a seeded book is never wrong and never goes back; the reset ends |
| Hyperliquid, RTDS, the other Binance streams | a registry of keys or symbols under one mutex, application ping (Hyperliquid) | `Subscribe`, `Unsubscribe`, hooks, `Stop` | registry first and frame afterwards; write failures only logged; OnDisconnect after the next OnConnect | the venue streams what is registered; a connection in use has its ping |
| Polymarket user channel `user.go` | record and two queues of market IDs under one mutex | `SubscribeMarkets`, `UnsubscribeMarkets`, `flushMarketSubscriptions` | writes outside the lock, results ignored, no re-subscription | no call lost; what is recorded is what the venue filters by |
| Stream names, keys and filters of all channels | none | request validation, key building, `processMessage` and handlers | the two sides of a key are built in different functions | a frame reaches the one who asked for it and nobody else |
| Event pipeline (root `connector.go`, the dispatchers) | bounded channels, sequence counter | `onMessage`, `eventDispatcher`, `DispatchEvent`, `EnableAsyncDispatch`, `Stop`, `NextSeqID` | several dispatchers, full queues, unsubscription and stop in the middle | order of a source; a missing number is a drop; nothing stays queued |
| Polymarket orders (`pkg/polymarket/connector.go`, `clob.go`) | none kept between calls | place limit and market orders, batched cancel; paper mode | an order or a batch fails in the middle, answers are lost; fixed-point amounts | each order gets the result of its own request; where the product fits an int64, a price is worse than the limit by less than the unit truncated |
| Positions, relayer and CTF transactions | one goroutine for a call | split, merge, redeem; submit, poll, wait for a receipt | errors while a transaction is pending; the caller's ctx ends | events are true and come |
| Series discovery | TTL cache under a mutex | `GetSeries`, `InvalidateSeries`, `ListSeriesEvents` | fetch racing an invalidation; the listing shifts between pages | a cached answer was stored no longer than the TTL ago, and (without such a race) after the last invalidation; pages neither overlap nor skip |
| REST clients, signing, parsing, mocks, `cmd/*` | none | requests, hashes, smoke tests | none that a state machine shows | |

`PROJECT.json` lists every component with its status, and every hazard at its line.

## Plan

In the order in which the modules were written; all of it is done.

1. `BaseWebSocket`: every other channel rests on it.
2. `ReconnectBackoff`: the loop's timing, with a clock.
3. `MarketSubscriptions`: the market channel over the socket.
4. `VenueBook`, `VenueMirror`, `DepthBook`: local order books, shown to implement
   an abstract mirror of the venue.
5. `SubscriptionRegistry` and `UserChannel`: the other channels' subscriptions
   over the socket, and `VenueStreams`: keys, frames and filters of all of them.
   `MCVenueChannels` puts the three and `ReconnectBackoff` side by side.
6. `EventPipeline` (which extends `VenueStreams`): queues, dispatchers, numbers,
   `DispatchEvent` and `Stop`.
7. `Orders`, `PositionCalls`, `SeriesDiscovery`: the calls of the Polymarket
   connector. `MCTrading` puts them and the pipeline side by side.
8. Proofs: see [proofs](#proofs). Every safety property that a passing run checks is
   also a theorem; what stays with TLC is named there.

No module that is proved about declares a RECURSIVE operator.

## Modules

### BaseWebSocket (`pkg/websocket/websocket.go`)

A step is one critical section of `b.mu`, one network event or one hook call;
everything the code does between two critical sections is a separate step.

| TLA+ | code |
|---|---|
| `conn`, `status`, `established` | `b.conn`, `b.status`, `b.connEstablishedAt` |
| `dataStale`, `inherited` | the comparison of `lastDataAt` with DataStaleTimeout; whether it was so already when the newest socket, younger than that, was dialled |
| `wanted` | what `ShouldConnect` answers when `reconnLoop` may ask it; it changes where `MayRefuse` says so |
| `link` | the network's side of each socket: open, silent (half-open) or closed |
| `dial`: `dialing`, `installed`, `hook`, `closed` | `dialSync` before 247, between 247 and 249, in `OnConnect`; after an error of the hook `closeConn` (547-554) has run and the status is still to be written (265) |
| `reader[c]`: `spawned`, `reading`, `callback`, `cleanup` | `readLoop` (280-366); it captures the connection only when it runs |
| `disc[t]`: `lock`, `closenow` | `Disconnect` before and after its critical section, per caller |
| `reconn`, `pinger`, `watchdog` | the other goroutines |
| `owed` | history: announced by OnConnect, not yet by OnDisconnect |

Sockets are taken from `Conns` and used again when nothing refers to them, so
reconnections are unbounded. Delays may end at any time.

### ReconnectBackoff (`reconnLoop`, `nextDelayAfterDrop`, `isFlap`, `nextBackoff`)

`timer` is what is left of the `time.After`, `age` is `time.Since(connEstablishedAt)`,
`lived`, `idle` and `streak` are history. Time passes in `Tick`, only while the loop
waits, and timers are never late: a late timer would lengthen every wait by the
same amount, which none of the properties would accept as a shorter one. The
loop assumes `MaxDelay >= Base`; `Connect` does not check it, but no caller in
the repository breaks it.

### MarketSubscriptions (`pkg/polymarket/market.go`)

`subscribed`, `pendingSub` and `pendingUnsub` are the three sets. `flush[t]` is the
`flushPending` call of a caller or of the ticker, in four steps: capture the
connection (258), compute under the state locks (265-290), write under `writeMu`
(298-309), queue again (312-321, still under `writeMu`). `hook` is `dialSync` with
`onConnect`: the sets change in one step (341-366), the frame is written in
another. `reports` counts OnDisconnect calls still to come: BaseWebSocket runs
them without a lock, so one may follow the next connection's handshake.
`venue` is external: what the venue streams on each connection.

`want`, `crossed` and `raced` are history. `crossed` holds the assets that were
called for again while a flush carried them; a failed frame then puts the older
wish over the newer (312-321), which the property excepts and this README
records. `raced` holds the assets that two writers carried at once or whose frame
failed.

`Start` dials at once, although its comment (129-130) says that the connection is
deferred until subscriptions are queued; the model follows the code.

### VenueBook, VenueMirror, DepthBook (`pkg/binance/binance.go`)

`VenueBook` has one side of a venue's book: a numbered history of the quantities,
REST snapshots of the best levels, diffs. Binance carries the levels that changed
in a run of updates; `applyLevels`, `levelMap` are the code's. Quantities are read
as numbers. The code recognises a removal by the text `"0"` (1075, 1084, as its
tests write it); a venue that spells it `"0.00000000"` leaves a level with that
quantity in the map, which reads 0 here as well.

`VenueMirror` is the abstract specification: while in sync, a mirror shows the
venue's levels as of one update, never goes back, and loses no level it had right.

`DepthBook` is the code for one symbol: `current` is the table's entry, `book` the
objects it may point to (an unsubscription orphans one while goroutines hold it),
`queue` the `eventCh`, `disp` the dispatcher in `handleDepth`, `fetch` the
`snapshotDepthBook` calls in `bookFor`, waiting for the book's mutex, waiting for
the venue, storing. `Dialer` is the call inside `onConnect`; the read loop starts
after it (websocket.go:270-286). `down = "reset"` holds `booksMu` while it waits
for a book's mutex (966-976). The other connection of the perpetual market resets
the same books (`OtherDisconnect`).

What the code does and the model shows, but no property forbids: a snapshot has
at most 50 levels (1037) although the doc speaks of a full order book (282), so a
level may be missing until it changes; a snapshot in flight makes the book of an
unsubscribed symbol again; a diff's event is dispatched after the mutex is
released (903), so a snapshot's event may overtake it.

### SubscriptionRegistry (`hyperliquid.go`, `rtds.go`, `binance.go`)

One module for three registries of the same shape: the registry changes under its
mutex, `Conn()` is read, the frame is written, each in a step of its own; with no
connection the frame is dropped, a failed write is only logged, and `onConnect`
sends the whole registry. What differs is a constant. `Topic` says what a frame
asks for: in Hyperliquid, Binance and the filtered RTDS topics every symbol is its
own topic, in the RTDS broadcasts several symbols share one, which is asked for
with the first and given up with the last. `FrameEach` is Hyperliquid's loop of one
frame, and one reading of `Conn()`, for each subscription. `AppPing` is Hyperliquid's
ping goroutine.

| TLA+ | code |
|---|---|
| `registered` | `c.subs`, `c.streams`, `r.subs[...].symbols` |
| `call[t]` | a caller between the registry and its last frame |
| `hook`: `dial`, `read`, `write`, `ping` | `dialSync` and `onConnect`: before, and after, it copies the registry; in `startPing`, between `stopPing` (683) and the storing of `pingCancel` (686-688) |
| `reports` | OnDisconnects that the read loop or `Disconnect` is about to call, and the read loops that have called it and have still to clean up |
| `pingCancel`, `pinging` | `c.pingCancel`; the connections whose ping goroutine runs |
| `raced`, `late` | history, for the exceptions of `StreamsMatch` and `PingGuards` |

The exceptions are the code's: nothing orders the frames of two callers, or of a
caller and a handshake, that carry the same topic, nothing repeats a frame that
failed on a connection that stays up, and an OnDisconnect that comes after the next
OnConnect stops the new ping.

### UserChannel (`pkg/polymarket/user.go`)

The sets of the market channel, but another protocol: a flush (`flushing[t]`) takes
both queues (171-176), puts them back when there is no connection (180-187), and
otherwise writes the unsubscription (191-200), deletes its IDs (201-205), writes the
subscription (208-217) and records its IDs (218-222), with the lock released between
these steps and the results of the writes ignored. `onConnect` only authenticates,
so a reconnection makes all records stale (`stale`): the code never asks for them
again, and a new SubscribeMarkets skips them (125). `UserFilterIsRecorded` speaks of
what was recorded since. `crossedIDs` holds the markets that two calls carried at once.

### VenueStreams (all channels)

Streams, frames and keys are records and tuples instead of strings: what a name is
built from, not its characters. `BinanceKey`, `Key`, `subsKey`, `RegistryKey` are the keys under which a
request is registered; `BinanceEvents`, `HyperliquidEvents`, `RtdsEvents`, `MarketEvents`
what the dispatcher of a channel makes of a frame while some keys are registered
(an operator for each handler where they differ: `KlineEvent`, `CoinEvent`, `AllMidsEvent`,
`CandleEvent`); `RtdsEntries` is what RTDS asks the venue for, `KlineAccepted` the check of an interval;
`validate`, `SubscriptionAccepted` and `BuildSubscriptions` Hyperliquid's validation.
`RoutedAsAsked` relates the two sides over every set of subscriptions.

Streams for which the property fails are not in the run, and `SeparateStreams` says
which: a depth and a partial-depth subscription of the same symbol (every diff is then
taken for a snapshot, 857-865), partial depth on the spot market (its frames carry no
event type, and `processMessage`, 654-656, ignores them), and two thinnings of one
Hyperliquid book, which its `Key` does not tell apart.

### EventPipeline (the read loops and dispatchers, root `connector.go`)

`queue[s]` is a source's `eventCh`; a dispatcher takes a message, asks the registry for
each item (`check`), draws a number (`number`) and dispatches (`send`). `HasRoom` is
the non-blocking send. `drain` is the loop of `onDisconnect`. `dispatchCh` and `channel`
are the asynchronous channel and whether it is open, closed or nil. `DispatchEvent`
reads `c.dispatchCh` twice without a lock, and `Stop` closes it without waiting for the
dispatchers: a late event is dropped, delivered synchronously, or panics (`crashed`).
The properties hold up to the panic. The user channel dispatches from its read loop
and is not a source here.

### Orders (`pkg/polymarket/connector.go`, `clob.go`, root `connector.go`)

`exec` is the call in progress, one result or batch at a time; `venueOrder` is the
venue. The answer to a PostOrder or a cancel may be lost after the venue acted.
`ticket` is the order that is built, apart from the rest: `Raw` is the
float64-to-int64 conversion (which can fall one unit short), `Int64` the product that
wraps around, `Quo` Go's division.

### PositionCalls (`connector.go`, `relayer.go`, `ctf.go`)

`position[c]` is the call and its goroutine: `prepare` (`RelayPayload` or `NewCTFClient`),
`submit`, then `poll` on the relayer's path or `wait` on the direct one. `Report` is its
call of `DispatchEvent`, which ends it; a full channel drops the event, so `dispatched` has
the calls that have made theirs and `events` what reached the channel. `relayed` is the relayer's view of the
transaction, `onChain` the chain's; the relayer may report a failure of a
transaction that is in a block, as a comment in `submitProxyCall` says. Any receipt
counts as success on the direct path (its status is not read): `EventsTruthful` can
therefore promise only that a success is in a block, not that it did what was asked.

### SeriesDiscovery (`pkg/polymarket/series.go`)

`cache` is the entry of one slug, with the moments when it was stored and when it
expires; `getting[r]` is a GetSeries between lookup, fetch and store. How long a fetch
takes is not bounded, so nothing is said of the age of an answer before it is stored.
`lateStore` says that a fetch under way at an invalidation has stored its answer since:
`CacheFresh` excepts that race, and `series_stale` shows what it does. `pager` is ListSeriesEvents between two pages while events come,
close and go in the venue's `listing`.

## Runs

| run | instance | shows |
|---|---|---|
| `socket_shutdown` | 2 sockets, ping on, watchdog off (the market channel's options), Close and cancellation | safety of every interleaving, shutdown, half-open detection |
| `socket_heal` | 2 sockets, ping off, watchdog on, application Disconnects, cancellation, `ShouldConnect` may refuse | losses are reported, and repaired while a connection is wanted |
| `socket_close_hangs`, `socket_wedged`, `socket_killed_fresh` | as above | the disagreements below |
| `backoff_never_escalates` | `DefaultWSOptions` in seconds: base 5, cap 30, window 5 | a disagreement below |
| `market` | 1 asset, 1 caller and the ticker, 2 connections, 1 late OnDisconnect, callers' contexts may expire | book-keeping against failures and reconnections |
| `market_requeue` | the same | a disagreement below |
| `depth` | 2 levels, 2 updates, snapshots of 1 level, 2 book objects, 1 background snapshot besides the dialler's, queue of 1 | books never wrong, the refinement, the reset ends |
| `channels` | reconnection: the market channel's in half seconds, base 1, cap 60, window 10; registry: 2 symbols of 1 broadcast topic, a frame each, ping, 2 callers, 2 connections; user channel: 1 market, 2 callers, 2 connections; 15 streams of four venues in every combination | every timing property; what the venues stream and filter by is what was asked for, and goes to who asked |
| `trading` | pipeline: a source with 1 and one with 2 dispatchers, queues of 1, 2 messages of up to 2 items; 2 orders, batches of 2, 3 IDs; amounts as below; 2 position calls, 1 poll; 2 readers, 4 ticks, 2 versions; 4 events, pages of 2 | order and numbering of events, orders and their results, background calls, cache and pages |
| `series_stale` | the same | a disagreement below |

`channels` and `trading` each hold several models that share no variable: `part`
says which one of them moves in a behaviour, so that their state spaces add instead
of multiplying. Nothing is lost, for no step of one reads the other's state.

Why the bounds are enough. Every property of the socket is about one connection
and the one that replaced it: two identities, used again without end, give every
such meeting. The base, cap and window of the reconnection in
`channels` are the real ones of the market channel; `streak` is bounded where the delay has
reached its cap. Assets
meet only in the frames and locks they share, and every property of `market` is
about one asset; two assets are out of TLC's reach, and its invariants are proved
for any number. The depth book needs a level that a snapshot does not carry
(limit 1 of 2), a gap (queue of 1, drained on a disconnect) and an orphaned
object (2 objects) with a snapshot on each; `NoWrongLevel` and `ImplementsMirror` are
proved for any bound. At most one OnDisconnect of the depth connection is outstanding, and one of
the market channel (`MaxReports`): a second one would find the sets empty or the
books unseeded already. When the background snapshot goroutines are all busy, `DepthBook` makes
the dispatcher wait; the code would start one more, which would wait for the same
mutex.

In `channels`, a broadcast of two symbols has a first and a last subscriber, and two
connections and two callers give every crossing of two writers; callers and
connections are symmetric, and no property there is a liveness property. Its invariants
are proved for any topics, with `FrameEach` and `AppPing` either way; the instance of
two topics of one symbol each with `FrameEach = FALSE` (5.9 million states) also
passes and is not kept for its time. In `trading`, queues of one overflow with the
second message. Amounts are in units of 1/64 with truncation to 16 and 4 and an
int64 of 13 bits, so that sizes up to 130 reach both sides of an overflow, prices
both ends of their range, and every remainder occurs. `BatchSize` is 2 with up to 3
IDs: a full and a short batch, and an ID given twice. One poll (`MaxPolls`) is
enough, since every poll has every outcome. The clock of the cache runs past an
expiry (`TTL` 1, `MaxTime` 3). Pages of 2 with up to 4
events have a full, a short and an empty page, and a listing that shifts. The
invariants of `trading` are proved for any of these bounds.

`CHECK_DEADLOCK FALSE` is set where the system may stop: after Close, Stop, a
cancelled context, or once the venue is out of updates or a part of its bounded
work.

With `HookWrites = FALSE`, `DropReported` would not hold in `socket_heal`: a read
loop that is scheduled late captures `b.conn` only when it runs (280-286), may find
the next connection there before its status is set, and then reports nothing. A
hook that writes to the connection, as all of this repository's do when they
have something to subscribe, fails on the lost connection instead.

## Fairness

Only what Go and the code's own timers give: a goroutine that can run does
(weak fairness of the steps of each goroutine), tickers tick, a mutex holder
releases it, a ping without a pong fails (PongTimeout), an HTTP request ends.
The venue is never assumed to answer, accept or stay connected; `socket_heal` asks for a
dial, not for its success. Time passes while nothing is connected. The steps of
`depth` that need `booksMu` have no fairness: `OnDisconnectReturns` does not need it.

In `trading`, `PipelineFairness` says that the dispatchers and the consumer run and
that the application's callback returns (it is called on them); messages need not
arrive, and sources need not be drained. `PositionsFairness` says that a background
goroutine goes on: its requests return, for the relayer's client has a timeout of
60 s (relayer.go:185), and the poll loop has a deadline. Nothing is assumed of the
relayer or the chain: on the direct path a transaction that stays pending for ever
keeps its goroutine waiting (`WaitMined` under the caller's ctx), which
`CallsReported` excepts.

## Proofs

All proofs are checked by TLAPS to the last leaf, from the named assumptions on
the constants (`SocketAssumption`, `BackoffAssumption`, `MarketAssumption`,
`VenueAssumption`, `DepthAssumption`, `RegistryAssumption`, `UserAssumption`,
`PipelineAssumption`, `OrderAssumption`, `PositionAssumption`, `SeriesAssumption`),
which say that model values differ, sets are finite where they are counted and numbers
are numbers. Every invariant and every action property of a passing run is the
conclusion of a theorem; the invariants they need were first checked by TLC.

* `BaseWebSocketProofs`. `TypeCorrect`. `SocketOwnership` (`NoLeakedSocket`) and
  `StatusTellsConn` (`ConnImpliesConnected`). They are not inductive: `OwnerInv` adds
  what a dial in progress knows (nothing is open but what it installed) and what a
  running ping loop implies, because `dialSync` overwrites `b.conn` without a check
  and is right only if every path that leaves the status not connected has cleared it.
  `ClosedForGood` (`CloseIsFinal`): Close returns after `reconnLoop` has exited, which
  is final (`ExitedIsFinal`), and nobody else dials by then.
* `ReconnectBackoffProofs`. `BackoffTypeCorrect`, `BackoffBounded`, `NoReconnectStorm`,
  `BackoffRestartsOnlyAfterStable`, `StableConnectionsNeverPunished`. The invariant
  relates `timer` and `idle` to `delay`, and `age` to `lived`.
* `MarketSubscriptionsProofs`. `NoCallLost`: `IntentKept`, with `FlightOK`: what a
  flush carries is still wanted unless the asset is in `crossed`, so queueing it
  again changes nothing. `MarketTypeCorrect`. `BelievedStreamed`: `BelievedIsStreamed`
  by `StreamsInv`, which says in addition which connection a handshake or a flush
  writes to, that only one connection is up, and that every asset in flight is in
  `raced` or has one writer whose frame brings the venue to what is believed.
* `DepthBookProofs`. `DepthTypeCorrect`. `BookNeverWrong`: `NoWrongLevel` with the type
  invariant is inductive. The lemma it rests on is `DiffFaithful`: a diff with
  `first - 1 <= lastUpdateID < final` takes every level that is not missing to `final`,
  because a level the diff does not carry is the same at every update from
  `first - 1` to `final`. `BookImplementsMirror` (`ImplementsMirror`): every step of the
  dispatcher, of the snapshots and of the resets maps to a step of `VenueMirror` or
  to a stutter. It needs `MirrorInv`: nothing speaks of an update that the venue has not
  made (`InThePast`); one request at a time holds a book, and what the answer brings is
  no older than what the book has (`Serialized`), for otherwise a snapshot would take a
  seeded book back; and an object that nothing refers to is new (`GarbageIsNew`).
* `VenueChannelProofs`. `VenueStreamsRegistry` (`StreamsMatch`) by `RegistryInv`: each
  topic in flight has one writer, outside `raced`, and its frame says what the
  registry says; a topic not in flight is already so at the venue, or the handshake
  has not read the registry yet. `PingIsThere` (`PingGuards`). `UserCallsKept`
  (`UserWishKept`) and `UserFilterKept` (`UserFilterIsRecorded`) by `UserInv`: an ID that
  is not crossed is carried by one flush, on one side, and a flush writes to the
  current connection unless what it carries is stale.
  `FramesRouted` (`RoutedAsAsked`): for any set of streams with `SeparateStreams`. Streams
  that are not alike have different keys (`KeysDiffer`: a key tells its venue, and within
  a venue every part of the stream that tells two apart), so `keys` holds exactly the keys
  of the streams asked for (`KeysInv`), and each venue's routing finds the one stream
  that a frame is of. `SeparateStreams` is where the code's promise ends: it excludes the
  streams named under [VenueStreams](#venuestreams-all-channels). `MCVenueChannels`
  assumes it of its streams, so that TLC evaluates it. `ChannelsTypeCorrect` (`ChannelsTypeOK`)
  is about the registries and the user channel together.
* `EventPipelineProofs`. `DeliveredInOrder` (`SourceOrder`): with `Out` the events
  delivered followed by those dispatched, the messages of a source's queue are in the
  order of arrival (`QueueInv`) and younger than the one in hand (`HandInv`), and a
  single dispatcher's next event comes after all of its source's in `Out`
  (`OrderInv`). `GapsAreDrops` (`GapMeansDrop`): every number up to `seqID` is in exactly
  one of `Out`, a dispatcher's hand and `dropped` (`NumberInv`), from which the
  cardinalities follow. `PipelineTypeCorrect`.
* `OrdersProofs`. `LimitIsKept` (`NeverWorseThanLimit`), from lemmas on truncation and
  division in a product that fits. `PlacementsAreTrue` (`PlacementReported`) and
  `CancelsAreAnswered` (`EveryCancelAnswered`) by `ReportInv`: while a placement is in
  progress the results so far are true and the rest of its orders have not reached
  the venue; while a cancellation is, the IDs of the batches so far are answered.
  `OrdersTypeCorrect`.
* `TradingProofs`, about the remaining parts and all of them together. `EventsAreTrue`
  (`EventsTruthful`): the invariant adds that a hash, and a transaction reported as
  mined, are of one that was sent, and that a goroutine that is still at work has not
  reported. `AnswersAreFresh` (`CacheFresh`): an entry expires a TTL after it was
  stored; what a fetch brings, and an entry that no overtaken fetch stored, are no older
  than the last invalidation.
  `PagesAreComplete` (`PagesComplete`): as long as no event left, what was asked for is
  found already or still behind the offset (`Rest`). A new event at either end, or one
  that closes, takes none out of `Rest`; what a new one at the front pushes behind the
  offset again is dropped as a duplicate. The lemmas on `NewOnes` say that the new ones
  of a page are its members that were not found, each once; the definition counts places instead of filtering recursively so
  that they can be proved. `TradingTypeCorrect` (`TradingTypeOK`).

Only model-checked: liveness (`CloseReturns`, `ShutdownReleasesSockets`,
`HalfOpenCaught`, `DropReported`, `Reconnects`, `QueueDrains`, `OnDisconnectReturns`,
`QueuedIsDelivered`, `CallsReported`) and anything with ENABLED, which TLAPS does not
reach, and the runs that TLC must find violated.

## Where the code and its documentation disagree

Each is a run that TLC must find violated, with the quoted line in `PROJECT.json`.

* `socket_close_hangs`: Close after a failed Connect waits for ever on `b.done`.
* `socket_wedged`: with the data watchdog off, a late Disconnect between two
  assignments of a dial leaves status connected and no connection.
* `socket_killed_fresh`: the watchdog's clock is not reset by a reconnection.
* `backoff_never_escalates`: with the default intervals a flap is never detected.
* `market_requeue`: an asset queued again after a failed frame is not sent again
  while the connection stays up.
* `series_stale`: a fetch overtaken by InvalidateSeries stores the old answer, on which the
  next GetSeries is a hit.

Other places where code and text differ, met while modelling and not the subject of a
run:

* The ping loop must not "kill a newer connection" (websocket.go:500-501), but it looks whether
  its socket is current (503) before it calls `Disconnect` (505), which takes the one that is
  current by then: a dial in between loses its connection. The model has both steps
  (`PingFail`, `DisconnectLock`), and no property forbids the outcome.
* `SplitPosition`, `MergePositions` and `RedeemPositions` say that their event is dispatched
  "immediately in paper mode" (pkg/polymarket/connector.go:375-377, 468-469, 561-562). In paper
  mode they dispatch none, and so does the model; `EventsTruthful` asks for no event and would
  allow one.
* `cloneSeries` copies "so callers cannot mutate cached state" (series.go:260-261); its copies
  share the markets and tags of their events with the cache. The model has no contents of an
  entry that a caller could write to.
* The doc of `Connector.Stop` says that the event channel is drained gracefully
  (connector.go:362-363); a dispatcher that is still at work sends on the closed channel.
* `CancelOrders` comments "mark all remaining as not_canceled" (857) but marks its own
  batch and goes on, which is what `EveryCancelAnswered` needs.
* A market order "only fills at equal or better price" (950-951); truncating the taker
  amount allows a price worse by less than one unit of truncation, the margin in
  `NeverWorseThanLimit`.
* "Batched in groups of 15" (720) describes what the code no longer does (751-752).
* `SubscribeDepth` speaks of a full book (binance.go:281-283); it is seeded with 50 levels.
* The Polymarket connector's `Start` goes on without a socket that cannot be dialled
  (connector.go:159-161): nothing dials it later, and `Stop` then waits in its Close, which
  is the case of `socket_close_hangs`.

## Not modelled

REST clients, signing, authentication and parsing have no state between calls; the
mock, the version and the `cmd/*` programs are test aids; `New`, `Start` and `Stop` of
the Polymarket connector are straight lines. The user channel's handlers of orders and
trades map each message to events in the read loop, with no state; its PING ticker only
writes. Of the relayer, `ApproveTokenViaRelayer` is one more `submitProxyCall` that no
connector calls.

In the modelled components: logging, latency statistics, status callbacks, raw-frame
hooks and message contents, the read limit, and how long anything takes apart from
`ReconnectBackoff` and the cache. The closing handshake runs under `b.mu` (290), which is
outside what the properties speak of. A message that a full queue drops before it has a number
(market.go:411) leaves no trace, and no property could ask for one. The events of a depth
book's snapshot goroutine are ordered with the dispatcher's by nothing in the code, so
`SourceOrder` does not speak of them.
