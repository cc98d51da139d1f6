---------------------------- MODULE EventPipeline ----------------------------
(***************************************************************************)
(* The way of a message from the socket to the application: onMessage and  *)
(* its bounded queue, the eventDispatcher goroutines, the filter, the      *)
(* sequence number and DispatchEvent of the base connector (connector.go), *)
(* in asynchronous mode through a second bounded channel and its consumer. *)
(* Filtering, numbering and dispatching are three steps of a dispatcher,   *)
(* and other dispatchers, unsubscriptions and shutdowns come in between.   *)
(***************************************************************************)
EXTENDS VenueStreams, FiniteSets

CONSTANTS Traffic,      \* the streams whose frames arrive
          Sources,      \* sockets: a venue, or a class of Binance's connections
          Workers,      \* the eventDispatcher goroutines of each source
          Draining,     \* the sources whose onDisconnect empties the queue
          QueueSize,    \* capacity of a source's eventCh
          DispatchSize, \* capacity of dispatchCh
          Async,        \* EnableAsyncDispatch was called
          MaxItems,     \* bound: the items of one frame
          MaxMessages   \* bound: the messages that arrive

ASSUME PipelineAssumption ==
  /\ \A s, r \in Sources : s # r => Workers[s] \cap Workers[r] = {}
  /\ \A s \in Sources : IsFiniteSet(Workers[s])
  /\ Draining \subseteq Sources /\ Traffic \subseteq Streams /\ Async \in BOOLEAN
  /\ QueueSize \in Nat \ {0} /\ DispatchSize \in Nat \ {0}
  /\ MaxItems \in Nat \ {0} /\ MaxMessages \in Nat

VARIABLES
  arrived,    \* history: how many messages have arrived
  queue,      \* eventCh of each source: messages [n, frame, items]
  worker,     \* each dispatcher: where it is, its message, the event's number
  drain,      \* the sources whose onDisconnect is emptying the queue
  seqID,      \* c.seqID
  dispatchCh, \* the asynchronous channel: events [seq, n, item]
  channel,    \* it is open, closed by Stop, or nil
  delivered,  \* what the application's dispatcher was called with, in order
  dropped,    \* history: the numbers of the events dropped
  running,    \* dispatcherCtx of the sources is not cancelled
  crashed     \* a send on the closed channel has ended the process

pipelineVars == <<keys, asked, arrived, queue, worker, drain, seqID, dispatchCh, channel,
                  delivered, dropped, running, crashed>>

AllWorkers == UNION {Workers[s] : s \in Sources}
SourceOf(f) == IF f.venue = "binance" THEN streamClassOf(f) ELSE f.venue
NoMessage == [n |-> 0, frame |-> {}, items |-> 0]
Resting == [pc |-> "idle", msg |-> NoMessage, seq |-> 0]

\* Every variable has its type, and the two channels keep to their capacity.
PipelineTypeOK ==
  /\ arrived \in 0 .. MaxMessages
  /\ \A s \in Sources : Len(queue[s]) <= QueueSize
  /\ \A w \in AllWorkers :
       /\ worker[w].pc \in {"idle", "check", "number", "send", "ended"}
       /\ worker[w].msg.n \in 0 .. arrived /\ worker[w].seq \in 0 .. seqID
  /\ drain \subseteq Draining
  /\ seqID \in Nat /\ Len(dispatchCh) <= DispatchSize
  /\ channel \in {"open", "closed", "nil"}
  /\ dropped \subseteq 1 .. seqID
  /\ running \in BOOLEAN /\ crashed \in BOOLEAN

PipelineInit ==
  /\ StreamsInit /\ arrived = 0
  /\ queue = [s \in Sources |-> <<>>]
  /\ worker = [w \in AllWorkers |-> Resting]
  /\ drain = {} /\ seqID = 0
  /\ dispatchCh = <<>> /\ channel = IF Async THEN "open" ELSE "nil"
  /\ delivered = <<>> /\ dropped = {}
  /\ running = TRUE /\ crashed = FALSE

\* The rest of the pipeline while one part of it moves.
appVars == <<keys, asked, arrived, running>>
outVars == <<seqID, dispatchCh, channel, delivered, dropped, crashed>>
-----------------------------------------------------------------------------
(* The read loop                                                           *)

\* Mutant: the check for room is off by one.
RoomForOneMore(s) == Len(queue[s]) <= QueueSize

HasRoom(s) == Len(queue[s]) < QueueSize

\* onMessage queues the message or, when the queue is full, drops it.
onMessage(s, f, k) ==
  /\ arrived < MaxMessages /\ SourceOf(f) = s
  /\ arrived' = arrived + 1
  /\ queue' = [queue EXCEPT ![s] =
       IF HasRoom(s) THEN Append(@, [n |-> arrived + 1, frame |-> f, items |-> k]) ELSE @]
  /\ UNCHANGED <<keys, asked, running, worker, drain, outVars>>

\* onDisconnect begins to empty the queue; it may be the late one of an old
\* connection, and messages of the new connection may arrive meanwhile.
onDisconnectDrain(s) ==
  /\ drain' = drain \cup {s}
  /\ UNCHANGED <<appVars, queue, worker, outVars>>

drainEvents(s) ==
  /\ s \in drain
  /\ IF queue[s] = <<>> THEN drain' = drain \ {s} /\ UNCHANGED queue
     ELSE queue' = [queue EXCEPT ![s] = Tail(@)] /\ UNCHANGED drain
  /\ UNCHANGED <<appVars, worker, outVars>>
-----------------------------------------------------------------------------
(* The dispatchers                                                         *)

\* A select with ctx.Done ready as well may still take a message.
Take(s, w) ==
  /\ worker[w].pc = "idle" /\ queue[s] # <<>>
  /\ queue' = [queue EXCEPT ![s] = Tail(@)]
  /\ worker' = [worker EXCEPT ![w] = [pc |-> "check", msg |-> Head(queue[s]), seq |-> 0]]
  /\ UNCHANGED <<appVars, drain, outVars>>

\* Mutant: the dispatcher returns after a message.
EndAfterItem(w) ==
  worker' = [worker EXCEPT ![w] = [Resting EXCEPT !.pc = "ended"]]

\* The dispatcher goes on to the frame's next item, or to the next message.
NextItem(w) ==
  LET m == worker[w].msg IN
  worker' = [worker EXCEPT ![w] =
    IF m.items = 1 THEN Resting
    ELSE [pc |-> "check", msg |-> [m EXCEPT !.items = m.items - 1], seq |-> 0]]

\* A handler asks the registry whether the item is subscribed.
Check(w) ==
  /\ worker[w].pc = "check"
  /\ IF Events(worker[w].msg.frame, keys) = {} THEN NextItem(w)
     ELSE worker' = [worker EXCEPT ![w].pc = "number"]
  /\ UNCHANGED <<appVars, queue, drain, outVars>>

\* Mutant: a number read and written back in one go only while nobody else counts.
CountedTwice(w) == IF \E v \in AllWorkers \ {w} : worker[v].pc = "send" THEN seqID ELSE seqID + 1

\* NextSeqID: an atomic increment.
Counted(w) == seqID + 1

NextSeqID(w) ==
  /\ worker[w].pc = "number"
  /\ seqID' = Counted(w)
  /\ worker' = [worker EXCEPT ![w].pc = "send", ![w].seq = Counted(w)]
  /\ UNCHANGED <<appVars, queue, drain, dispatchCh, channel, delivered, dropped, crashed>>

EventOf(w) ==
  [seq |-> worker[w].seq, n |-> worker[w].msg.n, item |-> worker[w].msg.items,
   source |-> SourceOf(worker[w].msg.frame)]

\* DispatchEvent in asynchronous mode: the event is queued, or dropped when the
\* channel is full; a channel that Stop has closed panics.  It reads c.dispatchCh
\* twice without a lock: after Stop the second reading may be nil, and the event
\* dropped, or still be the closed channel.
DispatchAsync(w) ==
  /\ worker[w].pc = "send" /\ Async
  /\ NextItem(w)
  /\ crashed' \in CASE channel = "open" -> {FALSE}
                   [] channel = "closed" -> {TRUE}
                   [] channel = "nil" -> BOOLEAN
  /\ IF Len(dispatchCh) < DispatchSize /\ channel = "open"
     THEN dispatchCh' = Append(dispatchCh, EventOf(w)) /\ UNCHANGED dropped
     ELSE dropped' = dropped \cup {worker[w].seq} /\ UNCHANGED dispatchCh
  /\ UNCHANGED <<appVars, queue, drain, seqID, channel, delivered>>

\* DispatchEvent in synchronous mode calls the application.
DispatchSync(w) ==
  /\ worker[w].pc = "send" /\ channel = "nil"
  /\ NextItem(w)
  /\ delivered' = Append(delivered, EventOf(w))
  /\ UNCHANGED <<appVars, queue, drain, seqID, dispatchCh, channel, dropped, crashed>>

\* The dispatcher returns after the sources' Stop.
WorkerEnds(w) ==
  /\ ~running /\ worker[w].pc = "idle"
  /\ worker' = [worker EXCEPT ![w].pc = "ended"]
  /\ UNCHANGED <<appVars, queue, drain, outVars>>

\* The goroutine of EnableAsyncDispatch.
Consume ==
  /\ dispatchCh # <<>>
  /\ delivered' = Append(delivered, Head(dispatchCh))
  /\ dispatchCh' = Tail(dispatchCh)
  /\ UNCHANGED <<appVars, queue, worker, drain, seqID, channel, dropped, crashed>>
-----------------------------------------------------------------------------
(* The application                                                         *)

\* It subscribes and unsubscribes.
ChangeKeys ==
  /\ \E st \in Traffic : SubscribeStream(st) \/ UnsubscribeStream(st)
  /\ UNCHANGED <<arrived, running, queue, worker, drain, outVars>>

\* Stop of a venue's connector cancels the dispatchers and waits for none of them.
StopSources ==
  /\ running /\ running' = FALSE
  /\ UNCHANGED <<keys, asked, arrived, queue, worker, drain, outVars>>

\* Mutant: it does not wait for the consumer.
StopBaseAtOnce ==
  /\ ~running /\ channel' = "nil"
  /\ UNCHANGED <<appVars, queue, worker, drain, seqID, dispatchCh, delivered, dropped, crashed>>

\* Stop of the base connector: it closes the channel, waits for the consumer and
\* then goes back to synchronous mode.
StopBase ==
  /\ ~running
  /\ \/ channel = "open" /\ channel' = "closed"
     \/ channel = "closed" /\ dispatchCh = <<>> /\ channel' = "nil"
  /\ UNCHANGED <<appVars, queue, worker, drain, seqID, dispatchCh, delivered, dropped, crashed>>
-----------------------------------------------------------------------------
Frames == UNION {FramesOf(st) : st \in Traffic}

\* The items of a frame that become events of their own: the trades and candles of
\* Hyperliquid and the price changes of the market channel come several in one frame.
ItemsOf(f) == IF f.kind \in {"trades", "candle", "price_change"} THEN 1 .. MaxItems ELSE {1}

Handle(w) == Check(w) \/ NextSeqID(w) \/ DispatchAsync(w) \/ DispatchSync(w)
eventDispatcher(s) == \E w \in Workers[s] : Take(s, w) \/ Handle(w)

PipelineNext ==
  /\ ~crashed
  /\ \/ \E s \in Sources, f \in Frames : \E k \in ItemsOf(f) : onMessage(s, f, k)
     \/ \E s \in Draining : onDisconnectDrain(s) \/ drainEvents(s)
     \/ \E s \in Sources : eventDispatcher(s)
     \/ \E w \in AllWorkers : WorkerEnds(w)
     \/ Consume \/ ChangeKeys \/ StopSources \/ StopBase

\* Goroutines run, and the application's dispatcher returns.
PipelineFairness ==
  /\ \A s \in Sources : WF_pipelineVars(~crashed /\ \E w \in Workers[s] : Take(s, w))
  /\ \A w \in AllWorkers : WF_pipelineVars(~crashed /\ Handle(w))
  /\ WF_pipelineVars(~crashed /\ Consume)

PipelineSpec == PipelineInit /\ [][PipelineNext]_pipelineVars /\ PipelineFairness
-----------------------------------------------------------------------------
(* Properties                                                              *)

Before(e, d) == e.n < d.n \/ (e.n = d.n /\ e.item > d.item)

\* A source that has one dispatcher, as Binance's and Hyperliquid's have, reaches
\* the application in the order of arrival and numbered in that order, each item at
\* most once, whatever is dropped on the way and whoever unsubscribes meanwhile.
SourceOrder ==
  \A i, j \in 1 .. Len(delivered) :
    i < j /\ delivered[i].source = delivered[j].source
      /\ Cardinality(Workers[delivered[i].source]) = 1 =>
        Before(delivered[i], delivered[j]) /\ delivered[i].seq < delivered[j].seq

InHand == {worker[w].seq : w \in {v \in AllWorkers : worker[v].pc = "send"}}
Numbers(events) == {events[i].seq : i \in 1 .. Len(events)}

\* A gap in the sequence numbers is an event that was dropped or is still on its
\* way, and no two events have the same number, however many dispatchers count.
GapMeansDrop ==
  /\ 1 .. seqID = Numbers(delivered) \cup Numbers(dispatchCh) \cup InHand \cup dropped
  /\ Cardinality(Numbers(delivered)) + Cardinality(Numbers(dispatchCh))
       + Cardinality(InHand) + Cardinality(dropped) = seqID
  /\ Cardinality(Numbers(delivered)) = Len(delivered)

\* Nothing stays queued: while no dispatcher is told to end, every message leaves
\* the queue of its source, and what was dispatched reaches the application.
QueuedIsDelivered ==
  /\ \A s \in Sources : [](queue[s] # <<>> => <>(queue[s] = <<>> \/ ~running \/ crashed))
  /\ [](dispatchCh # <<>> => <>(dispatchCh = <<>> \/ crashed))
=============================================================================
