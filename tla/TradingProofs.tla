---------------------------- MODULE TradingProofs ----------------------------
(***************************************************************************)
(* The position calls, the series cache and the pages of a series, for any *)
(* number of calls, goroutines and events, whatever the relayer, the chain *)
(* and the venue's listing do; and the types of the whole trading side:    *)
(* the pipeline, the orders and these three.                               *)
(***************************************************************************)
EXTENDS MCTrading, EventPipelineProofs, OrdersProofs

(* SplitPosition, MergePositions, RedeemPositions                          *)

EventType == [call : PositionIDs, op : {"split", "merge", "redeem"}, success : BOOLEAN]
InBlock(c) == onChain[c] \in {"done", "reverted"}

\* A call that has gone into the background.
Working(c) == position[c].pc \in {"prepare", "submit", "poll", "wait"}

\* Only a configured path works, and only for a call of a known kind.
WorkerInv(c) == Working(c) => path \in {"relayer", "rpc"} /\ position[c].op # "none"

\* What the relayer says of a transaction follows what the chain has: a settled one
\* that has a hash is in a block, and the direct path never meets the relayer.
RelayerInv(c) ==
  /\ relayed[c].hash => onChain[c] # "absent" /\ relayed[c].state # "unknown"
  /\ relayed[c].hash /\ relayed[c].state \in {"mined", "failed"} => InBlock(c)
  /\ relayed[c].state # "unknown" => path = "relayer"

\* The event at a position of the sequence is true of its call.
EventTrue(i) ==
  LET c == events[i].call IN
  /\ position[c].pc = "answered"
  /\ events[i].op = position[c].op
  /\ events[i].success => InBlock(c)

EventsInv ==
  /\ events \in Seq(EventType)
  /\ \A i \in DOMAIN events : EventTrue(i)
  /\ \A i, j \in DOMAIN events : events[i].call = events[j].call => i = j

PositionsInv ==
  /\ PositionsTypeOK /\ EventsInv
  /\ \A c \in PositionIDs : WorkerInv(c) /\ RelayerInv(c)
-----------------------------------------------------------------------------
\* Events and their history move together.
USE DEF reportVars

\* The bound of the polls is a number.
LEMMA PollBound == MaxPolls \in Nat
  BY PositionAssumption

\* A call whose place changes keeps the types of all.
LEMMA PlaceTyped ==
  ASSUME PositionsTypeOK, NEW c \in PositionIDs,
         NEW pc \in {"idle", "answered", "refused", "prepare", "submit", "poll", "wait"},
         position' = [position EXCEPT ![c].pc = pc]
  PROVE  /\ position' \in [PositionIDs ->
              [op : {"none", "split", "merge", "redeem"}, polls : 0 .. MaxPolls,
               pc : {"idle", "answered", "refused", "prepare", "submit", "poll", "wait"}]]
         /\ position'[c].pc = pc /\ position'[c].op = position[c].op
         /\ \A d \in PositionIDs \ {c} : position'[d] = position[d]
  BY DEF PositionsTypeOK

\* Events that are there stay true while their calls rest and blocks keep what they have.
LEMMA EventsStay ==
  ASSUME PositionsInv,
         UNCHANGED <<path, reportVars>>,
         \A c \in PositionIDs : position[c].pc = "answered" => position'[c] = position[c],
         \A c \in PositionIDs : position[c].pc = "answered" /\ InBlock(c) => InBlock(c)'
  PROVE  EventsInv'
<1>1. \A i \in DOMAIN events : events[i] \in EventType /\ EventTrue(i)
  BY DEF PositionsInv, EventsInv
<1>2. ASSUME NEW i \in DOMAIN events PROVE EventTrue(i)'
  <2>1. events[i].call \in PositionIDs
    BY <1>1 DEF EventType
  <2> QED
    BY <1>1, <2>1 DEF EventTrue
<1> QED
  BY <1>2 DEF PositionsInv, EventsInv, EventTrue

\* A working call has no event yet, and the one it dispatches is true.
LEMMA TrueReport ==
  ASSUME PositionsInv, NEW c \in PositionIDs, Working(c), NEW b \in BOOLEAN,
         b => InBlock(c)', Report(c, b), UNCHANGED path,
         \A d \in PositionIDs \ {c} : InBlock(d) => InBlock(d)'
  PROVE  EventsInv' /\ WorkerInv(c)' /\ \A d \in PositionIDs \ {c} : position'[d] = position[d]
<1> DEFINE e == [call |-> c, op |-> position[c].op, success |-> b]
<1>1. position[c].op \in {"split", "merge", "redeem"} /\ path \in {"relayer", "rpc"}
  BY DEF PositionsInv, PositionsTypeOK, WorkerInv
<1>2. e \in EventType
  BY <1>1 DEF EventType
<1>3. /\ position'[c].pc = "answered" /\ position'[c].op = position[c].op
      /\ \A d \in PositionIDs \ {c} : position'[d] = position[d]
  BY PlaceTyped DEF Report, Goto, PositionsInv
<1>4. \A i \in DOMAIN events : events[i] \in EventType /\ EventTrue(i) /\ events[i].call # c
  BY DEF PositionsInv, EventsInv, EventTrue, Working
<1> SUFFICES ASSUME events' = Append(events, e) PROVE EventsInv'
  <2>1. UNCHANGED events => EventsInv'
    BY <1>3, <1>4 DEF EventsInv, EventTrue, EventType, PositionsInv
  <2>2. WorkerInv(c)'
    BY <1>3 DEF WorkerInv, Working
  <2> QED
    BY <1>3, <2>1, <2>2 DEF Report
<1>5. events' = Append(events, e) /\ events \in Seq(EventType)
  BY DEF PositionsInv, EventsInv
<1>6. /\ events' \in Seq(EventType) /\ Len(events') = Len(events) + 1
      /\ events'[Len(events) + 1] = e
      /\ DOMAIN events = 1 .. Len(events) /\ DOMAIN events' = 1 .. Len(events) + 1
      /\ \A i \in DOMAIN events : events'[i] = events[i]
  <2> HIDE DEF e
  <2> QED
    BY <1>2, <1>5
<1>7. ASSUME NEW i \in DOMAIN events' PROVE EventTrue(i)'
  <2>1. CASE i \in DOMAIN events
    <3>1. events'[i] = events[i] /\ events[i].call \in PositionIDs \ {c}
      BY <1>4, <1>6, <2>1 DEF EventType
    <3> QED
      BY <1>3, <1>4, <2>1, <3>1 DEF EventTrue
  <2>2. CASE i = Len(events) + 1
    <3>1. events'[i].call = c /\ events'[i].op = position[c].op /\ (events'[i].success <=> b)
      BY <1>6, <2>2
    <3> QED
      BY <1>1, <1>3, <3>1 DEF EventTrue
  <2> QED
    BY <1>6, <2>1, <2>2
<1>8. \A i, j \in DOMAIN events' : events'[i].call = events'[j].call => i = j
  <2>1. \A i, j \in DOMAIN events : events[i].call = events[j].call => i = j
    BY DEF PositionsInv, EventsInv
  <2> QED
    BY <1>4, <1>6, <2>1
<1> QED
  BY <1>6, <1>7, <1>8 DEF EventsInv

\* A report that leaves the relayer and the chain alone keeps the invariant.
LEMMA ReportKeeps ==
  ASSUME PositionsInv, NEW c \in PositionIDs, Working(c), NEW b \in BOOLEAN,
         b => InBlock(c), Report(c, b), UNCHANGED <<path, relayed, onChain>>
  PROVE  PositionsInv'
<1>1. /\ EventsInv' /\ WorkerInv(c)' /\ \A d \in PositionIDs \ {c} : position'[d] = position[d]
  BY TrueReport DEF InBlock
<1>2. PositionsTypeOK'
  <2>1. position' \in [PositionIDs ->
              [op : {"none", "split", "merge", "redeem"}, polls : 0 .. MaxPolls,
               pc : {"idle", "answered", "refused", "prepare", "submit", "poll", "wait"}]]
    BY PlaceTyped DEF Report, Goto, PositionsInv
  <2>2. \A i \in DOMAIN events' : events'[i] \in EventType
    BY <1>1 DEF EventsInv
  <2>3. dispatched' \subseteq PositionIDs
    BY DEF Report, PositionsInv, PositionsTypeOK
  <2> QED
    BY <2>1, <2>2, <2>3 DEF PositionsInv, PositionsTypeOK, EventType
<1>3. \A d \in PositionIDs : WorkerInv(d)' /\ RelayerInv(d)'
  BY <1>1 DEF PositionsInv, WorkerInv, Working, RelayerInv, InBlock
<1> QED
  BY <1>1, <1>2, <1>3 DEF PositionsInv

\* A call that starts, or that goes on in the background, keeps it.
LEMMA MoveInv ==
  ASSUME PositionsInv, NEW c \in PositionIDs,
         position[c].pc \notin {"answered"},
         PositionsTypeOK',
         \A d \in PositionIDs \ {c} : position'[d] = position[d],
         WorkerInv(c)',
         UNCHANGED <<path, relayed, onChain, reportVars>>
  PROVE  PositionsInv'
<1>1. EventsInv'
  BY EventsStay DEF InBlock
<1>2. \A d \in PositionIDs : WorkerInv(d)' /\ RelayerInv(d)'
  BY DEF PositionsInv, WorkerInv, Working, RelayerInv, InBlock
<1> QED
  BY <1>1, <1>2 DEF PositionsInv

\* The answer of a call: an immediate one, an error, or a goroutine.
LEMMA CallInv ==
  ASSUME PositionsInv, NEW c \in PositionIDs, NEW op \in {"split", "merge", "redeem"},
         PositionCall(c, op)
  PROVE  PositionsInv'
<1>1. PICK pc \in IF path = "paper" THEN {"answered"}
                   ELSE {"refused"} \cup IF path = "none" THEN {} ELSE {"prepare"} :
        position' = [position EXCEPT ![c].op = op, ![c].pc = pc]
  BY DEF PositionCall
<1>2. pc \in {"answered", "refused", "prepare"}
        /\ (pc = "prepare" => path \in {"relayer", "rpc"})
  BY <1>1 DEF PositionsInv, PositionsTypeOK
<1>3. PositionsTypeOK'
  <2> DEFINE R == [op : {"none", "split", "merge", "redeem"}, polls : 0 .. MaxPolls,
                   pc : {"idle", "answered", "refused", "prepare", "submit", "poll", "wait"}]
             r == [position[c] EXCEPT !.op = op, !.pc = pc]
  <2>1. position \in [PositionIDs -> R]
    BY DEF PositionsInv, PositionsTypeOK
  <2>2. r \in R
    BY <1>2, <2>1
  <2>3. position' = [position EXCEPT ![c] = r]
    BY <1>1, <2>1
  <2>4. position' \in [PositionIDs -> R]
    <3> HIDE DEF r, R
    <3> QED
      BY <2>1, <2>2, <2>3
  <2> QED
    BY <2>4 DEF PositionsInv, PositionsTypeOK, PositionCall
<1>4. WorkerInv(c)'
  BY <1>1, <1>2 DEF PositionsInv, PositionsTypeOK, WorkerInv, Working, PositionCall
<1>5. position[c].pc \notin {"answered"} /\ UNCHANGED <<path, relayed, onChain, reportVars>>
  BY DEF PositionCall, At
<1>6. \A d \in PositionIDs \ {c} : position'[d] = position[d]
  BY <1>1 DEF PositionsInv, PositionsTypeOK
<1> QED
  BY <1>3, <1>4, <1>5, <1>6, MoveInv

\* A goroutine that goes from one place to the next.
LEMMA GotoInv ==
  ASSUME PositionsInv, NEW c \in PositionIDs, Working(c),
         NEW pc \in {"submit", "poll", "wait"}, Goto(c, pc),
         UNCHANGED <<path, relayed, onChain, reportVars>>
  PROVE  PositionsInv'
<1>1. PositionsTypeOK' /\ position'[c].op = position[c].op
        /\ \A d \in PositionIDs \ {c} : position'[d] = position[d]
  BY PlaceTyped DEF Goto, PositionsInv, PositionsTypeOK
<1>2. WorkerInv(c)'
  BY <1>1 DEF PositionsInv, WorkerInv, Working
<1> QED
  BY <1>1, <1>2, MoveInv DEF Working

\* What the relayer or the chain does keeps it, while it says what the chain has.
LEMMA OutsideInv ==
  ASSUME PositionsInv, NEW c \in PositionIDs,
         RelayerSends(c) \/ RelayerReports(c) \/ Mine(c)
  PROVE  PositionsInv'
<1>1. UNCHANGED <<path, position, reportVars>>
  BY DEF RelayerSends, RelayerReports, Mine
<1>2. /\ relayed' \in [PositionIDs -> [state : {"unknown", "new", "mined", "failed"}, hash : BOOLEAN]]
      /\ onChain' \in [PositionIDs -> {"absent", "pending", "done", "reverted"}]
      /\ \A d \in PositionIDs \ {c} : relayed'[d] = relayed[d] /\ onChain'[d] = onChain[d]
  <2>1. CASE RelayerSends(c)
    <3>1. CASE relayed' = [relayed EXCEPT ![c].hash = TRUE] /\ onChain' = [onChain EXCEPT ![c] = "pending"]
      BY <3>1, ZenonT(60) DEF PositionsInv, PositionsTypeOK
    <3>2. CASE relayed' = [relayed EXCEPT ![c].state = "failed"] /\ UNCHANGED onChain
      BY <3>2 DEF PositionsInv, PositionsTypeOK
    <3> QED
      BY <2>1, <3>1, <3>2 DEF RelayerSends
  <2>2. CASE RelayerReports(c)
    BY <2>2 DEF RelayerReports, PositionsInv, PositionsTypeOK
  <2>3. CASE Mine(c)
    BY <2>3 DEF Mine, PositionsInv, PositionsTypeOK
  <2> QED
    BY <2>1, <2>2, <2>3
<1>3. PositionsTypeOK'
  BY <1>1, <1>2 DEF PositionsInv, PositionsTypeOK
<1>4. InBlock(c) => InBlock(c)'
  BY DEF RelayerSends, RelayerReports, Mine, InBlock, PositionsInv, PositionsTypeOK
<1>5. EventsInv'
  <2>1. \A d \in PositionIDs : InBlock(d) => InBlock(d)'
    BY <1>2, <1>4 DEF InBlock
  <2>2. \A d \in PositionIDs : position'[d] = position[d]
    BY <1>1
  <2> QED
    BY <1>1, <2>1, <2>2, EventsStay
<1>6. RelayerInv(c)'
  <2>1. CASE RelayerSends(c)
    <3>1. CASE relayed' = [relayed EXCEPT ![c].hash = TRUE] /\ onChain' = [onChain EXCEPT ![c] = "pending"]
      BY <1>1, <2>1, <3>1 DEF RelayerSends, InBlock, PositionsInv, PositionsTypeOK, RelayerInv
    <3>2. CASE relayed' = [relayed EXCEPT ![c].state = "failed"] /\ UNCHANGED onChain
      BY <1>1, <2>1, <3>2 DEF RelayerSends, InBlock, PositionsInv, PositionsTypeOK, RelayerInv
    <3> QED
      BY <2>1, <3>1, <3>2 DEF RelayerSends
  <2>2. CASE RelayerReports(c)
    BY <1>1, <2>2 DEF RelayerReports, InBlock, PositionsInv, PositionsTypeOK, RelayerInv
  <2>3. CASE Mine(c)
    BY <1>1, <2>3 DEF Mine, InBlock, PositionsInv, PositionsTypeOK, RelayerInv
  <2> QED
    BY <2>1, <2>2, <2>3
<1>7. \A d \in PositionIDs : WorkerInv(d)' /\ RelayerInv(d)'
  BY <1>1, <1>2, <1>6 DEF PositionsInv, WorkerInv, Working, RelayerInv, InBlock
<1> QED
  BY <1>3, <1>5, <1>7 DEF PositionsInv

\* What a submission adds at the relayer or on the chain, as long as the call still
\* works, keeps it; the goroutine itself has not moved yet.
LEMMA SubmittedTrue ==
  ASSUME PositionsInv, NEW c \in PositionIDs, Working(c),
         \/ path = "relayer" /\ relayed' = [relayed EXCEPT ![c].state = "new"] /\ UNCHANGED onChain
         \/ path = "rpc" /\ onChain' = [onChain EXCEPT ![c] = "pending"] /\ UNCHANGED relayed,
         UNCHANGED path
  PROVE  /\ relayed' \in [PositionIDs -> [state : {"unknown", "new", "mined", "failed"}, hash : BOOLEAN]]
         /\ onChain' \in [PositionIDs -> {"absent", "pending", "done", "reverted"}]
         /\ \A d \in PositionIDs : RelayerInv(d)'
         /\ \A d \in PositionIDs \ {c} : onChain'[d] = onChain[d]
<1>1. /\ relayed \in [PositionIDs -> [state : {"unknown", "new", "mined", "failed"}, hash : BOOLEAN]]
      /\ onChain \in [PositionIDs -> {"absent", "pending", "done", "reverted"}]
      /\ \A d \in PositionIDs : RelayerInv(d)
  BY DEF PositionsInv, PositionsTypeOK
<1>2. CASE path = "relayer" /\ relayed' = [relayed EXCEPT ![c].state = "new"] /\ UNCHANGED onChain
  <2>1. /\ relayed' \in [PositionIDs -> [state : {"unknown", "new", "mined", "failed"}, hash : BOOLEAN]]
        /\ relayed'[c].state = "new" /\ relayed'[c].hash = relayed[c].hash
        /\ \A d \in PositionIDs \ {c} : relayed'[d] = relayed[d]
    BY <1>1, <1>2
  <2>2. \A d \in PositionIDs : RelayerInv(d)'
    BY <1>1, <1>2, <2>1 DEF RelayerInv, InBlock
  <2> QED
    BY <1>1, <1>2, <2>1, <2>2
<1>3. CASE path = "rpc" /\ onChain' = [onChain EXCEPT ![c] = "pending"] /\ UNCHANGED relayed
  <2>1. /\ onChain' \in [PositionIDs -> {"absent", "pending", "done", "reverted"}]
        /\ onChain'[c] = "pending" /\ \A d \in PositionIDs \ {c} : onChain'[d] = onChain[d]
    BY <1>1, <1>3
  <2>2. \A d \in PositionIDs : RelayerInv(d)'
    BY <1>1, <1>3, <2>1 DEF RelayerInv, InBlock
  <2> QED
    BY <1>1, <1>3, <2>1, <2>2
<1> QED
  BY <1>2, <1>3

\* SubmitRelayed and SubmitDirect, which move the goroutine in the same step.
LEMMA SubmitInv ==
  ASSUME PositionsInv, NEW c \in PositionIDs,
         SubmitRelayed(c) \/ SubmitDirect(c),
         ~UNCHANGED <<relayed, onChain>>
  PROVE  PositionsInv'
<1>1. Working(c) /\ UNCHANGED path
  BY DEF SubmitRelayed, SubmitDirect, At, Working
<1>2. \/ path = "relayer" /\ relayed' = [relayed EXCEPT ![c].state = "new"] /\ UNCHANGED onChain
      \/ path = "rpc" /\ onChain' = [onChain EXCEPT ![c] = "pending"] /\ UNCHANGED relayed
  BY DEF SubmitRelayed, SubmitDirect
<1>3. /\ relayed' \in [PositionIDs -> [state : {"unknown", "new", "mined", "failed"}, hash : BOOLEAN]]
      /\ onChain' \in [PositionIDs -> {"absent", "pending", "done", "reverted"}]
      /\ \A d \in PositionIDs : RelayerInv(d)'
      /\ \A d \in PositionIDs \ {c} : onChain'[d] = onChain[d]
  BY <1>1, <1>2, SubmittedTrue
<1>4. /\ EventsInv' /\ WorkerInv(c)'
      /\ \A d \in PositionIDs \ {c} : position'[d] = position[d]
      /\ position' \in [PositionIDs ->
              [op : {"none", "split", "merge", "redeem"}, polls : 0 .. MaxPolls,
               pc : {"idle", "answered", "refused", "prepare", "submit", "poll", "wait"}]]
  <2>1. CASE Report(c, FALSE)
    <3>1. \A d \in PositionIDs \ {c} : InBlock(d) => InBlock(d)'
      BY <1>3 DEF InBlock
    <3>2. position' = [position EXCEPT ![c].pc = "answered"]
      BY <2>1 DEF Report, Goto
    <3> QED
      BY <1>1, <2>1, <3>1, <3>2, TrueReport, PlaceTyped DEF PositionsInv
  <2>2. ASSUME NEW pc \in {"poll", "wait"}, Goto(c, pc), UNCHANGED reportVars
        PROVE  <1>4!:
    <3>1. position'[c].op = position[c].op
            /\ \A d \in PositionIDs \ {c} : position'[d] = position[d]
      BY <2>2, PlaceTyped DEF PositionsInv, Goto
    <3>2. EventsInv'
      <4>1. \A d \in PositionIDs : position[d].pc = "answered" => position'[d] = position[d]
        BY <1>1, <3>1 DEF Working
      <4>2. \A d \in PositionIDs : position[d].pc = "answered" /\ InBlock(d) => InBlock(d)'
        BY <1>1, <1>3 DEF Working, InBlock
      <4> QED
        BY <1>1, <2>2, <4>1, <4>2, EventsStay
    <3>3. WorkerInv(c)'
      BY <1>1, <3>1 DEF WorkerInv, PositionsInv, Working
    <3> QED
      BY <2>2, <3>1, <3>2, <3>3, PlaceTyped DEF PositionsInv, Goto
  <2> QED
    BY <2>1, <2>2 DEF SubmitRelayed, SubmitDirect, Proceed
<1>5. PositionsTypeOK'
  <2>1. \A i \in DOMAIN events' : events'[i] \in EventType
    BY <1>4 DEF EventsInv
  <2>2. dispatched' \subseteq PositionIDs
    BY DEF SubmitRelayed, SubmitDirect, Proceed, Report, PositionsInv, PositionsTypeOK
  <2> QED
    BY <1>1, <1>3, <1>4, <2>1, <2>2 DEF PositionsInv, PositionsTypeOK, EventType
<1>6. \A d \in PositionIDs : WorkerInv(d)'
  BY <1>1, <1>4 DEF PositionsInv, WorkerInv, Working
<1> QED
  BY <1>3, <1>4, <1>5, <1>6 DEF PositionsInv

\* Every step of a goroutine keeps the invariant.
LEMMA WorksInv ==
  ASSUME PositionsInv, NEW c \in PositionIDs, Works(c) \/ WaitCanceled(c)
  PROVE  PositionsInv'
<1>1. CASE RelayPayload(c) \/ NewCTFClient(c)
  BY <1>1, GotoInv, ReportKeeps DEF RelayPayload, NewCTFClient, Proceed, At, Working
<1>2. CASE (SubmitRelayed(c) \/ SubmitDirect(c)) /\ ~UNCHANGED <<relayed, onChain>>
  BY <1>2, SubmitInv
<1>3. CASE (SubmitRelayed(c) \/ SubmitDirect(c)) /\ UNCHANGED <<relayed, onChain>>
  BY <1>3, GotoInv, ReportKeeps DEF SubmitRelayed, SubmitDirect, Proceed, At, Working
<1>4. CASE Poll(c)
  <2>1. Working(c) /\ UNCHANGED <<path, relayed, onChain>>
    BY <1>4 DEF Poll, At, Working
  <2>2. CASE position' = [position EXCEPT ![c].polls = @ + 1] /\ UNCHANGED reportVars
    <3>1. PositionsTypeOK'
      <4> DEFINE R == [op : {"none", "split", "merge", "redeem"}, polls : 0 .. MaxPolls,
                       pc : {"idle", "answered", "refused", "prepare", "submit", "poll", "wait"}]
                 r == [position[c] EXCEPT !.polls = @ + 1]
      <4>1. position \in [PositionIDs -> R]
        BY DEF PositionsInv, PositionsTypeOK
      <4>2. r \in R
        BY <1>4, <4>1, PollBound DEF Poll
      <4>3. position' = [position EXCEPT ![c] = r]
        BY <2>2, <4>1
      <4>4. position' \in [PositionIDs -> R]
        <5> HIDE DEF r, R
        <5> QED
          BY <4>1, <4>2, <4>3
      <4> QED
        BY <2>1, <2>2, <4>4 DEF PositionsInv, PositionsTypeOK
    <3>2. position'[c].pc = position[c].pc /\ position'[c].op = position[c].op
            /\ \A d \in PositionIDs \ {c} : position'[d] = position[d]
      BY <2>2 DEF PositionsInv, PositionsTypeOK
    <3> QED
      BY <2>1, <2>2, <3>1, <3>2, MoveInv DEF Working, WorkerInv, PositionsInv
  <2>3. CASE Report(c, FALSE)
    BY <2>1, <2>3, ReportKeeps
  <2>4. CASE Settled(c) /\ Report(c, relayed[c].hash)
    <3>1. relayed[c].hash \in BOOLEAN /\ (relayed[c].hash => InBlock(c))
      BY <2>4 DEF Settled, PositionsInv, PositionsTypeOK, RelayerInv
    <3> QED
      BY <2>1, <2>4, <3>1, ReportKeeps
  <2> QED
    BY <1>4, <2>2, <2>3, <2>4 DEF Poll
<1>5. CASE PollTimeout(c)
  BY <1>5, ReportKeeps DEF PollTimeout, At, Working
<1>6. CASE WaitMined(c)
  BY <1>6, ReportKeeps DEF WaitMined, At, Working, InBlock
<1>7. CASE WaitCanceled(c)
  BY <1>7, ReportKeeps DEF WaitCanceled, At, Working
<1> QED
  BY <1>1, <1>2, <1>3, <1>4, <1>5, <1>6, <1>7
  DEF Works, SplitPositionViaRelayer, MergePositionsViaRelayer, RedeemPositionsViaRelayer,
      submitProxyCall, CTFSplitPosition, CTFMergePositions, CTFRedeemPositions, Transacts

\* The initial states satisfy the invariant.
LEMMA PositionsInitInv == PositionsInit => PositionsInv
<1> SUFFICES ASSUME PositionsInit PROVE PositionsInv
  OBVIOUS
<1>1. PositionsTypeOK
  BY PollBound DEF PositionsInit, PositionsTypeOK, Idle, Unsent
<1>2. EventsInv
  BY DEF PositionsInit, EventsInv, EventTrue
<1>3. \A c \in PositionIDs : WorkerInv(c) /\ RelayerInv(c)
  BY DEF PositionsInit, WorkerInv, Working, RelayerInv, Idle, Unsent
<1> QED
  BY <1>1, <1>2, <1>3 DEF PositionsInv

\* Every step keeps it.
LEMMA PositionsStep == PositionsInv /\ [PositionsNext]_positionVars => PositionsInv'
<1>1. ASSUME PositionsInv, UNCHANGED positionVars PROVE PositionsInv'
  BY <1>1
  DEF positionVars, PositionsInv, PositionsTypeOK, EventsInv, EventTrue, WorkerInv, Working,
      RelayerInv, InBlock
<1>2. ASSUME PositionsInv, NEW c \in PositionIDs,
             SplitPosition(c) \/ MergePositions(c) \/ RedeemPositions(c)
      PROVE  PositionsInv'
  BY <1>2, CallInv DEF SplitPosition, MergePositions, RedeemPositions
<1> QED
  BY <1>1, <1>2, WorksInv, OutsideInv DEF PositionsNext

\* The invariant holds in every reachable state.
LEMMA PositionsInvariant == PositionsSpec => []PositionsInv
  BY PositionsInitInv, PositionsStep, PTL DEF PositionsSpec

\* A call of SplitPosition, MergePositions or RedeemPositions has one event at most,
\* of its own kind, none when it answered with an error, and one that reports success
\* only when its transaction is in a block.
THEOREM EventsAreTrue == PositionsSpec => []EventsTruthful
<1>1. PositionsInv => EventsTruthful
  BY DEF PositionsInv, EventsInv, EventTrue, EventsTruthful, At, InBlock
<1> QED
  BY <1>1, PositionsInvariant, PTL

HIDE DEF reportVars
-----------------------------------------------------------------------------
(* GetSeries and its cache                                                 *)

\* A hit comes before its entry expires, and an entry expires when its TTL is over.
Timely(r) == getting[r].pc = "hit" => getting[r].servedAt <= getting[r].storedAt + TTL
ExpiresInTime == cache.version # 0 => cache.expiresAt = cache.storedAt + TTL

\* An answer that no invalidation has overtaken is not older than the last of them.
NotBefore(r) ==
  getting[r].pc = "store" /\ r \notin overtaken => getting[r].version >= invalidated
EntryNotBefore == cache.version # 0 /\ ~lateStore => cache.version >= invalidated

CacheInv ==
  /\ CacheTypeOK
  /\ version >= invalidated
  /\ ExpiresInTime /\ EntryNotBefore
  /\ \A r \in Readers : Timely(r) /\ NotBefore(r)
-----------------------------------------------------------------------------
\* The constants that the arithmetic needs.
LEMMA SeriesConstants == TTL \in Nat /\ MaxTime \in Nat
  BY SeriesAssumption

\* The empty cache and the idle goroutines satisfy the invariant.
LEMMA CacheInitInv == CacheInit => CacheInv
<1> SUFFICES ASSUME CacheInit PROVE CacheInv
  OBVIOUS
<1>1. CacheTypeOK
  <2>1. lateStore \in BOOLEAN
    BY DEF CacheInit
  <2>2. clock \in 0 .. MaxTime /\ version \in Nat /\ invalidated \in Nat /\ overtaken \subseteq Readers
    BY SeriesConstants DEF CacheInit
  <2>3. cache \in [version : Nat, storedAt : Nat, expiresAt : Nat]
    BY DEF CacheInit, NoEntry
  <2>4. getting \in [Readers -> [pc : {"idle", "fetch", "store", "hit"}, version : Nat,
                                 storedAt : Nat, servedAt : Nat]]
    BY DEF CacheInit, NotGetting
  <2> QED
    BY <2>1, <2>2, <2>3, <2>4 DEF CacheTypeOK
<1>2. ExpiresInTime /\ EntryNotBefore /\ \A r \in Readers : Timely(r) /\ NotBefore(r)
  BY DEF CacheInit, ExpiresInTime, EntryNotBefore, Timely, NotBefore, NoEntry, NotGetting
<1> QED
  BY <1>1, <1>2 DEF CacheInit, CacheInv

\* A lookup that hits serves an entry that has not expired; one that misses empties it.
LEMMA LookupInv ==
  ASSUME CacheInv, NEW r \in Readers, Lookup(r)
  PROVE  CacheInv'
<1> USE SeriesConstants DEF CacheInv, CacheTypeOK
<1>1. CASE Found
  <2>1. /\ getting' = [getting EXCEPT ![r] = [pc |-> "hit", version |-> cache.version,
                           storedAt |-> cache.storedAt, servedAt |-> clock]]
        /\ UNCHANGED <<cache, lateStore, clock, version, invalidated, overtaken>>
    BY <1>1 DEF Lookup
  <2>2. clock <= cache.storedAt + TTL
    BY <1>1 DEF Found, ExpiresInTime
  <2>3. ExpiresInTime' /\ EntryNotBefore'
    BY <2>1 DEF ExpiresInTime, EntryNotBefore
  <2>4. \A q \in Readers : Timely(q)' /\ NotBefore(q)'
    BY <2>1, <2>2 DEF Timely, NotBefore
  <2> QED
    BY <2>1, <2>3, <2>4
<1>2. CASE ~Found
  <2>1. /\ getting' = [getting EXCEPT ![r] = [pc |-> "fetch", version |-> 0,
                           storedAt |-> 0, servedAt |-> 0]]
        /\ cache' = [version |-> 0, storedAt |-> 0, expiresAt |-> 0]
        /\ lateStore' = FALSE
        /\ UNCHANGED <<clock, version, invalidated, overtaken>>
    BY <1>2 DEF Lookup, NotGetting, NoEntry
  <2>2. ExpiresInTime' /\ EntryNotBefore'
    BY <2>1 DEF ExpiresInTime, EntryNotBefore
  <2>3. \A q \in Readers : Timely(q)' /\ NotBefore(q)'
    BY <2>1 DEF Timely, NotBefore
  <2> QED
    BY <2>1, <2>2, <2>3
<1> QED
  BY <1>1, <1>2

\* A fetch brings the version of its moment, or nothing.
LEMMA FetchInv ==
  ASSUME CacheInv, NEW r \in Readers, Fetch(r)
  PROVE  CacheInv'
<1> USE SeriesConstants DEF CacheInv, CacheTypeOK
<1>1. UNCHANGED <<clock, version, cache, invalidated, lateStore>>
  BY DEF Fetch, storeVars
<1>2. ExpiresInTime' /\ EntryNotBefore'
  BY <1>1 DEF ExpiresInTime, EntryNotBefore
<1>3. CASE /\ getting' = [getting EXCEPT ![r] = [pc |-> "store", version |-> version,
                         storedAt |-> 0, servedAt |-> 0]]
           /\ UNCHANGED overtaken
  <2>1. \A q \in Readers : Timely(q)' /\ NotBefore(q)'
    BY <1>1, <1>3 DEF Timely, NotBefore
  <2> QED
    BY <1>1, <1>2, <1>3, <2>1
<1>4. CASE getting' = [getting EXCEPT ![r] = NotGetting] /\ overtaken' = overtaken \ {r}
  <2>1. \A q \in Readers : Timely(q)' /\ NotBefore(q)'
    BY <1>1, <1>4 DEF Timely, NotBefore, NotGetting
  <2> QED
    BY <1>1, <1>2, <1>4, <2>1 DEF NotGetting
<1> QED
  BY <1>3, <1>4 DEF Fetch

\* A flag set to a membership is a Boolean with that value.
LEMMA FlagOf ==
  ASSUME NEW flag, NEW x, NEW S, flag = (x \in S)
  PROVE  flag \in BOOLEAN /\ (~flag => x \notin S)
<1>1. CASE x \in S
  BY <1>1
<1>2. CASE x \notin S
  BY <1>2
<1> QED
  BY <1>1, <1>2

\* Storing sets the expiry from the clock.
LEMMA StoreInv ==
  ASSUME CacheInv, NEW r \in Readers, Store(r)
  PROVE  CacheInv'
<1> USE SeriesConstants DEF CacheInv, CacheTypeOK
<1>1. /\ getting[r].pc = "store"
      /\ cache' = [version |-> getting[r].version, storedAt |-> clock,
                   expiresAt |-> clock + TTL]
      /\ lateStore' = (r \in overtaken) /\ overtaken' = overtaken \ {r}
      /\ getting' = [getting EXCEPT ![r] = [pc |-> "idle", version |-> 0,
                                            storedAt |-> 0, servedAt |-> 0]]
      /\ UNCHANGED <<clock, version, invalidated>>
  BY DEF Store, NotGetting
<1>3. r \notin overtaken => getting[r].version >= invalidated
  BY <1>1 DEF NotBefore
<1>0. lateStore' \in BOOLEAN /\ (~lateStore' => r \notin overtaken)
  <2>1. lateStore' = (r \in overtaken)
    BY <1>1
  <2> HIDE DEF CacheInv, CacheTypeOK
  <2> QED
    BY <2>1, FlagOf, Zenon
<1>4. ExpiresInTime' /\ EntryNotBefore'
  <2>1. ExpiresInTime'
    BY <1>1 DEF ExpiresInTime
  <2>2. cache'.version = getting[r].version /\ invalidated' = invalidated
    BY <1>1
  <2> QED
    BY <1>0, <1>3, <2>1, <2>2 DEF EntryNotBefore
<1>5. \A q \in Readers : Timely(q)' /\ NotBefore(q)'
  BY <1>1 DEF Timely, NotBefore
<1>6. CacheTypeOK'
  <2>1. getting' \in [Readers -> [pc : {"idle", "fetch", "store", "hit"}, version : Nat,
                                  storedAt : Nat, servedAt : Nat]]
    BY <1>1
  <2>2. cache' \in [version : Nat, storedAt : Nat, expiresAt : Nat]
    BY <1>1
  <2> QED
    BY <1>0, <1>1, <2>1, <2>2
<1> QED
  BY <1>1, <1>4, <1>5, <1>6

\* The steps of a goroutine keep the invariant.
LEMMA GetSeriesInv ==
  ASSUME CacheInv, NEW r \in Readers, GetSeries(r)
  PROVE  CacheInv'
<1>1. CASE HitReturns(r)
  BY <1>1, SeriesConstants
  DEF HitReturns, CacheInv, CacheTypeOK, ExpiresInTime, EntryNotBefore, Timely, NotBefore, NotGetting,
      storeVars
<1> QED
  BY <1>1, LookupInv, FetchInv, StoreInv DEF GetSeries

\* An invalidation empties the entry, and overtakes every fetch under way.
LEMMA InvalidateInv ==
  ASSUME CacheInv, InvalidateSeries
  PROVE  CacheInv'
<1> USE SeriesConstants DEF CacheInv, CacheTypeOK
<1>1. /\ cache' = [version |-> 0, storedAt |-> 0, expiresAt |-> 0]
      /\ lateStore' = FALSE
      /\ invalidated' = version
      /\ overtaken' = {r \in Readers : getting[r].pc \in {"fetch", "store"}}
      /\ UNCHANGED <<clock, version, getting>>
  BY DEF InvalidateSeries, DeletedEntry, NoEntry
<1>2. ExpiresInTime' /\ EntryNotBefore'
  BY <1>1 DEF ExpiresInTime, EntryNotBefore
<1>3. \A q \in Readers : Timely(q)' /\ NotBefore(q)'
  BY <1>1 DEF Timely, NotBefore
<1>4. lateStore' \in BOOLEAN
  <2>1. lateStore' = FALSE
    BY <1>1
  <2> QED
    BY <2>1, Zenon
<1> QED
  BY <1>1, <1>2, <1>3, <1>4

\* The venue's changes and the clock keep it.
LEMMA WorldInv ==
  ASSUME CacheInv, SeriesChanges \/ ClockTicks
  PROVE  CacheInv'
<1> USE SeriesConstants DEF CacheInv, CacheTypeOK, ExpiresInTime, EntryNotBefore
<1>1. CASE SeriesChanges
  BY <1>1 DEF SeriesChanges, Timely, NotBefore, storeVars
<1>2. CASE ClockTicks
  <2>1. \A q \in Readers : Timely(q)' /\ NotBefore(q)'
    BY <1>2 DEF ClockTicks, Timely, NotBefore, storeVars
  <2> QED
    BY <1>2, <2>1 DEF ClockTicks, storeVars
<1> QED
  BY <1>1, <1>2

\* Every step keeps the invariant.
LEMMA CacheStep == CacheInv /\ [CacheNext]_cacheVars => CacheInv'
<1>1. ASSUME CacheInv, UNCHANGED cacheVars PROVE CacheInv'
  <2>1. CacheTypeOK' /\ ExpiresInTime' /\ EntryNotBefore'
    BY <1>1 DEF cacheVars, storeVars, CacheInv, CacheTypeOK, ExpiresInTime, EntryNotBefore
  <2>2. \A r \in Readers : Timely(r)' /\ NotBefore(r)'
    BY <1>1 DEF cacheVars, storeVars, CacheInv, Timely, NotBefore
  <2> QED
    BY <1>1, <2>1, <2>2 DEF cacheVars, storeVars, CacheInv
<1> QED
  BY <1>1, GetSeriesInv, InvalidateInv, WorldInv DEF CacheNext

\* The invariant holds in every reachable state.
LEMMA CacheInvariant == CacheSpec => []CacheInv
  BY CacheInitInv, CacheStep, PTL DEF CacheSpec

\* What GetSeries answers from its cache was stored no longer than the TTL ago, and the
\* cache never holds what was there before the last InvalidateSeries, except when a
\* fetch that was under way at that moment has stored its answer since.
THEOREM AnswersAreFresh == CacheSpec => []CacheFresh
<1>1. CacheInv => CacheFresh
  BY DEF CacheInv, CacheFresh, Timely, EntryNotBefore
<1> QED
  BY <1>1, CacheInvariant, PTL

-----------------------------------------------------------------------------
(* The pages of ListSeriesEvents                                           *)

\* A sequence of events, none of them twice.
Distinct(s) == \A i, j \in DOMAIN s : s[i] = s[j] => i = j

\* The events that pages still to come will hold, unless the listing loses some.
Rest == {listing[i] : i \in {j \in DOMAIN listing : j > pager.offset}}

PagerOK ==
  /\ listing \in Seq(Nat) /\ Distinct(listing)
  /\ left \subseteq Nat /\ \E n \in Nat : Ever = 1 .. n
  /\ closed \subseteq Ever
  /\ query \in [offset : Nat, openOnly : BOOLEAN, asked : SUBSET Nat, limit : Nat]
  /\ pager \in [pc : {"page", "full", "short", "closed", "error"}, offset : Nat, found : Seq(Nat)]

\* What was found is no more than the limit and no event twice; what was asked for is
\* found or still to come; and a call that ended at a short page has found it all.
FoundInv ==
  /\ Len(pager.found) <= query.limit /\ Members(pager.found) \subseteq Ever
  /\ Distinct(pager.found)
  /\ left = {} => query.asked \subseteq Members(pager.found) \cup Rest
  /\ pager.pc = "short" /\ left = {} => query.asked \subseteq Members(pager.found)
  /\ pager.pc = "full" => Len(pager.found) = query.limit

PagesInv == PagerOK /\ FoundInv
-----------------------------------------------------------------------------
\* The bounds of a call.
LEMMA PageConstants ==
  /\ MaxEvents \in Nat /\ Offsets \subseteq Nat /\ Limits \subseteq Nat
  /\ DefaultLimit \in Nat \ {0} /\ MaxLimit \in Nat \ {0} /\ PageSize \in Nat \ {0}
  BY SeriesAssumption

\* How many members of a set of numbers are smaller than one of them.
Rank(S, i) == Cardinality({j \in S : j < i})

\* The members of a finite set of numbers have the ranks from 0 on, each once.
LEMMA RanksOfSet ==
  ASSUME NEW S \in SUBSET Nat, IsFiniteSet(S)
  PROVE  /\ Cardinality(S) \in Nat
         /\ \A i, j \in S : Rank(S, i) = Rank(S, j) => i = j
         /\ \A i \in S : Rank(S, i) \in Nat /\ Rank(S, i) + 1 \in 1 .. Cardinality(S)
         /\ \A k \in 1 .. Cardinality(S) : \E i \in S : Rank(S, i) = k - 1
<1>0. \A i \in S : i \in Nat
  OBVIOUS
<1>1. PICK n \in Nat : n = Cardinality(S)
  BY FS_CardinalityType
<1>2. \A i : IsFiniteSet({j \in S : j < i}) /\ Rank(S, i) \in Nat
  BY FS_Subset, FS_CardinalityType DEF Rank
<1>3. ASSUME NEW i \in S, NEW j \in S, i < j
      PROVE  Rank(S, i) + 1 <= Rank(S, j)
  <2> DEFINE L == {k \in S : k < i}
  <2>1. IsFiniteSet(L \cup {i}) /\ Cardinality(L \cup {i}) = Rank(S, i) + 1
    <3>1. i \notin L
      OBVIOUS
    <3> QED
      BY <1>2, <3>1, FS_AddElement DEF Rank
  <2>2. L \cup {i} \in SUBSET {k \in S : k < j}
    <3> SUFFICES ASSUME NEW k \in L \cup {i} PROVE k \in S /\ k < j
      OBVIOUS
    <3>1. k \in S /\ k <= i
      BY <1>0
    <3> QED
      BY <1>0, <1>3, <3>1
  <2>3. Cardinality(L \cup {i}) <= Cardinality({k \in S : k < j})
    BY <1>2, <2>2, FS_Subset
  <2> QED
    BY <2>1, <2>3 DEF Rank
<1>4. \A i, j \in S : Rank(S, i) = Rank(S, j) => i = j
  <2> SUFFICES ASSUME NEW i \in S, NEW j \in S, i # j PROVE Rank(S, i) # Rank(S, j)
    OBVIOUS
  <2>1. i < j \/ j < i
    BY <1>0
  <2>2. Rank(S, i) \in Nat /\ Rank(S, j) \in Nat
    BY <1>2
  <2>3. i < j => Rank(S, i) + 1 <= Rank(S, j)
    BY <1>3
  <2>4. j < i => Rank(S, j) + 1 <= Rank(S, i)
    BY <1>3
  <2> QED
    BY <2>1, <2>2, <2>3, <2>4
<1>5. \A i \in S : Rank(S, i) \in 0 .. n - 1
  <2> SUFFICES ASSUME NEW i \in S PROVE Rank(S, i) \in 0 .. n - 1
    OBVIOUS
  <2>1. IsFiniteSet(S \ {i}) /\ Cardinality(S \ {i}) = n - 1
    BY <1>1, FS_RemoveElement
  <2>2. {j \in S : j < i} \in SUBSET (S \ {i})
    OBVIOUS
  <2>3. Rank(S, i) <= n - 1
    BY <2>1, <2>2, FS_Subset DEF Rank
  <2>4. Rank(S, i) \in Nat
    BY <1>2
  <2> QED
    BY <1>1, <2>3, <2>4
<1>6. IsFiniteSet(0 .. n - 1) /\ Cardinality(0 .. n - 1) = n
  <2>1. n - 1 \in Int /\ (0 > n - 1 => n = 0) /\ (n - 1) - 0 + 1 = n
    BY <1>1
  <2> QED
    BY <2>1, FS_Interval
<1> DEFINE rank == [i \in S |-> Rank(S, i)]
<1>7. rank \in Injection(S, 0 .. n - 1)
  BY <1>4, <1>5 DEF Injection, IsInjective
<1>8. rank \in Surjection(S, 0 .. n - 1)
  BY <1>1, <1>6, <1>7, FS_Injection
<1>9. ASSUME NEW k \in 1 .. n PROVE \E i \in S : Rank(S, i) = k - 1
  <2>1. k - 1 \in 0 .. n - 1
    BY <1>1
  <2> QED
    BY <1>8, <2>1 DEF Surjection
<1>10. \A i \in S : Rank(S, i) \in Nat /\ Rank(S, i) + 1 \in 1 .. n
  BY <1>1, <1>5
<1> QED
  BY <1>1, <1>4, <1>9, <1>10

\* A page without its duplicates has the events that were not found yet, each once.
LEMMA NewOnesOfPage ==
  ASSUME NEW page \in Seq(Nat), Distinct(page)
  PROVE  /\ NewOnes(page) \in Seq(Nat) /\ Len(NewOnes(page)) <= Len(page)
         /\ Distinct(NewOnes(page))
         /\ Members(NewOnes(page)) = Members(page) \ Members(pager.found)
<1>1. PICK new : new = NewPlaces(page)
  OBVIOUS
<1>2. /\ new = {i \in DOMAIN page : page[i] \notin Members(pager.found)}
      /\ Len(page) \in Nat /\ DOMAIN page = 1 .. Len(page)
  BY <1>1, LenProperties DEF NewPlaces
<1>3. /\ new \in SUBSET Nat /\ IsFiniteSet(new) /\ Cardinality(new) <= Len(page)
  <2>1. IsFiniteSet(1 .. Len(page)) /\ Cardinality(1 .. Len(page)) = Len(page)
    BY <1>2, FS_Interval, SMTT(30)
  <2>2. new \in SUBSET (1 .. Len(page))
    BY <1>2
  <2>3. IsFiniteSet(new) /\ Cardinality(new) <= Len(page)
    BY <2>1, <2>2, FS_Subset
  <2> QED
    BY <2>2, <2>3
<1>4. PICK n : n = Cardinality(new)
  OBVIOUS
<1> DEFINE At_(k) == CHOOSE i \in new : Rank(new, i) = k - 1
<1>5. /\ n \in Nat
      /\ \A i, j \in new : Rank(new, i) = Rank(new, j) => i = j
      /\ \A i \in new : Rank(new, i) \in Nat /\ Rank(new, i) + 1 \in 1 .. n
      /\ \A k \in 1 .. n : \E i \in new : Rank(new, i) = k - 1
  BY <1>3, <1>4, RanksOfSet
<1>6. \A k \in 1 .. n : At_(k) \in new /\ Rank(new, At_(k)) = k - 1
  BY <1>5
<1>7. NewOnes(page) = [k \in 1 .. n |-> page[At_(k)]]
  BY <1>1, <1>4 DEF NewOnes, Rank
<1> HIDE DEF At_
<1>8. \A k \in 1 .. n : page[At_(k)] \in Nat
  BY <1>2, <1>6, ElementOfSeq
<1>9. /\ NewOnes(page) \in Seq(Nat) /\ Len(NewOnes(page)) = n
      /\ DOMAIN NewOnes(page) = 1 .. n /\ \A k \in 1 .. n : NewOnes(page)[k] = page[At_(k)]
  <2>1. NewOnes(page) \in [1 .. n -> Nat]
    BY <1>7, <1>8
  <2>2. NewOnes(page) \in Seq(Nat)
    BY <1>5, <2>1, IsASeq
  <2> QED
    BY <1>5, <1>7, <2>1, <2>2, LenProperties
<1>10. Distinct(NewOnes(page))
  <2> SUFFICES ASSUME NEW k \in 1 .. n, NEW m \in 1 .. n, page[At_(k)] = page[At_(m)]
               PROVE  k = m
    BY <1>9 DEF Distinct
  <2>1. At_(k) = At_(m)
    BY <1>2, <1>6 DEF Distinct
  <2>2. k - 1 = m - 1
    BY <1>6, <2>1
  <2> QED
    BY <1>5, <2>2
<1>11. Members(NewOnes(page)) \subseteq Members(page) \ Members(pager.found)
  BY <1>2, <1>6, <1>9 DEF Members
<1>12. Members(page) \ Members(pager.found) \subseteq Members(NewOnes(page))
  <2> SUFFICES ASSUME NEW i \in DOMAIN page, page[i] \notin Members(pager.found)
               PROVE  page[i] \in Members(NewOnes(page))
    BY DEF Members
  <2>1. i \in new
    BY <1>2
  <2>2. PICK k \in 1 .. n : k = Rank(new, i) + 1
    BY <1>5, <2>1
  <2>3. k - 1 = Rank(new, i)
    BY <1>5, <2>1, <2>2
  <2>4. At_(k) = i
    BY <1>5, <1>6, <2>1, <2>3
  <2> QED
    BY <1>9, <2>4 DEF Members
<1> QED
  BY <1>3, <1>4, <1>9, <1>10, <1>11, <1>12

\* Two sequences in one: their events, none twice if they have none in common.
LEMMA TwoInOne ==
  ASSUME NEW S, NEW a \in Seq(S), NEW b \in Seq(S)
  PROVE  /\ a \o b \in Seq(S) /\ Len(a \o b) = Len(a) + Len(b)
         /\ Members(a \o b) = Members(a) \cup Members(b)
         /\ Distinct(a) /\ Distinct(b) /\ Members(a) \cap Members(b) = {} => Distinct(a \o b)
<1>1. /\ Len(a) \in Nat /\ Len(b) \in Nat /\ DOMAIN a = 1 .. Len(a) /\ DOMAIN b = 1 .. Len(b)
      /\ a \o b \in Seq(S) /\ Len(a \o b) = Len(a) + Len(b)
      /\ \A i \in 1 .. Len(a) + Len(b) : (a \o b)[i] = IF i <= Len(a) THEN a[i] ELSE b[i - Len(a)]
  BY LenProperties, ConcatProperties
<1>2. PICK c : c = a \o b
  OBVIOUS
<1>3. /\ c \in Seq(S) /\ Len(c) = Len(a) + Len(b) /\ DOMAIN c = 1 .. Len(a) + Len(b)
      /\ \A i \in DOMAIN a : i \in DOMAIN c /\ c[i] = a[i]
  BY <1>1, <1>2, LenProperties
<1>4. \A i \in DOMAIN b : Len(a) + i \in DOMAIN c /\ c[Len(a) + i] = b[i]
  <2> SUFFICES ASSUME NEW i \in DOMAIN b PROVE Len(a) + i \in DOMAIN c /\ c[Len(a) + i] = b[i]
    OBVIOUS
  <2>1. /\ Len(a) + i \in 1 .. Len(a) + Len(b) /\ ~(Len(a) + i <= Len(a))
        /\ (Len(a) + i) - Len(a) = i
    BY <1>1
  <2> QED
    BY <1>1, <1>2, <1>3, <2>1
<1>5. \A k \in DOMAIN c : \/ k \in DOMAIN a /\ c[k] = a[k]
                          \/ k - Len(a) \in DOMAIN b /\ c[k] = b[k - Len(a)]
  BY <1>1, <1>2, <1>3
<1>6. Members(c) = Members(a) \cup Members(b)
  <2>1. Members(c) \subseteq Members(a) \cup Members(b)
    BY <1>5 DEF Members
  <2>2. Members(a) \cup Members(b) \subseteq Members(c)
    BY <1>3, <1>4 DEF Members
  <2> QED
    BY <2>1, <2>2
<1>7. ASSUME Distinct(a), Distinct(b), Members(a) \cap Members(b) = {},
             NEW k \in DOMAIN c, NEW m \in DOMAIN c, c[k] = c[m]
      PROVE  k = m
  <2>1. CASE k \in DOMAIN a /\ c[k] = a[k] /\ m \in DOMAIN a /\ c[m] = a[m]
    BY <1>7, <2>1 DEF Distinct
  <2>2. CASE /\ k - Len(a) \in DOMAIN b /\ c[k] = b[k - Len(a)]
             /\ m - Len(a) \in DOMAIN b /\ c[m] = b[m - Len(a)]
    <3>1. k - Len(a) = m - Len(a)
      BY <1>7, <2>2 DEF Distinct
    <3> QED
      BY <1>1, <1>3, <3>1
  <2>3. CASE k \in DOMAIN a /\ c[k] = a[k] /\ m - Len(a) \in DOMAIN b /\ c[m] = b[m - Len(a)]
    BY <1>7, <2>3 DEF Members
  <2>4. CASE k - Len(a) \in DOMAIN b /\ c[k] = b[k - Len(a)] /\ m \in DOMAIN a /\ c[m] = a[m]
    BY <1>7, <2>4 DEF Members
  <2> QED
    BY <1>5, <2>1, <2>2, <2>3, <2>4
<1> QED
  BY <1>1, <1>2, <1>6, <1>7 DEF Distinct

\* A part of a sequence without duplicates has those of its places, and no duplicates.
LEMMA PartOf ==
  ASSUME NEW s \in Seq(Nat), Distinct(s), NEW m \in Nat \ {0}, NEW n \in Nat, n <= Len(s)
  PROVE  /\ SubSeq(s, m, n) \in Seq(Nat) /\ Distinct(SubSeq(s, m, n))
         /\ Len(SubSeq(s, m, n)) = IF m <= n THEN n - m + 1 ELSE 0
         /\ Members(SubSeq(s, m, n)) = {s[i] : i \in m .. n}
<1>1. Len(s) \in Nat /\ DOMAIN s = 1 .. Len(s) /\ m .. n \subseteq DOMAIN s
  BY LenProperties
<1>2. PICK p : p = SubSeq(s, m, n)
  OBVIOUS
<1>3. /\ p \in Seq(Nat) /\ Len(p) = IF m <= n THEN n - m + 1 ELSE 0
      /\ \A i \in 1 .. n - m + 1 : p[i] = s[m + i - 1]
  <2>1. \A i \in m .. n : s[i] \in Nat
    BY <1>1, ElementOfSeq
  <2>2. m \in Int /\ n \in Int
    OBVIOUS
  <2> QED
    BY <1>2, <2>1, <2>2, SubSeqProperties
<1>4. DOMAIN p = 1 .. n - m + 1
  <2>1. DOMAIN p = 1 .. Len(p)
    BY <1>3, LenProperties
  <2> QED
    BY <1>3, <2>1
<1>5. \A i \in DOMAIN p : m + i - 1 \in m .. n /\ p[i] = s[m + i - 1]
  <2>1. \A i \in 1 .. n - m + 1 : m + i - 1 \in m .. n
    OBVIOUS
  <2> QED
    BY <1>3, <1>4, <2>1
<1>6. \A k \in m .. n : k - m + 1 \in DOMAIN p /\ p[k - m + 1] = s[k]
  <2> SUFFICES ASSUME NEW k \in m .. n PROVE k - m + 1 \in DOMAIN p /\ p[k - m + 1] = s[k]
    OBVIOUS
  <2>1. k - m + 1 \in 1 .. n - m + 1 /\ m + (k - m + 1) - 1 = k
    OBVIOUS
  <2> QED
    BY <1>3, <1>4, <2>1
<1>7. Distinct(p)
  <2> SUFFICES ASSUME NEW i \in DOMAIN p, NEW j \in DOMAIN p, p[i] = p[j] PROVE i = j
    BY DEF Distinct
  <2>1. m + i - 1 = m + j - 1
    BY <1>1, <1>5 DEF Distinct
  <2> QED
    BY <1>4, <2>1
<1>8. Members(p) = {s[i] : i \in m .. n}
  <2>1. Members(p) \subseteq {s[i] : i \in m .. n}
    BY <1>5 DEF Members
  <2>2. {s[i] : i \in m .. n} \subseteq Members(p)
    BY <1>6 DEF Members
  <2> QED
    BY <2>1, <2>2
<1> QED
  BY <1>2, <1>3, <1>7, <1>8

\* The smaller of two numbers.
LEMMA LowerOf ==
  ASSUME NEW x \in Nat, NEW y \in Nat
  PROVE  Low(x, y) \in Nat /\ Low(x, y) <= x /\ Low(x, y) <= y /\ Low(x, y) \in {x, y}
  BY DEF Low

\* A page has no more than its size, and nothing after it is left out: what is still to
\* come is on the page or past it, and nothing is past a short page.
LEMMA PageFound ==
  ASSUME PagerOK, NEW size \in Nat
  PROVE  /\ PageOf(size) \in Seq(Nat) /\ Distinct(PageOf(size)) /\ Len(PageOf(size)) \in 0 .. size
         /\ Members(PageOf(size)) \subseteq Members(listing)
         /\ Rest \subseteq Members(PageOf(size))
                   \cup {listing[i] : i \in {j \in DOMAIN listing : j > pager.offset + Len(PageOf(size))}}
         /\ Len(PageOf(size)) < size => Rest \subseteq Members(PageOf(size))
<1>1. /\ pager.offset \in Nat /\ listing \in Seq(Nat) /\ Distinct(listing)
      /\ Len(listing) \in Nat /\ DOMAIN listing = 1 .. Len(listing)
  BY LenProperties DEF PagerOK
<1>0. PICK off \in Nat : off = pager.offset
  BY <1>1
<1>2. PICK last \in Nat :
        /\ off = pager.offset /\ last = Low(pager.offset + size, Len(listing))
        /\ last <= off + size /\ last <= Len(listing) /\ last \in {off + size, Len(listing)}
  <2>1. off + size \in Nat
    OBVIOUS
  <2> QED
    BY <1>0, <1>1, <2>1, LowerOf
<1>3. PICK page : page = PageOf(size)
  OBVIOUS
<1>4. /\ page \in Seq(Nat) /\ Distinct(page)
      /\ Len(page) = IF off + 1 <= last THEN last - (off + 1) + 1 ELSE 0
      /\ Members(page) = {listing[i] : i \in off + 1 .. last}
  <2>1. page = SubSeq(listing, off + 1, last) /\ off + 1 \in Nat \ {0}
    BY <1>2, <1>3, SMTT(30) DEF PageOf
  <2>2. PICK m \in Nat \ {0} : m = off + 1
    BY <2>1
  <2>3. page = SubSeq(listing, m, last)
    BY <2>1, <2>2
  <2>4. /\ SubSeq(listing, m, last) \in Seq(Nat) /\ Distinct(SubSeq(listing, m, last))
        /\ Len(SubSeq(listing, m, last)) = IF m <= last THEN last - m + 1 ELSE 0
        /\ Members(SubSeq(listing, m, last)) = {listing[i] : i \in m .. last}
    <3>1. listing \in Seq(Nat) /\ Distinct(listing) /\ last <= Len(listing)
      BY <1>1, <1>2
    <3> QED
      BY <3>1, PartOf
  <2> QED
    BY <2>2, <2>3, <2>4, Zenon
<1>5. Len(page) \in 0 .. size
  BY <1>2, <1>4, SMTT(30)
<1>6. Members(page) \subseteq Members(listing)
  <2>1. \A i \in off + 1 .. last : i \in DOMAIN listing
    BY <1>1, <1>2
  <2> QED
    BY <1>4, <2>1 DEF Members
<1>7. ASSUME NEW k \in DOMAIN listing, k > off
      PROVE  \/ listing[k] \in Members(page)
             \/ k > off + Len(page) /\ Len(page) = size
  <2>1. k \in 1 .. Len(listing)
    BY <1>1
  <2>2. CASE k <= last
    BY <1>2, <1>4, <1>7, <2>1, <2>2
  <2>3. CASE k > last
    <3>1. last = off + size
      BY <1>1, <1>2, <2>1, <2>3
    <3>2. Len(page) = size
      BY <1>4, <3>1
    <3> QED
      BY <2>3, <3>1, <3>2
  <2> QED
    BY <1>2, <2>1, <2>2, <2>3
<1>8. Rest \subseteq Members(page) \cup {listing[i] : i \in {j \in DOMAIN listing : j > off + Len(page)}}
  BY <1>2, <1>7 DEF Rest
<1>9. Len(page) < size => Rest \subseteq Members(page)
  BY <1>2, <1>5, <1>7 DEF Rest
<1> QED
  BY <1>2, <1>3, <1>4, <1>5, <1>6, <1>8, <1>9

-----------------------------------------------------------------------------
(* The steps of a call and of the venue                                    *)

\* The numbers of the events are those given out so far, and the next one is free.
LEMMA NextNumber ==
  ASSUME PagerOK, NEW n \in Nat, Ever = 1 .. n
  PROVE  /\ Cardinality(Ever) = n
         /\ n + 1 \in Nat /\ n + 1 \notin Ever /\ Ever \cup {n + 1} = 1 .. n + 1
<1>1. Cardinality(1 .. n) = n
  BY FS_Interval
<1> QED
  BY <1>1

\* The whole listing lies before the beginning of a call.
LEMMA PagesBegin ==
  ASSUME PagesInit
  PROVE  PagesInv
<1>1. PICK n \in 0 .. MaxEvents : listing = [i \in 1 .. n |-> i]
  BY DEF PagesInit
<1>2. n \in Nat
  BY PageConstants
<1>3. /\ listing \in Seq(Nat) /\ Len(listing) = n /\ DOMAIN listing = 1 .. n
      /\ \A i \in 1 .. n : listing[i] = i
  <2>1. listing \in [1 .. n -> Nat]
    BY <1>1
  <2>2. listing \in Seq(Nat)
    BY <1>2, <2>1, IsASeq
  <2> QED
    BY <1>1, <1>2, <2>2, LenProperties
<1>4. left = {} /\ Ever = 1 .. n /\ Distinct(listing)
  BY <1>3 DEF PagesInit, Ever, Members, Distinct
<1>5. PICK o \in Offsets, l \in Limits, open \in BOOLEAN :
        query = [offset |-> o, openOnly |-> open, asked |-> Members(SubSeq(listing, o + 1, Len(listing))),
                 limit |-> IF l = 0 THEN DefaultLimit ELSE Low(l, MaxLimit)]
  BY DEF PagesInit
<1>6. PICK m \in Nat \ {0} : m = o + 1 /\ o \in Nat /\ l \in Nat
  BY PageConstants
<1>7. query.asked = {listing[i] : i \in m .. n} /\ query.offset = o
  <2>1. Members(SubSeq(listing, m, n)) = {listing[i] : i \in m .. n}
    BY <1>2, <1>3, <1>4, PartOf
  <2> QED
    BY <1>3, <1>5, <1>6, <2>1
<1>8. query \in [offset : Nat, openOnly : BOOLEAN, asked : SUBSET Nat, limit : Nat]
  <2>1. {listing[i] : i \in m .. n} \in SUBSET Nat
    BY <1>2, <1>3
  <2>2. (IF l = 0 THEN DefaultLimit ELSE Low(l, MaxLimit)) \in Nat
    BY <1>6, PageConstants, LowerOf
  <2>3. Members(SubSeq(listing, o + 1, Len(listing))) \in SUBSET Nat
    BY <1>5, <1>7, <2>1
  <2> QED
    BY <1>5, <1>6, <2>2, <2>3
<1>9. pager = [pc |-> "page", offset |-> o, found |-> <<>>]
  BY <1>7 DEF PagesInit
<1>10. closed \subseteq Ever
  <2>1. closed \in SUBSET Members(listing) \/ closed \in {{}}
    BY DEF PagesInit
  <2> QED
    BY <2>1 DEF Ever
<1>11. PagerOK
  BY <1>2, <1>3, <1>4, <1>6, <1>8, <1>9, <1>10 DEF PagerOK
<1>12. Members(pager.found) = {} /\ Distinct(pager.found) /\ Len(pager.found) = 0
  BY <1>9 DEF Members, Distinct
<1>13. query.asked \subseteq Rest
  <2>1. \A i \in m .. n : i \in DOMAIN listing /\ i > pager.offset
    BY <1>2, <1>3, <1>6, <1>9
  <2> QED
    BY <1>7, <2>1 DEF Rest
<1>14. FoundInv
  <2>1. query.limit \in Nat /\ pager.pc = "page"
    BY <1>8, <1>9
  <2> QED
    BY <1>12, <1>13, <2>1 DEF FoundInv
<1> QED
  BY <1>11, <1>14 DEF PagesInv

\* A page adds the events that were not found yet, up to the limit, and what it leaves
\* behind is still to come.
LEMMA PageStep ==
  ASSUME PagesInv, NextPage
  PROVE  PagesInv'
<1> USE DEF PagesInv
<1>1. PICK found : found = pager.found
  OBVIOUS
<1>2. /\ found \in Seq(Nat) /\ Len(found) \in Nat /\ query.limit \in Nat /\ pager.offset \in Nat
      /\ Len(found) <= query.limit /\ Members(found) \subseteq Ever /\ Distinct(found)
  BY <1>1, LenProperties DEF PagerOK, FoundInv
<1>3. PICK size \in Nat : size = Low(query.limit - Len(found), PageSize) /\ size <= query.limit - Len(found)
  <2>1. query.limit - Len(found) \in Nat
    BY <1>2
  <2> QED
    BY <2>1, PageConstants, LowerOf
<1>4. PICK page : page = PageOf(size)
  OBVIOUS
<1>5. PICK fresh : fresh = NewOnes(page)
  OBVIOUS
<1>6. PICK found2 : found2 = found \o fresh
  OBVIOUS
<1>7. /\ pager' = [pc |-> AfterPage(page, size, found2), offset |-> pager.offset + Len(page),
                   found |-> found2]
      /\ UNCHANGED <<listing, closed, query, left>>
  BY <1>1, <1>3, <1>4, <1>5, <1>6, Zenon DEF NextPage
<1>8. /\ page \in Seq(Nat) /\ Distinct(page) /\ Len(page) \in 0 .. size
      /\ Members(page) \subseteq Members(listing)
      /\ Rest \subseteq Members(page)
                \cup {listing[i] : i \in {j \in DOMAIN listing : j > pager.offset + Len(page)}}
      /\ Len(page) < size => Rest \subseteq Members(page)
  BY <1>4, PageFound
<1>9. /\ fresh \in Seq(Nat) /\ Len(fresh) \in Nat /\ Len(fresh) <= Len(page) /\ Distinct(fresh)
      /\ Members(fresh) = Members(page) \ Members(found)
  BY <1>1, <1>5, <1>8, NewOnesOfPage, LenProperties
<1>10. /\ found2 \in Seq(Nat) /\ Len(found2) = Len(found) + Len(fresh) /\ Distinct(found2)
       /\ Members(found2) = Members(found) \cup Members(page)
  <2>1. /\ found2 \in Seq(Nat) /\ Len(found2) = Len(found) + Len(fresh)
        /\ Members(found2) = Members(found) \cup Members(fresh)
        /\ Distinct(found) /\ Distinct(fresh) /\ Members(found) \cap Members(fresh) = {} => Distinct(found2)
    BY <1>2, <1>6, <1>9, TwoInOne
  <2> QED
    BY <1>2, <1>9, <2>1
<1>11. Len(found2) <= query.limit
  BY <1>2, <1>3, <1>8, <1>9, <1>10
<1>12. PICK pc : pc = AfterPage(page, size, found2)
  OBVIOUS
<1>13. /\ pc \in {"page", "full", "short", "closed"}
       /\ pc = "full" => Len(found2) >= query.limit
       /\ pc = "short" => Len(page) < size
  BY <1>12 DEF AfterPage
<1>14. PICK offset \in Nat : offset = pager.offset + Len(page)
  BY <1>2, <1>8
<1>15. pager' = [pc |-> pc, offset |-> offset, found |-> found2]
  BY <1>7, <1>12, <1>14
<1>16. PagerOK'
  <2>1. pager' \in [pc : {"page", "full", "short", "closed", "error"}, offset : Nat, found : Seq(Nat)]
    BY <1>10, <1>13, <1>15
  <2>2. Ever' = Ever
    BY <1>7 DEF Ever
  <2> QED
    BY <1>7, <2>1, <2>2 DEF PagerOK
<1>17. Members(found2) \subseteq Ever
  BY <1>2, <1>8, <1>10 DEF Ever
<1>18. left = {} => query.asked \subseteq Members(found2) \cup Rest'
  <2>1. Rest \subseteq Members(page) \cup Rest'
    BY <1>7, <1>8, <1>14, <1>15 DEF Rest
  <2> QED
    BY <1>1, <1>10, <2>1 DEF FoundInv
<1>19. pc = "short" /\ left = {} => query.asked \subseteq Members(found2)
  BY <1>1, <1>8, <1>10, <1>13 DEF FoundInv
<1>20. FoundInv'
  <2>1. /\ pager'.pc = pc /\ pager'.found = found2 /\ query' = query /\ left' = left
        /\ Ever' = Ever
    BY <1>7, <1>15 DEF Ever
  <2>2. pc = "full" => Len(found2) = query.limit
    BY <1>2, <1>9, <1>10, <1>11, <1>13
  <2> QED
    BY <1>10, <1>11, <1>17, <1>18, <1>19, <2>1, <2>2 DEF FoundInv
<1> QED
  BY <1>16, <1>20

\* An event comes: nothing that is still to come is lost, at whichever end it comes.
LEMMA EventComes ==
  ASSUME PagesInv, UNCHANGED <<closed, left, query, pager>>,
         listing' \in {Append(listing, Cardinality(Ever) + 1), <<Cardinality(Ever) + 1>> \o listing}
  PROVE  PagesInv'
<1> USE DEF PagesInv
<1>1. PICK n \in Nat : Ever = 1 .. n
  BY DEF PagerOK
<1>2. PICK e \in Nat : e = Cardinality(Ever) + 1 /\ e = n + 1 /\ e \notin Ever /\ Ever \cup {e} = 1 .. n + 1
  BY <1>1, NextNumber
<1>3. PICK one \in Seq(Nat) : /\ one = <<e>> /\ Len(one) = 1 /\ one[1] = e /\ DOMAIN one = 1 .. 1
                              /\ Members(one) = {e} /\ Distinct(one)
  <2>1. PICK one : one = <<e>>
    OBVIOUS
  <2>2. one \in Seq(Nat) /\ Len(one) = 1 /\ one[1] = e /\ DOMAIN one = 1 .. 1
    BY <2>1
  <2>3. \A i \in DOMAIN one : i = 1
    BY <2>2
  <2>4. Members(one) = {e}
    BY <2>2, <2>3 DEF Members
  <2>5. Distinct(one)
    BY <2>3 DEF Distinct
  <2> QED
    BY <2>1, <2>2, <2>4, <2>5
<1>4. /\ listing \in Seq(Nat) /\ Len(listing) \in Nat /\ DOMAIN listing = 1 .. Len(listing)
      /\ Distinct(listing) /\ e \notin Members(listing) /\ pager.offset \in Nat
  BY <1>2, LenProperties DEF PagerOK, Ever
<1>5. listing' = listing \o one \/ listing' = one \o listing
  BY <1>2, <1>3, <1>4, AppendIsConcat, ZenonT(60)
<1>6. listing' \in Seq(Nat) /\ Distinct(listing)' /\ Members(listing') = Members(listing) \cup {e}
  <2>1. /\ listing \o one \in Seq(Nat) /\ Distinct(listing \o one)
        /\ Members(listing \o one) = Members(listing) \cup Members(one)
    BY <1>3, <1>4, TwoInOne, ZenonT(60)
  <2>2. /\ one \o listing \in Seq(Nat) /\ Distinct(one \o listing)
        /\ Members(one \o listing) = Members(one) \cup Members(listing)
    <3>1. Distinct(one) /\ Distinct(listing) /\ Members(one) \cap Members(listing) = {}
      BY <1>3, <1>4
    <3>2. one \in Seq(Nat) /\ listing \in Seq(Nat)
      BY <1>4
    <3> QED
      BY <3>1, <3>2, TwoInOne
  <2> QED
    BY <1>3, <1>5, <2>1, <2>2 DEF Distinct
<1>7. Ever' = Ever \cup {e}
  BY <1>6 DEF Ever
<1>8. PagerOK'
  <2>1. n + 1 \in Nat /\ Ever' = 1 .. n + 1
    BY <1>2, <1>7
  <2> QED
    BY <1>6, <1>7, <2>1 DEF PagerOK
<1>9. ASSUME NEW k \in DOMAIN listing, k > pager.offset
      PROVE  \E j \in DOMAIN listing' : j > pager.offset /\ listing'[j] = listing[k]
  <2>1. CASE listing' = listing \o one
    <3>1. k \in DOMAIN listing' /\ listing'[k] = listing[k]
      BY <1>3, <1>4, <1>6, <2>1, ConcatProperties, LenProperties
    <3> QED
      BY <1>9, <3>1
  <2>2. CASE listing' = one \o listing
    <3>1. /\ k + 1 \in 1 .. 1 + Len(listing) /\ ~(k + 1 <= 1) /\ (k + 1) - 1 = k
          /\ k + 1 > pager.offset
      BY <1>4, <1>9
    <3>2. /\ Len(listing') = 1 + Len(listing)
          /\ \A i \in 1 .. 1 + Len(listing) : listing'[i] = IF i <= 1 THEN one[i] ELSE listing[i - 1]
      BY <1>3, <1>4, <2>2, ConcatProperties
    <3>3. DOMAIN listing' = 1 .. 1 + Len(listing)
      BY <1>6, <3>2, LenProperties
    <3> QED
      BY <3>1, <3>2, <3>3
  <2> QED
    BY <1>5, <2>1, <2>2
<1>10. Rest \subseteq Rest'
  BY <1>9 DEF Rest
<1>11. FoundInv'
  BY <1>7, <1>10 DEF FoundInv
<1> QED
  BY <1>8, <1>11

\* An event goes: what was ever there does not change, and nothing more is promised.
LEMMA EventGoes ==
  ASSUME PagesInv, UNCHANGED <<closed, query, pager>>, pager.pc = "page", NEW i \in DOMAIN listing,
         listing' = SubSeq(listing, 1, i - 1) \o SubSeq(listing, i + 1, Len(listing)),
         left' = left \cup {listing[i]}
  PROVE  PagesInv'
<1> USE DEF PagesInv
<1>1. /\ listing \in Seq(Nat) /\ Len(listing) \in Nat /\ DOMAIN listing = 1 .. Len(listing)
      /\ Distinct(listing)
  BY LenProperties DEF PagerOK
<1>2. PICK n \in Nat : n = Len(listing)
  BY <1>1
<1>3. i \in 1 .. n
  BY <1>1, <1>2
<1>4. PICK before, after : before = SubSeq(listing, 1, i - 1) /\ after = SubSeq(listing, i + 1, n)
  OBVIOUS
<1>5. /\ before \in Seq(Nat) /\ Distinct(before) /\ Members(before) = {listing[k] : k \in 1 .. i - 1}
  <2>1. 1 \in Nat \ {0} /\ i - 1 \in Nat /\ i - 1 <= Len(listing)
    BY <1>2, <1>3
  <2>2. /\ SubSeq(listing, 1, i - 1) \in Seq(Nat) /\ Distinct(SubSeq(listing, 1, i - 1))
        /\ Members(SubSeq(listing, 1, i - 1)) = {listing[k] : k \in 1 .. i - 1}
    <3>1. PICK m \in Nat \ {0}, k \in Nat : m = 1 /\ k = i - 1
      BY <2>1
    <3>2. /\ SubSeq(listing, m, k) \in Seq(Nat) /\ Distinct(SubSeq(listing, m, k))
          /\ Members(SubSeq(listing, m, k)) = {listing[j] : j \in m .. k}
      <4>1. listing \in Seq(Nat) /\ Distinct(listing) /\ k <= Len(listing)
        BY <1>1, <2>1, <3>1
      <4> QED
        BY <4>1, PartOf, SMTT(30)
    <3> QED
      BY <3>1, <3>2
  <2> QED
    BY <1>4, <2>2, Zenon
<1>6. /\ after \in Seq(Nat) /\ Distinct(after) /\ Members(after) = {listing[k] : k \in i + 1 .. n}
  <2>1. i + 1 \in Nat \ {0} /\ n <= Len(listing)
    BY <1>2, <1>3
  <2>2. /\ SubSeq(listing, i + 1, n) \in Seq(Nat) /\ Distinct(SubSeq(listing, i + 1, n))
        /\ Members(SubSeq(listing, i + 1, n)) = {listing[k] : k \in i + 1 .. n}
    BY <1>1, <2>1, PartOf, ZenonT(60)
  <2> QED
    BY <1>4, <2>2, Zenon
<1>7. Members(before) \cap Members(after) = {}
  <2> SUFFICES ASSUME NEW k \in 1 .. i - 1, NEW m \in i + 1 .. n PROVE listing[k] # listing[m]
    BY <1>5, <1>6
  <2>1. k \in DOMAIN listing /\ m \in DOMAIN listing /\ k # m
    BY <1>1, <1>2, <1>3
  <2> QED
    BY <1>1, <2>1 DEF Distinct
<1>8. /\ listing' \in Seq(Nat) /\ Distinct(listing')
      /\ Members(listing') = Members(before) \cup Members(after)
  <2>1. listing' = before \o after
    BY <1>2, <1>4
  <2> QED
    <3>1. before \in Seq(Nat) /\ after \in Seq(Nat) /\ Distinct(before) /\ Distinct(after)
      BY <1>5, <1>6
    <3>2. /\ before \o after \in Seq(Nat) /\ Distinct(before \o after)
          /\ Members(before \o after) = Members(before) \cup Members(after)
      BY <1>7, <3>1, TwoInOne
    <3> QED
      BY <2>1, <3>2
<1>9. Members(listing) = Members(before) \cup Members(after) \cup {listing[i]}
  <2>1. \A k \in 1 .. n : k \in 1 .. i - 1 \/ k = i \/ k \in i + 1 .. n
    BY <1>3
  <2>2. \A k \in (1 .. i - 1) \cup {i} \cup (i + 1 .. n) : k \in 1 .. n
    BY <1>3
  <2> QED
    BY <1>1, <1>2, <1>5, <1>6, <2>1, <2>2 DEF Members
<1>10. Ever' = Ever
  BY <1>8, <1>9 DEF Ever
<1>11. listing[i] \in Nat /\ left' # {}
  BY <1>1, ElementOfSeq
<1>12. PagerOK'
  BY <1>8, <1>10, <1>11 DEF PagerOK, Distinct
<1>13. FoundInv'
  BY <1>10, <1>11 DEF FoundInv
<1> QED
  BY <1>12, <1>13

\* Nothing of the listing or the pages moves, or an event that is listed closes.
LEMMA OthersStep ==
  ASSUME PagesInv, UNCHANGED <<listing, left, query>>, closed' \subseteq Ever,
         pager' = pager \/ pager' = [pager EXCEPT !.pc = "error"]
  PROVE  PagesInv'
<1> USE DEF PagesInv
<1>1. Ever' = Ever
  BY DEF Ever
<1>2. /\ pager'.found = pager.found /\ pager'.offset = pager.offset
      /\ pager' \in [pc : {"page", "full", "short", "closed", "error"}, offset : Nat, found : Seq(Nat)]
      /\ pager'.pc = pager.pc \/ pager'.pc = "error"
  BY DEF PagerOK
<1>3. PagerOK'
  BY <1>1, <1>2 DEF PagerOK, Distinct
<1>4. Rest' = Rest
  BY <1>2 DEF Rest
<1>5. FoundInv'
  BY <1>1, <1>2, <1>4 DEF FoundInv, Distinct
<1> QED
  BY <1>3, <1>5

\* Every step of a call and of the venue keeps the invariant.
LEMMA PagesStep == PagesInv /\ [PagesNext]_pageVars => PagesInv'
<1> SUFFICES ASSUME PagesInv, [PagesNext]_pageVars PROVE PagesInv'
  OBVIOUS
<1>1. closed \subseteq Ever
  BY DEF PagesInv, PagerOK
<1>2. CASE PageFails
  BY <1>1, <1>2, OthersStep DEF PageFails
<1>3. CASE ListingChanges
  <2>1. UNCHANGED <<query, pager>> /\ pager.pc = "page"
    BY <1>3 DEF ListingChanges
  <2>2. CASE /\ listing' \in {Append(listing, Cardinality(Ever) + 1), <<Cardinality(Ever) + 1>> \o listing}
             /\ UNCHANGED <<closed, left>>
    BY <2>1, <2>2, EventComes
  <2>3. ASSUME NEW e \in Members(listing) \ closed, closed' = closed \cup {e}, UNCHANGED <<listing, left>>
        PROVE  PagesInv'
    <3>1. closed' \subseteq Ever
      BY <1>1, <2>3 DEF Ever
    <3> QED
      BY <2>1, <2>3, <3>1, OthersStep
  <2>4. ASSUME NEW i \in DOMAIN listing,
               listing' = SubSeq(listing, 1, i - 1) \o SubSeq(listing, i + 1, Len(listing)),
               left' = left \cup {listing[i]}, UNCHANGED closed
        PROVE  PagesInv'
    BY <2>1, <2>4, EventGoes
  <2> QED
    BY <1>3, <2>2, <2>3, <2>4 DEF ListingChanges
<1>4. CASE UNCHANGED pageVars
  BY <1>1, <1>4, OthersStep DEF pageVars
<1> QED
  BY <1>2, <1>3, <1>4, PageStep DEF PagesNext

\* A list without duplicates has as many events as places.
LEMMA NoneTwice ==
  ASSUME NEW s \in Seq(Nat), Distinct(s)
  PROVE  Cardinality(Members(s)) = Len(s)
<1>1. Len(s) \in Nat /\ DOMAIN s = 1 .. Len(s)
  BY LenProperties
<1>2. IsFiniteSet(DOMAIN s) /\ Cardinality(DOMAIN s) = Len(s)
  <2>1. PICK n \in Nat : n = Len(s)
    BY <1>1
  <2>2. IsFiniteSet(1 .. n) /\ Cardinality(1 .. n) = IF 1 > n THEN 0 ELSE n - 1 + 1
    BY FS_Interval
  <2>3. Cardinality(1 .. n) = n
    BY <2>2
  <2> QED
    BY <1>1, <2>1, <2>2, <2>3, Zenon
<1> DEFINE f == [i \in DOMAIN s |-> s[i]]
<1>3. f \in Surjection(DOMAIN s, Members(s)) /\ f \in Injection(DOMAIN s, Members(s))
  BY DEF Surjection, Injection, IsInjective, Members, Distinct
<1> QED
  BY <1>2, <1>3, FS_Surjection

\* The pages make up one list without duplicates that misses nothing it should have,
\* for any listing, any limit and any size of a page, however the listing changes.
THEOREM PagesAreComplete == PagesInit /\ [][PagesNext]_pageVars => []PagesComplete
<1>1. PagesInv => PagesComplete
  <2> SUFFICES ASSUME PagesInv PROVE PagesComplete
    OBVIOUS
  <2>1. pager.found \in Seq(Nat) /\ Distinct(pager.found)
    BY DEF PagesInv, PagerOK, FoundInv
  <2>2. Cardinality(Members(pager.found)) = Len(pager.found)
    BY <2>1, NoneTwice
  <2> QED
    BY <2>2 DEF PagesInv, FoundInv, PagesComplete
<1> QED
  BY <1>1, PagesBegin, PagesStep, PTL

\* What the pages hold has the types that the runs check.
LEMMA PageTypes ==
  ASSUME CacheTypeOK, PagesInv
  PROVE  SeriesTypeOK
  BY DEF SeriesTypeOK, PagesInv, PagerOK, FoundInv

-----------------------------------------------------------------------------
(* The trading side as a whole                                             *)

\* The inductive invariants of its parts.
TradingInv ==
  /\ StoreOK /\ FlowInv
  /\ ReportInv /\ TicketOK
  /\ PositionsInv /\ CacheInv /\ PagesInv

\* All parts begin as they should, whichever of them will move.
LEMMA TradingBegins == TradingInit => TradingInv
<1> SUFFICES ASSUME TradingInit PROVE TradingInv
  OBVIOUS
<1>1. PipelineInit /\ OrdersInit /\ PositionsInit /\ CacheInit /\ PagesInit
  BY DEF TradingInit
<1>2. TicketOK
  BY <1>1 DEF OrdersInit, TicketOK, NoTicket
<1> QED
  BY <1>1, <1>2, PipelineBegins, ReportInit, PositionsInitInv, CacheInitInv, PagesBegin
     DEF TradingInv

\* In every step one part moves by a step of its own, and the others rest.
LEMMA PartsMove ==
  ASSUME [TradingNext]_<<tradingVars, part>>
  PROVE  /\ [PipelineNext]_pipelineVars /\ [OrdersNext]_orderVars
         /\ [PositionsNext]_positionVars /\ [CacheNext]_cacheVars /\ [PagesNext]_pageVars
<1>1. CASE UNCHANGED tradingVars
  BY <1>1 DEF tradingVars
<1>2. CASE /\ PipelineNext
           /\ UNCHANGED <<orderVars, positionVars, cacheVars, pageVars>>
  BY <1>2
<1>3. CASE /\ BuildNext \/ ExecNext
           /\ UNCHANGED <<pipelineVars, positionVars, cacheVars, pageVars>>
  <2>1. OrdersNext
    BY <1>3 DEF OrdersNext
  <2> QED
    BY <1>3, <2>1
<1>4. CASE /\ PositionsNext
           /\ UNCHANGED <<pipelineVars, orderVars, cacheVars, pageVars>>
  BY <1>4
<1>5. CASE CacheNext /\ UNCHANGED <<pipelineVars, orderVars, positionVars, pageVars>>
  BY <1>5
<1>6. CASE PagesNext /\ UNCHANGED <<pipelineVars, orderVars, positionVars, cacheVars>>
  BY <1>6
<1> QED
  BY <1>1, <1>2, <1>3, <1>4, <1>5, <1>6 DEF TradingNext

\* Every step keeps the invariants of all parts.
LEMMA TradingStep == TradingInv /\ [TradingNext]_<<tradingVars, part>> => TradingInv'
<1> SUFFICES ASSUME TradingInv, [TradingNext]_<<tradingVars, part>> PROVE TradingInv'
  OBVIOUS
<1>1. /\ [PipelineNext]_pipelineVars /\ [OrdersNext]_orderVars
      /\ [PositionsNext]_positionVars /\ [CacheNext]_cacheVars /\ [PagesNext]_pageVars
  BY PartsMove
<1>2. /\ StoreOK /\ FlowInv /\ HandInv /\ ReportInv /\ TicketOK
      /\ PositionsInv /\ CacheInv /\ PagesInv
  BY DEF TradingInv, FlowInv
<1>3. StoreOK' /\ FlowInv'
  BY <1>1, <1>2, StoreStep, FlowStep
<1>4. ReportInv' /\ TicketOK'
  BY <1>1, <1>2, ReportStep, TicketStep
<1>5. PositionsInv' /\ CacheInv' /\ PagesInv'
  BY <1>1, <1>2, PositionsStep, CacheStep, PagesStep
<1> QED
  BY <1>3, <1>4, <1>5 DEF TradingInv

\* Every variable of the pipeline, the orders, the position calls and the series has its
\* type, for any value of the constants, whatever order the parts move in.
THEOREM TradingTypeCorrect == TradingSpec => []TradingTypeOK
<1>1. TradingInv => TradingTypeOK
  <2> SUFFICES ASSUME TradingInv PROVE TradingTypeOK
    OBVIOUS
  <2>1. PipelineTypeOK
    BY PipelineTypes DEF TradingInv, FlowInv
  <2>2. OrdersTypeOK
    BY DEF TradingInv, ReportInv, CallOK, CallType, TicketOK, OrdersTypeOK
  <2>3. PositionsTypeOK /\ CacheTypeOK
    BY DEF TradingInv, PositionsInv, CacheInv
  <2>4. SeriesTypeOK
    BY <2>3, PageTypes DEF TradingInv
  <2> QED
    BY <2>1, <2>2, <2>3, <2>4 DEF TradingTypeOK
<1> QED
  BY <1>1, TradingBegins, TradingStep, PTL DEF TradingSpec
==============================================================================
