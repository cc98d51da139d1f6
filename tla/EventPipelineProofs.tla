------------------------ MODULE EventPipelineProofs ------------------------
(***************************************************************************)
(* What reaches the application, for any number of sources, dispatchers    *)
(* and messages and any capacity of the two channels: the events of a      *)
(* source with one dispatcher are in order, and every gap in the sequence  *)
(* numbers is an event that was dropped or is still on its way.            *)
(***************************************************************************)
EXTENDS EventPipeline, FiniteSetTheorems, SequenceTheorems, TLAPS

\* A message of a queue, an event of the asynchronous channel or of the application.
Message == [n : Nat \ {0}, frame : Frames, items : Nat \ {0}]
Event == [seq : Nat, n : Nat, item : Nat, source : Sources]
Worker == [pc : {"idle", "ended"}, msg : {NoMessage}, seq : {0}]
            \cup [pc : {"check", "number"}, msg : Message, seq : {0}]
            \cup [pc : {"send"}, msg : Message, seq : Nat \ {0}]

\* All events that were handed over, in order: those delivered, then those queued.
Out == delivered \o dispatchCh

Busy(w) == worker[w].pc \in {"check", "number", "send"}

StoreOK ==
  /\ arrived \in 0 .. MaxMessages
  /\ queue \in [Sources -> Seq(Message)]
  /\ \A s \in Sources : Len(queue[s]) <= QueueSize
  /\ worker \in [AllWorkers -> Worker]
  /\ drain \subseteq Draining
  /\ seqID \in Nat /\ dropped \subseteq 1 .. seqID
  /\ delivered \in Seq(Event)
  /\ dispatchCh \in Seq(Event) /\ Len(dispatchCh) <= DispatchSize
  /\ channel \in {"open", "closed", "nil"} /\ (channel = "nil" => dispatchCh = <<>>)
  /\ running \in BOOLEAN /\ crashed \in BOOLEAN

\* The messages of a queue are of its source and in the order of arrival.
QueueInv ==
  \A s \in Sources : 
    /\ \A i \in DOMAIN queue[s] : queue[s][i].n <= arrived /\ SourceOf(queue[s][i].frame) = s
    /\ \A i, j \in DOMAIN queue[s] : i < j => queue[s][i].n < queue[s][j].n

\* The message in a dispatcher's hands is of its source and older than those queued.
HandInv ==
  \A s \in Sources : \A w \in Workers[s] : Busy(w) =>
    /\ worker[w].msg.n <= arrived /\ SourceOf(worker[w].msg.frame) = s
    /\ worker[w].seq <= seqID
    /\ \A i \in DOMAIN queue[s] : worker[w].msg.n < queue[s][i].n

\* So is every event that was handed over.
OutInv ==
  \A k \in DOMAIN Out :
    /\ Out[k].n <= arrived
    /\ \A i \in DOMAIN queue[Out[k].source] : Out[k].n < queue[Out[k].source][i].n

Single(s) == Cardinality(Workers[s]) = 1

\* Event e comes before the item that w is busy with, and before its number.
Precedes(e, w) ==
  /\ e.n < worker[w].msg.n \/ (e.n = worker[w].msg.n /\ e.item > worker[w].msg.items)
  /\ worker[w].pc = "send" => e.seq < worker[w].seq

\* The events of a source with one dispatcher are in order, and its next one follows.
OrderInv ==
  /\ \A i, j \in DOMAIN Out :
       i < j /\ Out[i].source = Out[j].source /\ Single(Out[i].source) =>
         Before(Out[i], Out[j]) /\ Out[i].seq < Out[j].seq
  /\ \A i \in DOMAIN Out : Single(Out[i].source) =>
       \A w \in Workers[Out[i].source] : Busy(w) => Precedes(Out[i], w)

\* Every number given out belongs to one event, which was handed over, is in hand or
\* was dropped.
NumberInv ==
  /\ 1 .. seqID = Numbers(Out) \cup InHand \cup dropped
  /\ Numbers(Out) \cap InHand = {} /\ Numbers(Out) \cap dropped = {} /\ InHand \cap dropped = {}
  /\ \A i, j \in DOMAIN Out : Out[i].seq = Out[j].seq => i = j
  /\ \A v, w \in AllWorkers :
       worker[v].pc = "send" /\ worker[w].pc = "send" /\ worker[v].seq = worker[w].seq => v = w

-----------------------------------------------------------------------------
\* The constants.
LEMMA PipelineConstants ==
  /\ \A s, r \in Sources : s # r => Workers[s] \cap Workers[r] = {}
  /\ \A s \in Sources : IsFiniteSet(Workers[s])
  /\ QueueSize \in Nat \ {0} /\ DispatchSize \in Nat \ {0}
  /\ MaxItems \in Nat \ {0} /\ MaxMessages \in Nat
  /\ Async \in BOOLEAN /\ Draining \subseteq Sources
  BY PipelineAssumption

\* A dispatcher has one source.
LEMMA OneSource ==
  ASSUME NEW s \in Sources, NEW w \in Workers[s]
  PROVE  w \in AllWorkers /\ \A r \in Sources : w \in Workers[r] => r = s
  BY PipelineConstants DEF AllWorkers

\* Appending to the end of what is queued appends to everything handed over.
LEMMA AppendOut ==
  ASSUME NEW S, NEW d \in Seq(S), NEW q \in Seq(S), NEW e \in S
  PROVE  d \o Append(q, e) = Append(d \o q, e)
<1>1. Append(q, e) = q \o <<e>> /\ <<e>> \in Seq(S)
  BY AppendIsConcat
<1>2. d \o q \in Seq(S)
  BY ConcatProperties
<1> QED
  BY <1>1, <1>2, ConcatAssociative, AppendIsConcat

\* Moving the head of the queue to the end of what is delivered changes nothing of it.
LEMMA MoveHead ==
  ASSUME NEW S, NEW d \in Seq(S), NEW q \in Seq(S), q # <<>>
  PROVE  /\ Append(d, Head(q)) \in Seq(S) /\ Tail(q) \in Seq(S)
         /\ Append(d, Head(q)) \o Tail(q) = d \o q
<1>1. Head(q) \in S /\ Tail(q) \in Seq(S)
  BY HeadTailProperties
<1>2. Append(d, Head(q)) = d \o <<Head(q)>> /\ <<Head(q)>> \in Seq(S)
  BY <1>1, AppendIsConcat
<1>3. q = <<Head(q)>> \o Tail(q)
  OBVIOUS
<1> QED
  BY <1>1, <1>2, <1>3, ConcatAssociative

\* An item is of a frame that has it.
LEMMA ItemsCount ==
  ASSUME NEW f, NEW k \in ItemsOf(f)
  PROVE  k \in Nat \ {0}
  BY PipelineConstants DEF ItemsOf

\* Taking the first of a queue leaves the others in their order.
LEMMA TailOfQueue ==
  ASSUME NEW q \in Seq(Message), q # <<>>
  PROVE  /\ Tail(q) \in Seq(Message) /\ Len(Tail(q)) = Len(q) - 1
         /\ DOMAIN Tail(q) = 1 .. Len(q) - 1 /\ DOMAIN q = 1 .. Len(q) /\ 1 \in DOMAIN q
         /\ Head(q) = q[1] /\ Head(q) \in Message
         /\ \A i \in DOMAIN Tail(q) : i + 1 \in DOMAIN q /\ Tail(q)[i] = q[i + 1]
<1>1. /\ Head(q) \in Message /\ Tail(q) \in Seq(Message) /\ Len(Tail(q)) = Len(q) - 1
      /\ \A i \in 1 .. Len(Tail(q)) : Tail(q)[i] = q[i + 1]
  BY HeadTailProperties
<1>2. Len(q) \in Nat \ {0} /\ DOMAIN q = 1 .. Len(q) /\ DOMAIN Tail(q) = 1 .. Len(Tail(q))
  BY <1>1, LenProperties, EmptySeq
<1>3. Head(q) = q[1]
  OBVIOUS
<1> QED
  BY <1>1, <1>2, <1>3
-----------------------------------------------------------------------------
(* Where the steps leave the messages                                      *)

\* What a dispatcher has in hand after an item: nothing, or the next item of the frame.
Follows(new, w) ==
  \/ new = Resting
  \/ /\ new \in Worker /\ new.pc = "check" /\ new.seq = 0
     /\ new.msg.n = worker[w].msg.n /\ new.msg.frame = worker[w].msg.frame
     /\ new.msg.items < worker[w].msg.items

\* A dispatcher that is at rest is a dispatcher.
LEMMA RestingOK == Resting \in Worker /\ [Resting EXCEPT !.pc = "ended"] \in Worker
  BY DEF Resting, Worker

\* A busy dispatcher has a message.
LEMMA BusyHas ==
  ASSUME StoreOK, NEW w \in AllWorkers, Busy(w)
  PROVE  /\ worker[w] \in [pc : {"check", "number", "send"}, msg : Message, seq : Nat]
         /\ worker[w].msg \in Message
         /\ worker[w].msg.n \in Nat \ {0} /\ worker[w].msg.items \in Nat \ {0}
<1>1. worker[w] \in [pc : {"check", "number", "send"}, msg : Message, seq : Nat]
  BY DEF StoreOK, Worker, Busy
<1> QED
  BY <1>1 DEF Message

\* NextItem goes on to a smaller item of the same message, or to rest.
LEMMA NextItemFollows ==
  ASSUME StoreOK, NEW w \in AllWorkers, Busy(w), NextItem(w)
  PROVE  \E new \in Worker : worker' = [worker EXCEPT ![w] = new] /\ Follows(new, w)
<1>1. /\ worker[w] \in [pc : {"check", "number", "send"}, msg : Message, seq : Nat]
      /\ worker[w].msg \in Message /\ worker[w].msg.items \in Nat \ {0}
  BY BusyHas
<1>2. CASE worker[w].msg.items = 1
  <2>1. worker' = [worker EXCEPT ![w] = Resting]
    BY <1>2 DEF NextItem
  <2> QED
    BY <2>1, RestingOK DEF Follows
<1>3. CASE worker[w].msg.items # 1
  <2> DEFINE msg == [worker[w].msg EXCEPT !.items = worker[w].msg.items - 1]
             new == [pc |-> "check", msg |-> msg, seq |-> 0]
  <2>1. worker' = [worker EXCEPT ![w] = new]
    BY <1>3 DEF NextItem
  <2>2. worker[w].msg.items - 1 \in Nat \ {0}
    BY <1>1, <1>3
  <2>3. /\ msg \in Message /\ msg.n = worker[w].msg.n /\ msg.frame = worker[w].msg.frame
        /\ msg.items = worker[w].msg.items - 1
    BY <1>1, <2>2 DEF Message
  <2> HIDE DEF msg
  <2>4. new \in Worker /\ Follows(new, w)
    BY <1>1, <2>3 DEF Worker, Follows
  <2> QED
    BY <2>1, <2>4
<1> QED
  BY <1>2, <1>3

\* After an event a dispatcher rests, or has the next item of the same message.
LEMMA FollowsOn ==
  ASSUME StoreOK, NEW w \in AllWorkers, Busy(w), NEW new \in Worker, Follows(new, w)
  PROVE  /\ new.pc # "send"
         /\ \/ new.pc \in {"idle", "ended"}
            \/ /\ Busy(w) /\ new.msg.n = worker[w].msg.n /\ new.msg.frame = worker[w].msg.frame
               /\ new.msg.items < worker[w].msg.items /\ new.msg.items <= worker[w].msg.items
               /\ new.msg.items \in Nat /\ new.seq = 0
<1>1. CASE new = Resting
  BY <1>1 DEF Resting
<1>2. CASE new # Resting
  <2>1. /\ new \in Worker /\ new.pc = "check" /\ new.seq = 0
        /\ new.msg.n = worker[w].msg.n /\ new.msg.frame = worker[w].msg.frame
        /\ new.msg.items < worker[w].msg.items
    BY <1>2 DEF Follows
  <2>2. new.msg.items \in Nat
    BY <2>1 DEF Worker, Message
  <2> QED
    BY <2>1, <2>2, BusyHas
<1> QED
  BY <1>1, <1>2

\* What an outcome of DispatchEvent may be: the event is handed over, or dropped.
Emits(w) == Out' = Append(Out, EventOf(w)) /\ dropped' = dropped
Drops(w) == Out' = Out /\ dropped' = dropped \cup {worker[w].seq}

\* The event in a dispatcher's hands is an event of its source.
LEMMA EventInHand ==
  ASSUME StoreOK, HandInv, NEW s \in Sources, NEW w \in Workers[s], worker[w].pc = "send"
  PROVE  EventOf(w) \in Event /\ EventOf(w).source = s
<1>1. w \in AllWorkers /\ Busy(w)
  BY OneSource DEF Busy
<1>2. worker[w] \in [pc : {"check", "number", "send"}, msg : Message, seq : Nat]
  BY <1>1, BusyHas
<1>3. worker[w].seq \in Nat /\ worker[w].msg.n \in Nat /\ worker[w].msg.items \in Nat
  BY <1>1, <1>2, BusyHas
<1>4. SourceOf(worker[w].msg.frame) = s
  BY <1>1 DEF HandInv
<1> QED
  BY <1>3, <1>4 DEF EventOf, Event

\* DispatchEvent hands the event over or drops it, and the dispatcher goes on.
LEMMA DispatchOutcome ==
  ASSUME StoreOK, HandInv, NEW s \in Sources, NEW w \in Workers[s],
         DispatchAsync(w) \/ DispatchSync(w)
  PROVE  /\ worker[w].pc = "send" /\ NextItem(w)
         /\ Emits(w) \/ Drops(w)
         /\ UNCHANGED <<arrived, queue, drain, seqID, running, channel>>
         /\ delivered' \in Seq(Event)
         /\ dispatchCh' \in Seq(Event) /\ Len(dispatchCh') <= DispatchSize
         /\ channel' = "nil" => dispatchCh' = <<>>
         /\ crashed' \in BOOLEAN
<1>1. worker[w].pc = "send" /\ EventOf(w) \in Event
  BY EventInHand DEF DispatchAsync, DispatchSync
<1>2. delivered \in Seq(Event) /\ dispatchCh \in Seq(Event) /\ Out \in Seq(Event)
  BY ConcatProperties DEF StoreOK, Out
<1>3. CASE DispatchAsync(w)
  <2>1. UNCHANGED <<arrived, queue, drain, seqID, running, channel, delivered>> /\ NextItem(w)
    BY <1>3 DEF DispatchAsync, appVars
  <2>2. crashed' \in BOOLEAN
    <3>1. channel \in {"open", "closed", "nil"}
      BY DEF StoreOK
    <3> QED
      BY <1>3, <3>1 DEF DispatchAsync
  <2>3. CASE /\ Len(dispatchCh) < DispatchSize /\ channel = "open"
             /\ dispatchCh' = Append(dispatchCh, EventOf(w)) /\ UNCHANGED dropped
    <3>1. dispatchCh' \in Seq(Event) /\ Len(dispatchCh') = Len(dispatchCh) + 1
      BY <1>1, <1>2, <2>3, AppendProperties
    <3>2. Len(dispatchCh') <= DispatchSize
      BY <1>2, <2>3, <3>1, LenProperties, PipelineConstants
    <3>3. Emits(w)
      BY <1>1, <1>2, <2>1, <2>3, AppendOut DEF Emits, Out
    <3> QED
      BY <1>1, <1>2, <2>1, <2>2, <2>3, <3>1, <3>2, <3>3
  <2>4. CASE dropped' = dropped \cup {worker[w].seq} /\ UNCHANGED dispatchCh
    <3>1. Drops(w)
      BY <2>1, <2>4 DEF Drops, Out
    <3> QED
      BY <1>1, <1>2, <2>1, <2>2, <2>4, <3>1 DEF StoreOK
  <2> QED
    BY <1>3, <2>3, <2>4 DEF DispatchAsync
<1>4. CASE DispatchSync(w)
  <2>1. /\ UNCHANGED <<arrived, queue, drain, seqID, running, channel, dispatchCh, dropped, crashed>>
        /\ NextItem(w) /\ delivered' = Append(delivered, EventOf(w))
        /\ channel = "nil"
    BY <1>4 DEF DispatchSync, appVars
  <2>2. dispatchCh = <<>>
    BY <2>1 DEF StoreOK
  <2>3. delivered' \in Seq(Event)
    BY <1>1, <1>2, <2>1, AppendProperties
  <2>4. Out' = Append(Out, EventOf(w))
    <3>1. Out' = delivered' /\ Out = delivered
      BY <1>2, <2>1, <2>2, <2>3, ConcatEmptySeq DEF Out
    <3> QED
      BY <2>1, <3>1
  <2> QED
    BY <1>1, <2>1, <2>2, <2>3, <2>4 DEF Emits, StoreOK
<1> QED
  BY <1>3, <1>4

\* Every step keeps the variables in their types.
LEMMA StoreStep ==
  ASSUME StoreOK, HandInv, [PipelineNext]_pipelineVars
  PROVE  StoreOK'
<1> USE PipelineConstants DEF StoreOK, appVars, outVars
<1>1. ASSUME NEW s \in Sources, NEW f \in Frames, NEW k \in ItemsOf(f), onMessage(s, f, k)
      PROVE  StoreOK'
  <2>1. /\ arrived < MaxMessages /\ arrived' = arrived + 1
        /\ UNCHANGED <<worker, drain, seqID, dispatchCh, channel, delivered, dropped, running, crashed>>
    BY <1>1 DEF onMessage
  <2>2. arrived' \in 0 .. MaxMessages /\ arrived' \in Nat \ {0}
    BY <2>1
  <2> DEFINE m == [n |-> arrived + 1, frame |-> f, items |-> k]
  <2>3. m \in Message
    BY <2>1, <2>2, ItemsCount DEF Message
  <2>4. \/ queue' = queue
        \/ Len(queue[s]) < QueueSize /\ queue' = [queue EXCEPT ![s] = Append(queue[s], m)]
    <3>1. CASE HasRoom(s)
      BY <1>1, <3>1 DEF onMessage, HasRoom
    <3>2. CASE ~HasRoom(s)
      BY <1>1, <3>2 DEF onMessage, HasRoom
    <3> QED
      BY <3>1, <3>2
  <2> HIDE DEF m
  <2>5. queue' \in [Sources -> Seq(Message)] /\ \A r \in Sources : Len(queue'[r]) <= QueueSize
    <3>1. Append(queue[s], m) \in Seq(Message) /\ Len(Append(queue[s], m)) = Len(queue[s]) + 1
      BY <2>3, AppendProperties
    <3>2. Len(queue[s]) \in Nat
      BY LenProperties
    <3>3. CASE queue' = queue
      BY <3>3
    <3>4. CASE Len(queue[s]) < QueueSize /\ queue' = [queue EXCEPT ![s] = Append(queue[s], m)]
      <4>1. \A r \in Sources : queue'[r] = IF r = s THEN Append(queue[s], m) ELSE queue[r]
        BY <3>4
      <4>2. Len(queue[s]) + 1 <= QueueSize
        BY <3>2, <3>4
      <4>3. queue' \in [Sources -> Seq(Message)]
        BY <3>1, <3>4
      <4> QED
        BY <3>1, <4>1, <4>2, <4>3
    <3> QED
      BY <2>4, <3>3, <3>4
  <2> QED
    BY <2>1, <2>2, <2>5
<1>2. ASSUME NEW s \in Draining, onDisconnectDrain(s) PROVE StoreOK'
  BY <1>2 DEF onDisconnectDrain
<1>3. ASSUME NEW s \in Sources, queue[s] # <<>>
      PROVE  /\ [queue EXCEPT ![s] = Tail(queue[s])] \in [Sources -> Seq(Message)]
             /\ \A r \in Sources : Len([queue EXCEPT ![s] = Tail(queue[s])][r]) <= QueueSize
  <2>1. Tail(queue[s]) \in Seq(Message) /\ Len(Tail(queue[s])) = Len(queue[s]) - 1
    BY <1>3, TailOfQueue
  <2>2. Len(queue[s]) \in Nat
    BY LenProperties
  <2> QED
    BY <2>1, <2>2
<1>4. ASSUME NEW s \in Draining, drainEvents(s) PROVE StoreOK'
  <2>1. CASE queue[s] = <<>>
    BY <1>4, <2>1 DEF drainEvents
  <2>2. CASE queue[s] # <<>>
    <3>1. s \in Sources
      OBVIOUS
    <3>2. queue' = [queue EXCEPT ![s] = Tail(queue[s])]
      BY <1>4, <2>2 DEF drainEvents
    <3>3. queue' \in [Sources -> Seq(Message)] /\ \A r \in Sources : Len(queue'[r]) <= QueueSize
      BY <1>3, <2>2, <3>1, <3>2
    <3> QED
      BY <1>4, <2>2, <3>3 DEF drainEvents
  <2> QED
    BY <2>1, <2>2
<1>5. ASSUME NEW s \in Sources, NEW w \in Workers[s], Take(s, w) PROVE StoreOK'
  <2>1. w \in AllWorkers
    BY OneSource
  <2>2. Head(queue[s]) \in Message
    BY <1>5, TailOfQueue DEF Take
  <2>3. [pc |-> "check", msg |-> Head(queue[s]), seq |-> 0] \in Worker
    BY <2>2 DEF Worker
  <2>4. worker' \in [AllWorkers -> Worker]
    BY <1>5, <2>1, <2>3 DEF Take
  <2> QED
    BY <1>3, <1>5, <2>4 DEF Take
<1>6. ASSUME NEW s \in Sources, NEW w \in Workers[s], Check(w) PROVE StoreOK'
  <2>1. w \in AllWorkers /\ Busy(w)
    BY <1>6, OneSource DEF Check, Busy
  <2>2. CASE NextItem(w)
    BY <1>6, <2>1, <2>2, NextItemFollows DEF Check
  <2>3. CASE worker' = [worker EXCEPT ![w].pc = "number"]
    <3>1. worker[w] \in [pc : {"check", "number"}, msg : Message, seq : {0}]
      BY <1>6, <2>1 DEF Check, Worker
    <3>2. [worker[w] EXCEPT !.pc = "number"] \in Worker
      BY <3>1 DEF Worker
    <3>3. worker' \in [AllWorkers -> Worker]
      BY <2>1, <2>3, <3>2
    <3> QED
      BY <1>6, <3>3 DEF Check
  <2> QED
    BY <1>6, <2>2, <2>3 DEF Check
<1>7. ASSUME NEW s \in Sources, NEW w \in Workers[s], NextSeqID(w) PROVE StoreOK'
  <2>1. w \in AllWorkers /\ Busy(w)
    BY <1>7, OneSource DEF NextSeqID, Busy
  <2>2. worker[w] \in [pc : {"check", "number", "send"}, msg : Message, seq : Nat]
    BY <2>1, BusyHas
  <2>3. [worker[w] EXCEPT !.pc = "send", !.seq = seqID + 1] \in Worker
    <3>1. seqID + 1 \in Nat \ {0}
      OBVIOUS
    <3>2. [worker[w] EXCEPT !.pc = "send", !.seq = seqID + 1]
            \in [pc : {"send"}, msg : Message, seq : Nat \ {0}]
      BY <2>2, <3>1
    <3> QED
      BY <3>2 DEF Worker
  <2>4. worker' = [worker EXCEPT ![w] = [worker[w] EXCEPT !.pc = "send", !.seq = seqID + 1]]
    BY <1>7, <2>1 DEF NextSeqID, Counted
  <2>5. worker' \in [AllWorkers -> Worker]
    BY <2>1, <2>3, <2>4
  <2> QED
    BY <1>7, <2>5 DEF NextSeqID, Counted
<1>8. ASSUME NEW s \in Sources, NEW w \in Workers[s], DispatchAsync(w) \/ DispatchSync(w)
      PROVE  StoreOK'
  <2>1. w \in AllWorkers /\ worker[w].pc = "send" /\ Busy(w)
    BY <1>8, OneSource DEF DispatchAsync, DispatchSync, Busy
  <2>2. /\ NextItem(w)
        /\ Emits(w) \/ Drops(w)
        /\ UNCHANGED <<arrived, queue, drain, seqID, running, channel>>
        /\ delivered' \in Seq(Event)
        /\ dispatchCh' \in Seq(Event) /\ Len(dispatchCh') <= DispatchSize
        /\ channel' = "nil" => dispatchCh' = <<>>
        /\ crashed' \in BOOLEAN
    BY <1>8, DispatchOutcome
  <2>3. worker' \in [AllWorkers -> Worker]
    BY <2>1, <2>2, NextItemFollows
  <2>4. worker[w].seq \in 1 .. seqID
    <3>1. worker[w].seq <= seqID
      BY <2>1 DEF HandInv
    <3>2. worker[w].seq \in Nat \ {0}
      BY <2>1 DEF Worker
    <3> QED
      BY <3>1, <3>2
  <2> QED
    BY <2>2, <2>3, <2>4 DEF Emits, Drops
<1>9. ASSUME NEW w \in AllWorkers, WorkerEnds(w) PROVE StoreOK'
  <2>1. [worker[w] EXCEPT !.pc = "ended"] \in Worker
    BY <1>9 DEF WorkerEnds, Worker
  <2>2. worker' \in [AllWorkers -> Worker]
    BY <1>9, <2>1 DEF WorkerEnds
  <2> QED
    BY <1>9, <2>2 DEF WorkerEnds
<1>10. CASE Consume
  <2>1. Append(delivered, Head(dispatchCh)) \in Seq(Event) /\ Tail(dispatchCh) \in Seq(Event)
    BY <1>10, MoveHead DEF Consume
  <2>2. Len(Tail(dispatchCh)) <= DispatchSize
    BY <1>10, HeadTailProperties, LenProperties DEF Consume
  <2>3. channel # "nil"
    BY <1>10 DEF Consume
  <2> QED
    BY <1>10, <2>1, <2>2, <2>3 DEF Consume
<1>11. CASE ChangeKeys \/ StopSources \/ StopBase
  BY <1>11 DEF ChangeKeys, StopSources, StopBase
<1>12. CASE UNCHANGED pipelineVars
  BY <1>12 DEF pipelineVars
<1> QED
  BY <1>1, <1>2, <1>4, <1>5, <1>6, <1>7, <1>8, <1>9, <1>10, <1>11, <1>12
     DEF PipelineNext, eventDispatcher, Handle

-----------------------------------------------------------------------------
(* Order and numbers                                                       *)

FlowInv == QueueInv /\ HandInv /\ OutInv /\ OrderInv /\ NumberInv

\* What makes the next state ordered, when nothing is handed over.
LEMMA OrderFrom ==
  ASSUME Out' = Out,
         \A i, j \in DOMAIN Out :
           i < j /\ Out[i].source = Out[j].source /\ Single(Out[i].source) =>
             Before(Out[i], Out[j]) /\ Out[i].seq < Out[j].seq,
         \A i \in DOMAIN Out : Single(Out[i].source) =>
           \A w \in Workers[Out[i].source] : Busy(w)' => Precedes(Out[i], w)'
  PROVE  OrderInv'
<1>1. \A i, j \in DOMAIN Out' :
        i < j /\ Out'[i].source = Out'[j].source /\ Single(Out'[i].source) =>
          Before(Out'[i], Out'[j]) /\ Out'[i].seq < Out'[j].seq
  OBVIOUS
<1>2. \A i \in DOMAIN Out' : Single(Out'[i].source) =>
        \A w \in Workers[Out'[i].source] : Busy(w)' => Precedes(Out[i], w)'
  OBVIOUS
<1> QED
  BY <1>1, <1>2, Zenon DEF OrderInv, Single, Before

\* The order and the numbers of what was handed over are those of Out and the workers.
LEMMA SameOrder ==
  ASSUME OrderInv, NumberInv, UNCHANGED <<worker, seqID, dropped>>, Out' = Out
  PROVE  OrderInv' /\ NumberInv'
<1>1. \A i, j \in DOMAIN Out :
        i < j /\ Out[i].source = Out[j].source /\ Single(Out[i].source) =>
          Before(Out[i], Out[j]) /\ Out[i].seq < Out[j].seq
  BY DEF OrderInv
<1>2. ASSUME NEW i \in DOMAIN Out, Single(Out[i].source), NEW w \in Workers[Out[i].source], Busy(w)'
      PROVE  Precedes(Out[i], w)'
  <2>1. Precedes(Out[i], w)
    BY <1>2 DEF OrderInv, Busy
  <2> QED
    BY <2>1 DEF Precedes
<1>3. OrderInv'
  BY <1>1, <1>2, OrderFrom
<1>4. NumberInv'
  <2>1. InHand' = InHand
    BY DEF InHand
  <2>2. Numbers(Out)' = Numbers(Out)
    BY DEF Numbers
  <2> QED
    BY <2>1, <2>2 DEF NumberInv
<1> QED
  BY <1>3, <1>4

\* Nothing of the order or the numbers moves.
LEMMA QuietStep ==
  ASSUME FlowInv, UNCHANGED <<arrived, queue, worker, seqID, dropped>>, Out' = Out
  PROVE  FlowInv'
<1> USE DEF FlowInv
<1>1. QueueInv'
  BY DEF QueueInv
<1>2. HandInv'
  BY DEF HandInv, Busy
<1>3. OutInv'
  BY DEF OutInv
<1> QED
  BY <1>1, <1>2, <1>3, SameOrder

\* The messages of a queue are numbered, and everything handed over is an event.
LEMMA Elements ==
  ASSUME StoreOK
  PROVE  /\ \A s \in Sources : /\ Len(queue[s]) \in Nat /\ DOMAIN queue[s] = 1 .. Len(queue[s])
                               /\ \A i \in DOMAIN queue[s] : queue[s][i] \in Message
                                                              /\ queue[s][i].n \in Nat
         /\ Out \in Seq(Event) /\ Len(Out) \in Nat /\ DOMAIN Out = 1 .. Len(Out)
         /\ \A k \in DOMAIN Out : /\ Out[k] \in Event /\ Out[k].source \in Sources
                                  /\ Out[k].n \in Nat /\ Out[k].seq \in Nat /\ Out[k].item \in Nat
         /\ arrived \in Nat /\ seqID \in Nat
<1>1. \A s \in Sources : queue[s] \in Seq(Message)
  BY DEF StoreOK
<1>2. \A s \in Sources : /\ Len(queue[s]) \in Nat /\ DOMAIN queue[s] = 1 .. Len(queue[s])
                         /\ \A i \in DOMAIN queue[s] : queue[s][i] \in Message
  BY <1>1, LenProperties, ElementOfSeq
<1>3. Out \in Seq(Event)
  BY ConcatProperties DEF StoreOK, Out
<1>4. Len(Out) \in Nat /\ DOMAIN Out = 1 .. Len(Out) /\ \A k \in DOMAIN Out : Out[k] \in Event
  BY <1>3, LenProperties, ElementOfSeq
<1>5. arrived \in Nat /\ seqID \in Nat
  BY PipelineConstants DEF StoreOK
<1> QED
  BY <1>2, <1>3, <1>4, <1>5 DEF Message, Event

\* A message that arrives is the last of its queue and of all that have arrived.
LEMMA ArrivalStep ==
  ASSUME StoreOK, FlowInv, NEW s \in Sources, NEW f \in Frames, NEW k \in ItemsOf(f),
         onMessage(s, f, k)
  PROVE  FlowInv'
<1> USE Elements DEF FlowInv
<1>1. /\ arrived' = arrived + 1 /\ SourceOf(f) = s
      /\ UNCHANGED <<worker, seqID, dropped, delivered, dispatchCh>>
  BY DEF onMessage, outVars
<1>2. Out' = Out
  BY <1>1 DEF Out
<1> DEFINE m == [n |-> arrived + 1, frame |-> f, items |-> k]
<1>3. m \in Message /\ m.n = arrived + 1 /\ SourceOf(m.frame) = s
  BY <1>1, ItemsCount DEF Message
<1>4. queue' = queue \/ queue' = [queue EXCEPT ![s] = Append(queue[s], m)]
  <2>1. CASE HasRoom(s)
    BY <2>1 DEF onMessage
  <2>2. CASE ~HasRoom(s)
    BY <2>2 DEF onMessage, StoreOK
  <2> QED
    BY <2>1, <2>2
<1> HIDE DEF m
<1>5. /\ Len(Append(queue[s], m)) = Len(queue[s]) + 1
      /\ DOMAIN Append(queue[s], m) = 1 .. Len(queue[s]) + 1
      /\ \A i \in DOMAIN queue[s] : Append(queue[s], m)[i] = queue[s][i]
      /\ Append(queue[s], m)[Len(queue[s]) + 1] = m
  BY <1>3, AppendProperties, LenProperties DEF StoreOK
<1>6. \A r \in Sources :
        \/ queue'[r] = queue[r]
        \/ r = s /\ queue'[r] = Append(queue[s], m)
  BY <1>4 DEF StoreOK
\* Every element of a queue is an old one, at its old place, or the new message.
<1>7. \A r \in Sources : \A i \in DOMAIN queue'[r] :
        \/ i \in DOMAIN queue[r] /\ queue'[r][i] = queue[r][i]
        \/ r = s /\ i = Len(queue[s]) + 1 /\ queue'[r][i] = m
  BY <1>5, <1>6, SMTT(30)
<1>8. QueueInv'
  <2>1. \A r \in Sources : \A i \in DOMAIN queue'[r] :
          queue'[r][i].n <= arrived' /\ SourceOf(queue'[r][i].frame) = r
    BY <1>1, <1>3, <1>7 DEF QueueInv
  <2>2. \A r \in Sources : \A i, j \in DOMAIN queue'[r] : i < j => queue'[r][i].n < queue'[r][j].n
    <3> SUFFICES ASSUME NEW r \in Sources, NEW i \in DOMAIN queue'[r], NEW j \in DOMAIN queue'[r], i < j
                 PROVE  queue'[r][i].n < queue'[r][j].n
      OBVIOUS
    <3>1. i \in DOMAIN queue[r] /\ queue'[r][i] = queue[r][i]
      BY <1>5, <1>6, <1>7
    <3>2. CASE j \in DOMAIN queue[r] /\ queue'[r][j] = queue[r][j]
      BY <3>1, <3>2 DEF QueueInv
    <3>3. CASE queue'[r][j] = m
      <4>1. queue[r][i].n <= arrived
        BY <3>1 DEF QueueInv
      <4> QED
        BY <1>3, <3>1, <3>3, <4>1
    <3> QED
      BY <1>7, <3>2, <3>3
  <2> QED
    BY <2>1, <2>2 DEF QueueInv
<1>9. HandInv'
  <2> SUFFICES ASSUME NEW r \in Sources, NEW w \in Workers[r], Busy(w)
               PROVE  /\ worker[w].msg.n <= arrived + 1 /\ SourceOf(worker[w].msg.frame) = r
                      /\ worker[w].seq <= seqID
                      /\ \A i \in DOMAIN queue'[r] : worker[w].msg.n < queue'[r][i].n
    BY <1>1 DEF HandInv, Busy
  <2>1. /\ worker[w].msg.n <= arrived /\ SourceOf(worker[w].msg.frame) = r
        /\ worker[w].seq <= seqID
        /\ \A i \in DOMAIN queue[r] : worker[w].msg.n < queue[r][i].n
    BY DEF HandInv
  <2>2. worker[w].msg.n \in Nat
    BY OneSource, BusyHas
  <2> QED
    BY <1>3, <1>7, <2>1, <2>2
<1>10. OutInv'
  <2> SUFFICES ASSUME NEW e \in DOMAIN Out
               PROVE  /\ Out[e].n <= arrived + 1
                      /\ \A i \in DOMAIN queue'[Out[e].source] : Out[e].n < queue'[Out[e].source][i].n
    BY <1>1, <1>2 DEF OutInv
  <2>1. /\ Out[e].n <= arrived
        /\ \A i \in DOMAIN queue[Out[e].source] : Out[e].n < queue[Out[e].source][i].n
    BY DEF OutInv
  <2> QED
    BY <1>3, <1>7, <2>1, SMTT(30)
<1>11. OrderInv' /\ NumberInv'
  BY <1>1, <1>2, SameOrder
<1> QED
  BY <1>8, <1>9, <1>10, <1>11

\* What is left of a queue whose first message is gone, for whatever reason.
LEMMA HeadGone ==
  ASSUME StoreOK, NEW s \in Sources, queue[s] # <<>>, queue' = [queue EXCEPT ![s] = Tail(queue[s])]
  PROVE  \A r \in Sources :
           /\ r # s => queue'[r] = queue[r]
           /\ r = s => /\ DOMAIN queue'[r] = 1 .. Len(queue[r]) - 1
                       /\ \A i \in DOMAIN queue'[r] : i + 1 \in DOMAIN queue[r]
                                                      /\ queue'[r][i] = queue[r][i + 1]
<1>1. queue[s] \in Seq(Message)
  BY DEF StoreOK
<1>2. /\ DOMAIN Tail(queue[s]) = 1 .. Len(queue[s]) - 1
      /\ \A i \in DOMAIN Tail(queue[s]) : i + 1 \in DOMAIN queue[s] /\ Tail(queue[s])[i] = queue[s][i + 1]
  BY <1>1, TailOfQueue
<1>3. \A r \in Sources : queue'[r] = IF r = s THEN Tail(queue[s]) ELSE queue[r]
  BY DEF StoreOK
<1> QED
  BY <1>2, <1>3

\* A queue without its first message is still in order, and still after what left it.
LEMMA ShorterQueue ==
  ASSUME StoreOK, FlowInv, NEW s \in Sources, queue[s] # <<>>,
         queue' = [queue EXCEPT ![s] = Tail(queue[s])], arrived' = arrived
  PROVE  /\ QueueInv'
         /\ \A r \in Sources : \A n \in Nat :
              (\A i \in DOMAIN queue[r] : n < queue[r][i].n) => \A i \in DOMAIN queue'[r] : n < queue'[r][i].n
<1> USE DEF FlowInv
<1>1. /\ \A r \in Sources : r # s => queue'[r] = queue[r]
      /\ DOMAIN queue'[s] = 1 .. Len(queue[s]) - 1
      /\ \A i \in DOMAIN queue'[s] : i + 1 \in DOMAIN queue[s] /\ queue'[s][i] = queue[s][i + 1]
  BY HeadGone
<1>2. Len(queue[s]) \in Nat
  BY Elements
<1>3. QueueInv'
  <2> SUFFICES ASSUME NEW r \in Sources
               PROVE  /\ \A i \in DOMAIN queue'[r] : queue'[r][i].n <= arrived /\ SourceOf(queue'[r][i].frame) = r
                      /\ \A i, j \in DOMAIN queue'[r] : i < j => queue'[r][i].n < queue'[r][j].n
    BY DEF QueueInv
  <2>1. /\ \A i \in DOMAIN queue[r] : queue[r][i].n <= arrived /\ SourceOf(queue[r][i].frame) = r
        /\ \A i, j \in DOMAIN queue[r] : i < j => queue[r][i].n < queue[r][j].n
    BY DEF QueueInv
  <2>2. CASE r = s
    BY <1>1, <1>2, <2>1, <2>2
  <2>3. CASE r # s
    BY <1>1, <2>1, <2>3
  <2> QED
    BY <2>2, <2>3
<1>4. ASSUME NEW r \in Sources, NEW n \in Nat, \A i \in DOMAIN queue[r] : n < queue[r][i].n
      PROVE  \A i \in DOMAIN queue'[r] : n < queue'[r][i].n
  <2>1. CASE r = s
    BY <1>1, <1>4, <2>1
  <2>2. CASE r # s
    BY <1>1, <1>4, <2>2
  <2> QED
    BY <2>1, <2>2
<1> QED
  BY <1>3, <1>4

\* The numbers in the hands of the other dispatchers.
Others(w) == {worker[v].seq : v \in {u \in AllWorkers \ {w} : worker[u].pc = "send"}}

\* The numbers in hand are a dispatcher's own and those of the others.
LEMMA OwnAndOthers ==
  ASSUME NEW w \in AllWorkers
  PROVE  InHand = Others(w) \cup IF worker[w].pc = "send" THEN {worker[w].seq} ELSE {}
  BY DEF InHand, Others

\* When one dispatcher moves, the others have in hand what they had.
LEMMA OneMoves ==
  ASSUME StoreOK, NEW w \in AllWorkers, NEW new, worker' = [worker EXCEPT ![w] = new]
  PROVE  /\ worker'[w] = new /\ \A v \in AllWorkers \ {w} : worker'[v] = worker[v]
         /\ InHand' = Others(w) \cup IF new.pc = "send" THEN {new.seq} ELSE {}
<1>1. worker'[w] = new /\ \A v \in AllWorkers \ {w} : worker'[v] = worker[v]
  BY DEF StoreOK
<1> QED
  BY <1>1 DEF InHand, Others

\* A dispatcher that neither had nor gets a number changes no number.
LEMMA NoNumberMoves ==
  ASSUME StoreOK, NumberInv, NEW w \in AllWorkers, NEW new,
         worker' = [worker EXCEPT ![w] = new], worker[w].pc # "send", new.pc # "send",
         UNCHANGED <<seqID, dropped>>, Out' = Out
  PROVE  NumberInv'
<1>1. InHand' = InHand
  BY OwnAndOthers, OneMoves
<1>2. Numbers(Out)' = Numbers(Out)
  BY DEF Numbers
<1>3. \A u, v \in AllWorkers :
        worker'[u].pc = "send" /\ worker'[v].pc = "send" /\ worker'[u].seq = worker'[v].seq => u = v
  BY OneMoves DEF NumberInv
<1>4. \A i, j \in DOMAIN Out : Out[i].seq = Out[j].seq => i = j
  BY DEF NumberInv
<1> QED
  BY <1>1, <1>2, <1>3, <1>4 DEF NumberInv

\* A queue that loses its first message, to nobody, keeps the order of the rest.
LEMMA DrainStep ==
  ASSUME StoreOK, FlowInv, NEW s \in Sources, queue[s] # <<>>,
         queue' = [queue EXCEPT ![s] = Tail(queue[s])],
         UNCHANGED <<arrived, worker, seqID, dropped>>, Out' = Out
  PROVE  FlowInv'
<1> USE DEF FlowInv
<1>1. /\ QueueInv'
      /\ \A r \in Sources : \A n \in Nat :
           (\A i \in DOMAIN queue[r] : n < queue[r][i].n) => \A i \in DOMAIN queue'[r] : n < queue'[r][i].n
  BY ShorterQueue
<1>2. HandInv'
  <2> SUFFICES ASSUME NEW r \in Sources, NEW w \in Workers[r], Busy(w)
               PROVE  /\ worker[w].msg.n <= arrived /\ SourceOf(worker[w].msg.frame) = r
                      /\ worker[w].seq <= seqID
                      /\ \A i \in DOMAIN queue'[r] : worker[w].msg.n < queue'[r][i].n
    BY DEF HandInv, Busy
  <2>1. worker[w].msg.n \in Nat
    BY OneSource, BusyHas
  <2> QED
    BY <1>1, <2>1 DEF HandInv
<1>3. OutInv'
  BY <1>1, Elements DEF OutInv
<1> QED
  BY <1>1, <1>2, <1>3, SameOrder

\* The message that a dispatcher takes is older than the rest of its queue, and younger
\* than everything of its source that was handed over.
LEMMA TakeStep ==
  ASSUME StoreOK, FlowInv, NEW s \in Sources, NEW w \in Workers[s], Take(s, w)
  PROVE  FlowInv'
<1> USE DEF FlowInv
<1> DEFINE new == [pc |-> "check", msg |-> Head(queue[s]), seq |-> 0]
<1>1. /\ worker[w].pc = "idle" /\ queue[s] # <<>>
      /\ queue' = [queue EXCEPT ![s] = Tail(queue[s])]
      /\ worker' = [worker EXCEPT ![w] = new]
      /\ UNCHANGED <<arrived, seqID, dropped>> /\ Out' = Out
  BY DEF Take, appVars, outVars, Out
<1>2. w \in AllWorkers /\ \A r \in Sources : w \in Workers[r] => r = s
  BY OneSource
<1>3. /\ QueueInv'
      /\ \A r \in Sources : \A n \in Nat :
           (\A i \in DOMAIN queue[r] : n < queue[r][i].n) => \A i \in DOMAIN queue'[r] : n < queue'[r][i].n
  BY <1>1, ShorterQueue
<1>4. worker'[w] = new /\ \A v \in AllWorkers \ {w} : worker'[v] = worker[v]
  BY <1>1, <1>2, OneMoves
<1>5. /\ 1 \in DOMAIN queue[s] /\ Head(queue[s]) = queue[s][1] /\ Head(queue[s]) \in Message
      /\ DOMAIN queue[s] = 1 .. Len(queue[s]) /\ Len(queue[s]) \in Nat
  BY <1>1, TailOfQueue, Elements DEF StoreOK
<1>6. /\ new.msg.n <= arrived /\ SourceOf(new.msg.frame) = s
      /\ \A i \in DOMAIN queue'[s] : new.msg.n < queue'[s][i].n
  <2>1. queue[s][1].n <= arrived /\ SourceOf(queue[s][1].frame) = s
    BY <1>5 DEF QueueInv
  <2>2. \A i \in DOMAIN queue'[s] : i + 1 \in DOMAIN queue[s] /\ 1 < i + 1 /\ queue'[s][i] = queue[s][i + 1]
    <3>1. /\ DOMAIN queue'[s] = 1 .. Len(queue[s]) - 1
          /\ \A i \in DOMAIN queue'[s] : i + 1 \in DOMAIN queue[s] /\ queue'[s][i] = queue[s][i + 1]
      BY <1>1, HeadGone
    <3>2. \A i \in 1 .. Len(queue[s]) - 1 : 1 < i + 1
      BY <1>5
    <3> QED
      BY <3>1, <3>2
  <2>3. \A i \in DOMAIN queue'[s] : queue[s][1].n < queue'[s][i].n
    BY <1>5, <2>2 DEF QueueInv
  <2> QED
    BY <1>5, <2>1, <2>3
<1>7. new.pc = "check" /\ new.seq = 0 /\ new.msg = queue[s][1]
  BY <1>5
<1> HIDE DEF new
<1>8. HandInv'
  <2> SUFFICES ASSUME NEW r \in Sources, NEW v \in Workers[r], Busy(v)'
               PROVE  /\ worker'[v].msg.n <= arrived /\ SourceOf(worker'[v].msg.frame) = r
                      /\ worker'[v].seq <= seqID
                      /\ \A i \in DOMAIN queue'[r] : worker'[v].msg.n < queue'[r][i].n
    BY <1>1 DEF HandInv
  <2>1. CASE v = w
    BY <1>2, <1>4, <1>6, <1>7, <2>1, Elements
  <2>2. CASE v # w
    <3>1. v \in AllWorkers /\ worker'[v] = worker[v]
      BY <1>4, <2>2, OneSource
    <3>2. Busy(v)
      BY <3>1 DEF Busy
    <3>3. worker[v].msg.n \in Nat
      BY <3>1, <3>2, BusyHas
    <3> QED
      BY <1>3, <3>1, <3>2, <3>3 DEF HandInv
  <2> QED
    BY <2>1, <2>2
<1>9. OutInv'
  BY <1>1, <1>3, Elements DEF OutInv
<1>10. OrderInv'
  <2>1. ASSUME NEW i \in DOMAIN Out, Single(Out[i].source), NEW v \in Workers[Out[i].source], Busy(v)'
        PROVE  Precedes(Out[i], v)'
    <3>1. Out[i].source \in Sources /\ Out[i].n \in Nat
      BY Elements
    <3>2. CASE v = w
      <4>1. Out[i].source = s
        BY <1>2, <2>1, <3>1, <3>2
      <4>2. Out[i].n < queue[s][1].n
        BY <1>5, <4>1 DEF OutInv
      <4> QED
        BY <1>1, <1>4, <1>7, <3>2, <4>2 DEF Precedes
    <3>3. CASE v # w
      <4>1. v \in AllWorkers /\ worker'[v] = worker[v]
        BY <1>4, <3>1, <3>3, OneSource
      <4>2. Precedes(Out[i], v)
        BY <2>1, <4>1 DEF OrderInv, Busy
      <4> QED
        BY <1>1, <4>1, <4>2 DEF Precedes
    <3> QED
      BY <3>2, <3>3
  <2>2. \A i, j \in DOMAIN Out :
          i < j /\ Out[i].source = Out[j].source /\ Single(Out[i].source) =>
            Before(Out[i], Out[j]) /\ Out[i].seq < Out[j].seq
    BY DEF OrderInv
  <2> QED
    BY <1>1, <2>1, <2>2, OrderFrom
<1>11. NumberInv'
  BY <1>1, <1>2, <1>7, NoNumberMoves
<1> QED
  BY <1>3, <1>8, <1>9, <1>10, <1>11

\* What a dispatcher has in hand next is the same message or nothing, and no number
\* that it did not have.
LEMMA MoveHands ==
  ASSUME StoreOK, HandInv, NEW s \in Sources, NEW w \in Workers[s], NEW new \in Worker,
         worker' = [worker EXCEPT ![w] = new], UNCHANGED <<arrived, queue>>,
         seqID' \in Nat, seqID <= seqID',
         \/ new.pc \in {"idle", "ended"}
         \/ /\ Busy(w) /\ new.msg.n = worker[w].msg.n /\ new.msg.frame = worker[w].msg.frame
            /\ new.seq <= seqID'
  PROVE  HandInv'
<1> SUFFICES ASSUME NEW r \in Sources, NEW v \in Workers[r], Busy(v)'
             PROVE  /\ worker'[v].msg.n <= arrived /\ SourceOf(worker'[v].msg.frame) = r
                    /\ worker'[v].seq <= seqID'
                    /\ \A i \in DOMAIN queue[r] : worker'[v].msg.n < queue[r][i].n
  BY DEF HandInv
<1>1. w \in AllWorkers /\ v \in AllWorkers /\ \A q \in Sources : w \in Workers[q] => q = s
  BY OneSource
<1>2. worker'[w] = new /\ \A u \in AllWorkers \ {w} : worker'[u] = worker[u]
  BY <1>1, OneMoves
<1>3. CASE v = w
  <2>1. /\ Busy(w) /\ new.msg.n = worker[w].msg.n /\ new.msg.frame = worker[w].msg.frame
        /\ new.seq <= seqID'
    BY <1>2, <1>3 DEF Busy
  <2> QED
    BY <1>1, <1>2, <1>3, <2>1 DEF HandInv
<1>4. CASE v # w
  <2>1. worker'[v] = worker[v] /\ Busy(v)
    BY <1>1, <1>2, <1>4 DEF Busy
  <2>2. worker[v].seq <= seqID /\ worker[v].seq \in Nat /\ seqID \in Nat
    BY <1>1, <2>1, BusyHas, Elements DEF HandInv
  <2> QED
    BY <2>1, <2>2 DEF HandInv
<1> QED
  BY <1>3, <1>4

\* A dispatcher that goes on within its message still follows what came before.
LEMMA MovePrecedes ==
  ASSUME StoreOK, OrderInv, NEW w \in AllWorkers, NEW new \in Worker,
         worker' = [worker EXCEPT ![w] = new],
         \/ new.pc \in {"idle", "ended"}
         \/ /\ Busy(w) /\ new.msg.n = worker[w].msg.n /\ new.msg.items <= worker[w].msg.items
            /\ new.msg.items \in Nat
            /\ new.pc = "send" => \A i \in DOMAIN Out : Out[i].seq < new.seq,
         NEW i \in DOMAIN Out, Single(Out[i].source), NEW v \in Workers[Out[i].source], Busy(v)',
         NEW e, e = Out[i]
  PROVE  Precedes(e, v)'
<1>1. Out[i].source \in Sources /\ Out[i].item \in Nat
  BY Elements
<1>2. v \in AllWorkers
  BY <1>1, OneSource
<1>3. worker'[w] = new /\ \A u \in AllWorkers \ {w} : worker'[u] = worker[u]
  BY OneMoves
<1>4. CASE v = w
  <2>1. /\ Busy(w) /\ new.msg.n = worker[w].msg.n /\ new.msg.items <= worker[w].msg.items
        /\ new.msg.items \in Nat /\ worker[w].msg.items \in Nat
        /\ new.pc = "send" => e.seq < new.seq
    BY <1>3, <1>4, BusyHas DEF Busy
  <2>2. Precedes(e, w)
    BY <1>4, <2>1 DEF OrderInv
  <2> QED
    BY <1>1, <1>3, <1>4, <2>1, <2>2 DEF Precedes
<1>5. CASE v # w
  <2>1. worker'[v] = worker[v] /\ Precedes(e, v)
    BY <1>2, <1>3, <1>5 DEF OrderInv, Busy
  <2> QED
    BY <2>1 DEF Precedes
<1> QED
  BY <1>4, <1>5

\* A dispatcher that goes on, or ends, without a number.
LEMMA MoveStep ==
  ASSUME StoreOK, FlowInv, NEW s \in Sources, NEW w \in Workers[s], NEW new \in Worker,
         worker' = [worker EXCEPT ![w] = new], worker[w].pc # "send", new.pc # "send",
         \/ new.pc \in {"idle", "ended"}
         \/ /\ Busy(w) /\ new.msg.n = worker[w].msg.n /\ new.msg.frame = worker[w].msg.frame
            /\ new.msg.items <= worker[w].msg.items /\ new.msg.items \in Nat /\ new.seq = 0,
         UNCHANGED <<arrived, queue, seqID, dropped>>, Out' = Out
  PROVE  FlowInv'
<1> USE DEF FlowInv
<1>1. w \in AllWorkers /\ seqID \in Nat
  BY OneSource, Elements
<1>2. HandInv'
  <2>1. seqID' \in Nat /\ seqID <= seqID' /\ (new.seq = 0 => new.seq <= seqID')
    BY <1>1
  <2> QED
    BY <2>1, MoveHands
<1>3. QueueInv' /\ OutInv'
  BY DEF QueueInv, OutInv
<1>4. ASSUME NEW i \in DOMAIN Out, Single(Out[i].source), NEW v \in Workers[Out[i].source], Busy(v)'
      PROVE  Precedes(Out[i], v)'
  <2>1. PICK e : e = Out[i]
    OBVIOUS
  <2>2. Precedes(e, v)'
    BY <1>1, <1>4, <2>1, MovePrecedes
  <2> QED
    BY <2>1, <2>2
<1>5. OrderInv'
  BY <1>4, OrderFrom DEF OrderInv
<1>6. NumberInv'
  BY <1>1, NoNumberMoves
<1> QED
  BY <1>2, <1>3, <1>5, <1>6

\* The numbers of a sequence that grows by one event.
LEMMA NumbersAppend ==
  ASSUME NEW q \in Seq(Event), NEW e \in Event
  PROVE  Numbers(Append(q, e)) = Numbers(q) \cup {e.seq}
<1>1. /\ Len(Append(q, e)) = Len(q) + 1 /\ Append(q, e)[Len(q) + 1] = e
      /\ \A i \in 1 .. Len(q) : Append(q, e)[i] = q[i]
      /\ Len(q) \in Nat
  BY AppendProperties, LenProperties
<1>2. 1 .. Len(q) + 1 = (1 .. Len(q)) \cup {Len(q) + 1}
  BY <1>1
<1> QED
  BY <1>1, <1>2 DEF Numbers

\* NextSeqID gives out a number that nobody has.
LEMMA CountStep ==
  ASSUME StoreOK, FlowInv, NEW s \in Sources, NEW w \in Workers[s], NextSeqID(w)
  PROVE  FlowInv'
<1> USE DEF FlowInv
<1>1. w \in AllWorkers /\ seqID \in Nat /\ worker[w].pc = "number" /\ Busy(w)
  BY OneSource, Elements DEF NextSeqID, Busy
<1>2. worker[w] \in [pc : {"check", "number", "send"}, msg : Message, seq : Nat]
  BY <1>1, BusyHas
<1> DEFINE new == [worker[w] EXCEPT !.pc = "send", !.seq = seqID + 1]
<1>3. /\ worker' = [worker EXCEPT ![w] = new] /\ seqID' = seqID + 1
      /\ UNCHANGED <<arrived, queue, dropped>> /\ Out' = Out
  BY <1>1 DEF NextSeqID, Counted, appVars, Out
<1>4. /\ new.pc = "send" /\ new.seq = seqID + 1 /\ new.msg = worker[w].msg /\ new \in Worker
  <2>1. seqID + 1 \in Nat \ {0}
    BY <1>1
  <2>2. new \in [pc : {"send"}, msg : Message, seq : Nat \ {0}]
    BY <1>2, <2>1
  <2>3. new.pc = "send" /\ new.seq = seqID + 1 /\ new.msg = worker[w].msg
    BY <1>2
  <2> QED
    BY <2>2, <2>3 DEF Worker
<1> HIDE DEF new
<1>5. HandInv'
  <2>1. seqID' \in Nat /\ seqID <= seqID' /\ new.seq <= seqID'
    BY <1>1, <1>3, <1>4
  <2> QED
    BY <1>1, <1>3, <1>4, <2>1, MoveHands
<1>6. QueueInv' /\ OutInv'
  BY <1>3 DEF QueueInv, OutInv
<1>7. \A i \in DOMAIN Out : Out[i].seq < seqID + 1
  <2>1. \A i \in DOMAIN Out : Out[i].seq \in Numbers(Out)
    BY Elements DEF Numbers
  <2> QED
    BY <1>1, <2>1 DEF NumberInv
<1>8. ASSUME NEW i \in DOMAIN Out, Single(Out[i].source), NEW v \in Workers[Out[i].source], Busy(v)'
      PROVE  Precedes(Out[i], v)'
  <2>1. PICK e : e = Out[i]
    OBVIOUS
  <2>2. new.msg.items \in Nat /\ new.msg.items <= worker[w].msg.items
    BY <1>1, <1>4, BusyHas
  <2>3. Precedes(e, v)'
    BY <1>1, <1>3, <1>4, <1>7, <1>8, <2>1, <2>2, MovePrecedes
  <2> QED
    BY <1>3, <2>1, <2>3
<1>9. OrderInv'
  BY <1>3, <1>8, OrderFrom DEF OrderInv
<1>10. NumberInv'
  <2>1. worker'[w] = new /\ \A u \in AllWorkers \ {w} : worker'[u] = worker[u]
    BY <1>1, <1>3, OneMoves
  <2>2. InHand' = InHand \cup {seqID + 1}
    <3>1. InHand = Others(w)
      BY <1>1, OwnAndOthers
    <3>2. InHand' = Others(w) \cup {new.seq}
      BY <1>1, <1>3, <1>4, OneMoves
    <3> QED
      BY <1>4, <3>1, <3>2
  <2>3. Numbers(Out)' = Numbers(Out)
    BY <1>3 DEF Numbers
  <2>4. 1 .. seqID = Numbers(Out) \cup InHand \cup dropped
    BY DEF NumberInv
  <2>5. 1 .. seqID + 1 = (1 .. seqID) \cup {seqID + 1} /\ seqID + 1 \notin 1 .. seqID
    BY <1>1
  <2>6. \A u, v \in AllWorkers :
          worker'[u].pc = "send" /\ worker'[v].pc = "send" /\ worker'[u].seq = worker'[v].seq => u = v
    <3>1. \A u \in AllWorkers : worker[u].pc = "send" => worker[u].seq \in 1 .. seqID
      BY <2>4 DEF InHand
    <3>2. \A u \in AllWorkers \ {w} : worker'[u].pc = "send" => worker'[u].seq # seqID + 1
      BY <2>1, <2>5, <3>1
    <3> QED
      BY <1>4, <2>1, <3>2 DEF NumberInv
  <2> QED
    BY <1>3, <2>2, <2>3, <2>4, <2>5, <2>6 DEF NumberInv
<1> QED
  BY <1>5, <1>6, <1>9, <1>10

\* The dispatcher of a source that has one is that one.
LEMMA OnlyWorker ==
  ASSUME NEW s \in Sources, Single(s), NEW w \in Workers[s]
  PROVE  \A v \in Workers[s] : v = w
<1>1. IsFiniteSet(Workers[s]) /\ Cardinality(Workers[s]) = 1
  BY PipelineConstants DEF Single
<1>2. \E x : Workers[s] = {x}
  BY <1>1, FS_Singleton
<1> QED
  BY <1>2

\* An event that is handed over is the last of its source, and the next of its frame
\* follows it; its number goes with it.
LEMMA EmitStep ==
  ASSUME StoreOK, FlowInv, NEW s \in Sources, NEW w \in Workers[s], worker[w].pc = "send",
         NEW new \in Worker, worker' = [worker EXCEPT ![w] = new], Follows(new, w),
         Emits(w), UNCHANGED <<arrived, queue, seqID>>
  PROVE  FlowInv'
<1> USE DEF FlowInv
<1>1. w \in AllWorkers /\ seqID \in Nat /\ Busy(w)
  BY OneSource, Elements DEF Busy
<1>2. PICK e : e = EventOf(w)
  OBVIOUS
<1>3. e \in Event /\ e.source = s /\ e.n = worker[w].msg.n /\ e.item = worker[w].msg.items
      /\ e.seq = worker[w].seq
  BY <1>2, EventInHand DEF EventOf
<1>4. /\ worker[w].msg.n \in Nat /\ worker[w].msg.items \in Nat /\ worker[w].seq \in Nat
  BY <1>1, BusyHas
<1>5. PICK n : n = Len(Out)
  OBVIOUS
<1>6. /\ n \in Nat /\ Out \in Seq(Event) /\ DOMAIN Out = 1 .. n
  BY <1>5, Elements
<1>7. Out' = Append(Out, e) /\ dropped' = dropped
  BY <1>2 DEF Emits
<1>8. /\ DOMAIN Out' = 1 .. n + 1 /\ Out'[n + 1] = e
      /\ \A i \in 1 .. n : Out'[i] = Out[i]
  <2>1. /\ Out' \in Seq(Event) /\ Len(Out') = n + 1 /\ Out'[n + 1] = e
        /\ \A i \in 1 .. n : Out'[i] = Out[i]
    BY <1>3, <1>5, <1>6, <1>7, AppendProperties
  <2> QED
    BY <2>1, LenProperties
<1>9. /\ worker'[w] = new /\ \A u \in AllWorkers \ {w} : worker'[u] = worker[u]
      /\ InHand' = Others(w) \cup IF new.pc = "send" THEN {new.seq} ELSE {}
  BY <1>1, OneMoves
<1>10. /\ new.pc # "send"
       /\ \/ new.pc \in {"idle", "ended"}
          \/ /\ Busy(w) /\ new.msg.n = worker[w].msg.n /\ new.msg.frame = worker[w].msg.frame
             /\ new.msg.items < worker[w].msg.items /\ new.msg.items <= worker[w].msg.items
             /\ new.msg.items \in Nat /\ new.seq = 0
  BY <1>1, FollowsOn
<1>11. HandInv'
  <2>1. seqID' \in Nat /\ seqID <= seqID' /\ (new.seq = 0 => new.seq <= seqID')
    BY <1>1
  <2> QED
    BY <1>1, <1>10, <2>1, MoveHands
<1>12. QueueInv'
  BY DEF QueueInv
<1>13. OutInv'
  <2>1. e.n <= arrived /\ \A i \in DOMAIN queue[s] : e.n < queue[s][i].n
    BY <1>1, <1>3 DEF HandInv
  <2>2. \A i \in 1 .. n : /\ Out[i].n <= arrived
                          /\ \A j \in DOMAIN queue[Out[i].source] : Out[i].n < queue[Out[i].source][j].n
    BY <1>6 DEF OutInv
  <2>3. \A i \in 1 .. n + 1 : i \in 1 .. n \/ i = n + 1
    BY <1>6
  <2> QED
    BY <1>3, <1>8, <2>1, <2>2, <2>3 DEF OutInv
<1>14. ASSUME NEW i \in 1 .. n, Out[i].source = s, Single(s) PROVE Before(Out[i], e) /\ Out[i].seq < e.seq
  <2>1. Precedes(Out[i], w)
    BY <1>1, <1>6, <1>14 DEF OrderInv
  <2> QED
    BY <1>3, <2>1 DEF Precedes, Before
<1>15. \A i, j \in 1 .. n + 1 :
         i < j /\ Out'[i].source = Out'[j].source /\ Single(Out'[i].source) =>
           Before(Out'[i], Out'[j]) /\ Out'[i].seq < Out'[j].seq
  <2> SUFFICES ASSUME NEW i \in 1 .. n + 1, NEW j \in 1 .. n + 1, i < j,
                      Out'[i].source = Out'[j].source, Single(Out'[i].source)
               PROVE  Before(Out'[i], Out'[j]) /\ Out'[i].seq < Out'[j].seq
    OBVIOUS
  <2>1. i \in 1 .. n /\ Out'[i] = Out[i]
    BY <1>6, <1>8
  <2>2. CASE j = n + 1
    BY <1>3, <1>8, <1>14, <2>1, <2>2
  <2>3. CASE j # n + 1
    <3>1. j \in 1 .. n /\ Out'[j] = Out[j]
      BY <1>6, <1>8, <2>3
    <3> QED
      BY <1>6, <2>1, <3>1 DEF OrderInv
  <2> QED
    BY <2>2, <2>3
<1>16. ASSUME NEW i \in 1 .. n + 1, Single(Out'[i].source), NEW v \in Workers[Out'[i].source], Busy(v)'
       PROVE  Precedes(Out[i], v)'
  <2>1. PICK d : d = Out'[i]
    OBVIOUS
  <2>2. CASE i \in 1 .. n
    <3>1. i \in DOMAIN Out /\ d = Out[i]
      BY <1>6, <1>8, <2>1, <2>2
    <3>2. Precedes(d, v)'
      BY <1>1, <1>10, <1>16, <2>1, <3>1, MovePrecedes
    <3> QED
      BY <2>1, <3>2
  <2>3. CASE i = n + 1
    <3>1. d = e /\ v \in Workers[s] /\ Single(s)
      BY <1>3, <1>8, <1>16, <2>1, <2>3
    <3>2. v = w
      BY <3>1, OnlyWorker
    <3>3. /\ new.msg.n = e.n /\ new.msg.items < e.item
      BY <1>3, <1>9, <1>10, <1>16, <3>2 DEF Busy
    <3>4. Precedes(e, v)'
      BY <1>3, <1>9, <1>10, <3>2, <3>3 DEF Precedes
    <3> QED
      BY <2>1, <3>1, <3>4
  <2> QED
    BY <1>6, <2>2, <2>3
<1>17. OrderInv'
  <2>1. \A i, j \in DOMAIN Out' :
          i < j /\ Out'[i].source = Out'[j].source /\ Single(Out'[i].source) =>
            Before(Out'[i], Out'[j]) /\ Out'[i].seq < Out'[j].seq
    BY <1>8, <1>15
  <2>2. \A i \in DOMAIN Out' : Single(Out'[i].source) =>
          \A v \in Workers[Out'[i].source] : Busy(v)' => Precedes(Out[i], v)'
    BY <1>8, <1>16
  <2> QED
    BY <2>1, <2>2, Zenon DEF OrderInv, Single, Before
<1>18. NumberInv'
  <2>1. InHand = InHand' \cup {e.seq} /\ e.seq \notin InHand'
    <3>1. InHand' = Others(w)
      BY <1>9, <1>10
    <3>2. InHand = Others(w) \cup {worker[w].seq}
      BY <1>1, OwnAndOthers
    <3>3. worker[w].seq \notin Others(w)
      BY <1>1 DEF Others, NumberInv
    <3> QED
      BY <1>3, <3>1, <3>2, <3>3
  <2>2. Numbers(Out)' = Numbers(Out) \cup {e.seq}
    BY <1>3, <1>6, <1>7, NumbersAppend
  <2>3. \A u, v \in AllWorkers :
          worker'[u].pc = "send" /\ worker'[v].pc = "send" /\ worker'[u].seq = worker'[v].seq => u = v
    BY <1>9, <1>10 DEF NumberInv
  <2>4. \A i, j \in DOMAIN Out' : Out'[i].seq = Out'[j].seq => i = j
    <3>1. \A i \in 1 .. n : Out[i].seq # e.seq
      BY <1>5, <1>6, <2>1 DEF NumberInv, Numbers
    <3>2. \A i \in 1 .. n + 1 : i \in 1 .. n \/ i = n + 1
      BY <1>6
    <3>3. \A i, j \in 1 .. n : Out[i].seq = Out[j].seq => i = j
      BY <1>6 DEF NumberInv
    <3> QED
      BY <1>8, <3>1, <3>2, <3>3
  <2>5. /\ 1 .. seqID = Numbers(Out) \cup InHand \cup dropped
        /\ Numbers(Out) \cap InHand = {} /\ Numbers(Out) \cap dropped = {} /\ InHand \cap dropped = {}
    BY DEF NumberInv
  <2>6. /\ 1 .. seqID' = Numbers(Out)' \cup InHand' \cup dropped'
        /\ Numbers(Out)' \cap InHand' = {} /\ Numbers(Out)' \cap dropped' = {}
        /\ InHand' \cap dropped' = {}
    BY <1>7, <2>1, <2>2, <2>5
  <2> QED
    BY <2>3, <2>4, <2>6 DEF NumberInv
<1> QED
  BY <1>11, <1>12, <1>13, <1>17, <1>18

\* An event that is dropped leaves its number behind, and the next item of its frame
\* follows all the same.
LEMMA DropStep ==
  ASSUME StoreOK, FlowInv, NEW s \in Sources, NEW w \in Workers[s], worker[w].pc = "send",
         NEW new \in Worker, worker' = [worker EXCEPT ![w] = new], Follows(new, w),
         Drops(w), UNCHANGED <<arrived, queue, seqID>>
  PROVE  FlowInv'
<1> USE DEF FlowInv
<1>1. /\ w \in AllWorkers /\ seqID \in Nat /\ Busy(w)
      /\ Out' = Out /\ dropped' = dropped \cup {worker[w].seq}
  BY OneSource, Elements DEF Busy, Drops
<1>2. /\ new.pc # "send"
      /\ \/ new.pc \in {"idle", "ended"}
         \/ /\ Busy(w) /\ new.msg.n = worker[w].msg.n /\ new.msg.frame = worker[w].msg.frame
            /\ new.msg.items <= worker[w].msg.items /\ new.msg.items \in Nat /\ new.seq = 0
  BY <1>1, FollowsOn
<1>3. HandInv'
  <2>1. seqID' \in Nat /\ seqID <= seqID' /\ (new.seq = 0 => new.seq <= seqID')
    BY <1>1
  <2> QED
    BY <1>1, <1>2, <2>1, MoveHands
<1>4. QueueInv' /\ OutInv'
  BY <1>1 DEF QueueInv, OutInv
<1>5. ASSUME NEW i \in DOMAIN Out, Single(Out[i].source), NEW v \in Workers[Out[i].source], Busy(v)'
      PROVE  Precedes(Out[i], v)'
  <2>1. PICK e : e = Out[i]
    OBVIOUS
  <2>2. Precedes(e, v)'
    BY <1>1, <1>2, <1>5, <2>1, MovePrecedes
  <2> QED
    BY <1>1, <2>1, <2>2
<1>6. OrderInv'
  BY <1>1, <1>5, OrderFrom DEF OrderInv
<1>7. NumberInv'
  <2>1. /\ worker'[w] = new /\ \A u \in AllWorkers \ {w} : worker'[u] = worker[u]
    BY <1>1, OneMoves
  <2>8. InHand' = Others(w) \cup IF new.pc = "send" THEN {new.seq} ELSE {}
    BY <1>1, OneMoves
  <2>9. InHand' = Others(w)
    BY <1>2, <2>8
  <2>2. InHand = Others(w) \cup {worker[w].seq} /\ worker[w].seq \notin Others(w)
    BY <1>1, OwnAndOthers DEF Others, NumberInv
  <2>3. Numbers(Out)' = Numbers(Out)
    BY <1>1 DEF Numbers
  <2>4. \A u, v \in AllWorkers :
          worker'[u].pc = "send" /\ worker'[v].pc = "send" /\ worker'[u].seq = worker'[v].seq => u = v
    BY <1>2, <2>1 DEF NumberInv
  <2>5. \A i, j \in DOMAIN Out : Out[i].seq = Out[j].seq => i = j
    BY DEF NumberInv
  <2>6. /\ 1 .. seqID = Numbers(Out) \cup InHand \cup dropped
        /\ Numbers(Out) \cap InHand = {} /\ Numbers(Out) \cap dropped = {} /\ InHand \cap dropped = {}
    BY DEF NumberInv
  <2>7. /\ 1 .. seqID' = Numbers(Out)' \cup InHand' \cup dropped'
        /\ Numbers(Out)' \cap InHand' = {} /\ Numbers(Out)' \cap dropped' = {}
        /\ InHand' \cap dropped' = {}
    BY <1>1, <2>2, <2>3, <2>6, <2>9
  <2> QED
    BY <1>1, <2>4, <2>5, <2>7 DEF NumberInv
<1> QED
  BY <1>3, <1>4, <1>6, <1>7

\* Every step of the pipeline keeps the order and the numbers.
LEMMA FlowStep ==
  ASSUME StoreOK, FlowInv, [PipelineNext]_pipelineVars
  PROVE  FlowInv'
<1> USE DEF appVars, outVars
<1>1. HandInv
  BY DEF FlowInv
<1>2. ASSUME NEW s \in Draining, onDisconnectDrain(s) \/ drainEvents(s) PROVE FlowInv'
  <2>1. s \in Sources
    BY PipelineConstants
  <2>2. UNCHANGED <<arrived, worker, seqID, dropped>> /\ Out' = Out
    BY <1>2 DEF onDisconnectDrain, drainEvents, Out
  <2>3. CASE queue' = queue
    BY <2>2, <2>3, QuietStep
  <2>4. CASE queue[s] # <<>> /\ queue' = [queue EXCEPT ![s] = Tail(queue[s])]
    BY <2>1, <2>2, <2>4, DrainStep
  <2> QED
    BY <1>2, <2>3, <2>4 DEF onDisconnectDrain, drainEvents
<1>3. ASSUME NEW s \in Sources, NEW w \in Workers[s], Check(w) PROVE FlowInv'
  <2>1. w \in AllWorkers /\ worker[w].pc = "check" /\ Busy(w)
    BY <1>3, OneSource DEF Check, Busy
  <2>2. UNCHANGED <<arrived, queue, seqID, dropped>> /\ Out' = Out
    BY <1>3 DEF Check, Out
  <2>3. CASE NextItem(w)
    <3>1. PICK new \in Worker : worker' = [worker EXCEPT ![w] = new] /\ Follows(new, w)
      BY <2>1, <2>3, NextItemFollows
    <3>2. /\ new.pc # "send"
          /\ \/ new.pc \in {"idle", "ended"}
             \/ /\ Busy(w) /\ new.msg.n = worker[w].msg.n /\ new.msg.frame = worker[w].msg.frame
                /\ new.msg.items <= worker[w].msg.items /\ new.msg.items \in Nat /\ new.seq = 0
      BY <2>1, <3>1, FollowsOn
    <3> QED
      BY <2>1, <2>2, <3>1, <3>2, MoveStep
  <2>4. CASE worker' = [worker EXCEPT ![w].pc = "number"]
    <3>1. worker[w] \in [pc : {"check", "number"}, msg : Message, seq : {0}]
      BY <2>1 DEF StoreOK, Worker
    <3> DEFINE new == [worker[w] EXCEPT !.pc = "number"]
    <3>2. worker' = [worker EXCEPT ![w] = new]
      BY <2>1, <2>4 DEF StoreOK
    <3>3. new \in Worker /\ new.pc = "number" /\ new.msg = worker[w].msg /\ new.seq = 0
      BY <3>1 DEF Worker
    <3> HIDE DEF new
    <3>4. /\ new.msg.n = worker[w].msg.n /\ new.msg.frame = worker[w].msg.frame
          /\ new.msg.items <= worker[w].msg.items /\ new.msg.items \in Nat
      BY <2>1, <3>3, BusyHas
    <3> QED
      BY <2>1, <2>2, <3>2, <3>3, <3>4, MoveStep
  <2> QED
    BY <1>3, <2>3, <2>4 DEF Check
<1>4. ASSUME NEW s \in Sources, NEW w \in Workers[s], DispatchAsync(w) \/ DispatchSync(w)
      PROVE  FlowInv'
  <2>1. /\ worker[w].pc = "send" /\ NextItem(w) /\ UNCHANGED <<arrived, queue, seqID>>
        /\ Emits(w) \/ Drops(w)
    BY <1>1, <1>4, DispatchOutcome
  <2>2. w \in AllWorkers /\ Busy(w)
    BY <2>1, OneSource DEF Busy
  <2>3. PICK new \in Worker : worker' = [worker EXCEPT ![w] = new] /\ Follows(new, w)
    BY <2>1, <2>2, NextItemFollows
  <2> QED
    BY <2>1, <2>3, EmitStep, DropStep
<1>5. ASSUME NEW w \in AllWorkers, WorkerEnds(w) PROVE FlowInv'
  <2>1. PICK s \in Sources : w \in Workers[s]
    BY DEF AllWorkers
  <2> DEFINE new == [worker[w] EXCEPT !.pc = "ended"]
  <2>2. worker[w] \in [pc : {"idle", "ended"}, msg : {NoMessage}, seq : {0}]
    BY <1>5 DEF WorkerEnds, StoreOK, Worker
  <2>3. new \in Worker /\ new.pc = "ended"
    BY <2>2 DEF Worker
  <2>4. /\ worker' = [worker EXCEPT ![w] = new] /\ worker[w].pc = "idle"
        /\ UNCHANGED <<arrived, queue, seqID, dropped>> /\ Out' = Out
    BY <1>5 DEF WorkerEnds, StoreOK, Out
  <2> HIDE DEF new
  <2> QED
    BY <2>1, <2>3, <2>4, MoveStep
<1>6. CASE Consume
  <2>1. Out' = Out
    BY <1>6, MoveHead, SMTT(30) DEF Consume, StoreOK, Out
  <2> QED
    BY <1>6, <2>1, QuietStep DEF Consume
<1>7. CASE ChangeKeys \/ StopSources \/ StopBase \/ UNCHANGED pipelineVars
  <2>1. UNCHANGED <<arrived, queue, worker, seqID, dropped, delivered, dispatchCh>>
    BY <1>7 DEF ChangeKeys, StopSources, StopBase, pipelineVars
  <2>2. Out' = Out
    BY <2>1 DEF Out
  <2> QED
    BY <2>1, <2>2, QuietStep
<1> QED
  BY <1>2, <1>3, <1>4, <1>5, <1>6, <1>7, ArrivalStep, TakeStep, CountStep
     DEF PipelineNext, eventDispatcher, Handle

\* The pipeline begins empty.
LEMMA PipelineBegins ==
  ASSUME PipelineInit
  PROVE  StoreOK /\ FlowInv
<1> USE PipelineConstants DEF PipelineInit
<1>1. Resting \in Worker /\ Resting.pc = "idle"
  BY RestingOK DEF Resting
<1>2. worker \in [AllWorkers -> Worker] /\ \A w \in AllWorkers : worker[w].pc = "idle"
  BY <1>1
<1>3. Out = <<>> /\ Len(Out) = 0
  BY DEF Out
<1>4. StoreOK
  <2>1. /\ queue \in [Sources -> Seq(Message)] /\ \A s \in Sources : Len(queue[s]) <= QueueSize
        /\ delivered \in Seq(Event) /\ dispatchCh \in Seq(Event) /\ Len(dispatchCh) <= DispatchSize
    OBVIOUS
  <2>2. arrived \in 0 .. MaxMessages /\ seqID \in Nat /\ dropped \subseteq 1 .. seqID
    OBVIOUS
  <2>3. channel \in {"open", "closed", "nil"} /\ running \in BOOLEAN /\ crashed \in BOOLEAN
    OBVIOUS
  <2> QED
    BY <1>2, <2>1, <2>2, <2>3 DEF StoreOK
<1>5. QueueInv
  BY DEF QueueInv
<1>6. HandInv
  BY <1>2, OneSource DEF HandInv, Busy
<1>7. OutInv /\ OrderInv
  BY <1>3 DEF OutInv, OrderInv
<1>8. InHand = {} /\ Numbers(Out) = {} /\ dropped = {} /\ 1 .. seqID = {}
  BY <1>2, <1>3 DEF InHand, Numbers
<1>9. NumberInv
  BY <1>2, <1>3, <1>8 DEF NumberInv
<1> QED
  BY <1>4, <1>5, <1>6, <1>7, <1>9 DEF FlowInv

\* The invariant holds of every reachable state of the pipeline.
LEMMA PipelineInvariant == PipelineSpec => [](StoreOK /\ FlowInv)
<1>1. PipelineInit => StoreOK /\ FlowInv
  BY PipelineBegins
<1>2. StoreOK /\ FlowInv /\ [PipelineNext]_pipelineVars => (StoreOK /\ FlowInv)'
  BY StoreStep, FlowStep DEF FlowInv
<1> QED
  BY <1>1, <1>2, PTL DEF PipelineSpec

-----------------------------------------------------------------------------
(* What the application sees                                               *)

\* What is delivered comes first of everything that was handed over.
LEMMA DeliveredFirst ==
  ASSUME StoreOK
  PROVE  /\ Len(delivered) \in Nat /\ Len(dispatchCh) \in Nat
         /\ Len(Out) = Len(delivered) + Len(dispatchCh)
         /\ \A i \in 1 .. Len(delivered) : i \in DOMAIN Out /\ Out[i] = delivered[i]
         /\ \A i \in 1 .. Len(dispatchCh) : /\ Len(delivered) + i \in DOMAIN Out
                                            /\ Out[Len(delivered) + i] = dispatchCh[i]
         /\ \A k \in DOMAIN Out : \/ k \in 1 .. Len(delivered)
                                  \/ k - Len(delivered) \in 1 .. Len(dispatchCh)
<1>1. delivered \in Seq(Event) /\ dispatchCh \in Seq(Event)
  BY DEF StoreOK
<1>2. /\ Len(Out) = Len(delivered) + Len(dispatchCh)
      /\ \A i \in 1 .. Len(delivered) + Len(dispatchCh) :
           Out[i] = IF i <= Len(delivered) THEN delivered[i] ELSE dispatchCh[i - Len(delivered)]
  BY <1>1, ConcatProperties DEF Out
<1>3. Len(delivered) \in Nat /\ Len(dispatchCh) \in Nat
  BY <1>1, LenProperties
<1>4. DOMAIN Out = 1 .. Len(delivered) + Len(dispatchCh)
  BY <1>2, Elements
<1>5. ASSUME NEW i \in 1 .. Len(delivered) PROVE i \in DOMAIN Out /\ Out[i] = delivered[i]
  BY <1>2, <1>3, <1>4
<1>6. ASSUME NEW i \in 1 .. Len(dispatchCh)
      PROVE  Len(delivered) + i \in DOMAIN Out /\ Out[Len(delivered) + i] = dispatchCh[i]
  <2>1. /\ Len(delivered) + i \in 1 .. Len(delivered) + Len(dispatchCh)
        /\ ~(Len(delivered) + i <= Len(delivered)) /\ (Len(delivered) + i) - Len(delivered) = i
    BY <1>3
  <2> QED
    BY <1>2, <1>4, <2>1
<1>7. ASSUME NEW k \in DOMAIN Out
      PROVE  k \in 1 .. Len(delivered) \/ k - Len(delivered) \in 1 .. Len(dispatchCh)
  BY <1>3, <1>4
<1> QED
  BY <1>2, <1>3, <1>5, <1>6, <1>7

\* What the application sees is in the order of what was handed over.
LEMMA OrderOfDelivered ==
  ASSUME StoreOK, OrderInv
  PROVE  SourceOrder
<1> SUFFICES ASSUME NEW i \in 1 .. Len(delivered), NEW j \in 1 .. Len(delivered), i < j,
                    delivered[i].source = delivered[j].source,
                    Cardinality(Workers[delivered[i].source]) = 1
             PROVE  Before(delivered[i], delivered[j]) /\ delivered[i].seq < delivered[j].seq
  BY DEF SourceOrder
<1>1. /\ i \in DOMAIN Out /\ j \in DOMAIN Out /\ Out[i] = delivered[i] /\ Out[j] = delivered[j]
  BY DeliveredFirst
<1>2. Single(Out[i].source)
  BY <1>1 DEF Single
<1>3. Before(Out[i], Out[j]) /\ Out[i].seq < Out[j].seq
  BY <1>1, <1>2 DEF OrderInv
<1> QED
  BY <1>1, <1>3

\* The size of a set in three parts that have nothing in common, a fourth beside them.
LEMMA FourParts ==
  ASSUME NEW n \in Nat, NEW A, NEW B, NEW C, NEW D, 1 .. n = A \cup B \cup C \cup D,
         A \cap B = {}, (A \cup B) \cap C = {}, (A \cup B) \cap D = {}, C \cap D = {}
  PROVE  /\ Cardinality(A) \in Nat /\ Cardinality(B) \in Nat
         /\ Cardinality(C) \in Nat /\ Cardinality(D) \in Nat
         /\ Cardinality(A) + Cardinality(B) + Cardinality(C) + Cardinality(D) = n
<1>1. IsFiniteSet(1 .. n) /\ Cardinality(1 .. n) = n
  BY FS_Interval
<1>2. IsFiniteSet(A) /\ IsFiniteSet(B) /\ IsFiniteSet(C) /\ IsFiniteSet(D)
  BY <1>1, FS_Subset
<1>3. /\ Cardinality(A) \in Nat /\ Cardinality(B) \in Nat
      /\ Cardinality(C) \in Nat /\ Cardinality(D) \in Nat
  BY <1>2, FS_CardinalityType
<1>4. Cardinality(A \cap B) = 0 /\ Cardinality(C \cap D) = 0
  BY FS_EmptySet
<1>5. IsFiniteSet(A \cup B) /\ Cardinality(A \cup B) = Cardinality(A) + Cardinality(B)
  <2>1. /\ IsFiniteSet(A \cup B)
        /\ Cardinality(A \cup B) = Cardinality(A) + Cardinality(B) - Cardinality(A \cap B)
    BY <1>2, FS_Union
  <2> QED
    BY <1>3, <1>4, <2>1
<1>6. IsFiniteSet(C \cup D) /\ Cardinality(C \cup D) = Cardinality(C) + Cardinality(D)
  <2>1. /\ IsFiniteSet(C \cup D)
        /\ Cardinality(C \cup D) = Cardinality(C) + Cardinality(D) - Cardinality(C \cap D)
    BY <1>2, FS_Union
  <2> QED
    BY <1>3, <1>4, <2>1
<1>7. Cardinality((A \cup B) \cup (C \cup D)) = Cardinality(A \cup B) + Cardinality(C \cup D)
  <2>1. Cardinality((A \cup B) \cap (C \cup D)) = 0
    <3>1. (A \cup B) \cap (C \cup D) = {}
      OBVIOUS
    <3> QED
      BY <3>1, FS_EmptySet
  <2>2. Cardinality((A \cup B) \cup (C \cup D))
          = Cardinality(A \cup B) + Cardinality(C \cup D) - Cardinality((A \cup B) \cap (C \cup D))
    BY <1>5, <1>6, FS_Union
  <2> QED
    BY <1>3, <1>4, <1>5, <1>6, <2>1, <2>2
<1>8. Cardinality((A \cup B) \cup (C \cup D)) = n
  <2>1. (A \cup B) \cup (C \cup D) = 1 .. n
    OBVIOUS
  <2> QED
    BY <1>1, <2>1
<1> QED
  BY <1>3, <1>5, <1>6, <1>7, <1>8

\* The application is called as many times as there are numbers it has seen.
LEMMA SeenOnce ==
  ASSUME StoreOK, NumberInv
  PROVE  Cardinality(Numbers(delivered)) = Len(delivered)
<1> DEFINE I == 1 .. Len(delivered)
           num == [i \in I |-> delivered[i].seq]
<1>1. Len(delivered) \in Nat
  BY DeliveredFirst
<1>2. IsFiniteSet(I) /\ Cardinality(I) = Len(delivered)
  BY <1>1, FS_Interval, SMTT(30)
<1>3. num \in Surjection(I, Numbers(delivered))
  BY DEF Numbers, Surjection
<1>4. \A i, j \in I : delivered[i].seq = delivered[j].seq => i = j
  BY DeliveredFirst DEF NumberInv
<1>5. num \in Injection(I, Numbers(delivered))
  BY <1>4 DEF Numbers, Injection, IsInjective
<1> QED
  BY <1>2, <1>3, <1>5, FS_Surjection

\* Everything handed over is delivered or queued, and its number is of one of the two.
LEMMA GapsOfDelivered ==
  ASSUME StoreOK, NumberInv
  PROVE  GapMeansDrop
<1>1. Numbers(Out) = Numbers(delivered) \cup Numbers(dispatchCh)
  <2>1. DOMAIN Out = 1 .. Len(Out)
    BY Elements
  <2>2. \A k \in 1 .. Len(Out) : Out[k].seq \in Numbers(delivered) \cup Numbers(dispatchCh)
    <3> SUFFICES ASSUME NEW k \in 1 .. Len(Out)
                 PROVE  Out[k].seq \in Numbers(delivered) \cup Numbers(dispatchCh)
      OBVIOUS
    <3>1. CASE k \in 1 .. Len(delivered)
      BY <3>1, DeliveredFirst DEF Numbers
    <3>2. CASE k - Len(delivered) \in 1 .. Len(dispatchCh)
      <4>1. PICK i \in 1 .. Len(dispatchCh) : i = k - Len(delivered)
        BY <3>2
      <4>2. k = Len(delivered) + i
        BY <2>1, <4>1, DeliveredFirst
      <4>3. Out[k] = dispatchCh[i]
        BY <4>2, DeliveredFirst
      <4> QED
        BY <4>3 DEF Numbers
    <3> QED
      BY <2>1, <3>1, <3>2, DeliveredFirst
  <2>3. /\ \A i \in 1 .. Len(delivered) : delivered[i].seq \in Numbers(Out)
        /\ \A i \in 1 .. Len(dispatchCh) : dispatchCh[i].seq \in Numbers(Out)
    BY <2>1, DeliveredFirst DEF Numbers
  <2> QED
    BY <2>2, <2>3 DEF Numbers
<1>2. Numbers(delivered) \cap Numbers(dispatchCh) = {}
  <2> SUFFICES ASSUME NEW i \in 1 .. Len(delivered), NEW j \in 1 .. Len(dispatchCh),
                      delivered[i].seq = dispatchCh[j].seq
               PROVE  FALSE
    BY DEF Numbers
  <2>1. i = Len(delivered) + j
    BY DeliveredFirst DEF NumberInv
  <2> QED
    BY <2>1, DeliveredFirst
<1>3. seqID \in Nat
  BY DEF StoreOK
<1>4. /\ 1 .. seqID = Numbers(Out) \cup InHand \cup dropped
      /\ Numbers(Out) \cap InHand = {} /\ Numbers(Out) \cap dropped = {} /\ InHand \cap dropped = {}
  BY DEF NumberInv
<1>5. Cardinality(Numbers(delivered)) + Cardinality(Numbers(dispatchCh))
        + Cardinality(InHand) + Cardinality(dropped) = seqID
  <2>1. /\ 1 .. seqID = Numbers(delivered) \cup Numbers(dispatchCh) \cup InHand \cup dropped
        /\ (Numbers(delivered) \cup Numbers(dispatchCh)) \cap InHand = {}
        /\ (Numbers(delivered) \cup Numbers(dispatchCh)) \cap dropped = {}
    BY <1>1, <1>4
  <2> QED
    BY <1>2, <1>3, <1>4, <2>1, FourParts, SMTT(30)
<1> QED
  BY <1>1, <1>4, <1>5, SeenOnce DEF GapMeansDrop

\* For any number of sources, dispatchers and messages, the events of a source with one
\* dispatcher reach the application in the order of arrival, each item at most once.
THEOREM DeliveredInOrder == PipelineSpec => []SourceOrder
<1>1. StoreOK /\ FlowInv => SourceOrder
  BY OrderOfDelivered DEF FlowInv
<1> QED
  BY <1>1, PipelineInvariant, PTL

\* However many dispatchers count, no two events have one number, and a number that the
\* application misses belongs to an event that was dropped or is still on its way.
THEOREM GapsAreDrops == PipelineSpec => []GapMeansDrop
<1>1. StoreOK /\ FlowInv => GapMeansDrop
  BY GapsOfDelivered DEF FlowInv
<1> QED
  BY <1>1, PipelineInvariant, PTL

\* The types of the pipeline follow from what its parts hold.
LEMMA PipelineTypes ==
  ASSUME StoreOK, HandInv
  PROVE  PipelineTypeOK
<1>1. ASSUME NEW w \in AllWorkers
      PROVE  /\ worker[w].pc \in {"idle", "check", "number", "send", "ended"}
             /\ worker[w].msg.n \in 0 .. arrived /\ worker[w].seq \in 0 .. seqID
  <2>1. arrived \in Nat /\ seqID \in Nat /\ worker[w] \in Worker
    BY Elements DEF StoreOK
  <2>2. CASE Busy(w)
    <3>1. PICK s \in Sources : w \in Workers[s]
      BY DEF AllWorkers
    <3>2. worker[w].msg.n <= arrived /\ worker[w].seq <= seqID
      BY <2>2, <3>1 DEF HandInv
    <3> QED
      BY <2>1, <2>2, <3>2, BusyHas
  <2>3. CASE ~Busy(w)
    BY <2>1, <2>3 DEF Worker, Busy, NoMessage
  <2> QED
    BY <2>2, <2>3
<1> QED
  BY <1>1 DEF StoreOK, PipelineTypeOK

\* Every variable has its type, and the two channels never exceed their capacity.
THEOREM PipelineTypeCorrect == PipelineSpec => []PipelineTypeOK
<1>1. StoreOK /\ FlowInv => PipelineTypeOK
  BY PipelineTypes DEF FlowInv
<1> QED
  BY <1>1, PipelineInvariant, PTL
=============================================================================
