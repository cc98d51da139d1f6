---------------------- MODULE MarketSubscriptionsProofs ----------------------
(***************************************************************************)
(* The book-keeping of the market channel follows the application's calls, *)
(* for any number of assets, callers and connections.                      *)
(***************************************************************************)
EXTENDS MarketSubscriptions, TLAPS

\* The types of the variables that the book-keeping is about.
SetsOK ==
  /\ subscribed \subseteq Assets /\ pendingSub \subseteq Assets /\ pendingUnsub \subseteq Assets
  /\ flush \in [Threads -> FlushCall] /\ conn \in MaybeConn
  /\ want \subseteq Assets /\ crossed \subseteq Assets

\* What a flush carries is what the application still wants of it, unless it has
\* called again meanwhile; so queueing it again changes nothing.
FlightOK ==
  \A t \in Threads, a \in Assets \ crossed :
    /\ a \in flush[t].remove => a \notin want
    /\ a \in flush[t].add \ flush[t].remove => a \in want

IntentInv == SetsOK /\ FlightOK /\ IntentKept
-----------------------------------------------------------------------------
\* The result of a flush's frames: it is over, or it will queue what it carried.
LEMMA FlushWriteResult ==
  ASSUME NEW t \in Threads, FlushWrite(t)
  PROVE  /\ \/ flush' = [flush EXCEPT ![t] = NoFlush]
            \/ flush' = [flush EXCEPT ![t] = [@ EXCEPT !.pc = "requeue"]]
         /\ flush[t].pc = "write"
         /\ UNCHANGED <<sets, connVars, history>>
  BY DEF FlushWrite

\* A call registers its assets, whatever was queued or carried before.
LEMMA CallKeepsIntent ==
  ASSUME NEW t \in Threads, NEW A \in SUBSET Assets, IntentInv,
         Subscribe(t, A) \/ Unsubscribe(t, A)
  PROVE  IntentInv'
<1> USE DEF IntentInv, SetsOK, FlushCall, NoFlush, connVars
<1>1. SetsOK'
  BY DEF Subscribe, Unsubscribe, Call, SubscribeSets, UnsubscribeSets
<1>2. FlightOK'
  BY DEF Subscribe, Unsubscribe, Call, SubscribeSets, UnsubscribeSets, FlightOK, InFlight, Carried
<1>3. IntentKept'
  BY DEF Subscribe, Unsubscribe, Call, SubscribeSets, UnsubscribeSets, IntentKept, Intended
<1> QED
  BY <1>1, <1>2, <1>3

\* Each step of a flush keeps the book-keeping.
LEMMA FlushKeepsIntent ==
  ASSUME NEW t \in Threads, IntentInv, Flush(t)
  PROVE  IntentInv'
<1> USE MarketAssumption DEF IntentInv, SetsOK, FlushCall, NoFlush, MaybeConn, sets, connVars,
        history
<1>1. CASE FlushConn(t)
  <2>1. SetsOK'
    BY <1>1 DEF FlushConn
  <2>2. FlightOK'
    BY <1>1 DEF FlushConn, FlightOK
  <2>3. IntentKept'
    BY <1>1 DEF FlushConn, IntentKept, Intended
  <2> QED
    BY <2>1, <2>2, <2>3
<1>2. CASE FlushLock(t)
  <2>1. SetsOK'
    BY <1>2 DEF FlushLock
  <2>2. FlightOK'
    BY <1>2 DEF FlushLock, FlightOK, IntentKept, Intended
  <2>3. IntentKept'
    BY <1>2 DEF FlushLock, IntentKept, Intended
  <2> QED
    BY <2>1, <2>2, <2>3
<1>3. CASE FlushWrite(t)
  <2>1. SetsOK'
    BY <1>3, FlushWriteResult
  <2>2. FlightOK'
    BY <1>3, FlushWriteResult DEF FlightOK
  <2>3. IntentKept'
    BY <1>3, FlushWriteResult DEF IntentKept, Intended
  <2> QED
    BY <2>1, <2>2, <2>3
<1>4. CASE FlushRequeue(t)
  <2>1. SetsOK'
    BY <1>4 DEF FlushRequeue
  <2>2. FlightOK'
    BY <1>4 DEF FlushRequeue, FlightOK
  <2>3. IntentKept'
    BY <1>4 DEF FlushRequeue, FlightOK, IntentKept, Intended
  <2> QED
    BY <2>1, <2>2, <2>3
<1> QED
  BY <1>1, <1>2, <1>3, <1>4 DEF Flush

\* The socket and its hooks keep it: a lost connection and a new one move assets
\* between the sets, never out of them.
LEMMA SocketKeepsIntent ==
  ASSUME IntentInv, Socket \/ StopClose
  PROVE  IntentInv'
<1> USE DEF IntentInv, SetsOK, FlightOK, IntentKept, Intended, MaybeConn, sets, history
<1>1. CASE Dial \/ DialOK \/ DialError \/ HookWrite \/ Break \/ Clear \/ Disconnect \/ StopClose
  BY <1>1 DEF Dial, DialOK, DialError, HookWrite, Break, Clear, Disconnect, StopClose
<1>2. CASE HookLock
  BY <1>2 DEF HookLock, onConnectIDs
<1>3. CASE onDisconnect
  BY <1>3 DEF onDisconnect, onDisconnectSets
<1> QED
  BY <1>1, <1>2, <1>3 DEF Socket, Hook

\* Every step keeps the book-keeping.
LEMMA IntentStep == IntentInv /\ [Next]_vars => IntentInv'
<1>1. ASSUME IntentInv, NEW t \in Callers, NEW A \in SUBSET Assets,
             Subscribe(t, A) \/ Unsubscribe(t, A)
      PROVE  IntentInv'
  BY <1>1, CallKeepsIntent DEF Threads
<1>2. ASSUME IntentInv, NEW t \in Threads, Flush(t) PROVE IntentInv'
  BY <1>2, FlushKeepsIntent
<1>3. IntentInv /\ (Socket \/ StopClose) => IntentInv'
  BY SocketKeepsIntent
<1>4. IntentInv /\ FlushTick => IntentInv'
  BY DEF FlushTick, IntentInv, SetsOK, FlightOK, IntentKept, Intended, sets, connVars, history, FlushCall,
         NoFlush, Threads
<1>5. IntentInv /\ clearSubscriptions => IntentInv'
  BY DEF clearSubscriptions, IntentInv, SetsOK, FlightOK, IntentKept, Intended, FlushCall,
         InFlight, Carried
<1>6. IntentInv /\ UNCHANGED vars => IntentInv'
  BY DEF vars, IntentInv, SetsOK, FlightOK, IntentKept, Intended, sets, connVars, history
<1> QED
  BY <1>1, <1>2, <1>3, <1>4, <1>5, <1>6 DEF Next

\* No call is lost and none undone, however many assets and callers there are and
\* however flushes, failures, reconnections and late OnDisconnect calls interleave.
THEOREM NoCallLost == Spec => []IntentKept
<1>1. Init => IntentInv
  BY DEF Init, IntentInv, SetsOK, FlightOK, IntentKept, Intended, FlushCall, NoFlush, MaybeConn
<1>2. IntentInv => IntentKept
  BY DEF IntentInv
<1> QED
  BY <1>1, <1>2, IntentStep, PTL DEF Spec

-----------------------------------------------------------------------------
\* The types of the other variables: the socket's, and the venue's.
SocketOK ==
  /\ up \subseteq Conns /\ hook \in HookCall /\ reports \in 0 .. MaxReports
  /\ phase \in {"new", "running", "closed", "stopped"}
  /\ venue \in [Conns -> SUBSET Assets] /\ raced \subseteq Assets

\* The frames of a flush leave the venue with assets.
LEMMA FramesType ==
  ASSUME NEW t \in Threads, SetsOK, SocketOK, FlushWrite(t)
  PROVE  venue' \in [Conns -> SUBSET Assets]
<1>1. flush[t].conn \in Conns /\ flush[t].add \subseteq Assets
  BY DEF FlushWrite, SetsOK, FlushCall
<1>2. PICK addOK, removeOK : venue' = Streamed(flush[t].conn, Frames(t, addOK, removeOK))
  BY DEF FlushWrite
<1>3. Frames(t, addOK, removeOK) \subseteq Assets
  BY <1>1 DEF SocketOK, Frames
<1> QED
  BY <1>2, <1>3 DEF Streamed, SocketOK

\* Every step keeps them.
LEMMA SocketStep == SetsOK /\ SocketOK /\ [Next]_vars => SocketOK'
<1> USE MarketAssumption DEF SetsOK, SocketOK, HookCall, NoHook, connVars, history, sets
<1>1. ASSUME SetsOK, SocketOK, NEW t \in Callers, NEW A \in SUBSET Assets,
             Subscribe(t, A) \/ Unsubscribe(t, A)
      PROVE  SocketOK'
  BY <1>1 DEF Subscribe, Unsubscribe, Call
<1>2. ASSUME SetsOK, SocketOK, FlushTick PROVE SocketOK'
  BY <1>2 DEF FlushTick
<1>3. ASSUME SetsOK, SocketOK, NEW t \in Threads, FlushConn(t) PROVE SocketOK'
  BY <1>3 DEF FlushConn
<1>4. ASSUME SetsOK, SocketOK, NEW t \in Threads, FlushLock(t) PROVE SocketOK'
  <2>1. raced' \subseteq Assets
    BY <1>4 DEF FlushLock
  <2> QED
    BY <1>4, <2>1 DEF FlushLock
<1>5. ASSUME SetsOK, SocketOK, NEW t \in Threads, FlushWrite(t) PROVE SocketOK'
  BY <1>5, FramesType, FlushWriteResult
<1>6. ASSUME SetsOK, SocketOK, NEW t \in Threads, FlushRequeue(t) PROVE SocketOK'
  BY <1>6 DEF FlushRequeue, Carried, FlushCall
<1>7. ASSUME SetsOK, SocketOK, Dial \/ DialOK \/ DialError \/ Break \/ Clear \/ Disconnect PROVE SocketOK'
  BY <1>7 DEF Dial, DialOK, DialError, Break, Clear, Disconnect
<1>8. ASSUME SetsOK, SocketOK, HookLock PROVE SocketOK'
  <2>1. hook' \in HookCall
    BY <1>8 DEF HookLock, Handshake, onConnectIDs
  <2>2. raced' \subseteq Assets
    BY <1>8 DEF HookLock, Carried, FlushCall
  <2>3. reports' \in 0 .. MaxReports /\ phase' \in {"new", "running", "closed", "stopped"}
    BY <1>8 DEF HookLock, Connected, MaybeConn
  <2> QED
    BY <1>8, <2>1, <2>2, <2>3 DEF HookLock
<1>9. ASSUME SetsOK, SocketOK, HookWrite PROVE SocketOK'
  BY <1>9 DEF HookWrite, Connected, Streamed, MaybeConn
<1>10. ASSUME SetsOK, SocketOK, onDisconnect \/ StopClose \/ clearSubscriptions PROVE SocketOK'
  BY <1>10 DEF onDisconnect, StopClose, clearSubscriptions
<1>11. ASSUME SetsOK, SocketOK, UNCHANGED vars PROVE SocketOK'
  BY <1>11 DEF vars
<1> QED
  BY <1>1, <1>2, <1>3, <1>4, <1>5, <1>6, <1>7, <1>8, <1>9, <1>10, <1>11
     DEF Next, Flush, Socket, Hook

\* Every reachable state is type-correct, and no flush writes to a nil connection.
THEOREM MarketTypeCorrect == Spec => []TypeOK
<1>1. Init => IntentInv /\ SocketOK
  BY MarketAssumption DEF Init, IntentInv, SetsOK, FlightOK, IntentKept, Intended, FlushCall,
     NoFlush, MaybeConn, SocketOK, HookCall, NoHook
<1>2. IntentInv /\ SocketOK /\ [Next]_vars => (IntentInv /\ SocketOK)'
  BY IntentStep, SocketStep DEF IntentInv
<1>3. IntentInv /\ SocketOK => TypeOK
  BY DEF IntentInv, SetsOK, SocketOK, TypeOK
<1> QED
  BY <1>1, <1>2, <1>3, PTL DEF Spec
-----------------------------------------------------------------------------
(* What the channel believes to be subscribed is streamed                  *)

\* While the handshake is to be written it asks for all that is believed; afterwards
\* it is streamed, or a flush of the current connection has it to write.
StreamInv(a) ==
  conn \in up /\ a \notin raced =>
    /\ hook.pc = "write" =>
         /\ a \in subscribed => a \in hook.ids
         /\ \A t \in Threads : a \in Carried(t) => flush[t].conn # conn
    /\ hook.pc = "none" =>
         /\ a \in subscribed => a \in venue[conn] \/ \E t \in Threads : a \in Carried(t)
         /\ \A t \in Threads :
              a \in Carried(t) /\ flush[t].conn = conn /\ a \in subscribed
                => a \in flush[t].add \ flush[t].remove

\* Only the current connection is up, and there is none while another is dialed.
OneUp == up \subseteq {conn} /\ (hook.pc = "dial" => conn = NoConn)

\* A flush carries nothing before it has the lock.
LockEmpty == \A t \in Threads : flush[t].pc = "lock" => flush[t].add = {} /\ flush[t].remove = {}

StreamsInv == IntentInv /\ SocketOK /\ OneUp /\ LockEmpty /\ \A a \in Assets : StreamInv(a)

\* Steps that touch neither the flushes, the hook nor what is streamed.
LEMMA StreamsStay ==
  ASSUME StreamsInv, UNCHANGED <<flush, hook, raced, venue, subscribed>>,
         up' \subseteq up, conn' = conn \/ conn' \notin up'
  PROVE  \A a \in Assets : StreamInv(a)'
  BY DEF StreamsInv, StreamInv, Carried

\* A call, a tick and the reading of Conn() carry nothing.
LEMMA NothingCarried ==
  ASSUME StreamsInv, NEW t \in Threads, NEW r \in FlushCall, Carried(t) = {},
         flush' = [flush EXCEPT ![t] = r], r.add = {}, r.remove = {},
         UNCHANGED <<hook, raced, venue, subscribed, conn, up>>
  PROVE  \A a \in Assets : StreamInv(a)'
<1>1. flush'[t] = r /\ \A u \in Threads \ {t} : flush'[u] = flush[u]
  BY DEF StreamsInv, IntentInv, SetsOK
<1>2. \A a \in Assets, u \in Threads : a \in Carried(u)' <=> a \in Carried(u)
  BY <1>1 DEF Carried
<1>3. \A a \in Assets, u \in Threads : a \in Carried(u) => flush'[u] = flush[u]
  BY <1>1 DEF Carried
<1> SUFFICES ASSUME NEW a \in Assets PROVE StreamInv(a)'
  OBVIOUS
<1>4. StreamInv(a)
  BY DEF StreamsInv
<1> QED
  BY <1>2, <1>3, <1>4 DEF StreamInv

\* A flush that finds an asset in flight or a handshake under way marks it as raced; of
\* any other it believes to be subscribed what it believed before, or has it to write.
LEMMA FlushLockStreams ==
  ASSUME StreamsInv, NEW t \in Threads, FlushLock(t)
  PROVE  LockEmpty' /\ \A a \in Assets : StreamInv(a)'
<1> DEFINE add == pendingSub \ subscribed
           remove == pendingUnsub \cap (subscribed \cup pendingSub)
           r == IF add \cup remove = {} THEN NoFlush
                ELSE [pc |-> "write", conn |-> flush[t].conn, add |-> add, remove |-> remove]
<1>1. /\ flush[t].pc = "lock" /\ flush' = [flush EXCEPT ![t] = r]
      /\ subscribed' = (subscribed \cup pendingSub) \ pendingUnsub
      /\ raced' = raced \cup ((add \cup remove) \cap
                          (InFlight \cup IF hook.pc = "write" THEN Assets ELSE {}))
      /\ UNCHANGED <<conn, up, hook, venue>>
  BY DEF FlushLock, connVars
<1>2. /\ flush \in [Threads -> FlushCall] /\ r.add = add /\ r.remove = remove /\ r.pc # "lock"
      /\ Carried(t) = {}
  BY <1>1 DEF StreamsInv, IntentInv, SetsOK, NoFlush, LockEmpty, Carried
<1> HIDE DEF r
<1>3. flush'[t] = r /\ \A u \in Threads \ {t} : flush'[u] = flush[u]
  BY <1>1, <1>2
<1>4. LockEmpty'
  BY <1>2, <1>3 DEF StreamsInv, LockEmpty
<1>5. ASSUME NEW a \in Assets, conn \in up, a \notin raced' PROVE StreamInv(a)'
  <2>1. StreamInv(a) /\ a \notin raced
    BY <1>1, <1>5 DEF StreamsInv
  <2>2. CASE a \in add \cup remove
    <3>1. hook.pc # "write" /\ a \notin InFlight
      BY <1>1, <1>5, <2>2
    <3>2. \A u \in Threads \ {t} : a \notin Carried(u)'
      BY <1>3, <3>1 DEF InFlight, Carried
    <3>3. a \in Carried(t)' /\ (a \in subscribed' => a \in r.add \ r.remove)
      BY <1>1, <1>2, <1>3, <2>2 DEF Carried
    <3> QED
      BY <1>1, <1>3, <3>1, <3>2, <3>3 DEF StreamInv
  <2>3. CASE a \notin add \cup remove
    <3>1. a \in subscribed' => a \in subscribed
      BY <1>1, <2>3
    <3>2. a \notin Carried(t)' /\ a \notin Carried(t)
      BY <1>2, <1>3, <2>3 DEF Carried
    <3>3. \A u \in Threads : a \in Carried(u)' <=> a \in Carried(u)
      BY <1>3, <3>2 DEF Carried
    <3>4. \A u \in Threads : a \in Carried(u) => flush'[u] = flush[u]
      BY <1>3, <3>2
    <3> QED
      BY <1>1, <2>1, <3>1, <3>3, <3>4 DEF StreamInv
  <2> QED
    BY <2>2, <2>3
<1> QED
  BY <1>1, <1>4, <1>5 DEF StreamInv

\* The frames of a flush reach only the connection that is up, and what they leave
\* undone stays in flight.
LEMMA FlushWriteStreams ==
  ASSUME StreamsInv, NEW t \in Threads, FlushWrite(t)
  PROVE  LockEmpty' /\ \A a \in Assets : StreamInv(a)'
<1> DEFINE f == flush[t]
<1>1. PICK addOK, removeOK \in WriteResults(f.conn) :
        /\ f.add = {} => addOK = removeOK
        /\ f.remove = {} => addOK = removeOK
        /\ venue' = Streamed(f.conn, Frames(t, addOK, removeOK))
        /\ flush' = [flush EXCEPT ![t] =
             IF addOK /\ removeOK THEN NoFlush ELSE [@ EXCEPT !.pc = "requeue"]]
  BY DEF FlushWrite
<1>2. /\ f.pc = "write" /\ f \in FlushCall /\ f.conn \in Conns /\ flush \in [Threads -> FlushCall]
      /\ UNCHANGED <<subscribed, conn, up, hook, raced>>
  BY DEF FlushWrite, sets, connVars, history, StreamsInv, IntentInv, SetsOK, FlushCall
<1>3. \A u \in Threads \ {t} : flush'[u] = flush[u]
  BY <1>1, <1>2
<1>4. \/ addOK /\ removeOK /\ flush'[t] = NoFlush
      \/ /\ ~(addOK /\ removeOK) /\ flush'[t].pc = "requeue"
         /\ flush'[t].add = f.add /\ flush'[t].remove = f.remove /\ flush'[t].conn = f.conn
  BY <1>1, <1>2 DEF FlushCall
<1>5. LockEmpty'
  BY <1>3, <1>4 DEF StreamsInv, LockEmpty, NoFlush
<1>6. /\ addOK => f.conn \in up \/ f.conn = conn
      /\ \A c \in Conns \ {f.conn} : venue'[c] = venue[c]
      /\ f.conn \in up => venue'[f.conn] = Frames(t, addOK, removeOK)
  BY <1>1, <1>2 DEF WriteResults, Streamed, StreamsInv, SocketOK
<1>7. ASSUME NEW a \in Assets, conn \in up, a \notin raced PROVE StreamInv(a)'
  <2>1. StreamInv(a) /\ conn \in Conns /\ up \subseteq {conn}
    BY <1>7 DEF StreamsInv, OneUp, SocketOK
  <2>2. \A u \in Threads : a \in Carried(u)' => a \in Carried(u)
    BY <1>3, <1>4 DEF Carried, NoFlush
  <2>3. \A u \in Threads : a \in Carried(u)' =>
          /\ flush'[u].conn = flush[u].conn
          /\ flush'[u].add = flush[u].add /\ flush'[u].remove = flush[u].remove
    BY <1>3, <1>4 DEF Carried, NoFlush
  <2>4. CASE hook.pc = "write"
    BY <1>2, <1>7, <2>1, <2>2, <2>3, <2>4 DEF StreamInv
  <2>5. CASE hook.pc = "none"
    <3>1. a \in subscribed => a \in venue'[conn] \/ \E u \in Threads : a \in Carried(u)'
      <4> SUFFICES ASSUME a \in subscribed, \A u \in Threads : a \notin Carried(u)'
                   PROVE  a \in venue'[conn]
        OBVIOUS
      <4>1. \A u \in Threads \ {t} : a \notin Carried(u)
        BY <1>3 DEF Carried
      <4>2. CASE a \in Carried(t)
        <5>1. addOK /\ removeOK
          BY <1>4, <4>2 DEF Carried
        <5>2. f.conn = conn
          BY <1>6, <2>1, <5>1
        <5>3. a \in f.add \ f.remove
          BY <1>7, <2>1, <2>5, <4>2, <5>2 DEF StreamInv
        <5> QED
          BY <1>6, <1>7, <5>1, <5>2, <5>3 DEF Frames
      <4>3. CASE a \notin Carried(t)
        <5>1. a \in venue[conn]
          BY <1>7, <2>1, <2>5, <4>1, <4>3 DEF StreamInv
        <5>2. a \notin f.add /\ a \notin f.remove
          BY <4>3 DEF Carried
        <5> QED
          BY <1>6, <1>7, <2>1, <5>1, <5>2 DEF Frames
      <4> QED
        BY <4>2, <4>3
    <3> QED
      BY <1>2, <1>7, <2>1, <2>2, <2>3, <2>5, <3>1 DEF StreamInv
  <2>6. CASE hook.pc \notin {"write", "none"}
    BY <1>2, <2>6 DEF StreamInv
  <2> QED
    BY <2>4, <2>5, <2>6
<1> QED
  BY <1>2, <1>5, <1>7 DEF StreamInv

\* A flush that failed marks what it carried as raced.
LEMMA FlushRequeueStreams ==
  ASSUME StreamsInv, NEW t \in Threads, FlushRequeue(t)
  PROVE  LockEmpty' /\ \A a \in Assets : StreamInv(a)'
<1>1. /\ flush' = [flush EXCEPT ![t] = NoFlush] /\ raced' = raced \cup Carried(t)
      /\ UNCHANGED <<subscribed, conn, up, hook, venue>>
  BY DEF FlushRequeue, connVars
<1>2. flush'[t] = NoFlush /\ \A u \in Threads \ {t} : flush'[u] = flush[u]
  BY <1>1 DEF StreamsInv, IntentInv, SetsOK
<1>3. LockEmpty'
  BY <1>2 DEF StreamsInv, LockEmpty, NoFlush
<1>4. ASSUME NEW a \in Assets, a \notin raced' PROVE StreamInv(a)'
  <2>1. StreamInv(a) /\ a \notin Carried(t) /\ a \notin raced /\ a \notin Carried(t)'
    BY <1>1, <1>2, <1>4 DEF StreamsInv, Carried, NoFlush
  <2>2. \A u \in Threads : a \in Carried(u)' <=> a \in Carried(u)
    BY <1>2, <2>1 DEF Carried
  <2>3. \A u \in Threads : a \in Carried(u) => flush'[u] = flush[u]
    BY <1>2, <2>1
  <2> QED
    BY <1>1, <2>1, <2>2, <2>3 DEF StreamInv
<1> QED
  BY <1>3, <1>4 DEF StreamInv

\* The handshake: what flushes of this connection carry is raced, the rest is asked for.
LEMMA HookLockStreams ==
  ASSUME StreamsInv, HookLock
  PROVE  LockEmpty' /\ \A a \in Assets : StreamInv(a)'
<1>1. /\ hook.pc = "lock" /\ subscribed' = onConnectIDs
      /\ raced' = UNION {Carried(t) : t \in {u \in Threads : flush[u].conn = conn}}
      /\ UNCHANGED <<conn, up, flush, venue>>
      /\ \/ onConnectIDs = {} /\ hook'.pc = "none"
         \/ hook'.pc = "write" /\ hook'.ids = onConnectIDs
  BY DEF HookLock, Handshake, NoHook
<1>2. LockEmpty'
  BY <1>1 DEF StreamsInv, LockEmpty
<1>3. ASSUME NEW a \in Assets, a \notin raced' PROVE StreamInv(a)'
  <2>1. \A t \in Threads : a \in Carried(t) => flush[t].conn # conn
    BY <1>1, <1>3
  <2> QED
    BY <1>1, <2>1 DEF StreamInv, Carried
<1> QED
  BY <1>2, <1>3 DEF StreamInv

\* Writing the handshake makes the venue stream all that it asks for.
LEMMA HookWriteStreams ==
  ASSUME StreamsInv, HookWrite
  PROVE  LockEmpty' /\ \A a \in Assets : StreamInv(a)'
<1>1. /\ hook.pc = "write" /\ hook'.pc = "none"
      /\ UNCHANGED <<subscribed, raced, flush, up>>
      /\ \/ conn # NoConn /\ venue' = Streamed(conn, hook.ids) /\ UNCHANGED conn
         \/ conn' = NoConn
  BY DEF HookWrite, NoHook, sets, history
<1>2. LockEmpty'
  BY <1>1 DEF StreamsInv, LockEmpty
<1>3. ASSUME NEW a \in Assets, a \notin raced, conn' \in up PROVE StreamInv(a)'
  <2>1. conn' = conn /\ venue' = Streamed(conn, hook.ids) /\ conn \in Conns
    BY <1>1, <1>3, MarketAssumption DEF StreamsInv, SocketOK
  <2>2. /\ a \in subscribed => a \in hook.ids
        /\ \A t \in Threads : a \in Carried(t) => flush[t].conn # conn
    BY <1>1, <1>3, <2>1 DEF StreamsInv, StreamInv
  <2>3. venue'[conn] = hook.ids
    BY <1>3, <2>1 DEF Streamed, StreamsInv, SocketOK
  <2> QED
    BY <1>1, <2>1, <2>2, <2>3 DEF StreamInv, Carried
<1> QED
  BY <1>1, <1>2, <1>3 DEF StreamInv

\* Every step keeps the invariant.
LEMMA StreamsStep == StreamsInv /\ [Next]_vars => OneUp' /\ LockEmpty' /\ \A a \in Assets : StreamInv(a)'
<1> USE DEF sets, connVars, history
<1>1. StreamsInv /\ [Next]_vars => OneUp'
  <2> SUFFICES ASSUME StreamsInv, [Next]_vars PROVE OneUp'
    OBVIOUS
  <2> USE MarketAssumption DEF StreamsInv, OneUp, SocketOK
  <2>1. CASE UNCHANGED <<conn, up, hook>>
    BY <2>1
  <2>2. CASE Dial \/ Hook
    BY <2>2 DEF Dial, Hook, DialOK, DialError, HookLock, HookWrite, NoHook
  <2>3. CASE Break \/ Clear \/ Disconnect \/ StopClose
    BY <2>3 DEF Break, Clear, Disconnect, StopClose
  <2> QED
    BY <2>1, <2>2, <2>3 DEF Next, Socket, Subscribe, Unsubscribe, Call, FlushTick, Flush,
       FlushConn, FlushLock, FlushWrite, FlushRequeue, onDisconnect, clearSubscriptions, vars
<1>2. ASSUME StreamsInv, NEW t \in Threads, NEW r \in FlushCall, flush[t].pc \in {"idle", "conn"},
             flush' = [flush EXCEPT ![t] = r], r.add = {}, r.remove = {},
             UNCHANGED <<hook, raced, venue, subscribed, conn, up>>
      PROVE  LockEmpty' /\ \A a \in Assets : StreamInv(a)'
  <2>1. Carried(t) = {}
    BY <1>2 DEF StreamsInv, IntentInv, SetsOK, FlushCall, Carried
  <2>2. LockEmpty'
    BY <1>2 DEF StreamsInv, LockEmpty, SetsOK
  <2> QED
    BY <1>2, <2>1, <2>2, NothingCarried
<1>3. ASSUME StreamsInv, NEW t \in Callers, NEW A \in SUBSET Assets,
             Subscribe(t, A) \/ Unsubscribe(t, A)
      PROVE  LockEmpty' /\ \A a \in Assets : StreamInv(a)'
  <2> DEFINE r == [NoFlush EXCEPT !.pc = "conn"]
  <2>1. r \in FlushCall /\ r.add = {} /\ r.remove = {}
    BY DEF NoFlush, FlushCall
  <2> QED
    BY <1>2, <1>3, <2>1 DEF Subscribe, Unsubscribe, Call, Threads
<1>4. ASSUME StreamsInv, FlushTick PROVE LockEmpty' /\ \A a \in Assets : StreamInv(a)'
  <2> DEFINE r == [NoFlush EXCEPT !.pc = "conn"]
  <2>1. r \in FlushCall /\ r.add = {} /\ r.remove = {}
    BY DEF NoFlush, FlushCall
  <2> QED
    BY <1>2, <1>4, <2>1 DEF FlushTick, Threads
<1>5. ASSUME StreamsInv, NEW t \in Threads, FlushConn(t)
      PROVE  LockEmpty' /\ \A a \in Assets : StreamInv(a)'
  <2> DEFINE r == IF conn = NoConn THEN NoFlush ELSE [NoFlush EXCEPT !.pc = "lock", !.conn = conn]
  <2>1. conn \in Conns \cup {NoConn}
    BY <1>5 DEF StreamsInv, IntentInv, SetsOK, MaybeConn
  <2>2. r \in FlushCall /\ r.add = {} /\ r.remove = {}
    BY <2>1 DEF NoFlush, FlushCall
  <2> QED
    BY <1>2, <1>5, <2>2 DEF FlushConn
<1>6. ASSUME StreamsInv, DialOK PROVE LockEmpty' /\ \A a \in Assets : StreamInv(a)'
  BY <1>6 DEF DialOK, StreamInv, StreamsInv, LockEmpty, NoHook
<1>7. ASSUME StreamsInv, Dial \/ DialError PROVE LockEmpty' /\ \A a \in Assets : StreamInv(a)'
  <2>1. conn' \notin up'
    BY <1>7, MarketAssumption DEF Dial, DialError, StreamsInv, OneUp, SocketOK
  <2> QED
    BY <1>7, <2>1 DEF Dial, DialError, StreamInv, StreamsInv, LockEmpty
<1>8. ASSUME StreamsInv, Break \/ Clear \/ Disconnect \/ StopClose
      PROVE  LockEmpty' /\ \A a \in Assets : StreamInv(a)'
  <2>1. /\ UNCHANGED <<flush, hook, raced, venue, subscribed>> /\ up' \subseteq up
        /\ conn' = conn \/ conn' \notin up'
    BY <1>8, MarketAssumption DEF Break, Clear, Disconnect, StopClose, StreamsInv, SocketOK
  <2>2. LockEmpty'
    BY <1>8, <2>1 DEF StreamsInv, LockEmpty
  <2> QED
    BY <1>8, <2>1, <2>2, StreamsStay
<1>9. ASSUME StreamsInv, onDisconnect \/ clearSubscriptions
      PROVE  LockEmpty' /\ \A a \in Assets : StreamInv(a)'
  <2>1. subscribed' = {} /\ UNCHANGED <<flush, hook, raced, venue, conn, up>>
    BY <1>9 DEF onDisconnect, onDisconnectSets, clearSubscriptions
  <2>2. LockEmpty'
    BY <1>9, <2>1 DEF StreamsInv, LockEmpty
  <2>3. ASSUME NEW a \in Assets PROVE StreamInv(a)'
    <3>1. StreamInv(a)
      BY <1>9 DEF StreamsInv
    <3> QED
      BY <2>1, <3>1 DEF StreamInv, Carried
  <2> QED
    BY <2>2, <2>3
<1>10. ASSUME StreamsInv, UNCHANGED vars PROVE LockEmpty' /\ \A a \in Assets : StreamInv(a)'
  BY <1>10, StreamsStay DEF StreamsInv, LockEmpty, vars
<1> QED
  BY <1>1, <1>3, <1>4, <1>5, <1>6, <1>7, <1>8, <1>9, <1>10, FlushLockStreams, FlushWriteStreams,
     FlushRequeueStreams, HookLockStreams, HookWriteStreams
     DEF Next, Flush, Hook, Socket

\* An asset the channel believes to be subscribed, and whose events it lets through, is
\* streamed by the venue, however flushes, handshakes, failures and losses interleave.
THEOREM BelievedStreamed == Spec => []BelievedIsStreamed
<1>1. Init => StreamsInv
  BY MarketAssumption DEF Init, StreamsInv, IntentInv, SetsOK, FlightOK, IntentKept, Intended,
     SocketOK, OneUp, LockEmpty, StreamInv,
     FlushCall, NoFlush, MaybeConn, HookCall, NoHook
<1>2. StreamsInv /\ [Next]_vars => StreamsInv'
  <2>1. StreamsInv /\ [Next]_vars => IntentInv' /\ SocketOK'
    BY IntentStep, SocketStep DEF StreamsInv, IntentInv
  <2> QED
    BY <2>1, StreamsStep DEF StreamsInv
<1>3. StreamsInv => BelievedIsStreamed
  <2> SUFFICES ASSUME StreamsInv, conn \in up, hook.pc = "none",
                      NEW a \in subscribed, a \notin raced, a \notin InFlight
               PROVE  a \in venue[conn]
    BY DEF BelievedIsStreamed
  <2>1. StreamInv(a) /\ \A t \in Threads : a \notin Carried(t)
    BY DEF StreamsInv, IntentInv, SetsOK, InFlight
  <2> QED
    BY <2>1 DEF StreamInv
<1> QED
  BY <1>1, <1>2, <1>3, PTL DEF Spec

=============================================================================
