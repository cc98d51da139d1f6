------------------------- MODULE MarketSubscriptions -------------------------
(***************************************************************************)
(* The subscriptions of the Polymarket market channel, pkg/polymarket/     *)
(* market.go: the three asset sets behind subMu and pendingMu, the calls   *)
(* and the ticker that flush them, the hooks that BaseWebSocket runs on a  *)
(* connection, and what the venue holds of each connection.                *)
(*                                                                         *)
(* A step is one critical section of the two state locks, or the frames    *)
(* written under writeMu, which the state locks do not cover: frames can   *)
(* reach the venue in another order than the state changed.  Connections   *)
(* are what BaseWebSocket makes of them: OnDisconnect may come before the  *)
(* lost connection is cleared, or after the next one is up.                *)
(***************************************************************************)
EXTENDS Naturals

CONSTANTS Assets,        \* asset IDs
          Callers,       \* goroutines that call Subscribe and Unsubscribe
          FlushLoop,     \* the goroutine of flushLoop
          Conns,         \* connections; one nothing refers to is used again
          NoConn,        \* nil
          MaxReports,    \* bound of the OnDisconnect calls outstanding at a time
          CtxMayExpire   \* a caller's ctx may make a write fail on a live connection

ASSUME MarketAssumption ==
  /\ FlushLoop \notin Callers /\ NoConn \notin Conns
  /\ MaxReports \in Nat /\ CtxMayExpire \in BOOLEAN

VARIABLES
  subscribed,   \* pm.subscribedAssetIDs
  pendingSub,   \* pm.pendingSubscribeIDs
  pendingUnsub, \* pm.pendingUnsubscribeIDs
  flush,        \* each goroutine's flushPending call
  conn,         \* pm.Conn()
  up,           \* the connections that are up
  hook,         \* dialSync and its onConnect: where it is, and the frame to write
  reports,      \* the OnDisconnect calls still to come
  phase,        \* until Start's Connect succeeds, running, and Stop's two steps
  venue,        \* the assets the venue streams on each connection
  want,         \* history: the assets whose last call was Subscribe
  crossed,      \* history: assets called for again while a flush carried them
  raced         \* history: assets carried by two writers at a time, or whose write failed

sets     == <<subscribed, pendingSub, pendingUnsub>>
connVars == <<conn, up, hook, reports, phase>>
history  == <<want, crossed, raced>>
vars     == <<sets, connVars, history, flush, venue>>

Threads == Callers \cup {FlushLoop}
MaybeConn == Conns \cup {NoConn}
FlushCall == [pc : {"idle", "conn"}, conn : {NoConn}, add : {{}}, remove : {{}}]
               \cup [pc : {"lock", "write", "requeue"}, conn : Conns,
                     add : SUBSET Assets, remove : SUBSET Assets]
NoFlush == [pc |-> "idle", conn |-> NoConn, add |-> {}, remove |-> {}]
HookCall == [pc : {"none", "dial", "lock", "write"}, ids : SUBSET Assets]
NoHook == [pc |-> "none", ids |-> {}]

\* Every variable has its type; a flush that has anything to write has a connection.
TypeOK ==
  /\ subscribed \subseteq Assets /\ pendingSub \subseteq Assets /\ pendingUnsub \subseteq Assets
  /\ flush \in [Threads -> FlushCall]
  /\ conn \in MaybeConn /\ up \subseteq Conns
  /\ hook \in HookCall
  /\ reports \in 0 .. MaxReports
  /\ phase \in {"new", "running", "closed", "stopped"}
  /\ venue \in [Conns -> SUBSET Assets]
  /\ want \subseteq Assets /\ crossed \subseteq Assets /\ raced \subseteq Assets

Init ==
  /\ subscribed = {} /\ pendingSub = {} /\ pendingUnsub = {}
  /\ flush = [t \in Threads |-> NoFlush]
  /\ conn = NoConn /\ up = {} /\ hook = NoHook /\ reports = 0 /\ phase = "new"
  /\ venue = [c \in Conns |-> {}]
  /\ want = {} /\ crossed = {} /\ raced = {}

\* What flush calls have taken from the sets and not yet finished writing.
Carried(t) == flush[t].add \cup flush[t].remove
InFlight == UNION {Carried(t) : t \in Threads}

-----------------------------------------------------------------------------
(* Subscribe and Unsubscribe, up to their call of flushPending             *)

\* Mutant: a new subscription does not take back a queued removal.
SubscribeSetsOnly(A) ==
  pendingSub' = pendingSub \cup (A \ subscribed) /\ pendingUnsub' = pendingUnsub

SubscribeSets(A) ==
  /\ pendingUnsub' = pendingUnsub \ A
  /\ pendingSub' = pendingSub \cup (A \ subscribed)

UnsubscribeSets(A) ==
  /\ pendingSub' = pendingSub \ A
  /\ pendingUnsub' = pendingUnsub \cup A

\* The common part of a call for A; the history notes the flushes it crosses.
Call(t, A) ==
  /\ flush[t].pc = "idle"
  /\ flush' = [flush EXCEPT ![t] = [NoFlush EXCEPT !.pc = "conn"]]
  /\ crossed' = (crossed \ A) \cup (A \cap InFlight)
  /\ UNCHANGED <<subscribed, connVars, raced, venue>>

Subscribe(t, A) ==
  /\ Call(t, A)
  /\ SubscribeSets(A)
  /\ want' = want \cup A

Unsubscribe(t, A) ==
  /\ Call(t, A)
  /\ UnsubscribeSets(A)
  /\ want' = want \ A

-----------------------------------------------------------------------------
(* flushPending                                                            *)

\* Mutant: the ticker stops when Connect returns.
FlushTickBeforeConnect ==
  /\ phase = "new" /\ flush[FlushLoop].pc = "idle"
  /\ flush' = [flush EXCEPT ![FlushLoop] = [NoFlush EXCEPT !.pc = "conn"]]
  /\ UNCHANGED <<sets, connVars, history, venue>>

\* The ticker of flushLoop, until Stop cancels it.
FlushTick ==
  /\ phase \in {"new", "running"} /\ flush[FlushLoop].pc = "idle"
  /\ flush' = [flush EXCEPT ![FlushLoop] = [NoFlush EXCEPT !.pc = "conn"]]
  /\ UNCHANGED <<sets, connVars, history, venue>>

\* Mutant: no test for nil.
FlushConnUnchecked(t) ==
  /\ flush[t].pc = "conn"
  /\ flush' = [flush EXCEPT ![t] = [NoFlush EXCEPT !.pc = "lock", !.conn = conn]]
  /\ UNCHANGED <<sets, connVars, history, venue>>

\* conn := pm.Conn(), before any lock is taken.
FlushConn(t) ==
  /\ flush[t].pc = "conn"
  /\ flush' = [flush EXCEPT ![t] =
       IF conn = NoConn THEN NoFlush ELSE [NoFlush EXCEPT !.pc = "lock", !.conn = conn]]
  /\ UNCHANGED <<sets, connVars, history, venue>>

\* The difference is applied to subscribed before anything is written.  An asset
\* queued in both sets is added and then removed.
FlushLock(t) ==
  LET add    == pendingSub \ subscribed
      remove == pendingUnsub \cap (subscribed \cup pendingSub)
  IN
  /\ flush[t].pc = "lock"
  /\ subscribed' = (subscribed \cup pendingSub) \ pendingUnsub
  /\ pendingSub' = {} /\ pendingUnsub' = {}
  /\ flush' = [flush EXCEPT ![t] =
       IF add \cup remove = {} THEN NoFlush
       ELSE [pc |-> "write", conn |-> flush[t].conn, add |-> add, remove |-> remove]]
  /\ raced' = raced \cup ((add \cup remove) \cap
                          (InFlight \cup IF hook.pc = "write" THEN Assets ELSE {}))
  /\ UNCHANGED <<connVars, want, crossed, venue>>

\* writeMu is held from a flush's first frame until it has queued again what failed.
WriteMuFree == \A t \in Threads : flush[t].pc # "requeue"

\* Whether a frame written to connection c may be accepted, and may fail.
WriteResults(c) ==
  {ok \in BOOLEAN : ok => c \in up \/ c = conn} \ IF c \in up /\ ~CtxMayExpire THEN {FALSE} ELSE {}

Streamed(c, assets) == [venue EXCEPT ![c] = IF c \in up THEN assets ELSE @]

\* What the venue streams after a flush's subscribe frame and its unsubscribe frame.
Frames(t, addOK, removeOK) ==
  (venue[flush[t].conn] \cup IF addOK THEN flush[t].add ELSE {})
    \ IF removeOK THEN flush[t].remove ELSE {}

FlushWrite(t) ==
  /\ flush[t].pc = "write" /\ WriteMuFree
  /\ \E addOK, removeOK \in WriteResults(flush[t].conn) :
       /\ flush[t].add = {} => addOK = removeOK
       /\ flush[t].remove = {} => addOK = removeOK
       /\ venue' = Streamed(flush[t].conn, Frames(t, addOK, removeOK))
       /\ flush' = [flush EXCEPT ![t] =
            IF addOK /\ removeOK THEN NoFlush ELSE [@ EXCEPT !.pc = "requeue"]]
  /\ UNCHANGED <<sets, connVars, history>>

\* Either frame failed: both sets are queued again.
FlushRequeue(t) ==
  /\ flush[t].pc = "requeue"
  /\ pendingSub' = pendingSub \cup flush[t].add
  /\ pendingUnsub' = pendingUnsub \cup flush[t].remove
  /\ raced' = raced \cup Carried(t)
  /\ flush' = [flush EXCEPT ![t] = NoFlush]
  /\ UNCHANGED <<subscribed, connVars, want, crossed, venue>>

-----------------------------------------------------------------------------
(* BaseWebSocket and its hooks                                             *)

Unused(c) == c # conn /\ c \notin up /\ \A t \in Threads : flush[t].conn # c

ShouldConnect == pendingSub # {} \/ subscribed # {}

\* Connect dials whatever is queued, reconnLoop asks ShouldConnect first.
Dial ==
  /\ conn = NoConn /\ hook.pc = "none"
  /\ phase = "new" \/ (phase = "running" /\ ShouldConnect)
  /\ hook' = [NoHook EXCEPT !.pc = "dial"]
  /\ UNCHANGED <<sets, history, flush, conn, up, reports, phase, venue>>

DialOK ==
  /\ hook.pc = "dial" /\ phase \in {"new", "running"}
  /\ \E c \in Conns :
       /\ Unused(c)
       /\ conn' = c /\ up' = up \cup {c}
       /\ venue' = [venue EXCEPT ![c] = {}]
  /\ hook' = [NoHook EXCEPT !.pc = "lock"]
  /\ UNCHANGED <<sets, history, flush, reports, phase>>

DialError ==
  /\ hook.pc = "dial"
  /\ hook' = NoHook
  /\ UNCHANGED <<sets, history, flush, conn, up, reports, phase, venue>>

\* The assets that onConnect takes over.
onConnectIDs == (subscribed \cup pendingSub) \ pendingUnsub

\* Mutant: the handshake asks for what is queued, not for what was subscribed.
HandshakeQueued == pendingSub \ pendingUnsub

\* The assets it asks the venue for.
Handshake == onConnectIDs

\* onConnect returned nil: Connect is done, the read loop starts and reports a
\* connection that broke meanwhile.
Connected ==
  /\ phase' = IF phase = "new" THEN "running" ELSE phase
  /\ conn \notin up \cup {NoConn} => reports < MaxReports
  /\ reports' = IF conn \in up \cup {NoConn} THEN reports ELSE reports + 1

\* onConnect's critical section; it writes nothing when there are no assets.
HookLock ==
  /\ hook.pc = "lock"
  /\ subscribed' = onConnectIDs
  /\ pendingSub' = {} /\ pendingUnsub' = {}
  /\ IF Handshake = {} THEN hook' = NoHook /\ Connected
     ELSE hook' = [pc |-> "write", ids |-> Handshake] /\ UNCHANGED <<reports, phase>>
  /\ raced' = UNION {Carried(t) : t \in {u \in Threads : flush[u].conn = conn}}
  /\ UNCHANGED <<conn, up, want, crossed, flush, venue>>

\* The handshake replaces what the venue streams on this connection.  If it cannot
\* be written dialSync closes the connection, and calls no OnDisconnect.
HookWrite ==
  /\ hook.pc = "write" /\ WriteMuFree
  /\ hook' = NoHook
  /\ \/ /\ conn # NoConn
        /\ venue' = Streamed(conn, hook.ids)
        /\ Connected
        /\ UNCHANGED conn
     \/ /\ conn \notin up
        /\ conn' = NoConn
        /\ UNCHANGED <<reports, phase, venue>>
  /\ UNCHANGED <<sets, history, flush, up>>

\* The connection breaks; its read loop, if it runs already, will report it.
Break ==
  /\ conn \in up
  /\ up' = up \ {conn}
  /\ IF hook.pc = "none" THEN reports < MaxReports /\ reports' = reports + 1
     ELSE UNCHANGED reports
  /\ UNCHANGED <<sets, history, flush, conn, hook, phase, venue>>

\* The read loop clears a broken connection.
Clear ==
  /\ conn # NoConn /\ conn \notin up /\ hook.pc = "none"
  /\ conn' = NoConn
  /\ UNCHANGED <<sets, history, flush, up, hook, reports, phase, venue>>

\* Disconnect, by a ping loop: it clears the connection and then reports.
Disconnect ==
  /\ conn # NoConn /\ reports < MaxReports
  /\ conn' = NoConn /\ up' = up \ {conn}
  /\ reports' = reports + 1
  /\ UNCHANGED <<sets, history, flush, hook, phase, venue>>

\* Mutant: what was subscribed is not queued again.
onDisconnectForgets == subscribed' = {} /\ pendingSub' = pendingSub

onDisconnectSets == subscribed' = {} /\ pendingSub' = pendingSub \cup subscribed

onDisconnect ==
  /\ reports > 0
  /\ reports' = reports - 1
  /\ onDisconnectSets
  /\ UNCHANGED <<pendingUnsub, history, flush, conn, up, hook, phase, venue>>

\* Stop cancels the flush loop and closes the socket; then it clears the sets.
StopClose ==
  /\ phase = "running"
  /\ phase' = "closed"
  /\ conn' = NoConn /\ up' = up \ {conn}
  /\ UNCHANGED <<sets, history, flush, hook, reports, venue>>

clearSubscriptions ==
  /\ phase = "closed" /\ hook.pc = "none"
  /\ phase' = "stopped"
  /\ subscribed' = {} /\ pendingSub' = {} /\ pendingUnsub' = {}
  /\ want' = {} /\ crossed' = InFlight
  /\ UNCHANGED <<flush, conn, up, hook, reports, venue, raced>>
-----------------------------------------------------------------------------
Flush(t) == FlushConn(t) \/ FlushLock(t) \/ FlushWrite(t) \/ FlushRequeue(t)
Hook == DialOK \/ DialError \/ HookLock \/ HookWrite
Socket == Dial \/ Hook \/ Break \/ Clear \/ Disconnect \/ onDisconnect

Next ==
  \/ \E t \in Callers, A \in SUBSET Assets \ {{}} : Subscribe(t, A) \/ Unsubscribe(t, A)
  \/ FlushTick
  \/ \E t \in Threads : Flush(t)
  \/ Socket \/ StopClose \/ clearSubscriptions

Spec == Init /\ [][Next]_vars

\* Goroutines run and the ticker ticks; nothing is assumed of the venue.
FairSpec ==
  Spec /\ WF_vars(FlushTick) /\ WF_vars(Hook) /\ WF_vars(onDisconnect) /\ \A t \in Threads : WF_vars(Flush(t))
-----------------------------------------------------------------------------
(* Properties                                                              *)

\* What the sets amount to: the assets that a handshake would ask for now.
Intended == (subscribed \cup pendingSub) \ pendingUnsub

\* No call is lost and none is undone: whatever flushes, reconnections and late
\* OnDisconnect calls come in between, the sets amount to what the application
\* last asked for.  Excepted are assets it changed its mind about while a flush
\* carried them: if that flush fails, it queues the older wish over the newer.
IntentKept == \A a \in Assets \ crossed : a \in Intended <=> a \in want

\* An asset that the channel believes to be subscribed, and whose events it lets
\* through, is streamed by the venue, unless two writers carried it at the same
\* time or a write of it failed.
BelievedIsStreamed ==
  conn \in up /\ hook.pc = "none" =>
    \A a \in subscribed \ (raced \cup InFlight) : a \in venue[conn]

\* A wish queued while there is a connection is taken up without another call.
QueueDrains ==
  \A a \in Assets :
    (a \in pendingSub /\ phase = "running")
      ~> (a \notin pendingSub \/ conn = NoConn \/ phase # "running")

\* What the comment on the re-queue promises: an asset leaves the queue only when
\* it is written, or is streamed already, or is no longer wanted (the handshake aside).
QueuedIsSent ==
  [][\A a \in pendingSub \cap want' :
        hook.pc = "none" /\ a \notin pendingSub' => a \in InFlight' \/ a \in hook'.ids
                                  \/ (conn # NoConn /\ a \in venue[conn])]_vars
=============================================================================
