---------------------------- MODULE UserChannel ----------------------------
(***************************************************************************)
(* The market filter of the Polymarket user channel, pkg/polymarket/       *)
(* user.go: the three sets behind u.mu, the calls that flush them, and the *)
(* filter the venue keeps for each connection.                             *)
(*                                                                         *)
(* It differs from the market channel: a flush takes the two queues before *)
(* it asks for a connection, records an ID only after its frame, ignores   *)
(* failed writes, and no hook touches the sets: onConnect authenticates    *)
(* and onDisconnect only reports.                                          *)
(***************************************************************************)

CONSTANTS Markets,     \* condition IDs
          UserCallers, \* goroutines that call SubscribeMarkets and UnsubscribeMarkets
          UserConns,   \* connections; one nothing refers to is used again
          Nil

ASSUME UserAssumption == Nil \notin UserConns

VARIABLES
  recorded,     \* u.subscribedMarketIDs
  queuedSub,    \* u.pendingSubscribeMarketIDs
  queuedUnsub,  \* u.pendingUnsubscribeMarketIDs
  flushing,     \* each caller's flushMarketSubscriptions
  userConn,     \* u.Conn()
  userUp,       \* the connections that are up
  userPhase,    \* before Start, dialing, authenticating, open, and Stop's two steps
  filter,       \* the markets the venue reports on each connection
  wished,       \* history: the markets whose last call was SubscribeMarkets
  crossedIDs,   \* history: markets called for while another flush carried them
  stale         \* history: markets carried or recorded before the current connection
                \* was made, and those crossed on it

userSets == <<recorded, queuedSub, queuedUnsub>>
userSocket == <<userConn, userUp, userPhase>>
userVars == <<userSets, flushing, userSocket, filter, wished, crossedIDs, stale>>

IdleFlush == [pc |-> "idle", conn |-> Nil, sub |-> {}, unsub |-> {}]

\* Every variable has its type; an idle flush carries nothing.
UserTypeOK ==
  /\ recorded \subseteq Markets /\ queuedSub \subseteq Markets /\ queuedUnsub \subseteq Markets
  /\ flushing \in [UserCallers ->
       [pc : {"idle", "take", "conn", "unsub", "delete", "sub", "record"},
        conn : UserConns \cup {Nil}, sub : SUBSET Markets, unsub : SUBSET Markets]]
  /\ \A t \in UserCallers : flushing[t].pc = "idle" => flushing[t] = IdleFlush
  /\ userConn \in UserConns \cup {Nil} /\ userUp \subseteq UserConns
  /\ userPhase \in {"new", "dialing", "hook", "open", "closed", "stopped"}
  /\ filter \in [UserConns -> SUBSET Markets]
  /\ wished \subseteq Markets /\ crossedIDs \subseteq Markets /\ stale \subseteq Markets

UserInit ==
  /\ recorded = {} /\ queuedSub = {} /\ queuedUnsub = {}
  /\ flushing = [t \in UserCallers |-> IdleFlush]
  /\ userConn = Nil /\ userUp = {} /\ userPhase = "new"
  /\ filter = [c \in UserConns |-> {}]
  /\ wished = {} /\ crossedIDs = {} /\ stale = {}

Carries(t) == flushing[t].sub \cup flushing[t].unsub
Carried == UNION {Carries(t) : t \in UserCallers}
Goto(t, pc) == flushing' = [flushing EXCEPT ![t].pc = pc]
-----------------------------------------------------------------------------
(* SubscribeMarkets, UnsubscribeMarkets and flushMarketSubscriptions       *)

\* The history notes what other flushes carry, which this call cannot see.
UserCall(t, M) ==
  /\ flushing[t].pc = "idle"
  /\ Goto(t, "take")
  /\ crossedIDs' = (crossedIDs \ M) \cup (M \cap Carried)
  /\ stale' = stale \cup (M \cap Carried)
  /\ UNCHANGED <<recorded, userSocket, filter>>

SubscribeMarkets(t, M) ==
  /\ UserCall(t, M)
  /\ queuedUnsub' = queuedUnsub \ M
  /\ queuedSub' = queuedSub \cup (M \ recorded)
  /\ wished' = wished \cup M

UnsubscribeMarkets(t, M) ==
  /\ UserCall(t, M)
  /\ queuedSub' = queuedSub \ M
  /\ queuedUnsub' = queuedUnsub \cup M
  /\ wished' = wished \ M

\* Both queues are emptied; another flush may carry the same ID the other way.
FlushTake(t) ==
  /\ flushing[t].pc = "take"
  /\ flushing' = [flushing EXCEPT ![t] =
       [pc |-> "conn", conn |-> Nil, sub |-> queuedSub, unsub |-> queuedUnsub]]
  /\ queuedSub' = {} /\ queuedUnsub' = {}
  /\ LET crossing == (queuedSub \cup queuedUnsub) \cap Carried IN
       crossedIDs' = crossedIDs \cup crossing /\ stale' = stale \cup crossing
  /\ UNCHANGED <<recorded, userSocket, filter, wished>>

\* Mutant: without a connection what was taken is not queued again.
RequeueNothing(t) == UNCHANGED <<queuedSub, queuedUnsub>>

Requeue(t) ==
  /\ queuedSub' = queuedSub \cup flushing[t].sub
  /\ queuedUnsub' = queuedUnsub \cup flushing[t].unsub

FlushNoConn(t) ==
  /\ flushing[t].pc = "conn" /\ userConn = Nil
  /\ Requeue(t)
  /\ flushing' = [flushing EXCEPT ![t] = IdleFlush]
  /\ UNCHANGED <<recorded, userSocket, filter, wished, crossedIDs, stale>>

FlushConn(t) ==
  /\ flushing[t].pc = "conn" /\ userConn # Nil
  /\ flushing' = [flushing EXCEPT ![t].conn = userConn, ![t].pc = "unsub"]
  /\ UNCHANGED <<userSets, userSocket, filter, wished, crossedIDs, stale>>

\* The unsubscribe frame; its error is ignored, and nothing else can fail here on a
\* connection that is up, for the context is Background.
FlushUnsub(t) ==
  LET f == flushing[t] IN
  /\ f.pc = "unsub"
  /\ filter' = [filter EXCEPT ![f.conn] = IF f.conn \in userUp THEN @ \ f.unsub ELSE @]
  /\ Goto(t, "delete")
  /\ UNCHANGED <<userSets, userSocket, wished, crossedIDs, stale>>

\* Mutant: what was given up stays recorded.
DeleteNothing(t) ==
  /\ flushing[t].pc = "delete"
  /\ flushing' = [flushing EXCEPT ![t].pc = "sub", ![t].unsub = {}]
  /\ UNCHANGED <<userSets, userSocket, filter, wished, crossedIDs, stale>>

FlushDelete(t) ==
  /\ flushing[t].pc = "delete"
  /\ recorded' = recorded \ flushing[t].unsub
  /\ flushing' = [flushing EXCEPT ![t].pc = "sub", ![t].unsub = {}]
  /\ UNCHANGED <<queuedSub, queuedUnsub, userSocket, filter, wished, crossedIDs, stale>>

FlushSub(t) ==
  LET f == flushing[t] IN
  /\ f.pc = "sub"
  /\ filter' = [filter EXCEPT ![f.conn] = IF f.conn \in userUp THEN @ \cup f.sub ELSE @]
  /\ Goto(t, "record")
  /\ UNCHANGED <<userSets, userSocket, wished, crossedIDs, stale>>

\* Mutant: a finished flush keeps what it carried.
FlushRecordKeeps(t) ==
  /\ flushing[t].pc = "record"
  /\ recorded' = recorded \cup flushing[t].sub
  /\ Goto(t, "idle")
  /\ UNCHANGED <<queuedSub, queuedUnsub, userSocket, filter, wished, crossedIDs, stale>>

FlushRecord(t) ==
  /\ flushing[t].pc = "record"
  /\ recorded' = recorded \cup flushing[t].sub
  /\ flushing' = [flushing EXCEPT ![t] = IdleFlush]
  /\ UNCHANGED <<queuedSub, queuedUnsub, userSocket, filter, wished, crossedIDs, stale>>
-----------------------------------------------------------------------------
(* BaseWebSocket; ShouldConnect is always true and no hook uses the sets   *)

UserDial ==
  /\ userConn = Nil /\ userPhase \in {"new", "open"}
  /\ userPhase' = "dialing"
  /\ UNCHANGED <<userSets, flushing, userConn, userUp, filter, wished, crossedIDs, stale>>

UserDialed ==
  /\ userPhase = "dialing"
  /\ \/ /\ \E c \in UserConns :
             /\ c \notin userUp \cup {userConn}
             /\ \A t \in UserCallers : flushing[t].conn # c
             /\ userConn' = c /\ userUp' = userUp \cup {c}
             /\ filter' = [filter EXCEPT ![c] = {}]
        /\ stale' = recorded \cup Carried
        /\ userPhase' = "hook"
     \/ userPhase' = "open" /\ UNCHANGED <<userConn, userUp, filter, stale>>
  /\ UNCHANGED <<userSets, flushing, wished, crossedIDs>>

\* onConnect writes the authentication frame and nothing else; if it fails the
\* connection is closed.
UserHook ==
  /\ userPhase = "hook"
  /\ userPhase' = "open"
  /\ userConn' \in {userConn} \cup IF userConn \in userUp THEN {} ELSE {Nil}
  /\ UNCHANGED <<userSets, flushing, userUp, filter, wished, crossedIDs, stale>>

\* The connection breaks, unnoticed yet.
UserBreak ==
  /\ userConn \in userUp
  /\ userUp' = userUp \ {userConn}
  /\ UNCHANGED <<userSets, flushing, userConn, userPhase, filter, wished, crossedIDs, stale>>

\* The read loop clears a broken connection, and Disconnect any; onDisconnect reports.
UserDrop ==
  /\ userConn # Nil /\ userPhase \in {"hook", "open"}
  /\ userConn' = Nil /\ userUp' = userUp \ {userConn}
  /\ UNCHANGED <<userSets, flushing, userPhase, filter, wished, crossedIDs, stale>>

\* Stop closes the socket, then clears the sets.
UserStop ==
  /\ userPhase = "open"
  /\ userPhase' = "closed"
  /\ userConn' = Nil /\ userUp' = userUp \ {userConn}
  /\ UNCHANGED <<userSets, flushing, filter, wished, crossedIDs, stale>>

clearUserSubscriptions ==
  /\ userPhase = "closed"
  /\ userPhase' = "stopped"
  /\ recorded' = {} /\ queuedSub' = {} /\ queuedUnsub' = {}
  /\ wished' = {} /\ crossedIDs' = Carried
  /\ UNCHANGED <<flushing, userConn, userUp, filter, stale>>
-----------------------------------------------------------------------------
FlushStep(t) ==
  \/ FlushTake(t) \/ FlushNoConn(t) \/ FlushConn(t)
  \/ FlushUnsub(t) \/ FlushDelete(t) \/ FlushSub(t) \/ FlushRecord(t)

UserNext ==
  \/ \E t \in UserCallers, M \in SUBSET Markets \ {{}} :
       SubscribeMarkets(t, M) \/ UnsubscribeMarkets(t, M)
  \/ \E t \in UserCallers : FlushStep(t)
  \/ UserDial \/ UserDialed \/ UserHook \/ UserBreak \/ UserDrop
  \/ UserStop \/ clearUserSubscriptions

UserSpec == UserInit /\ [][UserNext]_userVars
-----------------------------------------------------------------------------
(* Properties                                                              *)

SubIn(m) == m \in queuedSub \/ \E t \in UserCallers : m \in flushing[t].sub
UnsubIn(m) == m \in queuedUnsub \/ \E t \in UserCallers : m \in flushing[t].unsub

\* No call is lost between the queues, the flushes and the record: a market whose
\* last call was SubscribeMarkets is recorded, queued or being written, with no
\* removal under way, and the other way round.  Excepted are markets that two calls
\* carried at the same time: their frames and their records may come in any order.
UserWishKept ==
  \A m \in Markets \ crossedIDs :
    /\ m \in wished => (m \in recorded \/ SubIn(m)) /\ ~UnsubIn(m)
    /\ m \notin wished => ~SubIn(m) /\ (m \in recorded => UnsubIn(m))

\* What the channel has recorded since the current connection was made is what the
\* venue filters by.  A reconnection makes all older records stale, for onConnect
\* only authenticates, and a market that two calls carried stays in doubt until then:
\* when it is recorded already, asking for it again writes no frame.
UserFilterIsRecorded ==
  userConn \in userUp =>
    \A m \in Markets \ (stale \cup Carried) :
      m \in recorded <=> m \in filter[userConn]
=============================================================================
