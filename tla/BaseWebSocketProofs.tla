------------------------ MODULE BaseWebSocketProofs ------------------------
(***************************************************************************)
(* Type correctness of the socket, the two invariants about who owns       *)
(* b.conn, and that Close is final, for any number of sockets and any      *)
(* setting of the options.                                                 *)
(***************************************************************************)
EXTENDS BaseWebSocket, TLAPS

\* Only one dialSync is in progress at a time, run by Connect or by reconnLoop,
\* while it dials the status is not connected, so that b.conn is nil, and b.conn
\* stays nil after a failed hook until the status says so.
DialerInv ==
  /\ connect = "idle" => conn = NoConn
  /\ connect \in {"idle", "dialing"} => reconn = "off"
  /\ connect # "dialing" /\ reconn # "dialing" => dial = NoDial
  /\ dial.pc = "dialing" => status # "connected"
  /\ dial.pc = "closed" => conn = NoConn

\* A ping loop calls Disconnect once and only for its own socket, so it cannot
\* start over a Disconnect call that still holds a socket.
PingInv ==
  /\ \A c \in pinger : disc[c].pc = "idle"
  /\ dial.pc = "installed" => dial.conn \notin pinger /\ disc[dial.conn].pc = "idle"

OwnerInv == DialerInv /\ PingInv /\ ConnImpliesConnected /\ NoLeakedSocket
-----------------------------------------------------------------------------
\* The initial state is type-correct.
LEMMA TypeInit == Init => TypeOK
<1>1. Init => FlagsOK
  BY DEF Init, FlagsOK
<1>2. Init => StateOK
  BY SocketAssumption DEF Init, StateOK, NoDial, NoReader, Idle, Link, Dial, ReaderState,
     DisconnectPC, Callers
<1> QED
  BY <1>1, <1>2 DEF TypeOK

\* Every step keeps the Boolean variables Boolean.
LEMMA FlagsStep == FlagsOK /\ [Next]_vars => FlagsOK'
<1> USE SocketAssumption DEF FlagsOK, sharedVars, outerVars, callVars
<1>1. FlagsOK /\ ConnectCall => FlagsOK'
  BY DEF ConnectCall
<1>2. FlagsOK /\ DialError => FlagsOK'
  BY DEF DialError, DialFailed
<1>3. FlagsOK /\ DialOK => FlagsOK'
  BY DEF DialOK, Unused, Alive
<1>4. FlagsOK /\ MarkConnected => FlagsOK'
  BY DEF MarkConnected
<1>5. FlagsOK /\ HookOK => FlagsOK'
  BY DEF HookOK, ConnectReturns, Alive
<1>6. FlagsOK /\ (HookError \/ HookFailed) => FlagsOK'
  BY DEF HookError, HookFailed, DialFailed, Shut
<1>7. FlagsOK /\ Reconnector => FlagsOK'
  BY DEF Reconnector, ReconnRound, ReconnFlap, ReconnDial, ReconnExit
<1>8. FlagsOK /\ Closer => FlagsOK'
  BY DEF Closer, CloseLock, CloseCancel, CloseReturn, Shut
<1>9. FlagsOK /\ ParentCancel => FlagsOK'
  BY DEF ParentCancel
<1>10. ASSUME FlagsOK, NEW c \in Conns, Reader(c) PROVE FlagsOK'
  BY <1>10 DEF Reader, ReaderStart, ReaderMessage, ReaderError, ReaderTo, ReportDue, ReaderExit,
            ClearCurrent, StillCurrent, Shut
<1>11. ASSUME FlagsOK, NEW c \in Conns, Pinger(c) PROVE FlagsOK'
  BY <1>11 DEF Pinger, PingFail, PingStop, DisconnectCall
<1>12. ASSUME FlagsOK, NEW c \in Conns, PeerDrop(c) PROVE FlagsOK'
  BY <1>12 DEF PeerDrop, Alive
<1>13. ASSUME FlagsOK, NEW t \in Callers, Disconnect(t) PROVE FlagsOK'
  BY <1>13 DEF Disconnect, DisconnectLock, DisconnectFinish, Shut
<1>14. FlagsOK /\ (AppDisconnect \/ WatchdogTick \/ WatchdogStop \/ Age \/ WantedChanges) => FlagsOK'
  BY DEF AppDisconnect, WatchdogTick, WatchdogStop, Age, WantedChanges, DisconnectCall
<1>15. FlagsOK /\ UNCHANGED vars => FlagsOK'
  BY DEF vars
<1> QED
  BY <1>1, <1>2, <1>3, <1>4, <1>5, <1>6, <1>7,
     <1>8, <1>9, <1>10, <1>11, <1>12, <1>13, <1>14, <1>15 DEF Next, Dialer

\* Every step keeps the other variables in their types.
LEMMA StateStep == StateOK /\ [Next]_vars => StateOK'
<1> USE SocketAssumption DEF StateOK, Link, Dial, ReaderState, DisconnectPC, Callers,
        sharedVars, outerVars, callVars, NoDial, NoReader, Idle
<1>1. StateOK /\ ConnectCall => StateOK'
  BY DEF ConnectCall
<1>2. StateOK /\ DialError => StateOK'
  BY DEF DialError, DialFailed
<1>3. StateOK /\ DialOK => StateOK'
  BY DEF DialOK, Unused, Alive
<1>4. StateOK /\ MarkConnected => StateOK'
  BY DEF MarkConnected
<1>5. StateOK /\ HookOK => StateOK'
  BY DEF HookOK, ConnectReturns, Alive
<1>6. StateOK /\ (HookError \/ HookFailed) => StateOK'
  BY DEF HookError, HookFailed, DialFailed, Shut
<1>7. StateOK /\ Reconnector => StateOK'
  BY DEF Reconnector, ReconnRound, ReconnFlap, ReconnDial, ReconnExit
<1>8. StateOK /\ Closer => StateOK'
  BY DEF Closer, CloseLock, CloseCancel, CloseReturn, Shut
<1>9. StateOK /\ ParentCancel => StateOK'
  BY DEF ParentCancel
<1>10. ASSUME StateOK, NEW c \in Conns, Reader(c) PROVE StateOK'
  <2>1. CASE ReaderStart(c)
    BY <1>10, <2>1 DEF ReaderStart
  <2>2. CASE ReaderMessage(c)
    BY <1>10, <2>2 DEF ReaderMessage
  <2>3. CASE ReaderError(c)
    BY <1>10, <2>3 DEF ReaderError, ReaderTo, ReportDue
  <2>4. CASE ReaderExit(c)
    BY <1>10, <2>4 DEF ReaderExit, ClearCurrent, StillCurrent, Shut
  <2> QED
    BY <1>10, <2>1, <2>2, <2>3, <2>4 DEF Reader
<1>11. ASSUME StateOK, NEW c \in Conns, Pinger(c) PROVE StateOK'
  BY <1>11 DEF Pinger, PingFail, PingStop, DisconnectCall
<1>12. ASSUME StateOK, NEW c \in Conns, PeerDrop(c) PROVE StateOK'
  BY <1>12 DEF PeerDrop, Alive
<1>13. ASSUME StateOK, NEW t \in Callers, Disconnect(t) PROVE StateOK'
  BY <1>13 DEF Disconnect, DisconnectLock, DisconnectFinish, Shut
<1>14. StateOK /\ (AppDisconnect \/ WatchdogTick \/ WatchdogStop \/ Age \/ WantedChanges) => StateOK'
  BY DEF AppDisconnect, WatchdogTick, WatchdogStop, Age, WantedChanges, DisconnectCall
<1>15. StateOK /\ UNCHANGED vars => StateOK'
  BY DEF vars
<1> QED
  BY <1>1, <1>2, <1>3, <1>4, <1>5, <1>6, <1>7,
     <1>8, <1>9, <1>10, <1>11, <1>12, <1>13, <1>14, <1>15 DEF Next, Dialer

\* Every reachable state is type-correct, for any set of sockets and any options.
THEOREM TypeCorrect == Spec => []TypeOK
<1>1. TypeOK /\ [Next]_vars => TypeOK'
  BY FlagsStep, StateStep DEF TypeOK
<1> QED
  BY TypeInit, <1>1, PTL DEF Spec

-----------------------------------------------------------------------------
\* A ping loop itself writes neither the connection nor the dial.
LEMMA PingerFrame ==
  ASSUME NEW c \in Conns, Pinger(c)
  PROVE  UNCHANGED <<conn, status, connect, reconn, dial, link>>
  BY DEF Pinger, PingFail, PingStop, sharedVars, callVars

\* Each step keeps the ownership of b.conn and of the dial.
LEMMA OwnerStep == TypeOK /\ OwnerInv /\ [Next]_vars => OwnerInv'
<1> USE SocketAssumption DEF StateOK, Dial, DisconnectPC, Callers, NoDial, sharedVars, outerVars,
        callVars, OwnerInv, DialerInv, PingInv, ConnImpliesConnected, NoLeakedSocket, Alive
<1>1. ASSUME StateOK, OwnerInv, ConnectCall PROVE OwnerInv'
  BY <1>1 DEF ConnectCall, NoDial
<1>2. ASSUME StateOK, OwnerInv, DialError PROVE OwnerInv'
  BY <1>2 DEF DialError, DialFailed
<1>3. ASSUME StateOK, OwnerInv, DialOK PROVE OwnerInv'
  <2>1. conn = NoConn
    BY <1>3 DEF DialOK
  <2>2. PICK c \in Conns : /\ Unused(c) /\ conn' = c
                         /\ dial' = [pc |-> "installed", conn |-> c]
                         /\ link' = [link EXCEPT ![c] = "open"]
    BY <1>3 DEF DialOK
  <2>3. DialerInv' /\ ConnImpliesConnected'
    BY <1>3, <2>2 DEF DialOK
  <2>4. PingInv'
    BY <1>3, <2>2 DEF DialOK, Unused
  <2>5. NoLeakedSocket'
    BY <1>3, <2>1, <2>2 DEF DialOK
  <2> QED
    BY <2>3, <2>4, <2>5
<1>4. ASSUME StateOK, OwnerInv, MarkConnected PROVE OwnerInv'
  <2>1. DialerInv'
    BY <1>4 DEF MarkConnected
  <2>2. PingInv'
    BY <1>4 DEF MarkConnected
  <2>3. ConnImpliesConnected'
    BY <1>4 DEF MarkConnected
  <2>4. NoLeakedSocket'
    BY <1>4 DEF MarkConnected
  <2> QED
    BY <2>1, <2>2, <2>3, <2>4
<1>5. ASSUME StateOK, OwnerInv, HookOK PROVE OwnerInv'
  <2>1. DialerInv'
    BY <1>5 DEF HookOK, ConnectReturns
  <2>2. PingInv'
    BY <1>5 DEF HookOK, ConnectReturns
  <2>3. ConnImpliesConnected'
    BY <1>5 DEF HookOK, ConnectReturns
  <2>4. NoLeakedSocket'
    BY <1>5 DEF HookOK, ConnectReturns
  <2> QED
    BY <2>1, <2>2, <2>3, <2>4
<1>6. ASSUME StateOK, OwnerInv, HookError PROVE OwnerInv'
  BY <1>6 DEF HookError, Shut
<1>6a. ASSUME StateOK, OwnerInv, HookFailed PROVE OwnerInv'
  BY <1>6a DEF HookFailed, DialFailed
<1>7. ASSUME StateOK, OwnerInv, ReconnFlap \/ ReconnDial \/ ReconnExit PROVE OwnerInv'
  BY <1>7 DEF ReconnFlap, ReconnDial, ReconnExit, ReconnRound
<1>8. ASSUME StateOK, OwnerInv, CloseLock PROVE OwnerInv'
  BY <1>8 DEF CloseLock, Shut
<1>9. ASSUME StateOK, OwnerInv, CloseCancel \/ CloseReturn \/ ParentCancel PROVE OwnerInv'
  BY <1>9 DEF CloseCancel, CloseReturn, ParentCancel
<1>10. ASSUME StateOK, OwnerInv, NEW c \in Conns, ReaderStart(c) \/ ReaderMessage(c) \/ ReaderError(c) PROVE OwnerInv'
  <2>1. UNCHANGED <<conn, status, connect, reconn, dial, link, disc, pinger>>
    BY <1>10 DEF ReaderStart, ReaderMessage, ReaderError
  <2> QED
    BY <1>10, <2>1
<1>11. ASSUME StateOK, OwnerInv, NEW c \in Conns, ReaderExit(c) PROVE OwnerInv'
  BY <1>11 DEF ReaderExit, ClearCurrent, StillCurrent, Shut
<1>12. ASSUME StateOK, OwnerInv, NEW c \in Conns, Pinger(c) PROVE OwnerInv'
  <2>1. UNCHANGED <<conn, status, connect, reconn, dial, link>>
    BY <1>12, PingerFrame
  <2>2. PingInv'
    BY <1>12 DEF Pinger, PingFail, PingStop, DisconnectCall
  <2>3. NoLeakedSocket'
    <3>1. disc[c].pc = "idle"
      BY <1>12 DEF Pinger, PingFail, PingStop
    <3>2. disc' = disc \/ disc' = [disc EXCEPT ![c] = [pc |-> "lock", conn |-> NoConn]]
      BY <1>12 DEF Pinger, PingFail, PingStop, DisconnectCall
    <3>3. \A t \in Callers : disc[t].pc = "closenow" => disc'[t] = disc[t]
      BY <1>12, <3>1, <3>2
    <3>4. \A t \in Callers, x \in Conns :
             disc[t] = [pc |-> "closenow", conn |-> x] => disc'[t] = [pc |-> "closenow", conn |-> x]
      BY <3>3
    <3>5. conn' = conn /\ link' = link
      BY <2>1
    <3> HIDE DEF StateOK, DialerInv, PingInv, ConnImpliesConnected, Callers
    <3> QED
      BY <1>12, <3>4, <3>5, Zenon
  <2>4. DialerInv' /\ ConnImpliesConnected'
    BY <1>12, <2>1
  <2> QED
    BY <2>2, <2>3, <2>4
<1>13. ASSUME StateOK, OwnerInv, NEW c \in Conns, PeerDrop(c) PROVE OwnerInv'
  BY <1>13 DEF PeerDrop
<1>14. ASSUME StateOK, OwnerInv, NEW t \in Callers, DisconnectLock(t) PROVE OwnerInv'
  BY <1>14 DEF DisconnectLock
<1>15. ASSUME StateOK, OwnerInv, NEW t \in Callers, DisconnectFinish(t) PROVE OwnerInv'
  BY <1>15 DEF DisconnectFinish, Shut, Idle
<1>16. ASSUME StateOK, OwnerInv,
              AppDisconnect \/ WatchdogTick \/ WatchdogStop \/ Age \/ WantedChanges
       PROVE  OwnerInv'
  BY <1>16 DEF AppDisconnect, WatchdogTick, WatchdogStop, Age, WantedChanges, DisconnectCall
<1>17. ASSUME OwnerInv, UNCHANGED vars PROVE OwnerInv'
  BY <1>17 DEF vars
<1> QED
  BY <1>1, <1>2, <1>3, <1>4, <1>5, <1>6, <1>6a, <1>7, <1>8,
     <1>9, <1>10, <1>11, <1>12, <1>13, <1>14, <1>15, <1>16, <1>17
     DEF Next, Dialer, Reconnector, Closer, Reader, Disconnect, TypeOK

\* OwnerInv holds in every reachable state.
LEMMA OwnerInvariant == Spec => []OwnerInv
<1>1. Init => OwnerInv
  BY SocketAssumption DEF Init, OwnerInv, DialerInv, PingInv, ConnImpliesConnected, NoLeakedSocket,
     NoDial, Alive
<1> QED
  BY <1>1, OwnerStep, TypeCorrect, PTL DEF Spec

\* No open socket is forgotten, whichever goroutines race.
THEOREM SocketOwnership == Spec => []NoLeakedSocket
<1>1. OwnerInv => NoLeakedSocket
  BY DEF OwnerInv
<1> QED
  BY <1>1, OwnerInvariant, PTL

\* The status never hides a connection from reconnLoop, which looks at nothing else.
THEOREM StatusTellsConn == Spec => []ConnImpliesConnected
<1>1. OwnerInv => ConnImpliesConnected
  BY DEF OwnerInv
<1> QED
  BY <1>1, OwnerInvariant, PTL

-----------------------------------------------------------------------------
(* Shutdown.                                                               *)

\* Close returns only after reconnLoop has.
ShutInv == close = "returned" => reconn = "exited"

\* Nobody can dial once reconnLoop has returned: Connect is over as well.
LEMMA NobodyDials ==
  ASSUME DialerInv, reconn = "exited"
  PROVE  connect \notin {"idle", "dialing"} /\ dial = NoDial
  BY DEF DialerInv

\* Once reconnLoop has returned, no step dials, and none announces a socket.
LEMMA ExitedIsFinal ==
  ASSUME DialerInv, reconn = "exited", [Next]_vars
  PROVE  reconn' = "exited" /\ dial' = dial /\ owed' \subseteq owed
<1>1. connect \notin {"idle", "dialing"} /\ dial = NoDial
  BY NobodyDials
<1>2. ~ConnectCall /\ ~Dialer /\ ~Reconnector
  BY <1>1 DEF ConnectCall, Dialer, DialError, DialOK, MarkConnected, HookOK,
      ConnectReturns, HookError,
     HookFailed, Reconnector, ReconnFlap, ReconnDial, ReconnExit, ReconnRound, NoDial
<1>3. CASE Closer \/ ParentCancel
  BY <1>3 DEF Closer, CloseLock, CloseCancel, CloseReturn, ParentCancel
<1>4. ASSUME NEW c \in Conns, Reader(c) \/ Pinger(c) \/ PeerDrop(c)
      PROVE  reconn' = "exited" /\ dial' = dial /\ owed' \subseteq owed
  BY <1>4 DEF Reader, ReaderStart, ReaderMessage, ReaderError, ReaderExit, Pinger, PingFail,
     PingStop, PeerDrop
<1>5. ASSUME NEW t \in Callers, Disconnect(t)
      PROVE  reconn' = "exited" /\ dial' = dial /\ owed' \subseteq owed
  BY <1>5 DEF Disconnect, DisconnectLock, DisconnectFinish
<1>6. CASE AppDisconnect \/ WatchdogTick \/ WatchdogStop \/ Age \/ WantedChanges
  BY <1>6 DEF AppDisconnect, WatchdogTick, WatchdogStop, Age, WantedChanges
<1>7. CASE UNCHANGED vars
  BY <1>7 DEF vars
<1> QED
  BY <1>2, <1>3, <1>4, <1>5, <1>6, <1>7 DEF Next

\* Close starts to have returned only when reconnLoop has.
LEMMA ReturnedAfterLoop ==
  ASSUME [Next]_vars, close' = "returned"
  PROVE  close = "returned" \/ (reconn = "exited" /\ reconn' = reconn)
<1>1. CASE ConnectCall \/ Dialer \/ Reconnector
  BY <1>1 DEF ConnectCall, Dialer, DialError, DialOK, MarkConnected, HookOK,
      ConnectReturns, HookError,
     HookFailed, Reconnector, ReconnFlap, ReconnDial, ReconnExit, callVars
<1>2. CASE Closer \/ ParentCancel
  BY <1>2 DEF Closer, CloseLock, CloseCancel, CloseReturn, ParentCancel
<1>3. ASSUME NEW c \in Conns, Reader(c) \/ Pinger(c) \/ PeerDrop(c)
      PROVE  close' = close
  BY <1>3 DEF Reader, ReaderStart, ReaderMessage, ReaderError, ReaderExit, Pinger, PingFail,
     PingStop, PeerDrop, callVars
<1>4. ASSUME NEW t \in Callers, Disconnect(t)
      PROVE  close' = close
  BY <1>4 DEF Disconnect, DisconnectLock, DisconnectFinish, callVars
<1>5. CASE AppDisconnect \/ WatchdogTick \/ WatchdogStop \/ Age \/ WantedChanges
  BY <1>5 DEF AppDisconnect, WatchdogTick, WatchdogStop, Age, WantedChanges, callVars
<1>6. CASE UNCHANGED vars
  BY <1>6 DEF vars, callVars
<1> QED
  BY <1>1, <1>2, <1>3, <1>4, <1>5, <1>6 DEF Next

\* A returned Close has waited for reconnLoop, in every reachable state.
LEMMA ShutInvariant == Spec => []ShutInv
<1>1. Init => ShutInv
  BY DEF Init, ShutInv
<1>2. OwnerInv /\ ShutInv /\ [Next]_vars => ShutInv'
  BY ExitedIsFinal, ReturnedAfterLoop DEF ShutInv, OwnerInv
<1> QED
  BY <1>1, <1>2, OwnerInvariant, PTL DEF Spec

\* Once Close has returned, nothing dials and no OnConnect hook begins: whatever
\* the read loops, ping loops and callers of Disconnect that are left still do.
THEOREM ClosedForGood == Spec => CloseIsFinal
<1>1. OwnerInv /\ ShutInv /\ [Next]_vars =>
        [close = "returned" => dial' = dial /\ owed' \subseteq owed]_vars
  BY ExitedIsFinal DEF ShutInv, OwnerInv
<1> QED
  BY <1>1, OwnerInvariant, ShutInvariant, PTL DEF Spec, CloseIsFinal
=============================================================================
