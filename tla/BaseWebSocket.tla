--------------------------- MODULE BaseWebSocket ---------------------------
(***************************************************************************)
(* The reconnecting socket of pkg/websocket/websocket.go: Connect, Close,  *)
(* Disconnect, dialSync and the goroutines readLoop, reconnLoop, the ping  *)
(* loops and the data-staleness watchdog, which share conn and status      *)
(* under one mutex.  A step is one critical section of the mutex, one      *)
(* network event or one hook call; what happens between two of them in the *)
(* code is a separate step here, so every interleaving is explored.        *)
(*                                                                         *)
(* Socket identities are drawn from Conns and used again once nothing      *)
(* refers to the old socket, so the number of reconnections is unbounded   *)
(* and at most Cardinality(Conns) sockets are referred to at any moment.   *)
(* Messages and delays are abstracted: a delay of the reconnect loop may   *)
(* end at any time, ReconnectBackoff says how long it is.                  *)
(***************************************************************************)
EXTENDS Naturals

CONSTANTS Conns,           \* identities of the sockets coderws.Dial returns
          NoConn,          \* nil
          App, Watchdog,   \* callers of Disconnect besides the ping loops
          PingEnabled,     \* opts.PingInterval > 0
          WatchdogEnabled, \* ~opts.DisableDataStaleWatchdog
          HookWrites,      \* the OnConnect hook writes to the socket it is given
          AppDisconnects,  \* the application calls Disconnect itself
          MayClose,        \* the application may call Close
          MayCancel,       \* the context given to Connect may be cancelled
          MayRefuse        \* the ShouldConnect hook may answer false

Callers == Conns \cup {App, Watchdog}

ASSUME SocketAssumption ==
  /\ NoConn \notin Conns /\ App \notin Conns /\ Watchdog \notin Conns
  /\ App # Watchdog
  /\ PingEnabled \in BOOLEAN /\ WatchdogEnabled \in BOOLEAN
  /\ HookWrites \in BOOLEAN /\ AppDisconnects \in BOOLEAN
  /\ MayClose \in BOOLEAN /\ MayCancel \in BOOLEAN /\ MayRefuse \in BOOLEAN

VARIABLES
  conn,        \* b.conn
  status,      \* b.status; "unset" is its zero value
  established, \* b.connEstablishedAt is not the zero time
  dataStale,   \* time.Since(b.lastDataAt) >= DataStaleTimeout
  inherited,   \* it was when the newest socket was dialled, less than DataStaleTimeout ago
  wanted,      \* what ShouldConnect answers when it is asked: something is registered
  cancelled,   \* the goroutine tree's context is done
  link,        \* the network's side of each socket
  connect,     \* the Connect call
  close,       \* the Close call
  dial,        \* dialSync: where it is and the socket it got
  reconn,      \* reconnLoop; "exited" is: b.done is closed
  watchdog,    \* dataStaleWatchdog is running
  reader,      \* the readLoop started after the dial of a socket
  pinger,      \* the sockets whose ping loop is running
  disc,        \* the Disconnect call of each caller
  owed         \* history: sockets announced by OnConnect and not yet by OnDisconnect

sharedVars == <<conn, status, established>>
outerVars  == <<dataStale, inherited, wanted>>
callVars   == <<connect, close, cancelled>>
vars == <<sharedVars, outerVars, callVars, link, dial, reconn, watchdog,
          reader, pinger, disc, owed>>

Link       == {"open", "silent", "closed"}
Dial       == [pc : {"none", "dialing", "closed"}, conn : {NoConn}]
                \cup [pc : {"installed", "hook"}, conn : Conns]
ReaderState == [pc : {"none", "spawned"}, conn : {NoConn}]
                 \cup [pc : {"reading", "callback", "cleanup"}, conn : Conns]
DisconnectPC == {"idle", "lock", "closenow"}

NoDial   == [pc |-> "none", conn |-> NoConn]
NoReader == [pc |-> "none", conn |-> NoConn]
Idle     == [pc |-> "idle", conn |-> NoConn]

FlagsOK == /\ established \in BOOLEAN /\ dataStale \in BOOLEAN /\ inherited \in BOOLEAN
           /\ wanted \in BOOLEAN /\ cancelled \in BOOLEAN /\ watchdog \in BOOLEAN

StateOK ==
  /\ conn \in Conns \cup {NoConn}
  /\ status \in {"unset", "disconnected", "connecting", "connected"}
  /\ link \in [Conns -> Link]
  /\ connect \in {"idle", "dialing", "returned", "failed"}
  /\ close \in {"idle", "cancelling", "waiting", "returned"}
  /\ dial \in Dial
  /\ reconn \in {"off", "waiting", "dialing", "exited"}
  /\ reader \in [Conns -> ReaderState]
  /\ pinger \subseteq Conns
  /\ disc \in [Callers -> [pc : DisconnectPC, conn : Conns \cup {NoConn}]]
  /\ owed \subseteq Conns

\* Every variable has its type; a read loop that runs has a socket to read, never nil.
TypeOK == FlagsOK /\ StateOK

Init ==
  /\ conn = NoConn /\ status = "unset" /\ established = FALSE
  /\ dataStale = TRUE /\ inherited = FALSE /\ cancelled = FALSE
  /\ wanted = TRUE
  /\ link = [c \in Conns |-> "closed"]
  /\ connect = "idle" /\ close = "idle" /\ dial = NoDial
  /\ reconn = "off" /\ watchdog = FALSE
  /\ reader = [c \in Conns |-> NoReader]
  /\ pinger = {}
  /\ disc = [t \in Callers |-> Idle]
  /\ owed = {}

Alive(c) == link[c] \in {"open", "silent"}

\* conn.Close / conn.CloseNow on a socket that may be nil.
Shut(c) == link' = [x \in Conns |-> IF x = c THEN "closed" ELSE link[x]]

\* Nothing refers to c any more: its identity can stand for a new socket.
Unused(c) ==
  /\ ~Alive(c) /\ conn # c /\ dial.conn # c /\ c \notin owed
  /\ reader[c].pc = "none" /\ c \notin pinger /\ disc[c].pc = "idle"
  /\ \A r \in Conns : reader[r].conn # c
  /\ \A t \in Callers : disc[t].conn # c

-----------------------------------------------------------------------------
(* dialSync, run by Connect and then by reconnLoop.                        *)

\* Connect up to the status write of dialSync.
ConnectCall ==
  /\ connect = "idle"
  /\ connect' = "dialing"
  /\ status' = "connecting"
  /\ dial' = [NoDial EXCEPT !.pc = "dialing"]
  /\ UNCHANGED <<conn, established, outerVars, close, cancelled, link, reconn,
                 watchdog, reader, pinger, disc, owed>>

\* Mutant: reconnLoop gives up at the first error.
DialFailedForGood ==
  /\ dial' = NoDial
  /\ IF connect = "dialing"
     THEN connect' = "failed" /\ cancelled' = TRUE /\ UNCHANGED reconn
     ELSE reconn' = "exited" /\ UNCHANGED <<connect, cancelled>>

\* What the caller of dialSync does with an error: Connect cancels the context
\* and returns, reconnLoop goes round to wait a longer delay.
DialFailed ==
  /\ dial' = NoDial
  /\ IF connect = "dialing"
     THEN connect' = "failed" /\ cancelled' = TRUE /\ UNCHANGED reconn
     ELSE reconn' = "waiting" /\ UNCHANGED <<connect, cancelled>>

DialError ==
  /\ dial.pc = "dialing"
  /\ status' = "disconnected"
  /\ DialFailed
  /\ UNCHANGED <<conn, established, outerVars, close, link, watchdog, reader,
                 pinger, disc, owed>>

\* The dial succeeded and the socket is stored; the status is written later.
DialOK ==
  /\ dial.pc = "dialing" /\ ~cancelled
  /\ \E c \in Conns :
       /\ Unused(c)
       /\ conn' = c
       /\ dial' = [pc |-> "installed", conn |-> c]
       /\ link' = [link EXCEPT ![c] = "open"]
  /\ inherited' = dataStale
  /\ UNCHANGED <<status, established, dataStale, wanted, callVars, reconn, watchdog,
                 reader, pinger, disc, owed>>

\* setStatus(Connected), startPingLoop, and the OnConnect hook begins.
MarkConnected ==
  /\ dial.pc = "installed"
  /\ status' = "connected"
  /\ pinger' = IF PingEnabled THEN pinger \cup {dial.conn} ELSE pinger
  /\ owed' = owed \cup {dial.conn}
  /\ dial' = [dial EXCEPT !.pc = "hook"]
  /\ UNCHANGED <<conn, established, outerVars, callVars, link, reconn, watchdog,
                 reader, disc>>

\* Connect starts the clock of the data watchdog and the goroutines, and returns.
ConnectReturns ==
  /\ connect' = "returned" /\ watchdog' = WatchdogEnabled
  /\ dataStale' = FALSE /\ inherited' = FALSE

\* OnConnect returned nil.  A hook that writes needs a socket that takes it.
\* The read loop starts.
HookOK ==
  /\ dial.pc = "hook"
  /\ HookWrites => Alive(dial.conn) /\ ~cancelled
  /\ established' = TRUE
  /\ reader' = [reader EXCEPT ![dial.conn] = [pc |-> "spawned", conn |-> NoConn]]
  /\ dial' = NoDial
  /\ reconn' = "waiting"
  /\ IF connect = "dialing"
     THEN ConnectReturns
     ELSE UNCHANGED <<connect, watchdog, dataStale, inherited>>
  /\ UNCHANGED <<conn, status, wanted, close, cancelled, link, pinger, disc, owed>>

\* OnConnect returned an error: closeConn takes the socket away and closes it.
HookError ==
  /\ dial.pc = "hook"
  /\ Shut(conn)
  /\ conn' = NoConn
  /\ owed' = owed \ {dial.conn}
  /\ dial' = [NoDial EXCEPT !.pc = "closed"]
  /\ UNCHANGED <<status, established, outerVars, callVars, reconn, watchdog, reader,
                 pinger, disc>>

\* setStatus(Disconnected), a critical section later, and the error is returned.
HookFailed ==
  /\ dial.pc = "closed"
  /\ status' = "disconnected"
  /\ DialFailed
  /\ UNCHANGED <<conn, established, outerVars, close, link, watchdog, reader, pinger,
                 disc, owed>>

-----------------------------------------------------------------------------
(* reconnLoop                                                              *)

\* The delay has elapsed before ctx.Done, ShouldConnect allows a connection and
\* the status is not connected.  Any other round changes nothing.
ReconnRound == reconn = "waiting" /\ ~cancelled /\ wanted /\ status # "connected"

\* The connection that dropped was a flap: wait the escalated delay first.
ReconnFlap ==
  /\ ReconnRound /\ established
  /\ established' = FALSE
  /\ UNCHANGED <<conn, status, outerVars, callVars, link, dial, reconn, watchdog,
                 reader, pinger, disc, owed>>

\* No drop to account for, or the connection had been stable: dial.
ReconnDial ==
  /\ ReconnRound
  /\ established' = FALSE
  /\ status' = "connecting"
  /\ dial' = [NoDial EXCEPT !.pc = "dialing"]
  /\ reconn' = "dialing"
  /\ UNCHANGED <<conn, outerVars, callVars, link, watchdog, reader, pinger, disc, owed>>

\* Mutant: the loop looks at the context only when it is not connected.
ReconnExitUnlessConnected ==
  /\ reconn = "waiting" /\ cancelled /\ status # "connected"
  /\ reconn' = "exited"
  /\ UNCHANGED <<sharedVars, outerVars, callVars, link, dial, watchdog, reader,
                 pinger, disc, owed>>

\* ctx.Done: return, and the deferred close(b.done).
ReconnExit ==
  /\ reconn = "waiting" /\ cancelled
  /\ reconn' = "exited"
  /\ UNCHANGED <<sharedVars, outerVars, callVars, link, dial, watchdog, reader,
                 pinger, disc, owed>>

-----------------------------------------------------------------------------
(* readLoop, one per successful dial                                       *)

ReaderTo(r, pc) == reader' = [reader EXCEPT ![r].pc = pc]

\* Mutant: no test for nil.
ReaderStartUnchecked(r) ==
  /\ reader[r].pc = "spawned"
  /\ reader' = [reader EXCEPT ![r] = [pc |-> "reading", conn |-> conn]]
  /\ UNCHANGED <<sharedVars, outerVars, callVars, link, dial, reconn, watchdog,
                 pinger, disc, owed>>

\* The goroutine captures b.conn when it first runs, not when it is started.
ReaderStart(r) ==
  /\ reader[r].pc = "spawned"
  /\ reader' = [reader EXCEPT ![r] =
       IF conn = NoConn THEN NoReader ELSE [pc |-> "reading", conn |-> conn]]
  /\ UNCHANGED <<sharedVars, outerVars, callVars, link, dial, reconn, watchdog,
                 pinger, disc, owed>>

\* A frame arrives and OnMessage runs (an error or a panic of it goes to OnError);
\* only a nonempty frame moves the staleness clock.
ReaderMessage(r) ==
  /\ reader[r].pc = "reading" /\ link[reader[r].conn] = "open" /\ ~cancelled
  /\ UNCHANGED <<dataStale, inherited>> \/ (dataStale' = FALSE /\ inherited' = FALSE)
  /\ UNCHANGED <<sharedVars, wanted, callVars, link, dial, reconn, watchdog, reader,
                 pinger, disc, owed>>

\* Mutants of the two checks a leaving reader makes.
ReportDueAfterCleanup(r) == ~cancelled /\ conn # reader[r].conn /\ status # "disconnected"
NoStillCurrent(r) == FALSE

\* The deferred report: the socket is current and its loss was not noted yet.
ReportDue(r) == ~cancelled /\ conn = reader[r].conn /\ status # "disconnected"

\* The guard of cleanup: no newer connection has replaced this one.
StillCurrent(r) == conn = reader[r].conn

\* conn.Read failed.  The deferred report reads conn and status, and decides
\* whether to call OnDisconnect; a cancellation is a shutdown, never reported.
ReaderError(r) ==
  /\ reader[r].pc = "reading"
  /\ link[reader[r].conn] = "closed" \/ cancelled
  /\ ReaderTo(r, IF ReportDue(r) THEN "callback" ELSE "cleanup")
  /\ UNCHANGED <<sharedVars, outerVars, callVars, link, dial, reconn, watchdog,
                 pinger, disc, owed>>

\* Mutant: the status is written whether or not the socket is current.
ClearCurrentStatusAlways(r) ==
  IF StillCurrent(r)
  THEN Shut(conn) /\ conn' = NoConn /\ status' = "disconnected"
  ELSE status' = "disconnected" /\ UNCHANGED <<link, conn>>

ClearCurrent(r) ==
  IF StillCurrent(r)
  THEN Shut(conn) /\ conn' = NoConn /\ status' = "disconnected"
  ELSE UNCHANGED <<link, conn, status>>

\* OnDisconnect outside the lock if so decided, then the deferred cleanup:
\* clear b.conn if it is still the socket this loop read.
ReaderExit(r) ==
  /\ reader[r].pc \in {"callback", "cleanup"}
  /\ owed' = IF reader[r].pc = "callback" THEN owed \ {reader[r].conn} ELSE owed
  /\ ClearCurrent(r)
  /\ reader' = [reader EXCEPT ![r] = NoReader]
  /\ UNCHANGED <<established, outerVars, callVars, dial, reconn, watchdog, pinger,
                 disc>>

-----------------------------------------------------------------------------
(* Disconnect and its callers                                              *)

DisconnectCall(t) == disc' = [disc EXCEPT ![t] = [pc |-> "lock", conn |-> NoConn]]

DisconnectLock(t) ==
  /\ disc[t].pc = "lock"
  /\ disc' = [disc EXCEPT ![t] = [pc |-> "closenow", conn |-> conn]]
  /\ conn' = NoConn
  /\ status' = "disconnected"
  /\ UNCHANGED <<established, outerVars, callVars, link, dial, reconn, watchdog,
                 reader, pinger, owed>>

\* Mutant: only b.conn is forgotten, the socket stays open.
DisconnectLeak(t) ==
  /\ disc[t].pc = "closenow"
  /\ disc' = [disc EXCEPT ![t] = Idle]
  /\ owed' = IF disc[t].conn = NoConn THEN owed \cap {conn} ELSE owed \ {disc[t].conn}
  /\ UNCHANGED <<sharedVars, outerVars, callVars, link, dial, reconn, watchdog,
                 reader, pinger>>

\* CloseNow, then OnDisconnect(nil), even when there was no connection to close:
\* the hook cannot tell which socket it is about, so it stands for every past one.
DisconnectFinish(t) ==
  /\ disc[t].pc = "closenow"
  /\ disc' = [disc EXCEPT ![t] = Idle]
  /\ Shut(disc[t].conn)
  /\ owed' = IF disc[t].conn = NoConn THEN owed \cap {conn} ELSE owed \ {disc[t].conn}
  /\ UNCHANGED <<sharedVars, outerVars, callVars, dial, reconn, watchdog, reader,
                 pinger>>

AppDisconnect ==
  /\ AppDisconnects /\ connect = "returned" /\ disc[App].pc = "idle"
  /\ DisconnectCall(App)
  /\ UNCHANGED <<sharedVars, outerVars, callVars, link, dial, reconn, watchdog,
                 reader, pinger, owed>>

\* Mutant: Ping has no deadline, so only a closed socket makes it fail.
PingFailNoDeadline(c) ==
  /\ c \in pinger /\ link[c] = "closed"
  /\ pinger' = pinger \ {c}
  /\ IF conn = c THEN DisconnectCall(c) ELSE UNCHANGED disc
  /\ UNCHANGED <<sharedVars, outerVars, callVars, link, dial, reconn, watchdog,
                 reader, owed>>

\* The pong did not come within PongTimeout, which also happens to a live peer:
\* if b.Conn() == conn { b.Disconnect() }, and the loop returns either way.
PingFail(c) ==
  /\ c \in pinger
  /\ pinger' = pinger \ {c}
  /\ IF conn = c THEN DisconnectCall(c) ELSE UNCHANGED disc
  /\ UNCHANGED <<sharedVars, outerVars, callVars, link, dial, reconn, watchdog,
                 reader, owed>>

PingStop(c) ==
  /\ c \in pinger /\ cancelled
  /\ pinger' = pinger \ {c}
  /\ UNCHANGED <<sharedVars, outerVars, callVars, link, dial, reconn, watchdog,
                 reader, disc, owed>>

\* A tick of the watchdog that finds the status connected and the data stale.
WatchdogTick ==
  /\ watchdog /\ disc[Watchdog].pc = "idle"
  /\ status = "connected" /\ dataStale
  /\ DisconnectCall(Watchdog)
  /\ UNCHANGED <<sharedVars, outerVars, callVars, link, dial, reconn, watchdog,
                 reader, pinger, owed>>

WatchdogStop ==
  /\ watchdog /\ disc[Watchdog].pc = "idle" /\ cancelled
  /\ watchdog' = FALSE
  /\ UNCHANGED <<sharedVars, outerVars, callVars, link, dial, reconn, reader,
                 pinger, disc, owed>>

-----------------------------------------------------------------------------
(* Close, the caller's context, the network and the clock                  *)

\* Close is called after Connect has returned, and may be called again.
CloseLock ==
  /\ MayClose /\ connect \in {"returned", "failed"}
  /\ close \in {"idle", "returned"}
  /\ Shut(conn)
  /\ conn' = NoConn
  /\ close' = "cancelling"
  /\ UNCHANGED <<status, established, outerVars, connect, cancelled, dial, reconn,
                 watchdog, reader, pinger, disc, owed>>

CloseCancel ==
  /\ close = "cancelling"
  /\ cancelled' = TRUE
  /\ close' = "waiting"
  /\ UNCHANGED <<sharedVars, outerVars, connect, link, dial, reconn, watchdog,
                 reader, pinger, disc, owed>>

\* Mutant: Close does not wait for b.done.
CloseReturnEarly ==
  /\ close = "waiting"
  /\ close' = "returned"
  /\ UNCHANGED <<sharedVars, outerVars, connect, cancelled, link, dial, reconn,
                 watchdog, reader, pinger, disc, owed>>

\* <-b.done
CloseReturn ==
  /\ close = "waiting" /\ reconn = "exited"
  /\ close' = "returned"
  /\ UNCHANGED <<sharedVars, outerVars, connect, cancelled, link, dial, reconn,
                 watchdog, reader, pinger, disc, owed>>

\* The context given to Connect is cancelled by its owner.
ParentCancel ==
  /\ MayCancel /\ connect # "idle" /\ ~cancelled
  /\ cancelled' = TRUE
  /\ UNCHANGED <<sharedVars, outerVars, connect, close, link, dial, reconn,
                 watchdog, reader, pinger, disc, owed>>

\* The peer closes the socket, or the network goes quiet without closing it.
PeerDrop(c) ==
  /\ Alive(c)
  /\ link' \in {[link EXCEPT ![c] = l] : l \in {"closed", "silent"} \ {link[c]}}
  /\ UNCHANGED <<sharedVars, outerVars, callVars, dial, reconn, watchdog, reader,
                 pinger, disc, owed>>

\* DataStaleTimeout passes without data; only the watchdog looks at these clocks.
Age ==
  /\ watchdog
  /\ ~dataStale \/ inherited
  /\ dataStale' = TRUE /\ inherited' = FALSE
  /\ UNCHANGED <<sharedVars, wanted, callVars, link, dial, reconn, watchdog, reader,
                 pinger, disc, owed>>

\* Streams are registered and removed, so that ShouldConnect answers otherwise.  Only
\* reconnLoop asks, when it has no connection: an earlier change is one made then.
WantedChanges ==
  /\ MayRefuse /\ reconn = "waiting" /\ ~cancelled /\ status # "connected"
  /\ wanted' = ~wanted
  /\ UNCHANGED <<sharedVars, dataStale, inherited, callVars, link, dial, reconn,
                 watchdog, reader, pinger, disc, owed>>

-----------------------------------------------------------------------------
Dialer == DialError \/ DialOK \/ MarkConnected \/ HookOK \/ HookError \/ HookFailed
Reconnector == ReconnFlap \/ ReconnDial \/ ReconnExit
Reader(r) == ReaderStart(r) \/ ReaderMessage(r) \/ ReaderError(r) \/ ReaderExit(r)
Disconnect(t) == DisconnectLock(t) \/ DisconnectFinish(t)
Pinger(c) == PingFail(c) \/ PingStop(c)
Closer == CloseLock \/ CloseCancel \/ CloseReturn

Next ==
  \/ ConnectCall \/ Dialer \/ Reconnector \/ Closer \/ ParentCancel
  \/ \E c \in Conns : Reader(c) \/ Pinger(c) \/ PeerDrop(c)
  \/ \E t \in Callers : Disconnect(t)
  \/ AppDisconnect \/ WatchdogTick \/ WatchdogStop \/ Age \/ WantedChanges

Spec == Init /\ [][Next]_vars

\* The Go scheduler runs every goroutine that can run; a ping that gets no pong
\* is noticed within PongTimeout, while a live peer's pings need not fail; time
\* passes while nothing is connected.  Nothing is assumed of the venue.
ReaderRuns(r) == ReaderStart(r) \/ ReaderError(r) \/ ReaderExit(r)
PingerRuns(c) == (link[c] # "open" /\ PingFail(c)) \/ PingStop(c)
WatchdogRuns  == WatchdogTick \/ WatchdogStop \/ (conn = NoConn /\ Age)

Fairness ==
  /\ WF_vars(ConnectCall \/ Dialer)
  /\ WF_vars(Reconnector)
  /\ \A c \in Conns : WF_vars(ReaderRuns(c)) /\ WF_vars(PingerRuns(c))
  /\ \A t \in Callers : WF_vars(Disconnect(t))
  /\ WF_vars(WatchdogRuns)
  /\ WF_vars(CloseCancel \/ CloseReturn)

FairSpec == Spec /\ Fairness
-----------------------------------------------------------------------------
(* Safety                                                                  *)

\* At most one socket is in use and none is forgotten while it is open: an
\* open socket is b.conn, or a Disconnect has taken it and is about to call
\* CloseNow on it.  dialSync overwrites b.conn without looking at it, so this
\* rests on every path that leaves status not connected having cleared it.
NoLeakedSocket ==
  \A c \in Conns : Alive(c) =>
     c = conn \/ \E t \in Callers : disc[t] = [pc |-> "closenow", conn |-> c]

\* The status never hides a connection from reconnLoop: while b.conn is set,
\* the status is connected, but for the moment in dialSync before it says so.
ConnImpliesConnected ==
  conn # NoConn => status = "connected" \/ dial = [pc |-> "installed", conn |-> conn]

\* Once Close has returned, no OnConnect hook begins and no socket is dialled,
\* until the caller starts over.
CloseIsFinal ==
  [][close = "returned" => dial' = dial /\ owed' \subseteq owed]_vars

-----------------------------------------------------------------------------
(* Liveness, under FairSpec                                                *)

\* Close of a socket whose Connect succeeded returns.
CloseReturns == (close = "waiting" /\ connect = "returned") ~> (close = "returned")

\* What the doc of Close promises of any socket: it is safe to call.
CloseAlwaysReturns == (close = "waiting") ~> (close = "returned")

\* A shutdown gives back every socket, also the one a reconnection in progress
\* installs after Close has looked at b.conn.
ShutdownReleasesSockets == cancelled ~> (\A c \in Conns : ~Alive(c))

\* Every lost connection that OnConnect announced is reported by OnDisconnect
\* (the "single choke point" comment of readLoop), unless a shutdown comes first.
DropReported == \A c \in Conns : (c \in owed /\ conn # c) ~> (c \notin owed \/ cancelled)

\* A socket without a connection is dialled again, as the doc of Disconnect says,
\* unless it is shut down or nothing is registered that needs it.
Reconnects ==
  (connect = "returned" /\ conn = NoConn) ~> (dial.pc = "dialing" \/ cancelled \/ ~wanted)

\* A half-open socket, which delivers nothing and is never closed, is given up.
HalfOpenCaught ==
  (conn # NoConn /\ link[conn] = "silent") ~> (conn = NoConn \/ link[conn] # "silent")

\* The staleness watchdog does not fire on a connection that has not yet existed
\* for DataStaleTimeout: what Connect initialises the clock for.
FreshSocketNotStale ==
  [][disc[Watchdog].pc = "idle" /\ disc'[Watchdog].pc = "lock" => conn = NoConn \/ ~inherited]_vars
=============================================================================
