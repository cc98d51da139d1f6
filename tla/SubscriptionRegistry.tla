------------------------ MODULE SubscriptionRegistry ------------------------
(***************************************************************************)
(* The subscription registries of pkg/hyperliquid/hyperliquid.go,          *)
(* pkg/polymarket/rtds.go and pkg/binance/binance.go.  All three register  *)
(* first and write the frame afterwards, ignore a frame that cannot be     *)
(* written, and send the whole registry on every new connection.  They     *)
(* differ in what a frame asks for, hence Topic and FrameEach, and         *)
(* Hyperliquid alone keeps an application ping, hence AppPing.             *)
(*                                                                         *)
(* A step is one critical section of the registry's mutex, one reading of  *)
(* Conn() or one frame; connections are what BaseWebSocket makes of them.  *)
(***************************************************************************)
EXTENDS Naturals

CONSTANTS Symbols,    \* what is registered: subscription keys, stream names, symbols
          Topics,     \* what a frame asks the venue for
          Topic,      \* the topic that carries a symbol; a broadcast carries several
          FrameEach,  \* Hyperliquid: one frame, and one reading of Conn(), for each topic
          AppPing,    \* Hyperliquid: an application ping runs on every connection
          Callers,    \* goroutines that call Subscribe and Unsubscribe
          Conns,      \* connections; one nothing refers to is used again
          NoConn      \* nil

ASSUME RegistryAssumption ==
  /\ Topic \in [Symbols -> Topics]
  /\ FrameEach \in BOOLEAN /\ AppPing \in BOOLEAN
  /\ NoConn \notin Conns

VARIABLES
  registered, \* c.subs, r.subs[..].symbols, c.streams
  call,       \* each caller's frames: all still to write, those being written, on what
  conn,       \* Conn()
  up,         \* the connections that are up
  hook,       \* dialSync and onConnect: where it is, its connection, its frames
  reports,    \* the OnDisconnect calls to come, by the read loop or by Disconnect, and
              \* the read loops that have made theirs and have still to clean up
  phase,      \* until Start's Connect succeeds, running, and Stop's two steps
  venue,      \* the topics the venue streams on each connection
  pingCancel, \* the connection whose ping goroutine c.pingCancel stops
  pinging,    \* the connections whose ping goroutine runs
  raced,      \* history: topics with two writers at a time, or whose write failed
  late        \* history: an OnDisconnect came while a newer connection was current

socketVars == <<conn, up, hook, reports, phase>>
pingVars   == <<pingCancel, pinging, late>>
registryVars == <<registered, call, socketVars, venue, pingVars, raced>>

MaybeConn == Conns \cup {NoConn}
NoFrames == [op |-> "subscribe", frames |-> {}, now |-> {}, conn |-> NoConn]
NoHook == [pc |-> "none", conn |-> NoConn, frames |-> {}]

\* Every variable has its type; what is being written is still to be written.
RegistryTypeOK ==
  /\ registered \subseteq Symbols
  /\ call \in [Callers -> [op : {"subscribe", "unsubscribe"}, frames : SUBSET Topics,
                           now : SUBSET Topics, conn : MaybeConn]]
  /\ \A t \in Callers : call[t].now \subseteq call[t].frames
  /\ conn \in MaybeConn /\ up \subseteq Conns
  /\ hook \in [pc : {"none", "dial", "read", "write", "ping"}, conn : MaybeConn,
               frames : SUBSET Topics]
  /\ reports \subseteq {"reader", "cleanup", "disconnect"} \X Conns
  /\ phase \in {"new", "running", "closed", "stopped"}
  /\ venue \in [Conns -> SUBSET Topics]
  /\ pingCancel \in MaybeConn /\ pinging \subseteq Conns
  /\ raced \subseteq Topics /\ late \in BOOLEAN

RegistryInit ==
  /\ registered = {} /\ call = [t \in Callers |-> NoFrames]
  /\ conn = NoConn /\ up = {} /\ hook = NoHook /\ reports = {} /\ phase = "new"
  /\ venue = [c \in Conns |-> {}]
  /\ pingCancel = NoConn /\ pinging = {}
  /\ raced = {} /\ late = FALSE

InFlight == UNION {call[t].frames : t \in Callers}
TopicsOf(S) == {Topic[s] : s \in S}
\* The frames that go out together.
Batches(F) == IF FrameEach THEN {{f} : f \in F} ELSE {F}

-----------------------------------------------------------------------------
(* Subscribe and Unsubscribe                                               *)

\* addSubs, addStreams and addSymbols report what is new; a broadcast topic is
\* asked for with its first symbol.
framesToAdd(S) == TopicsOf(S \ registered) \ TopicsOf(registered)

\* Mutant: a broadcast is given up with any of its symbols, not with the last.
framesToRemoveAny(S) == TopicsOf(S \cap registered)

\* removeSubs, removeStreams, removeSymbols: a broadcast is given up with its last.
framesToRemove(S) == TopicsOf(S \cap registered) \ TopicsOf(registered \ S)

\* The common part: the frames still to write, and which of them meet another writer.
Carry(t, op, F) ==
  /\ call' = [call EXCEPT ![t] = [op |-> op, frames |-> F, now |-> {}, conn |-> NoConn]]
  /\ raced' = raced \cup (F \cap (InFlight \cup hook.frames))
  /\ UNCHANGED <<socketVars, venue, pingVars>>

Subscribe(t, S) ==
  /\ call[t].frames = {}
  /\ registered' = registered \cup S
  /\ Carry(t, "subscribe", framesToAdd(S))

Unsubscribe(t, S) ==
  /\ call[t].frames = {}
  /\ registered' = registered \ S
  /\ Carry(t, "unsubscribe", framesToRemove(S))

\* writeSub, send and sendEntries read Conn(); with no connection the frame is
\* dropped, for onConnect sends the registry again.
ReadConn(t) ==
  /\ call[t].now = {}
  /\ \E F \in Batches(call[t].frames) \ {{}} :
       \/ conn = NoConn /\ call' = [call EXCEPT ![t].frames = @ \ F]
       \/ conn # NoConn /\ call' = [call EXCEPT ![t].now = F, ![t].conn = conn]
  /\ UNCHANGED <<registered, socketVars, venue, pingVars, raced>>

Applied(c, op, F) ==
  [venue EXCEPT ![c] = IF c \notin up THEN @
                       ELSE IF op = "subscribe" THEN @ \cup F ELSE @ \ F]

\* The frame is written, or the caller's ctx ends and the failure is only logged.
WriteFrame(t) ==
  LET w == call[t] IN
  /\ w.now # {}
  /\ call' = [call EXCEPT ![t] =
       [op |-> w.op, frames |-> w.frames \ w.now, now |-> {}, conn |-> NoConn]]
  /\ \/ venue' = Applied(w.conn, w.op, w.now) /\ UNCHANGED raced
     \/ raced' = raced \cup w.now /\ UNCHANGED venue
  /\ UNCHANGED <<registered, socketVars, pingVars>>

-----------------------------------------------------------------------------
(* BaseWebSocket and its hooks                                             *)

Unused(c) ==
  /\ c \notin {conn, hook.conn, pingCancel} \cup up \cup pinging
  /\ \A t \in Callers : call[t].conn # c
  /\ \A r \in reports : r[2] # c

ShouldConnect == registered # {}

\* Start dials whatever is registered; reconnLoop asks ShouldConnect first.
Dial ==
  /\ conn = NoConn /\ hook.pc = "none"
  /\ phase = "new" \/ (phase = "running" /\ ShouldConnect)
  /\ hook' = [NoHook EXCEPT !.pc = "dial"]
  /\ UNCHANGED <<registered, call, conn, up, reports, phase, venue, pingVars, raced>>

\* Whatever a new connection brings, only what is in flight can still cross on it.
DialOK ==
  /\ hook.pc = "dial" /\ phase \in {"new", "running"}
  /\ \E c \in Conns :
       /\ Unused(c)
       /\ conn' = c /\ up' = up \cup {c}
       /\ venue' = [venue EXCEPT ![c] = {}]
       /\ hook' = [NoHook EXCEPT !.pc = "read", !.conn = c]
  /\ raced' = raced \cap InFlight
  /\ UNCHANGED <<registered, call, reports, phase, pingVars>>

DialError ==
  /\ hook.pc = "dial"
  /\ hook' = NoHook
  /\ UNCHANGED <<registered, call, conn, up, reports, phase, venue, pingVars, raced>>

\* onConnect copies the registry: allSubscriptions, allStreams, allEntries.
HookRead ==
  /\ hook.pc = "read"
  /\ hook' = [hook EXCEPT !.pc = "write", !.frames = TopicsOf(registered)]
  /\ UNCHANGED <<registered, call, conn, up, reports, phase, venue, pingVars, raced>>

\* It writes its frames; one that fails ends the connection, without an OnDisconnect.
HookWrite ==
  /\ hook.pc = "write" /\ hook.frames # {}
  /\ \E F \in Batches(hook.frames) :
     \/ /\ hook' = [hook EXCEPT !.frames = @ \ F]
        /\ venue' = Applied(hook.conn, "subscribe", F)
        /\ UNCHANGED conn
     \/ /\ hook.conn \notin up
        /\ conn' = NoConn /\ hook' = NoHook
        /\ UNCHANGED venue
  /\ UNCHANGED <<registered, call, up, reports, phase, pingVars, raced>>

stopPing == pinging' = pinging \ {pingCancel} /\ pingCancel' = NoConn

\* Mutant: the ping of the connection before is left running.
HookKeepsPing ==
  /\ hook.pc = "write" /\ hook.frames = {}
  /\ hook' = [hook EXCEPT !.pc = "ping"]
  /\ UNCHANGED <<registered, call, conn, up, reports, phase, venue, pingVars, raced>>

\* Its frames written, onConnect starts the ping: startPing first stops the goroutine
\* of the connection before.
HookStopPing ==
  /\ hook.pc = "write" /\ hook.frames = {}
  /\ hook' = [hook EXCEPT !.pc = "ping"]
  /\ IF AppPing THEN stopPing ELSE UNCHANGED <<pinging, pingCancel>>
  /\ UNCHANGED <<registered, call, conn, up, reports, phase, venue, late, raced>>

\* startPing stores the new cancel function and starts the goroutine; onConnect
\* returns nil, Start is done and the read loop runs.
HookDone ==
  /\ hook.pc = "ping"
  /\ pinging' = IF AppPing THEN pinging \cup {hook.conn} ELSE pinging
  /\ pingCancel' = IF AppPing THEN hook.conn ELSE pingCancel
  /\ late' = FALSE
  /\ hook' = NoHook
  /\ phase' = IF phase = "new" THEN "running" ELSE phase
  /\ UNCHANGED <<registered, call, conn, up, reports, venue, raced>>

\* The connection breaks.
Break ==
  /\ conn \in up
  /\ up' = up \ {conn}
  /\ UNCHANGED <<registered, call, conn, hook, reports, phase, venue, pingVars, raced>>

\* The read loop finds the current connection broken and is about to report it.
ReadError ==
  /\ conn \in Conns \ up /\ hook.pc = "none"
  /\ {<<"reader", conn>>, <<"cleanup", conn>>} \cap reports = {}
  /\ reports' = reports \cup {<<"reader", conn>>}
  /\ UNCHANGED <<registered, call, conn, up, hook, phase, venue, pingVars, raced>>

\* Disconnect, by a ping goroutine or the watchdog, takes the connection away first.
Disconnect ==
  /\ conn # NoConn
  /\ conn' = NoConn /\ up' = up \ {conn}
  /\ reports' = reports \cup {<<"disconnect", conn>>}
  /\ UNCHANGED <<registered, call, hook, phase, venue, pingVars, raced>>

\* onDisconnect stops whatever ping there is; a read loop has its cleanup to do yet.
onDisconnect ==
  \E r \in reports :
    /\ r[1] # "cleanup"
    /\ reports' = (reports \ {r}) \cup IF r[1] = "reader" THEN {<<"cleanup", r[2]>>} ELSE {}
    /\ stopPing
    /\ late' = (late \/ r[2] # conn)
    /\ UNCHANGED <<registered, call, conn, up, hook, phase, venue, raced>>

\* The read loop clears its connection, if that is the current one still.
ReaderCleanup ==
  \E c \in Conns :
    /\ <<"cleanup", c>> \in reports
    /\ reports' = reports \ {<<"cleanup", c>>}
    /\ conn' = IF c = conn THEN NoConn ELSE conn
    /\ UNCHANGED <<registered, call, up, hook, phase, venue, pingVars, raced>>

\* The ping goroutine of a lost connection ends with its first failed write.
PingFails ==
  /\ \E c \in pinging \ up : pinging' = pinging \ {c}
  /\ UNCHANGED <<registered, call, socketVars, venue, pingCancel, late, raced>>

\* Stop ends the ping and the socket, then clears the registry.
StopClose ==
  /\ phase = "running"
  /\ phase' = "closed"
  /\ conn' = NoConn /\ up' = up \ {conn}
  /\ stopPing
  /\ UNCHANGED <<registered, call, hook, reports, venue, late, raced>>

clearSubscriptions ==
  /\ phase = "closed" /\ hook.pc = "none"
  /\ phase' = "stopped"
  /\ registered' = {} /\ raced' = raced \cup InFlight
  /\ UNCHANGED <<call, conn, up, hook, reports, venue, pingVars>>
-----------------------------------------------------------------------------
RegistryNext ==
  \/ \E t \in Callers, S \in SUBSET Symbols \ {{}} : Subscribe(t, S) \/ Unsubscribe(t, S)
  \/ \E t \in Callers : ReadConn(t) \/ WriteFrame(t)
  \/ Dial \/ DialOK \/ DialError \/ HookRead \/ HookWrite \/ HookStopPing \/ HookDone
  \/ Break \/ ReadError \/ Disconnect \/ onDisconnect \/ ReaderCleanup \/ PingFails
  \/ StopClose \/ clearSubscriptions

RegistrySpec == RegistryInit /\ [][RegistryNext]_registryVars
-----------------------------------------------------------------------------
(* Properties                                                              *)

Wanted(p) == p \in TopicsOf(registered)

\* Once a connection is up and everything written, the venue streams exactly the
\* topics that some registered symbol needs, whatever calls, broken connections
\* and handshakes came in between.  Excepted, until the next connection, are
\* topics that two writers carried at a time or whose frame failed: nothing
\* orders or repeats those frames.
StreamsMatch ==
  conn \in up /\ hook.pc = "none" =>
    \A p \in Topics \ (raced \cup InFlight) : p \in venue[conn] <=> Wanted(p)

\* Hyperliquid's application ping: at most one goroutine runs, pingCancel can stop
\* it, and a connection in use has it, unless the OnDisconnect of an earlier
\* connection came after its ping had started and stopped it.
PingGuards ==
  /\ pinging \subseteq {pingCancel}
  /\ AppPing /\ conn \in up /\ hook.pc = "none" /\ ~late => conn \in pinging
=============================================================================
