-------------------------- MODULE VenueChannelProofs --------------------------
(***************************************************************************)
(* What the venue streams is what the channel has registered: the          *)
(* registries of SubscriptionRegistry, for any symbols, topics, callers    *)
(* and connections, and the queues and the record of UserChannel.  Then    *)
(* the routing of VenueStreams, for any streams that can be told apart,    *)
(* and the types of the channels together.                                 *)
(***************************************************************************)
EXTENDS MCVenueChannels, SequenceTheorems, TLAPS

-----------------------------------------------------------------------------
(* The registry's invariant                                                *)

CallType == [op : {"subscribe", "unsubscribe"}, frames : SUBSET Topics,
             now : SUBSET Topics, conn : MaybeConn]

\* A caller that carries the topic can still write it on the current connection: it
\* has not read Conn() yet, or what it read is current.
Reaches(t, p) == p \in call[t].frames /\ ~(p \in call[t].now /\ call[t].conn # conn)
Pending(p) == \E t \in Callers : Reaches(t, p)

\* The hook works on the current connection, if there is one, and after Stop there is
\* none; before the hook starts a ping none is left.
HookInv ==
  /\ hook.pc \in {"none", "dial", "read", "ping"} => hook.frames = {}
  /\ hook.pc = "dial" => conn = NoConn
  /\ hook.pc \in {"read", "write", "ping"} => hook.conn \in Conns /\ conn \in {hook.conn, NoConn}
  /\ phase \in {"closed", "stopped"} => conn = NoConn
  /\ hook.pc = "ping" /\ AppPing => pinging = {}

\* An undisputed frame says what the registry says, wherever it is written.
FramesWanted ==
  \A t \in Callers : \A p \in call[t].frames \ raced : call[t].op = "subscribe" <=> Wanted(p)
HookWanted == \A p \in hook.frames \ raced : Wanted(p)

\* A topic that nobody can write on the current connection any more is as it should be
\* there, or the hook has yet to ask for it.
StreamInv(p) ==
  conn \in up /\ p \notin raced /\ ~Pending(p) =>
    /\ p \in venue[conn] => Wanted(p)
    /\ hook.pc \in {"none", "write", "ping"} /\ p \notin hook.frames /\ Wanted(p) => p \in venue[conn]

\* A Disconnect still to be reported is about an earlier connection, a read loop's
\* report about one that is broken.
ReportInv == \A c \in Conns :
  /\ <<"disconnect", c>> \in reports => c # conn
  /\ <<"reader", c>> \in reports => c \notin up

RegistryInv ==
  /\ RegistryTypeOK /\ HookInv /\ ReportInv /\ PingGuards
  /\ FramesWanted /\ HookWanted
  /\ \A p \in Topics : StreamInv(p)
-----------------------------------------------------------------------------
\* The constants, and what follows for NoConn.
LEMMA RegistryConstants ==
  /\ Topic \in [Symbols -> Topics] /\ AppPing \in BOOLEAN /\ NoConn \notin Conns
  BY RegistryAssumption

\* The topics of registered symbols are topics.
LEMMA TopicsAreTopics ==
  ASSUME NEW S \in SUBSET Symbols
  PROVE  TopicsOf(S) \subseteq Topics
  BY RegistryConstants DEF TopicsOf

\* A subscription asks for exactly the topics that become wanted.
LEMMA SubscribeWants ==
  ASSUME RegistryInv, NEW S \in SUBSET Symbols, registered' = registered \cup S
  PROVE  /\ framesToAdd(S) \subseteq Topics
         /\ \A p \in framesToAdd(S) : Wanted(p)'
         /\ \A p \in Topics \ framesToAdd(S) : Wanted(p)' <=> Wanted(p)
<1>1. registered \subseteq Symbols
  BY DEF RegistryInv, RegistryTypeOK
<1>2. framesToAdd(S) \subseteq Topics
  BY <1>1, RegistryConstants DEF framesToAdd, TopicsOf
<1> QED
  BY <1>2 DEF framesToAdd, Wanted, TopicsOf

\* An unsubscription gives up exactly the topics that stop being wanted.
LEMMA UnsubscribeWants ==
  ASSUME RegistryInv, NEW S \in SUBSET Symbols, registered' = registered \ S
  PROVE  /\ framesToRemove(S) \subseteq Topics
         /\ \A p \in framesToRemove(S) : ~Wanted(p)'
         /\ \A p \in Topics \ framesToRemove(S) : Wanted(p)' <=> Wanted(p)
<1>1. registered \subseteq Symbols
  BY DEF RegistryInv, RegistryTypeOK
<1>2. framesToRemove(S) \subseteq Topics
  BY <1>1, RegistryConstants DEF framesToRemove, TopicsOf
<1> QED
  BY <1>2 DEF framesToRemove, Wanted, TopicsOf

\* A call that finds nobody else at its topics, or marks them as raced, keeps the invariant.
LEMMA CarryInv ==
  ASSUME RegistryInv, NEW t \in Callers, NEW op \in {"subscribe", "unsubscribe"},
         NEW F \in SUBSET Topics, call[t].frames = {}, Carry(t, op, F),
         registered' \subseteq Symbols,
         \A p \in F : Wanted(p)' <=> op = "subscribe",
         \A p \in Topics \ F : Wanted(p)' <=> Wanted(p)
  PROVE  RegistryInv'
<1> DEFINE new == [op |-> op, frames |-> F, now |-> {}, conn |-> NoConn]
<1>1. /\ call' = [call EXCEPT ![t] = new]
      /\ raced' = raced \cup (F \cap (InFlight \cup hook.frames))
      /\ UNCHANGED <<conn, up, hook, reports, phase, venue, pingCancel, pinging, late>>
  BY DEF Carry, socketVars, pingVars
<1>2. new \in CallType /\ call \in [Callers -> CallType]
  BY DEF CallType, MaybeConn, RegistryInv, RegistryTypeOK
<1>3. /\ call' \in [Callers -> CallType]
      /\ call'[t].frames = F /\ call'[t].op = op /\ call'[t].now = {}
      /\ \A u \in Callers \ {t} : call'[u] = call[u]
  BY <1>1, <1>2
<1>4. \A u \in Callers : call[u].frames \subseteq InFlight /\ call[u].frames \subseteq Topics
  BY <1>2 DEF InFlight, CallType
<1>5. hook.frames \subseteq Topics /\ raced \subseteq Topics
  BY DEF RegistryInv, RegistryTypeOK
<1>6. RegistryTypeOK'
  <2>1. \A u \in Callers : call'[u].now \subseteq call'[u].frames
    BY <1>3 DEF RegistryInv, RegistryTypeOK
  <2>2. raced' \subseteq Topics
    BY <1>1, <1>5
  <2> QED
    BY <1>1, <1>3, <2>1, <2>2 DEF RegistryInv, RegistryTypeOK, CallType, MaybeConn
<1>7. FramesWanted'
  <2> SUFFICES ASSUME NEW u \in Callers, NEW p \in call'[u].frames, p \notin raced'
               PROVE  call'[u].op = "subscribe" <=> Wanted(p)'
    BY DEF FramesWanted
  <2>1. CASE u = t
    BY <1>3, <2>1
  <2>2. CASE u # t
    <3>1. p \in call[u].frames /\ p \in Topics /\ p \notin raced /\ p \notin F
      BY <1>1, <1>3, <1>4, <2>2
    <3> QED
      BY <1>3, <2>2, <3>1 DEF FramesWanted, RegistryInv
  <2> QED
    BY <2>1, <2>2
<1>8. HookWanted'
  BY <1>1, <1>5 DEF HookWanted, RegistryInv
<1>9. ASSUME NEW p \in Topics PROVE StreamInv(p)'
  <2>1. CASE p \in F
    <3>1. Pending(p)'
      BY <1>3, <2>1 DEF Pending, Reaches
    <3> QED
      BY <3>1 DEF StreamInv
  <2>2. CASE p \notin F
    <3>1. Wanted(p)' <=> Wanted(p)
      BY <2>2
    <3>2. p \in raced' <=> p \in raced
      BY <1>1, <2>2
    <3>3. Pending(p) => Pending(p)'
      BY <1>1, <1>3 DEF Pending, Reaches
    <3> QED
      BY <1>1, <3>1, <3>2, <3>3 DEF StreamInv, RegistryInv
  <2> QED
    BY <2>1, <2>2
<1>10. HookInv' /\ ReportInv' /\ PingGuards'
  BY <1>1 DEF RegistryInv, HookInv, ReportInv, PingGuards
<1> QED
  BY <1>6, <1>7, <1>8, <1>9, <1>10 DEF RegistryInv

\* A reading of Conn() drops the frames when there is no connection, and else makes
\* them ready for the current one: what is pending stays pending.
LEMMA ReadConnInv ==
  ASSUME RegistryInv, NEW t \in Callers, ReadConn(t)
  PROVE  RegistryInv'
<1>1. PICK F \in Batches(call[t].frames) \ {{}} :
        \/ conn = NoConn /\ call' = [call EXCEPT ![t].frames = @ \ F]
        \/ conn # NoConn /\ call' = [call EXCEPT ![t].now = F, ![t].conn = conn]
  BY DEF ReadConn
<1>2. /\ call \in [Callers -> CallType] /\ call[t].now = {} /\ conn \in MaybeConn
      /\ UNCHANGED <<registered, conn, up, hook, reports, phase, venue, pingCancel, pinging, late, raced>>
  BY DEF CallType, RegistryInv, RegistryTypeOK, ReadConn, socketVars, pingVars
<1>3. F \subseteq call[t].frames
  BY <1>1 DEF Batches
<1>4. /\ call' \in [Callers -> CallType] /\ call'[t].op = call[t].op
      /\ call'[t].frames \subseteq call[t].frames /\ call'[t].now \subseteq call'[t].frames
      /\ \A u \in Callers \ {t} : call'[u] = call[u]
      /\ conn # NoConn => call'[t].frames = call[t].frames /\ call'[t].conn = conn
  <2>1. CASE conn = NoConn
    <3> DEFINE r == [call[t] EXCEPT !.frames = @ \ F]
    <3>1. call' = [call EXCEPT ![t] = r]
      BY <1>1, <1>2, <2>1 DEF CallType
    <3>2. r \in CallType /\ r.op = call[t].op /\ r.frames \subseteq call[t].frames /\ r.now = {}
      BY <1>2 DEF CallType
    <3> HIDE DEF r
    <3> QED
      BY <1>2, <2>1, <3>1, <3>2
  <2>2. CASE conn # NoConn
    <3> DEFINE r == [call[t] EXCEPT !.now = F, !.conn = conn]
    <3>1. call' = [call EXCEPT ![t] = r]
      BY <1>1, <1>2, <2>2 DEF CallType
    <3>2. r \in CallType /\ r.op = call[t].op /\ r.frames = call[t].frames /\ r.now = F /\ r.conn = conn
      BY <1>2, <1>3 DEF CallType
    <3> HIDE DEF r
    <3> QED
      BY <1>2, <1>3, <3>1, <3>2
  <2> QED
    BY <2>1, <2>2
<1>5. RegistryTypeOK'
  <2>1. \A u \in Callers : call'[u].now \subseteq call'[u].frames
    BY <1>4 DEF RegistryInv, RegistryTypeOK
  <2> QED
    BY <1>2, <1>4, <2>1 DEF RegistryInv, RegistryTypeOK, CallType, MaybeConn
<1>6. \A p \in Topics : Wanted(p)' <=> Wanted(p)
  BY <1>2 DEF Wanted, TopicsOf
<1>7. FramesWanted'
  <2> SUFFICES ASSUME NEW u \in Callers, NEW p \in call'[u].frames, p \notin raced'
               PROVE  call'[u].op = "subscribe" <=> Wanted(p)'
    BY DEF FramesWanted
  <2>1. p \in call[u].frames /\ call'[u].op = call[u].op /\ p \in Topics
    BY <1>2, <1>4 DEF CallType
  <2> QED
    BY <1>2, <1>6, <2>1 DEF FramesWanted, RegistryInv
<1>8. ASSUME NEW p \in Topics PROVE StreamInv(p)'
  <2>1. CASE conn = NoConn
    BY <1>2, <2>1, RegistryConstants DEF StreamInv, RegistryInv, RegistryTypeOK
  <2>2. CASE conn # NoConn
    <3>1. Pending(p) => Pending(p)'
      BY <1>2, <1>4, <2>2 DEF Pending, Reaches
    <3> QED
      BY <1>2, <1>6, <3>1 DEF StreamInv, RegistryInv
  <2> QED
    BY <2>1, <2>2
<1>9. HookInv' /\ ReportInv' /\ PingGuards' /\ HookWanted'
  <2>1. hook.frames \subseteq Topics
    BY DEF RegistryInv, RegistryTypeOK
  <2> QED
    BY <1>2, <1>6, <2>1 DEF RegistryInv, HookInv, ReportInv, PingGuards, HookWanted
<1> QED
  BY <1>5, <1>7, <1>8, <1>9 DEF RegistryInv

\* A frame that is written settles its topics when it was for the current connection,
\* and changes nothing there when it was for an earlier one.
LEMMA WriteFrameInv ==
  ASSUME RegistryInv, NEW t \in Callers, WriteFrame(t)
  PROVE  RegistryInv'
<1> DEFINE w == call[t]
           left == [op |-> w.op, frames |-> w.frames \ w.now, now |-> {}, conn |-> NoConn]
<1>1. /\ call' = [call EXCEPT ![t] = left]
      /\ \/ venue' = Applied(w.conn, w.op, w.now) /\ UNCHANGED raced
         \/ raced' = raced \cup w.now /\ UNCHANGED venue
      /\ UNCHANGED <<registered, conn, up, hook, reports, phase, pingCancel, pinging, late>>
  BY DEF WriteFrame, socketVars, pingVars
<1>2. call \in [Callers -> CallType] /\ w \in CallType /\ left \in CallType
      /\ w.now \subseteq w.frames
  BY DEF CallType, RegistryInv, RegistryTypeOK, MaybeConn
<1>4. /\ call' \in [Callers -> CallType]
      /\ call'[t].op = w.op /\ call'[t].frames = w.frames \ w.now /\ call'[t].now = {}
      /\ \A u \in Callers \ {t} : call'[u] = call[u]
  BY <1>1, <1>2
<1> HIDE DEF left
<1>5. /\ venue' \in [Conns -> SUBSET Topics] /\ raced' \subseteq Topics /\ raced \subseteq raced'
      /\ \A c \in Conns \ {w.conn} : venue'[c] = venue[c]
      /\ \A c \in Conns : \A p \in Topics \ w.now : p \in venue'[c] <=> p \in venue[c]
      /\ w.conn \in up => \A p \in w.now \ raced' : p \in venue'[w.conn] <=> w.op = "subscribe"
  <2>1. venue \in [Conns -> SUBSET Topics] /\ raced \subseteq Topics /\ up \subseteq Conns
          /\ w.now \subseteq Topics /\ w.op \in {"subscribe", "unsubscribe"}
    BY <1>2 DEF CallType, RegistryInv, RegistryTypeOK
  <2>2. CASE raced' = raced \cup w.now /\ UNCHANGED venue
    BY <2>1, <2>2
  <2>3. CASE venue' = Applied(w.conn, w.op, w.now) /\ UNCHANGED raced
    <3> DEFINE new == IF w.conn \notin up THEN venue[w.conn]
                      ELSE IF w.op = "subscribe" THEN venue[w.conn] \cup w.now
                      ELSE venue[w.conn] \ w.now
    <3>1. venue' = [venue EXCEPT ![w.conn] = new]
      BY <2>3 DEF Applied
    <3>2. w.conn \in Conns => new \subseteq Topics
      BY <2>1
    <3>3. venue' \in [Conns -> SUBSET Topics] /\ \A c \in Conns \ {w.conn} : venue'[c] = venue[c]
      <4> HIDE DEF new
      <4> QED
        BY <2>1, <3>1, <3>2
    <3>4. w.conn \in Conns => venue'[w.conn] = new
      BY <2>1, <3>1
    <3>5. \A c \in Conns : \A p \in Topics \ w.now : p \in venue'[c] <=> p \in venue[c]
      BY <3>3, <3>4
    <3>6. w.conn \in up => \A p \in w.now : p \in venue'[w.conn] <=> w.op = "subscribe"
      BY <2>1, <3>4
    <3> QED
      BY <2>1, <2>3, <3>3, <3>5, <3>6
  <2> QED
    BY <1>1, <2>2, <2>3
<1>6. RegistryTypeOK'
  <2>1. \A u \in Callers : call'[u].now \subseteq call'[u].frames
    BY <1>4 DEF RegistryInv, RegistryTypeOK
  <2> QED
    BY <1>1, <1>4, <1>5, <2>1 DEF RegistryInv, RegistryTypeOK, CallType, MaybeConn
<1>7. \A p \in Topics : Wanted(p)' <=> Wanted(p)
  BY <1>1 DEF Wanted, TopicsOf
<1>8. FramesWanted'
  <2> SUFFICES ASSUME NEW u \in Callers, NEW p \in call'[u].frames, p \notin raced'
               PROVE  call'[u].op = "subscribe" <=> Wanted(p)'
    BY DEF FramesWanted
  <2>1. p \in call[u].frames /\ call'[u].op = call[u].op /\ p \in Topics /\ p \notin raced
    BY <1>2, <1>4, <1>5 DEF CallType
  <2> QED
    BY <1>7, <2>1 DEF FramesWanted, RegistryInv
<1>9. ASSUME NEW p \in Topics PROVE StreamInv(p)'
  <2> SUFFICES ASSUME conn \in up, p \notin raced', ~Pending(p)'
               PROVE  StreamInv(p)'
    BY <1>1 DEF StreamInv
  <2>1. conn \in Conns /\ p \notin raced
    BY <1>5 DEF RegistryInv, RegistryTypeOK
  <2>2. \A u \in Callers \ {t} : ~Reaches(u, p)
    BY <1>1, <1>4 DEF Pending, Reaches
  <2>3. CASE Reaches(t, p)
    <3>1. p \in w.now /\ w.conn = conn
      BY <1>2, <1>4, <2>3 DEF Pending, Reaches
    <3>2. w.op = "subscribe" <=> Wanted(p)
      BY <1>2, <2>1, <3>1 DEF FramesWanted, RegistryInv
    <3>3. p \in venue'[conn] <=> w.op = "subscribe"
      BY <1>5, <3>1
    <3> QED
      BY <1>1, <1>7, <3>2, <3>3 DEF StreamInv
  <2>4. CASE ~Reaches(t, p)
    <3>1. ~Pending(p)
      BY <2>2, <2>4 DEF Pending
    <3>2. p \in venue'[conn] <=> p \in venue[conn]
      <4>1. CASE w.conn # conn
        BY <1>5, <2>1, <4>1
      <4>2. CASE w.conn = conn
        <5>1. p \notin w.now
          BY <1>2, <2>4, <4>2 DEF Reaches
        <5> QED
          BY <1>5, <2>1, <5>1
      <4> QED
        BY <4>1, <4>2
    <3> QED
      BY <1>1, <1>7, <2>1, <3>1, <3>2 DEF StreamInv, RegistryInv
  <2> QED
    BY <2>3, <2>4
<1>10. HookInv' /\ ReportInv' /\ PingGuards' /\ HookWanted'
  <2>1. hook.frames \subseteq Topics
    BY DEF RegistryInv, RegistryTypeOK
  <2> QED
    BY <1>1, <1>5, <1>7, <2>1 DEF RegistryInv, HookInv, ReportInv, PingGuards, HookWanted
<1> QED
  BY <1>6, <1>8, <1>9, <1>10 DEF RegistryInv

\* While the connection stays or goes, what was undisputed stays so.
LEMMA StreamsStay ==
  ASSUME RegistryInv, UNCHANGED <<registered, call, venue, raced, hook>>,
         up' \subseteq up, conn' \in {conn, NoConn}
  PROVE  FramesWanted' /\ HookWanted' /\ \A p \in Topics : StreamInv(p)'
<1>1. \A p \in Topics : Wanted(p)' <=> Wanted(p)
  BY DEF Wanted, TopicsOf
<1>2. hook.frames \subseteq Topics /\ up \subseteq Conns
        /\ \A t \in Callers : call[t].frames \subseteq Topics
  BY DEF RegistryInv, RegistryTypeOK
<1>3. FramesWanted' /\ HookWanted'
  BY <1>1, <1>2 DEF FramesWanted, HookWanted, RegistryInv
<1>4. ASSUME NEW p \in Topics PROVE StreamInv(p)'
  <2>1. CASE conn' = NoConn
    BY <1>2, <2>1, RegistryConstants DEF StreamInv
  <2>2. CASE conn' = conn
    <3>1. Pending(p)' <=> Pending(p)
      BY <2>2 DEF Pending, Reaches
    <3> QED
      BY <1>1, <2>2, <3>1 DEF StreamInv, RegistryInv
  <2> QED
    BY <2>1, <2>2
<1> QED
  BY <1>3, <1>4

\* The connection breaks, or is found broken, or is taken away.
LEMMA LossInv ==
  ASSUME RegistryInv, Break \/ ReadError \/ Disconnect
  PROVE  RegistryInv'
<1>1. /\ UNCHANGED <<registered, call, venue, raced, hook, phase, pingCancel, pinging, late>>
      /\ up' \subseteq up /\ conn' \in {conn, NoConn}
  BY DEF Break, ReadError, Disconnect, pingVars
<1>2. FramesWanted' /\ HookWanted' /\ \A p \in Topics : StreamInv(p)'
  BY <1>1, StreamsStay
<1>3. conn \in MaybeConn /\ up \subseteq Conns /\ reports \subseteq {"reader", "cleanup", "disconnect"} \X Conns
  BY DEF RegistryInv, RegistryTypeOK
<1>4. /\ reports' \subseteq {"reader", "cleanup", "disconnect"} \X Conns
      /\ ReportInv'
  <2>1. CASE Break
    BY <1>3, <2>1 DEF Break, ReportInv, RegistryInv
  <2>2. CASE ReadError
    <3>1. conn \in Conns /\ reports' = reports \cup {<<"reader", conn>>} /\ conn' = conn
      BY <2>2 DEF ReadError
    <3>2. \A c \in Conns : <<"disconnect", c>> # <<"reader", conn>>
      OBVIOUS
    <3> QED
      BY <1>3, <2>2, <3>1, <3>2 DEF ReadError, ReportInv, RegistryInv
  <2>3. CASE Disconnect
    <3>1. /\ conn \in Conns /\ conn' = NoConn /\ up' \subseteq up
          /\ reports' = reports \cup {<<"disconnect", conn>>}
      BY <1>3, <2>3 DEF Disconnect, MaybeConn
    <3>2. \A c \in Conns : <<"reader", c>> # <<"disconnect", conn>>
      OBVIOUS
    <3>3. \A c \in Conns : <<"reader", c>> \in reports' => <<"reader", c>> \in reports
      BY <3>1, <3>2
    <3> QED
      BY <1>3, <3>1, <3>3, RegistryConstants DEF ReportInv, RegistryInv
  <2> QED
    BY <2>1, <2>2, <2>3
<1>5. RegistryTypeOK'
  BY <1>1, <1>3, <1>4 DEF RegistryInv, RegistryTypeOK, MaybeConn
<1>6. HookInv'
  BY <1>1 DEF RegistryInv, HookInv
<1>7. PingGuards'
  BY <1>1, <1>3, RegistryConstants DEF RegistryInv, PingGuards
<1> QED
  BY <1>2, <1>4, <1>5, <1>6, <1>7 DEF RegistryInv

\* A report stops whatever ping there is, and notes whether it was late.
LEMMA OnDisconnectInv ==
  ASSUME RegistryInv, onDisconnect
  PROVE  RegistryInv'
<1>1. PICK r \in reports :
        /\ r[1] # "cleanup"
        /\ reports' = (reports \ {r}) \cup IF r[1] = "reader" THEN {<<"cleanup", r[2]>>} ELSE {}
        /\ pinging' = pinging \ {pingCancel} /\ pingCancel' = NoConn
        /\ late' = (late \/ r[2] # conn)
        /\ UNCHANGED <<registered, call, conn, up, hook, phase, venue, raced>>
  BY DEF onDisconnect, stopPing
<1>2. FramesWanted' /\ HookWanted' /\ \A p \in Topics : StreamInv(p)'
  BY <1>1, StreamsStay
<1>3. /\ up \subseteq Conns /\ reports \subseteq {"reader", "cleanup", "disconnect"} \X Conns
      /\ late \in BOOLEAN /\ pinging \subseteq Conns /\ r[2] \in Conns
      /\ r = <<r[1], r[2]>> /\ r[1] \in {"reader", "disconnect"}
  BY <1>1 DEF RegistryInv, RegistryTypeOK
<1>4. /\ reports' \subseteq {"reader", "cleanup", "disconnect"} \X Conns
      /\ \A c \in Conns : /\ <<"disconnect", c>> \in reports' => <<"disconnect", c>> \in reports
                         /\ <<"reader", c>> \in reports' => <<"reader", c>> \in reports
  BY <1>1, <1>3
<1>5. late' \in BOOLEAN /\ (~late' => r[2] = conn)
  BY <1>1, <1>3
<1>6. RegistryTypeOK'
  BY <1>1, <1>3, <1>4, <1>5 DEF RegistryInv, RegistryTypeOK, MaybeConn
<1>7. HookInv' /\ ReportInv'
  BY <1>1, <1>4 DEF RegistryInv, HookInv, ReportInv
<1>8. PingGuards'
  <2>1. pinging' = {}
    BY <1>1 DEF RegistryInv, PingGuards
  <2>2. ASSUME conn' \in up', ~late' PROVE FALSE
    <3>1. r[2] = conn /\ conn \in Conns /\ conn \in up
      BY <1>1, <1>3, <1>5, <2>2
    <3>2. r = <<"disconnect", conn>> \/ r = <<"reader", conn>>
      BY <1>3, <3>1
    <3> QED
      BY <1>1, <3>1, <3>2 DEF RegistryInv, ReportInv
  <2> QED
    BY <2>1, <2>2 DEF PingGuards
<1> QED
  BY <1>2, <1>6, <1>7, <1>8 DEF RegistryInv

\* A read loop takes its connection away when it is the current one.
LEMMA ReaderCleanupInv ==
  ASSUME RegistryInv, ReaderCleanup
  PROVE  RegistryInv'
<1>1. PICK c \in Conns :
        /\ reports' = reports \ {<<"cleanup", c>>}
        /\ conn' = IF c = conn THEN NoConn ELSE conn
        /\ UNCHANGED <<registered, call, up, hook, phase, venue, pingCancel, pinging, late, raced>>
  BY DEF ReaderCleanup, pingVars
<1>2. FramesWanted' /\ HookWanted' /\ \A p \in Topics : StreamInv(p)'
  BY <1>1, StreamsStay
<1>3. RegistryTypeOK'
  BY <1>1 DEF RegistryInv, RegistryTypeOK, MaybeConn
<1>4. HookInv' /\ ReportInv'
  BY <1>1, RegistryConstants DEF RegistryInv, HookInv, ReportInv
<1>5. PingGuards'
  <2>1. up \subseteq Conns
    BY DEF RegistryInv, RegistryTypeOK
  <2> QED
    BY <1>1, <2>1, RegistryConstants DEF RegistryInv, PingGuards
<1> QED
  BY <1>2, <1>3, <1>4, <1>5 DEF RegistryInv

\* A ping that fails, and a Stop.
LEMMA PingStopInv ==
  ASSUME RegistryInv, PingFails \/ StopClose
  PROVE  RegistryInv'
<1>1. UNCHANGED <<registered, call, venue, raced, hook, reports, late>>
        /\ up' \subseteq up /\ conn' \in {conn, NoConn} /\ pinging' \subseteq pinging
  BY DEF PingFails, StopClose, stopPing, socketVars
<1>2. FramesWanted' /\ HookWanted' /\ \A p \in Topics : StreamInv(p)'
  BY <1>1, StreamsStay
<1>3. RegistryTypeOK'
  BY <1>1 DEF PingFails, StopClose, stopPing, socketVars, RegistryInv, RegistryTypeOK, MaybeConn
<1>4. HookInv'
  BY <1>1 DEF PingFails, StopClose, socketVars, RegistryInv, HookInv
<1>5. ReportInv'
  BY <1>1, RegistryConstants DEF RegistryInv, ReportInv
<1>6. PingGuards'
  <2>1. CASE PingFails
    BY <2>1 DEF PingFails, socketVars, RegistryInv, PingGuards
  <2>2. CASE StopClose
    <3>1. conn' = NoConn /\ pinging' = {} /\ up' \subseteq Conns
      BY <1>1, <2>2 DEF StopClose, stopPing, RegistryInv, PingGuards, RegistryTypeOK
    <3> QED
      BY <3>1, RegistryConstants DEF PingGuards
  <2> QED
    BY <2>1, <2>2
<1> QED
  BY <1>2, <1>3, <1>4, <1>5, <1>6 DEF RegistryInv

\* A dial starts, or fails: there is no connection.
LEMMA DialInv ==
  ASSUME RegistryInv, Dial \/ DialError
  PROVE  RegistryInv'
<1>1. /\ UNCHANGED <<registered, call, conn, up, reports, phase, venue, pingCancel, pinging, late, raced>>
      /\ hook' \in {[pc |-> "dial", conn |-> NoConn, frames |-> {}], NoHook} /\ conn = NoConn
  BY DEF Dial, DialError, pingVars, RegistryInv, HookInv, NoHook
<1>2. conn \notin up /\ NoConn \in MaybeConn
  BY <1>1, RegistryConstants DEF RegistryInv, RegistryTypeOK, MaybeConn
<1>3. hook'.pc \in {"dial", "none"} /\ hook'.frames = {} /\ hook'.conn = NoConn
  BY <1>1 DEF NoHook
<1>4. RegistryTypeOK'
  BY <1>1, <1>2 DEF RegistryInv, RegistryTypeOK, MaybeConn, NoHook
<1>5. FramesWanted' /\ HookWanted'
  BY <1>1, <1>3 DEF RegistryInv, FramesWanted, HookWanted, Wanted, TopicsOf
<1>6. \A p \in Topics : StreamInv(p)'
  BY <1>1, <1>2 DEF StreamInv
<1>7. HookInv' /\ ReportInv' /\ PingGuards'
  BY <1>1, <1>2, <1>3 DEF RegistryInv, HookInv, ReportInv, PingGuards
<1> QED
  BY <1>4, <1>5, <1>6, <1>7 DEF RegistryInv

\* A new connection carries nothing, and no caller has it yet.
LEMMA DialOKInv ==
  ASSUME RegistryInv, DialOK
  PROVE  RegistryInv'
<1>1. PICK c \in Conns :
        /\ Unused(c)
        /\ conn' = c /\ up' = up \cup {c}
        /\ venue' = [venue EXCEPT ![c] = {}]
        /\ hook' = [pc |-> "read", conn |-> c, frames |-> {}]
  BY DEF DialOK, NoHook
<1>2. /\ raced' = raced \cap InFlight /\ phase \in {"new", "running"}
      /\ UNCHANGED <<registered, call, reports, phase, pingCancel, pinging, late>>
  BY DEF DialOK, pingVars
<1>3. /\ call \in [Callers -> CallType] /\ venue \in [Conns -> SUBSET Topics]
      /\ raced \subseteq Topics /\ up \subseteq Conns
  BY DEF RegistryInv, RegistryTypeOK, CallType
<1>4. hook'.pc = "read" /\ hook'.conn = c /\ hook'.frames = {}
        /\ hook' \in [pc : {"none", "dial", "read", "write", "ping"}, conn : MaybeConn, frames : SUBSET Topics]
  BY <1>1 DEF MaybeConn
<1>5. venue' \in [Conns -> SUBSET Topics] /\ venue'[c] = {}
  BY <1>1, <1>3
<1>6. RegistryTypeOK'
  BY <1>1, <1>2, <1>3, <1>4, <1>5 DEF RegistryInv, RegistryTypeOK, MaybeConn
<1>7. \A p \in Topics : Wanted(p)' <=> Wanted(p)
  BY <1>2 DEF Wanted, TopicsOf
<1>8. FramesWanted'
  <2> SUFFICES ASSUME NEW t \in Callers, NEW p \in call[t].frames, p \notin raced'
               PROVE  call[t].op = "subscribe" <=> Wanted(p)'
    BY <1>2 DEF FramesWanted
  <2>1. p \in Topics /\ p \in InFlight
    BY <1>3 DEF CallType, InFlight
  <2> QED
    BY <1>2, <1>7, <2>1 DEF RegistryInv, FramesWanted
<1>9. \A p \in Topics : StreamInv(p)'
  BY <1>1, <1>4, <1>5 DEF StreamInv
<1>10. HookInv' /\ HookWanted'
  BY <1>1, <1>2, <1>4 DEF HookInv, HookWanted, MaybeConn
<1>11. ReportInv'
  <2>1. \A r \in reports : r[2] # c
    BY <1>1 DEF Unused
  <2>2. \A d \in Conns : /\ <<"disconnect", d>> \in reports => d # c
                         /\ <<"reader", d>> \in reports => d # c
    BY <2>1
  <2> QED
    BY <1>1, <1>2, <2>2 DEF ReportInv, RegistryInv
<1>12. PingGuards'
  BY <1>2, <1>4 DEF RegistryInv, PingGuards
<1> QED
  BY <1>6, <1>8, <1>9, <1>10, <1>11, <1>12 DEF RegistryInv

\* The hook copies the registry.
LEMMA HookReadInv ==
  ASSUME RegistryInv, HookRead
  PROVE  RegistryInv'
<1>1. /\ hook.pc = "read" /\ hook' = [hook EXCEPT !.pc = "write", !.frames = TopicsOf(registered)]
      /\ UNCHANGED <<registered, call, conn, up, reports, phase, venue, pingCancel, pinging, late, raced>>
  BY DEF HookRead, pingVars
<1>2. TopicsOf(registered) \subseteq Topics
  BY TopicsAreTopics DEF RegistryInv, RegistryTypeOK
<1>3. hook \in [pc : {"none", "dial", "read", "write", "ping"}, conn : MaybeConn, frames : SUBSET Topics]
  BY DEF RegistryInv, RegistryTypeOK
<1>4. /\ hook'.pc = "write" /\ hook'.conn = hook.conn /\ hook'.frames = TopicsOf(registered)
      /\ hook' \in [pc : {"none", "dial", "read", "write", "ping"}, conn : MaybeConn, frames : SUBSET Topics]
  BY <1>1, <1>2, <1>3
<1>5. RegistryTypeOK'
  BY <1>1, <1>4 DEF RegistryInv, RegistryTypeOK, MaybeConn
<1>6. ASSUME NEW p \in Topics
      PROVE  /\ Wanted(p)' <=> Wanted(p)
             /\ Wanted(p) <=> p \in hook'.frames
             /\ Pending(p)' <=> Pending(p)
  <2>1. Wanted(p)' <=> Wanted(p)
    BY <1>1 DEF Wanted, TopicsOf
  <2>2. Wanted(p) <=> p \in hook'.frames
    BY <1>4 DEF Wanted
  <2>3. Pending(p)' <=> Pending(p)
    BY <1>1 DEF Pending, Reaches
  <2> QED
    BY <2>1, <2>2, <2>3
<1>7. FramesWanted'
  BY <1>1 DEF RegistryInv, FramesWanted, Wanted, TopicsOf
<1>8. HookWanted'
  <2> SUFFICES ASSUME NEW p \in hook'.frames PROVE Wanted(p)'
    BY DEF HookWanted
  <2> QED
    BY <1>2, <1>4, <1>6
<1>9. ASSUME NEW p \in Topics PROVE StreamInv(p)'
  <2>1. StreamInv(p)
    BY DEF RegistryInv
  <2> QED
    BY <1>1, <1>6, <2>1 DEF StreamInv
<1>10. HookInv' /\ ReportInv' /\ PingGuards'
  BY <1>1, <1>4 DEF RegistryInv, HookInv, ReportInv, PingGuards
<1> QED
  BY <1>5, <1>7, <1>8, <1>9, <1>10 DEF RegistryInv

\* The hook writes what is wanted, or gives the connection up.
LEMMA HookWriteInv ==
  ASSUME RegistryInv, HookWrite
  PROVE  RegistryInv'
<1>1. PICK F \in Batches(hook.frames) :
        \/ /\ hook' = [hook EXCEPT !.frames = @ \ F]
           /\ venue' = Applied(hook.conn, "subscribe", F)
           /\ UNCHANGED conn
        \/ /\ hook.conn \notin up
           /\ conn' = NoConn /\ hook' = NoHook
           /\ UNCHANGED venue
  BY DEF HookWrite
<1>2. /\ hook.pc = "write" /\ hook.conn \in Conns /\ conn \in {hook.conn, NoConn}
      /\ UNCHANGED <<registered, call, up, reports, phase, pingCancel, pinging, late, raced>>
  BY DEF HookWrite, pingVars, RegistryInv, HookInv
<1>3. /\ hook \in [pc : {"none", "dial", "read", "write", "ping"}, conn : MaybeConn, frames : SUBSET Topics]
      /\ venue \in [Conns -> SUBSET Topics] /\ up \subseteq Conns
      /\ F \subseteq hook.frames /\ F \subseteq Topics
  BY <1>1 DEF RegistryInv, RegistryTypeOK, Batches
<1>4. FramesWanted' /\ \A p \in Topics : Wanted(p)' <=> Wanted(p)
  BY <1>2 DEF RegistryInv, FramesWanted, Wanted, TopicsOf
<1>5. CASE hook.conn \notin up /\ conn' = NoConn /\ hook' = NoHook /\ UNCHANGED venue
  <2>1. conn' \notin up' /\ hook'.frames = {} /\ hook'.pc = "none"
    BY <1>2, <1>3, <1>5, RegistryConstants DEF NoHook
  <2>2. RegistryTypeOK'
    BY <1>2, <1>5 DEF RegistryInv, RegistryTypeOK, MaybeConn, NoHook
  <2>3. HookInv' /\ ReportInv' /\ PingGuards' /\ HookWanted' /\ \A p \in Topics : StreamInv(p)'
    BY <1>2, <1>5, <2>1, RegistryConstants
    DEF RegistryInv, HookInv, ReportInv, PingGuards, HookWanted, StreamInv
  <2> QED
    BY <1>4, <2>2, <2>3 DEF RegistryInv
<1>6. CASE /\ hook' = [hook EXCEPT !.frames = @ \ F]
           /\ venue' = Applied(hook.conn, "subscribe", F)
           /\ UNCHANGED conn
  <2>1. /\ hook'.pc = "write" /\ hook'.conn = hook.conn /\ hook'.frames = hook.frames \ F
        /\ hook' \in [pc : {"none", "dial", "read", "write", "ping"}, conn : MaybeConn, frames : SUBSET Topics]
    BY <1>2, <1>3, <1>6
  <2>2. /\ venue' \in [Conns -> SUBSET Topics]
        /\ hook.conn \in up => venue'[hook.conn] = venue[hook.conn] \cup F
    BY <1>2, <1>3, <1>6 DEF Applied
  <2>3. RegistryTypeOK'
    BY <1>2, <1>6, <2>1, <2>2 DEF RegistryInv, RegistryTypeOK, MaybeConn
  <2>4. HookWanted'
    BY <1>2, <1>3, <1>4, <2>1 DEF RegistryInv, HookWanted
  <2>5. HookInv' /\ ReportInv' /\ PingGuards'
    BY <1>2, <1>6, <2>1 DEF RegistryInv, HookInv, ReportInv, PingGuards
  <2>6. ASSUME NEW p \in Topics PROVE StreamInv(p)'
    <3> SUFFICES ASSUME conn \in up, p \notin raced, ~Pending(p)'
                 PROVE  StreamInv(p)'
      BY <1>2, <1>6 DEF StreamInv
    <3>1. hook.conn = conn /\ venue'[conn] = venue[conn] \cup F
      BY <1>2, <1>3, <2>2, RegistryConstants
    <3>2. ~Pending(p)
      BY <1>2, <1>6 DEF Pending, Reaches
    <3>3. p \in F => Wanted(p)
      BY <1>3 DEF RegistryInv, HookWanted
    <3>4. StreamInv(p)
      BY DEF RegistryInv
    <3> QED
      BY <1>2, <1>4, <1>6, <2>1, <3>1, <3>2, <3>3, <3>4 DEF StreamInv
  <2> QED
    BY <1>4, <2>3, <2>4, <2>5, <2>6 DEF RegistryInv
<1> QED
  BY <1>1, <1>5, <1>6

\* The hook goes on to its ping, or is done with it: its topics are all asked for.
LEMMA HookEndsStreams ==
  ASSUME RegistryInv, hook.pc \in {"write", "ping"}, hook.frames = {},
         hook'.pc \in {"none", "ping"}, hook'.frames = {},
         UNCHANGED <<registered, call, conn, up, venue, raced>>
  PROVE  FramesWanted' /\ HookWanted' /\ \A p \in Topics : StreamInv(p)'
<1>1. FramesWanted' /\ HookWanted' /\ \A p \in Topics : Wanted(p)' <=> Wanted(p)
  BY DEF RegistryInv, FramesWanted, HookWanted, Wanted, TopicsOf
<1>2. ASSUME NEW p \in Topics PROVE StreamInv(p)'
  <2>1. StreamInv(p) /\ (Pending(p)' <=> Pending(p))
    BY DEF RegistryInv, Pending, Reaches
  <2> QED
    BY <1>1, <2>1 DEF StreamInv
<1> QED
  BY <1>1, <1>2

\* startPing stops the ping before the new one, of which there is one at most.
LEMMA HookStopPingInv ==
  ASSUME RegistryInv, HookStopPing
  PROVE  RegistryInv'
<1>1. /\ hook.pc = "write" /\ hook.frames = {} /\ hook.conn \in Conns /\ conn \in {hook.conn, NoConn}
      /\ hook' = [hook EXCEPT !.pc = "ping"]
      /\ IF AppPing THEN stopPing ELSE UNCHANGED <<pinging, pingCancel>>
      /\ UNCHANGED <<registered, call, conn, up, reports, phase, venue, late, raced>>
  BY DEF HookStopPing, RegistryInv, HookInv
<1>2. /\ hook \in [pc : {"none", "dial", "read", "write", "ping"}, conn : MaybeConn, frames : SUBSET Topics]
      /\ pinging \subseteq Conns /\ pingCancel \in MaybeConn /\ pinging \subseteq {pingCancel}
  BY DEF RegistryInv, RegistryTypeOK, PingGuards
<1>3. hook'.pc = "ping" /\ hook'.frames = {} /\ hook'.conn = hook.conn
        /\ hook' \in [pc : {"none", "dial", "read", "write", "ping"}, conn : MaybeConn, frames : SUBSET Topics]
  BY <1>1, <1>2
<1>4. /\ pinging' \subseteq Conns /\ pingCancel' \in MaybeConn /\ pinging' \subseteq {pingCancel'}
      /\ AppPing => pinging' = {}
  BY <1>1, <1>2 DEF stopPing, MaybeConn
<1>5. RegistryTypeOK'
  BY <1>1, <1>3, <1>4 DEF RegistryInv, RegistryTypeOK
<1>6. HookInv' /\ ReportInv' /\ PingGuards'
  BY <1>1, <1>3, <1>4 DEF RegistryInv, HookInv, ReportInv, PingGuards
<1> QED
  BY <1>1, <1>3, <1>5, <1>6, HookEndsStreams DEF RegistryInv

\* The hook is done: the new ping is the only one.
LEMMA HookDoneInv ==
  ASSUME RegistryInv, HookDone
  PROVE  RegistryInv'
<1>1. /\ hook.pc = "ping" /\ hook.frames = {} /\ hook.conn \in Conns /\ conn \in {hook.conn, NoConn}
      /\ hook' = NoHook /\ late' = FALSE
      /\ pinging' = IF AppPing THEN pinging \cup {hook.conn} ELSE pinging
      /\ pingCancel' = IF AppPing THEN hook.conn ELSE pingCancel
      /\ AppPing => pinging = {}
      /\ phase' = IF phase = "new" THEN "running" ELSE phase
      /\ UNCHANGED <<registered, call, conn, up, reports, venue, raced>>
  BY DEF HookDone, RegistryInv, HookInv
<1>2. hook'.pc = "none" /\ hook'.frames = {}
  BY <1>1 DEF NoHook
<1>3. /\ pinging \subseteq Conns /\ pingCancel \in MaybeConn /\ up \subseteq Conns
      /\ phase \in {"new", "running", "closed", "stopped"}
  BY DEF RegistryInv, RegistryTypeOK
<1>4. pinging' \subseteq Conns /\ pingCancel' \in MaybeConn
  BY <1>1, <1>3 DEF MaybeConn
<1>5. late' \in BOOLEAN
  BY <1>1
<1>6. RegistryTypeOK'
  BY <1>1, <1>3, <1>4, <1>5 DEF RegistryInv, RegistryTypeOK, MaybeConn, NoHook
<1>9. HookInv' /\ ReportInv'
  BY <1>1, <1>2, <1>3 DEF RegistryInv, HookInv, ReportInv
<1>10. PingGuards'
  <2>1. CASE AppPing
    BY <1>1, <1>3, <2>1, RegistryConstants DEF PingGuards, RegistryInv
  <2>2. CASE ~AppPing
    BY <1>1, <2>2 DEF PingGuards, RegistryInv
  <2> QED
    BY <2>1, <2>2
<1> QED
  BY <1>1, <1>2, <1>6, <1>9, <1>10, HookEndsStreams DEF RegistryInv

\* Stop clears the registry, and disputes whatever is still in flight.
LEMMA ClearInv ==
  ASSUME RegistryInv, clearSubscriptions
  PROVE  RegistryInv'
<1>1. /\ phase = "closed" /\ hook.pc = "none" /\ conn = NoConn /\ hook.frames = {}
      /\ phase' = "stopped" /\ registered' = {} /\ raced' = raced \cup InFlight
      /\ UNCHANGED <<call, conn, up, hook, reports, venue, pingCancel, pinging, late>>
  BY DEF clearSubscriptions, RegistryInv, HookInv, pingVars
<1>2. conn \notin up /\ call \in [Callers -> CallType] /\ raced \subseteq Topics
  BY <1>1, RegistryConstants DEF RegistryInv, RegistryTypeOK, CallType
<1>3. InFlight \subseteq Topics /\ \A t \in Callers : call[t].frames \subseteq InFlight
  BY <1>2 DEF InFlight, CallType
<1>4. RegistryTypeOK'
  BY <1>1, <1>2, <1>3 DEF RegistryInv, RegistryTypeOK, MaybeConn
<1>5. FramesWanted' /\ HookWanted'
  BY <1>1, <1>3 DEF FramesWanted, HookWanted
<1>6. HookInv' /\ ReportInv' /\ PingGuards' /\ \A p \in Topics : StreamInv(p)'
  BY <1>1, <1>2 DEF RegistryInv, HookInv, ReportInv, PingGuards, StreamInv
<1> QED
  BY <1>4, <1>5, <1>6 DEF RegistryInv
-----------------------------------------------------------------------------
\* The registry starts with nothing registered and no connection.
LEMMA RegistryInitInv == RegistryInit => RegistryInv
<1> SUFFICES ASSUME RegistryInit PROVE RegistryInv
  OBVIOUS
<1> USE DEF RegistryInit, NoFrames, NoHook
<1>1. call \in [Callers -> CallType]
  BY DEF CallType, MaybeConn
<1>2. hook \in [pc : {"none", "dial", "read", "write", "ping"}, conn : MaybeConn, frames : SUBSET Topics]
  BY DEF MaybeConn
<1>3. late \in BOOLEAN
  OBVIOUS
<1>4. RegistryTypeOK
  BY <1>1, <1>2, <1>3 DEF RegistryTypeOK, CallType, MaybeConn
<1>5. HookInv /\ ReportInv /\ PingGuards /\ HookWanted
  BY DEF HookInv, ReportInv, PingGuards, HookWanted
<1>6. FramesWanted /\ \A p \in Topics : StreamInv(p)
  BY DEF FramesWanted, StreamInv
<1> QED
  BY <1>4, <1>5, <1>6 DEF RegistryInv

\* Subscribe and Unsubscribe.
LEMMA RegistryCallInv ==
  ASSUME RegistryInv, NEW t \in Callers, NEW S \in SUBSET Symbols,
         Subscribe(t, S) \/ Unsubscribe(t, S)
  PROVE  RegistryInv'
<1>1. registered \subseteq Symbols
  BY DEF RegistryInv, RegistryTypeOK
<1>2. CASE Subscribe(t, S)
  <2>1. call[t].frames = {} /\ registered' = registered \cup S
          /\ Carry(t, "subscribe", framesToAdd(S))
    BY <1>2 DEF Subscribe
  <2> QED
    BY <1>1, <2>1, SubscribeWants, CarryInv
<1>3. CASE Unsubscribe(t, S)
  <2>1. call[t].frames = {} /\ registered' = registered \ S
          /\ Carry(t, "unsubscribe", framesToRemove(S))
    BY <1>3 DEF Unsubscribe
  <2> QED
    BY <1>1, <2>1, UnsubscribeWants, CarryInv
<1> QED
  BY <1>2, <1>3

\* Every step keeps the invariant.
LEMMA RegistryStep == RegistryInv /\ [RegistryNext]_registryVars => RegistryInv'
<1>1. ASSUME RegistryInv, UNCHANGED registryVars PROVE RegistryInv'
  <2> USE <1>1 DEF registryVars, socketVars, pingVars
  <2>1. RegistryTypeOK'
    BY DEF RegistryInv, RegistryTypeOK
  <2>2. HookInv' /\ ReportInv' /\ PingGuards'
    BY DEF RegistryInv, HookInv, ReportInv, PingGuards
  <2>3. FramesWanted' /\ HookWanted'
    BY DEF RegistryInv, FramesWanted, HookWanted, Wanted, TopicsOf
  <2>4. \A p \in Topics : StreamInv(p)'
    BY DEF RegistryInv, StreamInv, Wanted, TopicsOf, Pending, Reaches
  <2> QED
    BY <2>1, <2>2, <2>3, <2>4 DEF RegistryInv
<1>2. ASSUME RegistryInv, NEW t \in Callers, NEW S \in SUBSET Symbols \ {{}},
             Subscribe(t, S) \/ Unsubscribe(t, S)
      PROVE  RegistryInv'
  BY <1>2, RegistryCallInv
<1>3. ASSUME RegistryInv, NEW t \in Callers, ReadConn(t) \/ WriteFrame(t) PROVE RegistryInv'
  BY <1>3, ReadConnInv, WriteFrameInv
<1> QED
  BY <1>1, <1>2, <1>3, DialInv, DialOKInv, HookReadInv, HookWriteInv, HookStopPingInv,
     HookDoneInv, LossInv, OnDisconnectInv, ReaderCleanupInv, PingStopInv, ClearInv DEF RegistryNext

\* The invariant holds in every reachable state.
LEMMA RegistryInvariant == RegistrySpec => []RegistryInv
  BY RegistryInitInv, RegistryStep, PTL DEF RegistrySpec

\* On a connection that is up, when no frame is on its way, the venue streams exactly
\* what some registered symbol needs, except for topics whose frames crossed or failed.
THEOREM VenueStreamsRegistry == RegistrySpec => []StreamsMatch
<1>1. RegistryInv => StreamsMatch
  <2> SUFFICES ASSUME RegistryInv, conn \in up, hook.pc = "none",
                      NEW p \in Topics, p \notin raced, p \notin InFlight
               PROVE  p \in venue[conn] <=> Wanted(p)
    BY DEF StreamsMatch
  <2>1. ~Pending(p)
    BY DEF Pending, Reaches, InFlight
  <2>2. hook.frames = {} /\ StreamInv(p)
    BY DEF RegistryInv, HookInv
  <2> QED
    BY <2>1, <2>2 DEF StreamInv
<1> QED
  BY <1>1, RegistryInvariant, PTL

\* At most one application ping runs and it can be stopped; a connection in use has it,
\* unless a late OnDisconnect stopped it.
THEOREM PingIsThere == RegistrySpec => []PingGuards
<1>1. RegistryInv => PingGuards
  BY DEF RegistryInv
<1> QED
  BY <1>1, RegistryInvariant, PTL
-----------------------------------------------------------------------------
(* The user channel's invariant                                            *)

FlushType == [pc : {"idle", "take", "conn", "unsub", "delete", "sub", "record"},
              conn : UserConns \cup {Nil}, sub : SUBSET Markets, unsub : SUBSET Markets]

\* A flush carries nothing before it takes the queues, and no removal once it has
\* deleted them.
FlushInv(t) ==
  /\ flushing[t].pc \in {"idle", "take"} => flushing[t].sub = {} /\ flushing[t].unsub = {}
  /\ flushing[t].pc \in {"sub", "record"} => flushing[t].unsub = {}

Sole(m) == \A t, u \in UserCallers : m \in Carries(t) \cap Carries(u) => t = u

\* A market that did not cross is carried once, and then it is not queued as well.
WishInv(m) ==
  /\ Sole(m)
  /\ m \in queuedSub \cup queuedUnsub => \A t \in UserCallers : m \notin Carries(t)
  /\ m \in wished => (m \in recorded \/ SubIn(m)) /\ ~UnsubIn(m)
  /\ m \notin wished => ~SubIn(m) /\ (m \in recorded => UnsubIn(m))

\* What a flush of this connection has written is in the venue's filter.
Written(t, m) ==
  /\ flushing[t].pc \in {"unsub", "delete", "sub", "record"} => flushing[t].conn = userConn
  /\ flushing[t].pc = "delete" /\ m \in flushing[t].unsub => m \notin filter[userConn]
  /\ flushing[t].pc = "record" => m \in filter[userConn]

FilterInv(m) ==
  /\ Sole(m)
  /\ userConn \in userUp =>
       /\ \A t \in UserCallers : m \in Carries(t) => Written(t, m)
       /\ (\A t \in UserCallers : m \notin Carries(t)) => (m \in recorded <=> m \in filter[userConn])

UserInv ==
  /\ UserTypeOK
  /\ userPhase \in {"closed", "stopped"} => userConn = Nil
  /\ \A t \in UserCallers : FlushInv(t)
  /\ \A m \in Markets \ crossedIDs : WishInv(m)
  /\ \A m \in Markets \ stale : FilterInv(m)
-----------------------------------------------------------------------------
\* Nil is no connection that is up.
LEMMA NilIsDown == UserInv => Nil \notin userUp
  BY UserAssumption DEF UserInv, UserTypeOK

\* When a flush moves, the others stay.
LEMMA FlushMoves ==
  ASSUME UserInv, NEW t \in UserCallers, NEW r \in FlushType,
         flushing' = [flushing EXCEPT ![t] = r]
  PROVE  /\ flushing' \in [UserCallers -> FlushType]
         /\ flushing'[t] = r
         /\ \A u \in UserCallers \ {t} : flushing'[u] = flushing[u]
<1>1. flushing \in [UserCallers -> FlushType]
  BY DEF UserInv, UserTypeOK, FlushType
<1> QED
  BY <1>1

\* A call queues what it asks for; what another flush carries becomes crossed.
LEMMA UserCallInv ==
  ASSUME UserInv, NEW t \in UserCallers, NEW M \in SUBSET Markets,
         SubscribeMarkets(t, M) \/ UnsubscribeMarkets(t, M)
  PROVE  UserInv'
<1> DEFINE r == [flushing[t] EXCEPT !.pc = "take"]
<1>1. /\ flushing[t] = IdleFlush /\ flushing' = [flushing EXCEPT ![t].pc = "take"]
      /\ crossedIDs' = (crossedIDs \ M) \cup (M \cap Carried)
      /\ stale' = stale \cup (M \cap Carried)
      /\ UNCHANGED <<recorded, userConn, userUp, userPhase, filter>>
  BY DEF SubscribeMarkets, UnsubscribeMarkets, UserCall, Goto, UserInv, UserTypeOK, userSocket
<1>2. /\ flushing' = [flushing EXCEPT ![t] = r] /\ r \in FlushType
      /\ r.pc = "take" /\ r.conn = Nil /\ r.sub = {} /\ r.unsub = {}
  <2>1. flushing \in [UserCallers -> FlushType]
    BY DEF UserInv, UserTypeOK, FlushType
  <2>2. flushing[t].conn = Nil /\ flushing[t].sub = {} /\ flushing[t].unsub = {}
    BY <1>1 DEF IdleFlush
  <2> QED
    BY <1>1, <2>1, <2>2 DEF FlushType
<1>3. /\ flushing' \in [UserCallers -> FlushType]
      /\ flushing'[t] = r
      /\ \A u \in UserCallers \ {t} : flushing'[u] = flushing[u]
  BY <1>2, FlushMoves
<1>4. \A u \in UserCallers : /\ flushing'[u].sub = flushing[u].sub
                             /\ flushing'[u].unsub = flushing[u].unsub
                             /\ flushing'[u].conn = flushing[u].conn
                             /\ flushing'[u].pc = flushing[u].pc \/ Carries(u) = {}
  <2> HIDE DEF r
  <2> QED
    BY <1>1, <1>2, <1>3 DEF Carries, IdleFlush
<1>5. \A m \in Markets : m \notin Carried => \A u \in UserCallers : m \notin Carries(u)
  BY DEF Carried
<1>6. /\ queuedSub' \subseteq Markets /\ queuedUnsub' \subseteq Markets /\ wished' \subseteq Markets
      /\ crossedIDs' \subseteq Markets /\ stale' \subseteq Markets
  BY <1>1 DEF UserInv, UserTypeOK, SubscribeMarkets, UnsubscribeMarkets
<1>7. UserTypeOK'
  <2> HIDE DEF r
  <2>1. \A u \in UserCallers : flushing'[u].pc = "idle" => flushing'[u] = IdleFlush
    BY <1>2, <1>3 DEF UserInv, UserTypeOK
  <2> QED
    BY <1>1, <1>3, <1>6, <2>1 DEF UserInv, UserTypeOK, FlushType
<1>8. \A u \in UserCallers : FlushInv(u)'
  <2> HIDE DEF r
  <2> QED
    BY <1>2, <1>3 DEF UserInv, FlushInv
<1>9. ASSUME NEW m \in Markets, m \notin crossedIDs' PROVE WishInv(m)'
  <2>1. CASE m \notin M
    <3>1. WishInv(m) /\ (m \in wished' <=> m \in wished)
            /\ (m \in queuedSub' <=> m \in queuedSub) /\ (m \in queuedUnsub' <=> m \in queuedUnsub)
      BY <1>1, <1>9, <2>1 DEF UserInv, SubscribeMarkets, UnsubscribeMarkets
    <3> QED
      BY <1>1, <1>4, <3>1 DEF WishInv, Sole, SubIn, UnsubIn, Carries
  <2>2. CASE m \in M
    <3>1. \A u \in UserCallers : m \notin Carries(u) /\ m \notin flushing'[u].sub /\ m \notin flushing'[u].unsub
      BY <1>1, <1>4, <1>5, <1>9, <2>2 DEF Carries
    <3>2. CASE SubscribeMarkets(t, M)
      BY <1>1, <1>4, <2>2, <3>1, <3>2 DEF SubscribeMarkets, WishInv, Sole, SubIn, UnsubIn, Carries
    <3>3. CASE UnsubscribeMarkets(t, M)
      BY <1>1, <1>4, <2>2, <3>1, <3>3 DEF UnsubscribeMarkets, WishInv, Sole, SubIn, UnsubIn, Carries
    <3> QED
      BY <3>2, <3>3
  <2> QED
    BY <2>1, <2>2
<1>10. ASSUME NEW m \in Markets, m \notin stale' PROVE FilterInv(m)'
  <2>1. FilterInv(m)
    BY <1>1, <1>10 DEF UserInv
  <2>2. \A u \in UserCallers : m \in Carries(u) /\ Written(u, m) => Written(u, m)'
    BY <1>1, <1>4 DEF Written
  <2> QED
    BY <1>1, <1>4, <2>1, <2>2 DEF FilterInv, Sole, Carries
<1> QED
  BY <1>1, <1>7, <1>8, <1>9, <1>10 DEF UserInv

\* The types after a flush has moved.
LEMMA FlushTyped ==
  ASSUME UserInv, NEW t \in UserCallers, NEW r \in FlushType,
         flushing' = [flushing EXCEPT ![t] = r],
         r.pc = "idle" => r = IdleFlush,
         UNCHANGED <<userConn, userUp, userPhase, wished>>,
         filter' \in [UserConns -> SUBSET Markets],
         recorded' \subseteq Markets, queuedSub' \subseteq Markets, queuedUnsub' \subseteq Markets,
         crossedIDs' \subseteq Markets, stale' \subseteq Markets
  PROVE  UserTypeOK'
<1>1. /\ flushing' \in [UserCallers -> FlushType] /\ flushing'[t] = r
      /\ \A u \in UserCallers \ {t} : flushing'[u] = flushing[u]
  BY FlushMoves
<1>2. \A u \in UserCallers : flushing'[u].pc = "idle" => flushing'[u] = IdleFlush
  BY <1>1 DEF UserInv, UserTypeOK
<1> QED
  BY <1>1, <1>2 DEF UserInv, UserTypeOK, FlushType

\* A flush takes the queues; what another carries as well becomes crossed and stale.
LEMMA FlushTakeInv ==
  ASSUME UserInv, NEW t \in UserCallers, FlushTake(t)
  PROVE  UserInv'
<1> DEFINE r == [pc |-> "conn", conn |-> Nil, sub |-> queuedSub, unsub |-> queuedUnsub]
<1>1. /\ flushing[t].pc = "take" /\ flushing' = [flushing EXCEPT ![t] = r]
      /\ queuedSub' = {} /\ queuedUnsub' = {}
      /\ crossedIDs' = crossedIDs \cup ((queuedSub \cup queuedUnsub) \cap Carried)
      /\ stale' = stale \cup ((queuedSub \cup queuedUnsub) \cap Carried)
      /\ UNCHANGED <<recorded, userConn, userUp, userPhase, filter, wished>>
  BY DEF FlushTake, userSocket
<1>2. /\ r \in FlushType /\ r.pc = "conn" /\ r.sub = queuedSub /\ r.unsub = queuedUnsub
      /\ flushing[t].sub = {} /\ flushing[t].unsub = {}
  BY <1>1 DEF UserInv, UserTypeOK, FlushType, FlushInv
<1> HIDE DEF r
<1>3. flushing'[t] = r /\ \A u \in UserCallers \ {t} : flushing'[u] = flushing[u]
  BY <1>1, <1>2, FlushMoves
<1>4. crossedIDs' \subseteq Markets /\ stale' \subseteq Markets /\ crossedIDs \subseteq crossedIDs'
        /\ stale \subseteq stale' /\ {} \subseteq Markets
        /\ recorded \subseteq Markets /\ filter \in [UserConns -> SUBSET Markets]
  BY <1>1 DEF UserInv, UserTypeOK
<1>5. UserTypeOK'
  BY <1>1, <1>2, <1>4, FlushTyped
<1>6. \A u \in UserCallers : FlushInv(u)'
  BY <1>2, <1>3 DEF UserInv, FlushInv
<1>7. ASSUME NEW m \in queuedSub \cup queuedUnsub, NEW u \in UserCallers, m \in Carries(u)
      PROVE  m \in crossedIDs' /\ m \in stale'
  BY <1>1, <1>7 DEF Carried
<1>8. ASSUME NEW m \in Markets, m \notin crossedIDs' PROVE WishInv(m)'
  <2>1. WishInv(m)
    BY <1>4, <1>8 DEF UserInv
  <2>2. Sole(m)'
    BY <1>2, <1>3, <1>7, <1>8, <2>1 DEF WishInv, Sole, Carries
  <2>3. (SubIn(m)' <=> SubIn(m)) /\ (UnsubIn(m)' <=> UnsubIn(m))
    BY <1>1, <1>2, <1>3 DEF SubIn, UnsubIn
  <2> QED
    BY <1>1, <2>1, <2>2, <2>3 DEF WishInv
<1>9. ASSUME NEW m \in Markets, m \notin stale' PROVE FilterInv(m)'
  <2>1. FilterInv(m)
    BY <1>4, <1>9 DEF UserInv
  <2>2. Sole(m)'
    BY <1>2, <1>3, <1>7, <1>9, <2>1 DEF FilterInv, Sole, Carries
  <2> QED
    BY <1>1, <1>2, <1>3, <2>1, <2>2 DEF FilterInv, Written, Carries
<1> QED
  BY <1>1, <1>5, <1>6, <1>8, <1>9 DEF UserInv

\* Without a connection everything goes back to the queues.
LEMMA FlushNoConnInv ==
  ASSUME UserInv, NEW t \in UserCallers, FlushNoConn(t)
  PROVE  UserInv'
<1>1. /\ userConn = Nil /\ flushing' = [flushing EXCEPT ![t] = IdleFlush]
      /\ queuedSub' = queuedSub \cup flushing[t].sub
      /\ queuedUnsub' = queuedUnsub \cup flushing[t].unsub
      /\ UNCHANGED <<recorded, userConn, userUp, userPhase, filter, wished, crossedIDs, stale>>
  BY DEF FlushNoConn, Requeue, userSocket
<1>2. IdleFlush \in FlushType /\ IdleFlush.sub = {} /\ IdleFlush.unsub = {} /\ IdleFlush.pc = "idle"
  BY DEF FlushType, IdleFlush
<1>3. flushing'[t] = IdleFlush /\ \A u \in UserCallers \ {t} : flushing'[u] = flushing[u]
  BY <1>1, <1>2, FlushMoves
<1>4. /\ queuedSub' \subseteq Markets /\ queuedUnsub' \subseteq Markets
      /\ filter \in [UserConns -> SUBSET Markets]
      /\ recorded \subseteq Markets /\ crossedIDs \subseteq Markets /\ stale \subseteq Markets
  BY <1>1 DEF UserInv, UserTypeOK
<1>5. UserTypeOK'
  BY <1>1, <1>2, <1>4, FlushTyped
<1>6. \A u \in UserCallers : FlushInv(u)'
  BY <1>2, <1>3 DEF UserInv, FlushInv
<1>7. ASSUME NEW m \in Markets, m \notin crossedIDs PROVE WishInv(m)'
  <2>1. WishInv(m)
    BY <1>7 DEF UserInv
  <2>2. (SubIn(m)' <=> SubIn(m)) /\ (UnsubIn(m)' <=> UnsubIn(m))
    BY <1>1, <1>2, <1>3 DEF SubIn, UnsubIn
  <2>3. Sole(m)' /\ (m \in queuedSub' \cup queuedUnsub' => \A u \in UserCallers : m \notin Carries(u)')
    BY <1>1, <1>2, <1>3, <2>1 DEF WishInv, Sole, Carries
  <2> QED
    BY <1>1, <2>1, <2>2, <2>3 DEF WishInv, Carries
<1>8. ASSUME NEW m \in Markets, m \notin stale PROVE FilterInv(m)'
  <2>1. FilterInv(m)
    BY <1>8 DEF UserInv
  <2> QED
    BY <1>1, <1>2, <1>3, <2>1, NilIsDown DEF FilterInv, Sole, Carries
<1> QED
  BY <1>1, <1>5, <1>6, <1>7, <1>8 DEF UserInv

\* A flush that moves on with what it carries keeps what the calls asked for.
LEMMA FlushStays ==
  ASSUME UserInv, NEW t \in UserCallers, NEW r \in FlushType,
         flushing' = [flushing EXCEPT ![t] = r],
         r.sub = flushing[t].sub, r.unsub = flushing[t].unsub,
         r.pc \notin {"idle", "take"}, r.pc \in {"sub", "record"} => r.unsub = {},
         UNCHANGED <<userConn, userUp, userPhase, wished, recorded, queuedSub, queuedUnsub,
                     crossedIDs, stale>>,
         filter' \in [UserConns -> SUBSET Markets]
  PROVE  /\ flushing'[t] = r /\ \A u \in UserCallers \ {t} : flushing'[u] = flushing[u]
         /\ UserTypeOK'
         /\ userPhase' \in {"closed", "stopped"} => userConn' = Nil
         /\ \A u \in UserCallers : FlushInv(u)'
         /\ \A m \in Markets : m \notin crossedIDs' => WishInv(m)'
<1>1. flushing'[t] = r /\ \A u \in UserCallers \ {t} : flushing'[u] = flushing[u]
  BY FlushMoves
<1>2. /\ recorded \subseteq Markets /\ queuedSub \subseteq Markets /\ queuedUnsub \subseteq Markets
      /\ crossedIDs \subseteq Markets /\ stale \subseteq Markets
  BY DEF UserInv, UserTypeOK
<1>3. UserTypeOK'
  BY <1>2, FlushTyped
<1>4. \A u \in UserCallers : FlushInv(u)'
  BY <1>1 DEF UserInv, FlushInv
<1>5. \A u \in UserCallers : flushing'[u].sub = flushing[u].sub /\ flushing'[u].unsub = flushing[u].unsub
  BY <1>1
<1>6. ASSUME NEW m \in Markets, m \notin crossedIDs PROVE WishInv(m)'
  <2>1. WishInv(m)
    BY <1>6 DEF UserInv
  <2> QED
    BY <1>5, <2>1 DEF WishInv, Sole, SubIn, UnsubIn, Carries
<1> QED
  BY <1>1, <1>3, <1>4, <1>6 DEF UserInv

\* The flush works on the connection it has just read.
LEMMA FlushConnInv ==
  ASSUME UserInv, NEW t \in UserCallers, FlushConn(t)
  PROVE  UserInv'
<1> DEFINE r == [flushing[t] EXCEPT !.conn = userConn, !.pc = "unsub"]
<1>1. /\ flushing[t].pc = "conn" /\ userConn # Nil
      /\ flushing' = [flushing EXCEPT ![t].conn = userConn, ![t].pc = "unsub"]
      /\ UNCHANGED <<userConn, userUp, userPhase, wished, recorded, queuedSub, queuedUnsub,
                     crossedIDs, stale, filter>>
  BY DEF FlushConn, userSets, userSocket
<1>2. /\ flushing \in [UserCallers -> FlushType] /\ userConn \in UserConns \cup {Nil}
      /\ filter \in [UserConns -> SUBSET Markets]
  BY DEF UserInv, UserTypeOK, FlushType
<1>3. /\ flushing' = [flushing EXCEPT ![t] = r] /\ r \in FlushType /\ r.pc = "unsub"
      /\ r.conn = userConn /\ r.sub = flushing[t].sub /\ r.unsub = flushing[t].unsub
  BY <1>1, <1>2 DEF FlushType
<1> HIDE DEF r
<1>4. /\ flushing'[t] = r /\ \A u \in UserCallers \ {t} : flushing'[u] = flushing[u]
      /\ UserTypeOK' /\ (userPhase' \in {"closed", "stopped"} => userConn' = Nil)
      /\ \A u \in UserCallers : FlushInv(u)'
      /\ \A m \in Markets : m \notin crossedIDs' => WishInv(m)'
  BY <1>1, <1>2, <1>3, FlushStays, ZenonT(60)
<1>5. ASSUME NEW m \in Markets, m \notin stale PROVE FilterInv(m)'
  <2>1. FilterInv(m)
    BY <1>5 DEF UserInv
  <2>2. Sole(m)' /\ \A u \in UserCallers : m \in Carries(u)' <=> m \in Carries(u)
    BY <1>3, <1>4, <2>1 DEF FilterInv, Sole, Carries
  <2>3. Written(t, m)'
    BY <1>1, <1>3, <1>4 DEF Written
  <2>4. \A u \in UserCallers \ {t} : Written(u, m) => Written(u, m)'
    BY <1>1, <1>4 DEF Written
  <2> QED
    BY <1>1, <2>1, <2>2, <2>3, <2>4 DEF FilterInv
<1> QED
  BY <1>1, <1>4, <1>5 DEF UserInv

\* The unsubscribe frame takes what is given up out of the filter.
LEMMA FlushUnsubInv ==
  ASSUME UserInv, NEW t \in UserCallers, FlushUnsub(t)
  PROVE  UserInv'
<1> DEFINE f == flushing[t]
           r == [f EXCEPT !.pc = "delete"]
           F == IF f.conn \in userUp THEN filter[f.conn] \ f.unsub ELSE filter[f.conn]
<1>1. /\ f.pc = "unsub" /\ flushing' = [flushing EXCEPT ![t].pc = "delete"]
      /\ filter' = [filter EXCEPT ![f.conn] = F]
      /\ UNCHANGED <<userConn, userUp, userPhase, wished, recorded, queuedSub, queuedUnsub,
                     crossedIDs, stale>>
  BY DEF FlushUnsub, Goto, userSets, userSocket
<1>2. /\ flushing \in [UserCallers -> FlushType] /\ userUp \subseteq UserConns
      /\ filter \in [UserConns -> SUBSET Markets]
  BY DEF UserInv, UserTypeOK, FlushType
<1>3. /\ flushing' = [flushing EXCEPT ![t] = r] /\ r \in FlushType /\ r.pc = "delete"
      /\ r.conn = f.conn /\ r.sub = f.sub /\ r.unsub = f.unsub
      /\ f.conn \in UserConns \cup {Nil}
  BY <1>1, <1>2 DEF FlushType
<1> HIDE DEF r
<1>4. /\ filter' \in [UserConns -> SUBSET Markets]
      /\ \A d \in UserConns \ {f.conn} : filter'[d] = filter[d]
      /\ f.conn \in userUp => filter'[f.conn] = filter[f.conn] \ f.unsub
  <2> DEFINE G == [filter EXCEPT ![f.conn] = F]
  <2>1. f.conn \in UserConns => F \in SUBSET Markets
    BY <1>2
  <2> HIDE DEF F
  <2>2. G \in [UserConns -> SUBSET Markets] /\ \A d \in UserConns \ {f.conn} : G[d] = filter[d]
    BY <1>2, <2>1
  <2>3. f.conn \in UserConns => G[f.conn] = F
    BY <1>2
  <2> QED
    BY <1>1, <1>2, <2>2, <2>3 DEF F
<1> HIDE DEF F
<1>5. /\ flushing'[t] = r /\ \A u \in UserCallers \ {t} : flushing'[u] = flushing[u]
      /\ UserTypeOK' /\ (userPhase' \in {"closed", "stopped"} => userConn' = Nil)
      /\ \A u \in UserCallers : FlushInv(u)'
      /\ \A m \in Markets : m \notin crossedIDs' => WishInv(m)'
  BY <1>1, <1>3, <1>4, FlushStays, ZenonT(60)
<1>6. ASSUME NEW m \in Markets, m \notin stale PROVE FilterInv(m)'
  <2>1. FilterInv(m)
    BY <1>6 DEF UserInv
  <2>2. Sole(m)' /\ \A u \in UserCallers : m \in Carries(u)' <=> m \in Carries(u)
    BY <1>3, <1>5, <2>1 DEF FilterInv, Sole, Carries
  <2>3. CASE userConn \in userUp /\ m \in Carries(t)
    <3>1. f.conn = userConn /\ \A u \in UserCallers : m \in Carries(u) => u = t
      BY <1>1, <2>1, <2>3 DEF FilterInv, Written, Sole
    <3>2. Written(t, m)'
      BY <1>1, <1>3, <1>4, <1>5, <2>3, <3>1 DEF Written
    <3> QED
      BY <2>2, <2>3, <3>1, <3>2 DEF FilterInv
  <2>4. CASE userConn \in userUp /\ m \notin Carries(t)
    <3>1. m \in filter'[userConn] <=> m \in filter[userConn]
      BY <1>2, <1>4, <2>4 DEF Carries
    <3>2. \A u \in UserCallers : m \in Carries(u) /\ Written(u, m) => Written(u, m)'
      BY <1>1, <1>5, <2>4, <3>1 DEF Written
    <3> QED
      BY <1>1, <2>1, <2>2, <2>4, <3>1, <3>2 DEF FilterInv
  <2>5. CASE userConn \notin userUp
    BY <1>1, <2>2, <2>5 DEF FilterInv
  <2> QED
    BY <2>3, <2>4, <2>5
<1> QED
  BY <1>1, <1>5, <1>6 DEF UserInv

\* What was given up is no longer recorded, and was out of the filter before.
LEMMA FlushDeleteInv ==
  ASSUME UserInv, NEW t \in UserCallers, FlushDelete(t)
  PROVE  UserInv'
<1> DEFINE r == [flushing[t] EXCEPT !.pc = "sub", !.unsub = {}]
<1>1. /\ flushing[t].pc = "delete"
      /\ flushing' = [flushing EXCEPT ![t].pc = "sub", ![t].unsub = {}]
      /\ recorded' = recorded \ flushing[t].unsub
      /\ UNCHANGED <<userConn, userUp, userPhase, wished, queuedSub, queuedUnsub,
                     crossedIDs, stale, filter>>
  BY DEF FlushDelete, userSocket
<1>2. /\ flushing \in [UserCallers -> FlushType]
      /\ filter \in [UserConns -> SUBSET Markets]
      /\ recorded' \subseteq Markets /\ queuedSub \subseteq Markets /\ queuedUnsub \subseteq Markets
      /\ crossedIDs \subseteq Markets /\ stale \subseteq Markets
  BY <1>1 DEF UserInv, UserTypeOK, FlushType
<1>3. /\ flushing' = [flushing EXCEPT ![t] = r] /\ r \in FlushType /\ r.pc = "sub"
      /\ r.conn = flushing[t].conn /\ r.sub = flushing[t].sub /\ r.unsub = {}
  BY <1>1, <1>2 DEF FlushType
<1> HIDE DEF r
<1>4. flushing'[t] = r /\ \A u \in UserCallers \ {t} : flushing'[u] = flushing[u]
  BY <1>3, FlushMoves
<1>5. UserTypeOK'
  BY <1>1, <1>2, <1>3, FlushTyped
<1>6. \A u \in UserCallers : FlushInv(u)'
  BY <1>3, <1>4 DEF UserInv, FlushInv
<1>7. \A u \in UserCallers : /\ flushing'[u].sub = flushing[u].sub
                             /\ flushing'[u].unsub \subseteq flushing[u].unsub
                             /\ flushing'[u].conn = flushing[u].conn
  BY <1>3, <1>4
<1>8. ASSUME NEW m \in Markets, m \notin crossedIDs PROVE WishInv(m)'
  <2>1. WishInv(m)
    BY <1>8 DEF UserInv
  <2>2. Sole(m)' /\ (m \in queuedSub' \cup queuedUnsub' => \A u \in UserCallers : m \notin Carries(u)')
    BY <1>1, <1>7, <2>1 DEF WishInv, Sole, Carries
  <2>3. (SubIn(m)' <=> SubIn(m)) /\ (UnsubIn(m)' => UnsubIn(m))
    BY <1>1, <1>7 DEF SubIn, UnsubIn
  <2>4. m \in flushing[t].unsub => UnsubIn(m) /\ m \notin recorded'
    BY <1>1 DEF UnsubIn
  <2>5. m \notin flushing[t].unsub => (UnsubIn(m)' <=> UnsubIn(m)) /\ (m \in recorded' <=> m \in recorded)
    BY <1>1, <1>3, <1>4 DEF UnsubIn
  <2> QED
    BY <1>1, <2>1, <2>2, <2>3, <2>4, <2>5 DEF WishInv
<1>9. ASSUME NEW m \in Markets, m \notin stale PROVE FilterInv(m)'
  <2>1. FilterInv(m)
    BY <1>9 DEF UserInv
  <2>2. Sole(m)'
    BY <1>7, <2>1 DEF FilterInv, Sole, Carries
  <2>3. \A u \in UserCallers \ {t} :
          /\ m \in Carries(u)' <=> m \in Carries(u)
          /\ Written(u, m) => Written(u, m)'
    BY <1>1, <1>4 DEF Carries, Written
  <2>4. CASE userConn \in userUp /\ m \in Carries(t)
    <3>1. Written(t, m) /\ \A u \in UserCallers \ {t} : m \notin Carries(u)
      BY <2>1, <2>4 DEF FilterInv, Sole
    <3>2. Written(t, m)'
      BY <1>1, <1>3, <1>4, <3>1 DEF Written
    <3>3. m \notin Carries(t)' => m \notin recorded' /\ m \notin filter[userConn]
      BY <1>1, <1>3, <1>4, <2>4, <3>1 DEF Carries, Written
    <3> QED
      BY <1>1, <2>2, <2>3, <3>1, <3>2, <3>3 DEF FilterInv
  <2>5. CASE userConn \in userUp /\ m \notin Carries(t)
    <3>1. m \notin Carries(t)' /\ (m \in recorded' <=> m \in recorded)
      BY <1>1, <1>3, <1>4, <2>5 DEF Carries
    <3> QED
      BY <1>1, <2>1, <2>2, <2>3, <2>5, <3>1 DEF FilterInv
  <2>6. CASE userConn \notin userUp
    BY <1>1, <2>2, <2>6 DEF FilterInv
  <2> QED
    BY <2>4, <2>5, <2>6
<1> QED
  BY <1>1, <1>5, <1>6, <1>8, <1>9 DEF UserInv

\* The subscribe frame puts what is asked for into the filter.
LEMMA FlushSubInv ==
  ASSUME UserInv, NEW t \in UserCallers, FlushSub(t)
  PROVE  UserInv'
<1> DEFINE f == flushing[t]
           r == [f EXCEPT !.pc = "record"]
           F == IF f.conn \in userUp THEN filter[f.conn] \cup f.sub ELSE filter[f.conn]
<1>1. /\ f.pc = "sub" /\ flushing' = [flushing EXCEPT ![t].pc = "record"]
      /\ filter' = [filter EXCEPT ![f.conn] = F]
      /\ UNCHANGED <<userConn, userUp, userPhase, wished, recorded, queuedSub, queuedUnsub,
                     crossedIDs, stale>>
  BY DEF FlushSub, Goto, userSets, userSocket
<1>2. /\ flushing \in [UserCallers -> FlushType] /\ userUp \subseteq UserConns
      /\ filter \in [UserConns -> SUBSET Markets] /\ f.unsub = {}
  BY <1>1 DEF UserInv, UserTypeOK, FlushType, FlushInv
<1>3. /\ flushing' = [flushing EXCEPT ![t] = r] /\ r \in FlushType /\ r.pc = "record"
      /\ r.conn = f.conn /\ r.sub = f.sub /\ r.unsub = f.unsub /\ r.unsub = {}
      /\ f.conn \in UserConns \cup {Nil} /\ f.sub \subseteq Markets
  BY <1>1, <1>2 DEF FlushType
<1> HIDE DEF r
<1>4. /\ filter' \in [UserConns -> SUBSET Markets]
      /\ \A d \in UserConns \ {f.conn} : filter'[d] = filter[d]
      /\ f.conn \in userUp => filter'[f.conn] = filter[f.conn] \cup f.sub
  <2> DEFINE G == [filter EXCEPT ![f.conn] = F]
  <2>1. f.conn \in UserConns => F \in SUBSET Markets
    BY <1>2, <1>3
  <2> HIDE DEF F
  <2>2. G \in [UserConns -> SUBSET Markets] /\ \A d \in UserConns \ {f.conn} : G[d] = filter[d]
    BY <1>2, <2>1
  <2>3. f.conn \in UserConns => G[f.conn] = F
    BY <1>2
  <2> QED
    BY <1>1, <1>2, <2>2, <2>3 DEF F
<1> HIDE DEF F
<1>5. /\ flushing'[t] = r /\ \A u \in UserCallers \ {t} : flushing'[u] = flushing[u]
      /\ UserTypeOK' /\ (userPhase' \in {"closed", "stopped"} => userConn' = Nil)
      /\ \A u \in UserCallers : FlushInv(u)'
      /\ \A m \in Markets : m \notin crossedIDs' => WishInv(m)'
  BY <1>1, <1>3, <1>4, FlushStays, ZenonT(60)
<1>6. ASSUME NEW m \in Markets, m \notin stale PROVE FilterInv(m)'
  <2>1. FilterInv(m)
    BY <1>6 DEF UserInv
  <2>2. Sole(m)' /\ \A u \in UserCallers : m \in Carries(u)' <=> m \in Carries(u)
    <3>1. \A u \in UserCallers : /\ flushing'[u].sub = flushing[u].sub
                                 /\ flushing'[u].unsub = flushing[u].unsub
      BY <1>3, <1>5
    <3> QED
      BY <2>1, <3>1 DEF FilterInv, Sole, Carries
  <2>3. CASE userConn \in userUp /\ m \in Carries(t)
    <3>1. /\ f.conn = userConn /\ m \in f.sub
          /\ \A u \in UserCallers : m \in Carries(u) => u = t
      BY <1>1, <1>2, <2>1, <2>3 DEF FilterInv, Written, Sole, Carries
    <3>2. Written(t, m)'
      BY <1>1, <1>3, <1>4, <1>5, <2>3, <3>1 DEF Written
    <3> QED
      BY <2>2, <2>3, <3>1, <3>2 DEF FilterInv
  <2>4. CASE userConn \in userUp /\ m \notin Carries(t)
    <3>1. m \in filter'[userConn] <=> m \in filter[userConn]
      BY <1>2, <1>4, <2>4 DEF Carries
    <3>2. \A u \in UserCallers : m \in Carries(u) /\ Written(u, m) => Written(u, m)'
      BY <1>1, <1>5, <2>4, <3>1 DEF Written
    <3> QED
      BY <1>1, <2>1, <2>2, <2>4, <3>1, <3>2 DEF FilterInv
  <2>5. CASE userConn \notin userUp
    BY <1>1, <2>2, <2>5 DEF FilterInv
  <2> QED
    BY <2>3, <2>4, <2>5
<1> QED
  BY <1>1, <1>5, <1>6 DEF UserInv

\* What was written is recorded, and the flush is over.
LEMMA FlushRecordInv ==
  ASSUME UserInv, NEW t \in UserCallers, FlushRecord(t)
  PROVE  UserInv'
<1>1. /\ flushing[t].pc = "record" /\ flushing' = [flushing EXCEPT ![t] = IdleFlush]
      /\ recorded' = recorded \cup flushing[t].sub
      /\ UNCHANGED <<userConn, userUp, userPhase, wished, queuedSub, queuedUnsub,
                     crossedIDs, stale, filter>>
  BY DEF FlushRecord, userSocket
<1>2. /\ IdleFlush \in FlushType /\ IdleFlush.sub = {} /\ IdleFlush.unsub = {}
      /\ IdleFlush.pc = "idle"
  BY DEF FlushType, IdleFlush
<1>3. flushing'[t] = IdleFlush /\ \A u \in UserCallers \ {t} : flushing'[u] = flushing[u]
  BY <1>1, <1>2, FlushMoves
<1>4. /\ flushing[t].unsub = {} /\ filter \in [UserConns -> SUBSET Markets]
      /\ recorded' \subseteq Markets /\ queuedSub \subseteq Markets /\ queuedUnsub \subseteq Markets
      /\ crossedIDs \subseteq Markets /\ stale \subseteq Markets
  BY <1>1 DEF UserInv, UserTypeOK, FlushInv
<1>5. UserTypeOK'
  BY <1>1, <1>2, <1>4, FlushTyped
<1>6. \A u \in UserCallers : FlushInv(u)'
  BY <1>2, <1>3 DEF UserInv, FlushInv
<1>7. ASSUME NEW m \in Markets, m \notin crossedIDs PROVE WishInv(m)'
  <2>1. WishInv(m)
    BY <1>7 DEF UserInv
  <2>2. Sole(m)' /\ (m \in queuedSub' \cup queuedUnsub' => \A u \in UserCallers : m \notin Carries(u)')
    BY <1>1, <1>2, <1>3, <2>1 DEF WishInv, Sole, Carries
  <2>3. (SubIn(m)' => SubIn(m)) /\ (UnsubIn(m)' <=> UnsubIn(m))
    BY <1>1, <1>2, <1>3, <1>4 DEF SubIn, UnsubIn
  <2>4. m \in flushing[t].sub => SubIn(m) /\ m \in recorded'
    BY <1>1 DEF SubIn
  <2>5. m \notin flushing[t].sub => (SubIn(m)' <=> SubIn(m)) /\ (m \in recorded' <=> m \in recorded)
    BY <1>1, <1>2, <1>3 DEF SubIn
  <2> QED
    BY <1>1, <2>1, <2>2, <2>3, <2>4, <2>5 DEF WishInv
<1>8. ASSUME NEW m \in Markets, m \notin stale PROVE FilterInv(m)'
  <2>1. FilterInv(m)
    BY <1>8 DEF UserInv
  <2>2. Sole(m)' /\ m \notin Carries(t)'
    BY <1>2, <1>3, <2>1 DEF FilterInv, Sole, Carries
  <2>3. \A u \in UserCallers \ {t} :
          /\ m \in Carries(u)' <=> m \in Carries(u)
          /\ Written(u, m) => Written(u, m)'
    BY <1>1, <1>3 DEF Carries, Written
  <2>4. CASE userConn \in userUp /\ m \in Carries(t)
    <3>1. /\ m \in flushing[t].sub /\ m \in filter[userConn]
          /\ \A u \in UserCallers \ {t} : m \notin Carries(u)
      BY <1>1, <1>4, <2>1, <2>4 DEF FilterInv, Sole, Written, Carries
    <3> QED
      BY <1>1, <2>2, <2>3, <3>1 DEF FilterInv
  <2>5. CASE userConn \in userUp /\ m \notin Carries(t)
    <3>1. m \in recorded' <=> m \in recorded
      BY <1>1, <2>5 DEF Carries
    <3> QED
      BY <1>1, <2>1, <2>2, <2>3, <2>5, <3>1 DEF FilterInv
  <2>6. CASE userConn \notin userUp
    BY <1>1, <2>2, <2>6 DEF FilterInv
  <2> QED
    BY <2>4, <2>5, <2>6
<1> QED
  BY <1>1, <1>5, <1>6, <1>7, <1>8 DEF UserInv
-----------------------------------------------------------------------------
(* Connections                                                             *)

\* Without a connection that is up there is nothing to say about the filter.
LEMMA ConnectionGone ==
  ASSUME UserInv, userConn' \notin userUp',
         UNCHANGED <<flushing, recorded, queuedSub, queuedUnsub, wished, crossedIDs, stale>>
  PROVE  /\ \A t \in UserCallers : FlushInv(t)'
         /\ \A m \in Markets \ crossedIDs : WishInv(m)'
         /\ \A m \in Markets \ stale : FilterInv(m)'
<1>1. \A t \in UserCallers : FlushInv(t)'
  BY DEF UserInv, FlushInv
<1>2. ASSUME NEW m \in Markets \ crossedIDs PROVE WishInv(m)'
  <2>1. WishInv(m)
    BY <1>2 DEF UserInv
  <2> QED
    BY <2>1 DEF WishInv, Sole, SubIn, UnsubIn, Carries
<1>3. ASSUME NEW m \in Markets \ stale PROVE FilterInv(m)'
  <2>1. FilterInv(m)
    BY <1>3 DEF UserInv
  <2> QED
    BY <2>1 DEF FilterInv, Sole, Carries
<1> QED
  BY <1>1, <1>2, <1>3

\* Of what was recorded or carried before the connection nothing is said any more, and
\* the filter of a new connection is empty.
LEMMA UserDialedInv ==
  ASSUME UserInv, UserDialed
  PROVE  UserInv'
<1>1. /\ userPhase = "dialing"
      /\ UNCHANGED <<flushing, recorded, queuedSub, queuedUnsub, wished, crossedIDs>>
  BY DEF UserDialed, userSets
<1>2. \A t \in UserCallers : FlushInv(t)'
  BY <1>1 DEF UserInv, FlushInv
<1>3. ASSUME NEW m \in Markets, m \notin crossedIDs PROVE WishInv(m)'
  <2>1. WishInv(m)
    BY <1>3 DEF UserInv
  <2> QED
    BY <1>1, <2>1 DEF WishInv, Sole, SubIn, UnsubIn, Carries
<1>4. CASE userPhase' = "open" /\ UNCHANGED <<userConn, userUp, filter, stale>>
  <2>1. UserTypeOK'
    BY <1>1, <1>4 DEF UserInv, UserTypeOK
  <2>2. ASSUME NEW m \in Markets, m \notin stale PROVE FilterInv(m)'
    <3>1. FilterInv(m)
      BY <2>2 DEF UserInv
    <3> QED
      BY <1>1, <1>4, <3>1 DEF FilterInv, Sole, Carries, Written
  <2> QED
    BY <1>1, <1>2, <1>3, <1>4, <2>1, <2>2 DEF UserInv
<1>5. CASE /\ \E c \in UserConns :
                /\ c \notin userUp \cup {userConn}
                /\ \A t \in UserCallers : flushing[t].conn # c
                /\ userConn' = c /\ userUp' = userUp \cup {c}
                /\ filter' = [filter EXCEPT ![c] = {}]
           /\ stale' = recorded \cup Carried
           /\ userPhase' = "hook"
  <2>1. PICK c \in UserConns : /\ userConn' = c /\ userUp' = userUp \cup {c}
                               /\ filter' = [filter EXCEPT ![c] = {}]
    BY <1>5
  <2>2. /\ filter \in [UserConns -> SUBSET Markets] /\ recorded \subseteq Markets
        /\ userUp \subseteq UserConns
        /\ \A t \in UserCallers : flushing[t].sub \subseteq Markets /\ flushing[t].unsub \subseteq Markets
    BY DEF UserInv, UserTypeOK
  <2>3. filter' \in [UserConns -> SUBSET Markets] /\ filter'[c] = {}
    BY <2>1, <2>2
  <2>4. stale' \subseteq Markets
    BY <1>5, <2>2 DEF Carried, Carries
  <2>5. UserTypeOK'
    <3>1. /\ recorded' \subseteq Markets /\ queuedSub' \subseteq Markets /\ queuedUnsub' \subseteq Markets
          /\ wished' \subseteq Markets /\ crossedIDs' \subseteq Markets
      BY <1>1 DEF UserInv, UserTypeOK
    <3>2. userConn' \in UserConns \cup {Nil} /\ userUp' \subseteq UserConns
      BY <2>1, <2>2
    <3>3. userPhase' \in {"new", "dialing", "hook", "open", "closed", "stopped"}
      BY <1>5
    <3>4. /\ flushing' = flushing
          /\ flushing \in [UserCallers ->
               [pc : {"idle", "take", "conn", "unsub", "delete", "sub", "record"},
                conn : UserConns \cup {Nil}, sub : SUBSET Markets, unsub : SUBSET Markets]]
          /\ \A t \in UserCallers : flushing[t].pc = "idle" => flushing[t] = IdleFlush
      BY <1>1 DEF UserInv, UserTypeOK
    <3> QED
      BY <2>3, <2>4, <3>1, <3>2, <3>3, <3>4 DEF UserTypeOK
  <2>6. ASSUME NEW m \in Markets, m \notin stale' PROVE FilterInv(m)'
    <3>1. m \notin recorded /\ \A t \in UserCallers : m \notin Carries(t)
      BY <1>5, <2>6 DEF Carried
    <3> QED
      BY <1>1, <2>1, <2>3, <3>1 DEF FilterInv, Sole, Carries
  <2> QED
    BY <1>1, <1>2, <1>3, <1>5, <2>5, <2>6 DEF UserInv
<1> QED
  BY <1>4, <1>5 DEF UserDialed

\* The other steps of the connection touch no set.
LEMMA UserConnectionInv ==
  ASSUME UserInv, UserDial \/ UserHook \/ UserBreak \/ UserDrop \/ UserStop
  PROVE  UserInv'
<1>1. /\ UNCHANGED <<flushing, recorded, queuedSub, queuedUnsub, wished, crossedIDs, stale, filter>>
      /\ userUp' \subseteq userUp /\ userConn' \in {userConn, Nil}
      /\ userPhase' \in {"new", "dialing", "hook", "open", "closed", "stopped"}
      /\ userPhase' \in {"closed", "stopped"} => userConn' = Nil
  <2>1. userPhase \in {"new", "dialing", "hook", "open", "closed", "stopped"}
          /\ (userPhase \in {"closed", "stopped"} => userConn = Nil)
    BY DEF UserInv, UserTypeOK
  <2>2. CASE UserDial
    BY <2>2 DEF UserDial, userSets
  <2>3. CASE UserHook
    BY <2>3 DEF UserHook, userSets
  <2>4. CASE UserBreak
    BY <2>1, <2>4 DEF UserBreak, userSets
  <2>5. CASE UserDrop
    BY <2>1, <2>5 DEF UserDrop, userSets
  <2>6. CASE UserStop
    BY <2>6 DEF UserStop, userSets
  <2> QED
    BY <2>2, <2>3, <2>4, <2>5, <2>6
<1>2. UserTypeOK'
  BY <1>1 DEF UserInv, UserTypeOK
<1>3. CASE userConn' \in userUp'
  <2>1. userConn' = userConn /\ userConn \in userUp
    BY <1>1, <1>3, NilIsDown
  <2>2. \A t \in UserCallers : FlushInv(t)'
    BY <1>1 DEF UserInv, FlushInv
  <2>3. ASSUME NEW m \in Markets, m \notin crossedIDs PROVE WishInv(m)'
    <3>1. WishInv(m)
      BY <2>3 DEF UserInv
    <3> QED
      BY <1>1, <3>1 DEF WishInv, Sole, SubIn, UnsubIn, Carries
  <2>4. ASSUME NEW m \in Markets, m \notin stale PROVE FilterInv(m)'
    <3>1. FilterInv(m)
      BY <2>4 DEF UserInv
    <3> QED
      BY <1>1, <2>1, <3>1 DEF FilterInv, Sole, Carries, Written
  <2> QED
    BY <1>1, <1>2, <2>2, <2>3, <2>4 DEF UserInv
<1>4. CASE userConn' \notin userUp'
  BY <1>1, <1>2, <1>4, ConnectionGone DEF UserInv
<1> QED
  BY <1>3, <1>4

\* Stop forgets everything but what the flushes still carry.
LEMMA UserClearInv ==
  ASSUME UserInv, clearUserSubscriptions
  PROVE  UserInv'
<1>1. /\ userPhase = "closed" /\ userPhase' = "stopped" /\ crossedIDs' = Carried
      /\ recorded' = {} /\ queuedSub' = {} /\ queuedUnsub' = {} /\ wished' = {}
      /\ UNCHANGED <<flushing, userConn, userUp, filter, stale>>
  BY DEF clearUserSubscriptions
<1>2. userConn = Nil /\ Nil \notin userUp
  BY <1>1, NilIsDown DEF UserInv
<1>3. \A t \in UserCallers : FlushInv(t)'
  BY <1>1 DEF UserInv, FlushInv
<1>4. Carried \subseteq Markets
  BY DEF UserInv, UserTypeOK, Carried, Carries
<1>5. UserTypeOK'
  <2>1. /\ flushing' = flushing
        /\ flushing \in [UserCallers ->
             [pc : {"idle", "take", "conn", "unsub", "delete", "sub", "record"},
              conn : UserConns \cup {Nil}, sub : SUBSET Markets, unsub : SUBSET Markets]]
        /\ \A t \in UserCallers : flushing[t].pc = "idle" => flushing[t] = IdleFlush
        /\ userConn' \in UserConns \cup {Nil} /\ userUp' \subseteq UserConns
        /\ filter' \in [UserConns -> SUBSET Markets] /\ stale' \subseteq Markets
    BY <1>1 DEF UserInv, UserTypeOK
  <2> QED
    BY <1>1, <1>4, <2>1 DEF UserTypeOK
<1>6. ASSUME NEW m \in Markets, m \notin crossedIDs' PROVE WishInv(m)'
  <2>1. \A t \in UserCallers : m \notin Carries(t)
    BY <1>1, <1>6 DEF Carried
  <2> QED
    BY <1>1, <2>1 DEF WishInv, Sole, SubIn, UnsubIn, Carries
<1>7. ASSUME NEW m \in Markets, m \notin stale PROVE FilterInv(m)'
  <2>1. FilterInv(m)
    BY <1>7 DEF UserInv
  <2> QED
    BY <1>1, <1>2, <2>1 DEF FilterInv, Sole, Carries
<1> QED
  BY <1>1, <1>2, <1>3, <1>5, <1>6, <1>7 DEF UserInv
-----------------------------------------------------------------------------
\* The channel starts with empty sets and no connection.
LEMMA UserInitInv == UserInit => UserInv
<1> SUFFICES ASSUME UserInit PROVE UserInv
  OBVIOUS
<1>1. IdleFlush \in FlushType /\ IdleFlush.sub = {} /\ IdleFlush.unsub = {}
  BY DEF IdleFlush, FlushType
<1>2. \A t \in UserCallers : flushing[t] = IdleFlush
  BY DEF UserInit
<1>3. \A t \in UserCallers : Carries(t) = {}
  BY <1>1, <1>2 DEF Carries
<1>4. UserTypeOK
  BY <1>1 DEF UserInit, UserTypeOK, FlushType
<1>5. \A t \in UserCallers : FlushInv(t)
  BY <1>1, <1>2 DEF FlushInv
<1>6. \A m \in Markets : WishInv(m)
  BY <1>1, <1>2, <1>3 DEF UserInit, WishInv, Sole, SubIn, UnsubIn
<1>7. \A m \in Markets : FilterInv(m)
  BY <1>3, UserAssumption DEF UserInit, FilterInv, Sole
<1> QED
  BY <1>4, <1>5, <1>6, <1>7 DEF UserInv, UserInit

\* Every step keeps the invariant.
LEMMA UserStep == UserInv /\ [UserNext]_userVars => UserInv'
<1>1. ASSUME UserInv, UNCHANGED userVars PROVE UserInv'
  <2> USE <1>1 DEF userVars, userSets, userSocket
  <2>1. UserTypeOK'
    BY DEF UserInv, UserTypeOK
  <2>2. \A t \in UserCallers : FlushInv(t)'
    BY DEF UserInv, FlushInv
  <2>3. \A m \in Markets \ crossedIDs : WishInv(m)'
    BY DEF UserInv, WishInv, Sole, SubIn, UnsubIn, Carries
  <2>4. \A m \in Markets \ stale : FilterInv(m)'
    BY DEF UserInv, FilterInv, Sole, Carries, Written
  <2> QED
    BY <2>1, <2>2, <2>3, <2>4 DEF UserInv
<1>2. ASSUME UserInv, NEW t \in UserCallers, NEW M \in SUBSET Markets \ {{}},
             SubscribeMarkets(t, M) \/ UnsubscribeMarkets(t, M)
      PROVE  UserInv'
  BY <1>2, UserCallInv
<1>3. ASSUME UserInv, NEW t \in UserCallers, FlushStep(t) PROVE UserInv'
  BY <1>3, FlushTakeInv, FlushNoConnInv, FlushConnInv, FlushUnsubInv, FlushDeleteInv,
     FlushSubInv, FlushRecordInv DEF FlushStep
<1> QED
  BY <1>1, <1>2, <1>3, UserDialedInv, UserConnectionInv, UserClearInv DEF UserNext

\* The invariant holds in every reachable state.
LEMMA UserInvariant == UserSpec => []UserInv
  BY UserInitInv, UserStep, PTL DEF UserSpec

\* No call is lost between the queues, the flushes and the record: a market that no two
\* calls carried at the same time is recorded or on its way exactly when its last call
\* was SubscribeMarkets, and no removal of it is under way.
THEOREM UserCallsKept == UserSpec => []UserWishKept
<1>1. UserInv => UserWishKept
  BY DEF UserInv, UserWishKept, WishInv
<1> QED
  BY <1>1, UserInvariant, PTL

\* What was recorded since the current connection was made is what the venue filters by.
THEOREM UserFilterKept == UserSpec => []UserFilterIsRecorded
<1>1. UserInv => UserFilterIsRecorded
  <2> SUFFICES ASSUME UserInv, userConn \in userUp,
                      NEW m \in Markets, m \notin stale, m \notin Carried
               PROVE  m \in recorded <=> m \in filter[userConn]
    BY DEF UserFilterIsRecorded
  <2>1. FilterInv(m) /\ \A t \in UserCallers : m \notin Carries(t)
    BY DEF UserInv, Carried
  <2> QED
    BY <2>1 DEF FilterInv
<1> QED
  BY <1>1, UserInvariant, PTL

-----------------------------------------------------------------------------
(* The routing of frames                                                   *)

\* The keys registered are those of the streams whose last call was a Subscribe.
KeysInv ==
  /\ asked \subseteq Streams /\ \A st \in asked : Accepted(st)
  /\ keys = {RegistryKey(st) : st \in asked}

\* The keys under which the depth frames of a symbol pass.
DepthKeys(st) == {<<st.arg[1], st.sym, "partialDepth">>, <<st.arg[1], st.sym, "depth">>}

Venues == {"binance", "hyperliquid", "rtds", "market"}
Histories == {"crypto_prices.subscribe", "equity.subscribe"}

\* What the streams' data make of their keys: each has one of its own, and no other
\* stream has a key under which a depth stream's frames pass.
KeysSeparate ==
  /\ \A s, t \in Streams : RegistryKey(s) = RegistryKey(t) => s = t
  /\ \A st \in Streams :
       /\ st = [venue |-> st.venue, kind |-> st.kind, sym |-> st.sym, arg |-> st.arg]
       /\ st.venue \in Venues /\ st.kind \notin Histories \cup {"error"}
       /\ st.venue = "binance" /\ st.kind \in {"depth", "partialDepth"} =>
            /\ st.arg = <<st.arg[1]>>
            /\ \A t \in Streams \ {st} : RegistryKey(t) \notin DepthKeys(st)
            /\ st.kind = "partialDepth" => st.arg[1] # "spot"
       /\ st.venue = "rtds" /\ st.kind \in {"chainlink", "equity"} => st.arg = 0
       /\ st.venue = "hyperliquid" =>
            /\ st.kind \in HyperliquidChannels
            /\ st.kind # "candle" => st.arg.interval = ""
            /\ st.kind = "allMids" => st.sym = ""

\* A channel's parameters: only candles have an interval, and all mids no coin.
LEMMA ChannelParameters ==
  ASSUME NEW st, SubscriptionAccepted(st)
  PROVE  /\ st.kind \in HyperliquidChannels
         /\ st.kind # "candle" => st.arg.interval = ""
         /\ st.kind = "allMids" => st.sym = ""
<1>1. st.kind \in HyperliquidChannels /\ validate(st.arg, st.kind) /\ (st.kind = "allMids" => st.sym = "")
  BY DEF SubscriptionAccepted
<1>2. CASE st.kind = "l2Book"
  BY <1>1, <1>2 DEF validate
<1>3. CASE st.kind \notin {"candle", "l2Book"}
  <2>1. st.arg = NoParams
    BY <1>1, <1>3 DEF validate
  <2>2. NoParams.interval = ""
    BY DEF NoParams
  <2>3. st.arg.interval = ""
    BY <2>1, <2>2, Zenon
  <2> QED
    BY <1>1, <2>3
<1> QED
  BY <1>1, <1>2, <1>3

\* A key of two parts.
LEMMA AppendToOne ==
  ASSUME NEW x, NEW y
  PROVE  Append(<<x>>, y) = <<x, y>>
<1>1. /\ Append(<<x>>, y) \in Seq({x, y}) /\ Len(Append(<<x>>, y)) = 2
      /\ Append(<<x>>, y)[1] = x /\ Append(<<x>>, y)[2] = y
  <2>1. <<x>> \in Seq({x, y}) /\ Len(<<x>>) = 1 /\ <<x>>[1] = x
    OBVIOUS
  <2> QED
    BY <2>1, AppendProperties
<1>2. <<x, y>> \in Seq({x, y}) /\ Len(<<x, y>>) = 2 /\ <<x, y>>[1] = x /\ <<x, y>>[2] = y
  OBVIOUS
<1>3. \A i \in 1 .. Len(Append(<<x>>, y)) : Append(<<x>>, y)[i] = <<x, y>>[i]
  <2>1. \A i \in 1 .. Len(Append(<<x>>, y)) : i = 1 \/ i = 2
    BY <1>1
  <2> QED
    BY <1>1, <1>2, <2>1
<1>4. Len(Append(<<x>>, y)) = Len(<<x, y>>)
  BY <1>1, <1>2
<1> QED
  BY <1>1, <1>2, <1>3, <1>4, SeqEqual, Zenon

\* A key of three parts.
LEMMA AppendToTwo ==
  ASSUME NEW x, NEW y, NEW z
  PROVE  Append(<<x, y>>, z) = <<x, y, z>>
<1>1. /\ Append(<<x, y>>, z) \in Seq({x, y, z}) /\ Len(Append(<<x, y>>, z)) = 3
      /\ Append(<<x, y>>, z)[1] = x /\ Append(<<x, y>>, z)[2] = y /\ Append(<<x, y>>, z)[3] = z
  <2>1. <<x, y>> \in Seq({x, y, z}) /\ Len(<<x, y>>) = 2 /\ <<x, y>>[1] = x /\ <<x, y>>[2] = y
    OBVIOUS
  <2> QED
    BY <2>1, AppendProperties
<1>2. /\ <<x, y, z>> \in Seq({x, y, z}) /\ Len(<<x, y, z>>) = 3
      /\ <<x, y, z>>[1] = x /\ <<x, y, z>>[2] = y /\ <<x, y, z>>[3] = z
  OBVIOUS
<1>3. \A i \in 1 .. Len(Append(<<x, y>>, z)) : Append(<<x, y>>, z)[i] = <<x, y, z>>[i]
  <2>1. \A i \in 1 .. Len(Append(<<x, y>>, z)) : i = 1 \/ i = 2 \/ i = 3
    BY <1>1
  <2> QED
    BY <1>1, <1>2, <2>1
<1>4. Len(Append(<<x, y>>, z)) = Len(<<x, y, z>>)
  BY <1>1, <1>2
<1> QED
  BY <1>1, <1>2, <1>3, <1>4, SeqEqual, Zenon

\* A sequence of one element.
LEMMA OneElement ==
  ASSUME NEW s \in Seq(STRING), Len(s) = 1
  PROVE  s = <<s[1]>>
<1>1. s[1] \in STRING /\ <<s[1]>> \in Seq(STRING) /\ Len(<<s[1]>>) = 1
  OBVIOUS
<1>2. \A i \in 1 .. Len(s) : s[i] = <<s[1]>>[i]
  OBVIOUS
<1> QED
  BY <1>1, <1>2, SeqEqual

\* Binance's keys: market, symbol, kind and, for klines, the interval.
LEMMA BinanceKeyShape ==
  ASSUME NEW st, Known(st), st.venue = "binance"
  PROVE  /\ Len(RegistryKey(st)) = Len(st.arg) + 2
         /\ RegistryKey(st)[1] = st.arg[1]
         /\ RegistryKey(st)[2] = st.sym
         /\ RegistryKey(st)[3] = st.kind
         /\ Len(st.arg) = 2 => RegistryKey(st)[4] = st.arg[2]
<1> DEFINE S == STRING \cup {st.sym, st.kind}
<1> DEFINE head == <<st.arg[1], st.sym, st.kind>>
<1> DEFINE tail == Tail(st.arg)
<1>1. st.arg \in Seq(STRING) /\ Len(st.arg) \in {1, 2} /\ Len(st.arg) # 0 /\ st.arg \in Seq(S)
  BY DEF Known
<1>2. head \in Seq(S) /\ Len(head) = 3 /\ head[1] = st.arg[1] /\ head[2] = st.sym /\ head[3] = st.kind
  <2>1. st.arg[1] \in S
    BY <1>1
  <2> QED
    BY <2>1
<1>3. tail \in Seq(S) /\ Len(tail) = Len(st.arg) - 1 /\ (Len(st.arg) = 2 => tail[1] = st.arg[2])
  <2>1. st.arg # << >>
    <3>1. Len(<< >>) = 0
      OBVIOUS
    <3> QED
      BY <1>1, <3>1, Zenon
  <2>2. /\ tail \in Seq(S) /\ Len(tail) = Len(st.arg) - 1
        /\ \A i \in 1 .. Len(tail) : tail[i] = st.arg[i + 1]
    BY <1>1, <2>1, HeadTailProperties
  <2> QED
    BY <1>1, <2>2
<1>4. RegistryKey(st) = head \o tail
  BY DEF RegistryKey, BinanceKey
<1> HIDE DEF head, tail, S
<1>5. /\ Len(head \o tail) = Len(head) + Len(tail)
      /\ \A i \in 1 .. Len(head) + Len(tail) :
           (head \o tail)[i] = IF i <= Len(head) THEN head[i] ELSE tail[i - Len(head)]
  BY <1>2, <1>3, ConcatProperties
<1> QED
  BY <1>1, <1>2, <1>3, <1>4, <1>5

\* The keys of the other venues.
LEMMA KeyShapes ==
  ASSUME NEW st, Known(st)
  PROVE  /\ st.venue = "hyperliquid" =>
              /\ Len(RegistryKey(st)) = 3 /\ RegistryKey(st)[1] = st.kind
              /\ RegistryKey(st)[2] = st.sym /\ RegistryKey(st)[3] = st.arg.interval
         /\ st.venue = "rtds" /\ st.arg = 0 =>
              /\ Len(RegistryKey(st)) = 2
              /\ RegistryKey(st)[1] = st.kind /\ RegistryKey(st)[2] = st.sym
         /\ st.venue = "rtds" /\ st.arg # 0 =>
              /\ Len(RegistryKey(st)) = 3 /\ RegistryKey(st)[1] = st.kind
              /\ RegistryKey(st)[2] = st.arg /\ RegistryKey(st)[3] = st.sym
         /\ st.venue = "market" => Len(RegistryKey(st)) = 1 /\ RegistryKey(st)[1] = st.sym
<1>1. CASE st.venue = "hyperliquid"
  <2>1. RegistryKey(st) = <<st.kind, st.sym, st.arg.interval>>
    BY <1>1 DEF RegistryKey, Key
  <2> QED
    BY <1>1, <2>1
<1>2. CASE st.venue = "rtds"
  <2>1. RegistryKey(st) = Append(subsKey(st.kind, st.arg), st.sym) /\ st.arg \in Nat
    BY <1>2 DEF RegistryKey, RtdsKey, Known
  <2>2. st.arg = 0 => subsKey(st.kind, st.arg) = <<st.kind>>
    BY DEF subsKey
  <2>3. st.arg # 0 => subsKey(st.kind, st.arg) = <<st.kind, st.arg>>
    BY <2>1 DEF subsKey
  <2>4. CASE st.arg = 0
    <3>1. RegistryKey(st) = <<st.kind, st.sym>>
      BY <2>1, <2>2, <2>4, AppendToOne
    <3> QED
      BY <1>2, <2>4, <3>1
  <2>5. CASE st.arg # 0
    <3>1. RegistryKey(st) = <<st.kind, st.arg, st.sym>>
      BY <2>1, <2>3, <2>5, AppendToTwo
    <3> QED
      BY <1>2, <2>5, <3>1
  <2> QED
    BY <2>4, <2>5
<1>3. CASE st.venue = "market"
  <2>1. RegistryKey(st) = <<st.sym>>
    BY <1>3 DEF RegistryKey
  <2> QED
    BY <1>3, <2>1
<1> QED
  BY <1>1, <1>2, <1>3

\* A key tells its venue: by its first part, or by having no other.
LEMMA KeyVenue ==
  ASSUME NEW st, Known(st)
  PROVE  /\ st.venue = "market" <=> Len(RegistryKey(st)) = 1
         /\ st.venue = "binance" => RegistryKey(st)[1] \in {"spot", "perp"}
         /\ st.venue = "hyperliquid" => RegistryKey(st)[1] \in HyperliquidChannels
         /\ st.venue = "rtds" => RegistryKey(st)[1] \in RtdsTopics
<1>1. CASE st.venue = "binance"
  <2>1. st.arg[1] \in {"spot", "perp"} /\ Len(st.arg) \in {1, 2}
    BY <1>1 DEF Known
  <2> QED
    BY <1>1, <2>1, BinanceKeyShape
<1>2. CASE st.venue = "hyperliquid"
  <2>1. st.kind \in HyperliquidChannels
    BY <1>2, ChannelParameters DEF Known
  <2> QED
    BY <1>2, <2>1, KeyShapes
<1>3. CASE st.venue = "rtds"
  BY <1>3, KeyShapes DEF Known
<1>4. CASE st.venue = "market"
  BY <1>4, KeyShapes
<1> QED
  BY <1>1, <1>2, <1>3, <1>4 DEF Known

\* Equal keys are of one venue.
LEMMA SameVenue ==
  ASSUME NEW s, Known(s), NEW t, Known(t), RegistryKey(s) = RegistryKey(t)
  PROVE  s.venue = t.venue
<1>1. /\ s.venue \in {"binance", "hyperliquid", "rtds", "market"}
      /\ t.venue \in {"binance", "hyperliquid", "rtds", "market"}
  BY DEF Known
<1>2. s.venue = "market" <=> t.venue = "market"
  BY KeyVenue
<1>3. CASE s.venue = "binance" \/ t.venue = "binance"
  BY <1>1, <1>2, <1>3, KeyVenue DEF HyperliquidChannels, RtdsTopics
<1>4. CASE s.venue = "rtds" \/ t.venue = "rtds"
  BY <1>1, <1>2, <1>4, KeyVenue DEF HyperliquidChannels, RtdsTopics
<1> QED
  BY <1>1, <1>2, <1>3, <1>4

\* Streams that have their fields in common are one.
LEMMA SameFields ==
  ASSUME NEW s, Known(s), NEW t, Known(t),
         s.venue = t.venue, s.kind = t.kind, s.sym = t.sym, s.arg = t.arg
  PROVE  s = t
<1>1. /\ s = [venue |-> s.venue, kind |-> s.kind, sym |-> s.sym, arg |-> s.arg]
      /\ t = [venue |-> t.venue, kind |-> t.kind, sym |-> t.sym, arg |-> t.arg]
  BY DEF Known
<1> QED
  BY <1>1, Zenon

\* Two streams that are not alike have different keys.
LEMMA KeysDiffer ==
  ASSUME SeparateStreams, NEW s \in Streams, NEW t \in Streams, RegistryKey(s) = RegistryKey(t)
  PROVE  s = t
<1>1. Known(s) /\ Known(t) /\ s.venue = t.venue
  BY SameVenue DEF SeparateStreams
<1>2. CASE s.venue = "binance"
  <2>1. /\ s.arg \in Seq(STRING) /\ t.arg \in Seq(STRING)
        /\ Len(s.arg) \in {1, 2} /\ Len(t.arg) \in {1, 2}
    BY <1>1, <1>2 DEF Known
  <2> DEFINE k == RegistryKey(t)
  <2>2. RegistryKey(s) = k
    OBVIOUS
  <2>3. /\ Len(k) = Len(s.arg) + 2 /\ k[1] = s.arg[1] /\ k[2] = s.sym /\ k[3] = s.kind
        /\ Len(s.arg) = 2 => k[4] = s.arg[2]
    BY <1>1, <1>2, <2>2, BinanceKeyShape
  <2>4. /\ Len(k) = Len(t.arg) + 2 /\ k[1] = t.arg[1] /\ k[2] = t.sym /\ k[3] = t.kind
        /\ Len(t.arg) = 2 => k[4] = t.arg[2]
    <3>1. t.venue = "binance"
      BY <1>1, <1>2
    <3> QED
      BY <1>1, <3>1, BinanceKeyShape
  <2> HIDE DEF k
  <2>5. s.arg[1] = t.arg[1] /\ s.sym = t.sym /\ s.kind = t.kind
    BY <2>3, <2>4
  <2>6. Len(s.arg) = Len(t.arg)
    BY <2>1, <2>3, <2>4
  <2>7. Len(s.arg) = 2 => s.arg[2] = t.arg[2]
    BY <2>6, <2>3, <2>4
  <2>8. s.arg = t.arg
    <3>1. \A i \in 1 .. Len(s.arg) : s.arg[i] = t.arg[i]
      BY <2>1, <2>5, <2>7
    <3> QED
      BY <2>1, <2>6, <3>1, SeqEqual
  <2> QED
    BY <1>1, <2>5, <2>8, SameFields
<1>3. CASE s.venue = "hyperliquid"
  <2>1. s.kind = t.kind /\ s.sym = t.sym /\ s.arg.interval = t.arg.interval
    BY <1>1, <1>3, KeyShapes, ZenonT(60)
  <2> QED
    BY <1>1, <1>3, <2>1 DEF Alike, SeparateStreams
<1>4. CASE s.venue = "rtds"
  <2>1. s.arg = 0 <=> t.arg = 0
    <3>1. \A x \in {s, t} : Len(RegistryKey(x)) = IF x.arg = 0 THEN 2 ELSE 3
      BY <1>1, <1>4, KeyShapes
    <3> QED
      BY <3>1
  <2>2. s.kind = t.kind /\ s.sym = t.sym /\ s.arg = t.arg
    <3>1. CASE s.arg = 0
      BY <1>1, <1>4, <2>1, <3>1, KeyShapes, ZenonT(60)
    <3>2. CASE s.arg # 0
      BY <1>1, <1>4, <2>1, <3>2, KeyShapes, ZenonT(60)
    <3> QED
      BY <3>1, <3>2
  <2> QED
    BY <1>1, <2>2, SameFields
<1>5. CASE s.venue = "market"
  <2>1. s.kind = t.kind /\ s.sym = t.sym /\ s.arg = t.arg
    BY <1>1, <1>5, KeyShapes DEF Known
  <2> QED
    BY <1>1, <2>1, SameFields
<1> QED
  BY <1>1, <1>2, <1>3, <1>4, <1>5 DEF Known

\* The key of a depth frame is the stream's own, or nobody's.
LEMMA DepthKeysFree ==
  ASSUME SeparateStreams, NEW st \in Streams, st.venue = "binance", st.kind \in DepthKinds,
         NEW t \in Streams, RegistryKey(t) \in DepthKeys(st)
  PROVE  t = st
<1>1. Known(st) /\ Known(t) /\ st.arg = <<st.arg[1]>> /\ st.arg[1] \in {"spot", "perp"}
  BY OneElement DEF SeparateStreams, DepthKinds, Known
<1>2. PICK k \in DepthKinds : RegistryKey(t) = <<st.arg[1], st.sym, k>>
  BY DEF DepthKeys, DepthKinds
<1>3. /\ Len(RegistryKey(t)) = 3 /\ RegistryKey(t)[1] = st.arg[1]
      /\ RegistryKey(t)[2] = st.sym /\ RegistryKey(t)[3] = k
  BY <1>2
<1>4. t.venue = "binance"
  <2>1. t.venue \in {"binance", "hyperliquid", "rtds", "market"}
    BY <1>1 DEF Known
  <2> QED
    BY <1>1, <1>3, <2>1, KeyVenue DEF HyperliquidChannels, RtdsTopics
<1>5. t.arg[1] = st.arg[1] /\ t.sym = st.sym /\ t.kind = k
  BY <1>1, <1>3, <1>4, BinanceKeyShape
<1>6. t.arg = st.arg
  <2>1. t.arg \in Seq(STRING) /\ Len(t.arg) = 1
    BY <1>1, <1>4, <1>5 DEF Known, DepthKinds
  <2>2. t.arg = <<t.arg[1]>>
    BY <2>1, OneElement
  <2> QED
    BY <1>1, <1>5, <2>2, Zenon
<1> QED
  BY <1>2, <1>4, <1>5, <1>6 DEF SeparateStreams, Alike

\* Streams that are not alike keep their keys apart.
LEMMA StreamsKeepApart == SeparateStreams => KeysSeparate
<1> SUFFICES ASSUME SeparateStreams PROVE KeysSeparate
  OBVIOUS
<1>1. \A s, t \in Streams : RegistryKey(s) = RegistryKey(t) => s = t
  BY KeysDiffer
<1>2. ASSUME NEW st \in Streams
      PROVE  /\ st = [venue |-> st.venue, kind |-> st.kind, sym |-> st.sym, arg |-> st.arg]
             /\ st.venue \in Venues /\ st.kind \notin Histories \cup {"error"}
             /\ st.venue = "rtds" /\ st.kind \in {"chainlink", "equity"} => st.arg = 0
             /\ st.venue = "hyperliquid" =>
                  /\ st.kind \in HyperliquidChannels
                  /\ st.kind # "candle" => st.arg.interval = ""
                  /\ st.kind = "allMids" => st.sym = ""
  <2>1. Known(st)
    BY DEF SeparateStreams
  <2>2. st.venue = "hyperliquid" =>
          /\ st.kind \in HyperliquidChannels
          /\ st.kind # "candle" => st.arg.interval = ""
          /\ st.kind = "allMids" => st.sym = ""
    BY <2>1, ChannelParameters DEF Known
  <2>3. /\ st = [venue |-> st.venue, kind |-> st.kind, sym |-> st.sym, arg |-> st.arg]
        /\ st.venue \in Venues
        /\ st.venue = "rtds" /\ st.kind \in {"chainlink", "equity"} => st.arg = 0
    BY <2>1 DEF Known, Venues
  <2>4. st.kind \notin Histories \cup {"error"}
    <3>1. CASE st.venue = "hyperliquid"
      BY <2>2, <3>1 DEF HyperliquidChannels, Histories
    <3>2. CASE st.venue # "hyperliquid"
      BY <2>1, <3>2 DEF Known, Histories, BinanceKinds, RtdsTopics
    <3> QED
      BY <3>1, <3>2
  <2> QED
    BY <2>2, <2>3, <2>4
<1>3. ASSUME NEW st \in Streams, st.venue = "binance", st.kind \in {"depth", "partialDepth"}
      PROVE  /\ st.arg = <<st.arg[1]>>
             /\ \A t \in Streams \ {st} : RegistryKey(t) \notin DepthKeys(st)
             /\ st.kind = "partialDepth" => st.arg[1] # "spot"
  <2>1. st.arg = <<st.arg[1]>>
    BY <1>3, OneElement DEF SeparateStreams, Known
  <2>2. st.kind = "partialDepth" => st.arg # <<"spot">>
    BY DEF SeparateStreams
  <2>3. \A t \in Streams \ {st} : RegistryKey(t) \notin DepthKeys(st)
    BY <1>3, DepthKeysFree DEF DepthKinds
  <2> QED
    BY <2>1, <2>2, <2>3
<1> QED
  BY <1>1, <1>2, <1>3 DEF KeysSeparate

\* A call registers or removes the key of its stream and no other.
LEMMA KeysStep ==
  ASSUME KeysSeparate, KeysInv, [StreamsNext]_streamVars
  PROVE  KeysInv'
<1>1. ASSUME NEW st \in Streams, SubscribeStream(st) PROVE KeysInv'
  <2>1. keys' = {RegistryKey(s) : s \in asked} \cup {RegistryKey(st)} /\ asked' = asked \cup {st}
    BY <1>1 DEF SubscribeStream, addStreams, KeysInv
  <2> QED
    BY <1>1, <2>1 DEF SubscribeStream, addStreams, KeysInv
<1>2. ASSUME NEW st \in Streams, UnsubscribeStream(st) PROVE KeysInv'
  <2>1. keys' = {RegistryKey(s) : s \in asked} \ {RegistryKey(st)} /\ asked' = asked \ {st}
    BY <1>2 DEF UnsubscribeStream, removeStreams, KeysInv
  <2>2. \A s \in asked : RegistryKey(s) = RegistryKey(st) => s = st
    BY DEF KeysSeparate, KeysInv
  <2>3. {RegistryKey(s) : s \in asked} \ {RegistryKey(st)} = {RegistryKey(s) : s \in asked \ {st}}
    BY <2>2
  <2> QED
    BY <2>1, <2>3 DEF KeysInv
<1>3. CASE UNCHANGED streamVars
  BY <1>3 DEF streamVars, KeysInv
<1> QED
  BY <1>1, <1>2, <1>3 DEF StreamsNext

\* The key of a stream is registered when it is asked for.
LEMMA KeyOfAsked ==
  ASSUME KeysSeparate, KeysInv, NEW st \in Streams
  PROVE  RegistryKey(st) \in keys <=> st \in asked
  BY DEF KeysSeparate, KeysInv

\* What a frame becomes, when one stream has it: the event its subscriber was promised
\* when that stream is asked for, and nothing otherwise.
Routed(f, st) ==
  /\ Events(f, keys) = IF st \in asked THEN Promised(f) ELSE {}
  /\ \A s \in Streams : f \in FramesOf(s) => s = st

\* The fields of a stream, and of a frame of another kind.
LEMMA StreamFields ==
  ASSUME KeysSeparate, NEW st \in Streams, NEW k
  PROVE  /\ st.venue \in Venues /\ st.kind \notin Histories /\ st.kind # "error"
         /\ [st EXCEPT !.kind = k] = [venue |-> st.venue, kind |-> k, sym |-> st.sym, arg |-> st.arg]
<1>1. st = [venue |-> st.venue, kind |-> st.kind, sym |-> st.sym, arg |-> st.arg]
  BY DEF KeysSeparate
<1>2. [st EXCEPT !.kind = k] = [venue |-> st.venue, kind |-> k, sym |-> st.sym, arg |-> st.arg]
  BY <1>1
<1> QED
  BY <1>2 DEF KeysSeparate

\* A frame is of its stream's venue, symbol and argument.
LEMMA FrameFields ==
  ASSUME KeysSeparate, NEW st \in Streams, NEW f \in FramesOf(st)
  PROVE  /\ f.venue = st.venue /\ f.sym = st.sym /\ f.arg = st.arg
         /\ f = [venue |-> f.venue, kind |-> f.kind, sym |-> f.sym, arg |-> f.arg]
         /\ st.venue \notin {"rtds", "market"} => f = st
<1>1. f = st \/ \E k : f = [st EXCEPT !.kind = k]
  BY DEF FramesOf, RtdsFrames, MarketFrames
<1>2. st = [venue |-> st.venue, kind |-> st.kind, sym |-> st.sym, arg |-> st.arg]
  BY DEF KeysSeparate
<1>3. st.venue \notin {"rtds", "market"} => f = st
  BY DEF FramesOf
<1>4. CASE f = st
  BY <1>2, <1>3, <1>4
<1>5. ASSUME NEW k, f = [st EXCEPT !.kind = k]
      PROVE  /\ f.venue = st.venue /\ f.sym = st.sym /\ f.arg = st.arg
             /\ f = [venue |-> f.venue, kind |-> f.kind, sym |-> f.sym, arg |-> f.arg]
  <2>1. f = [venue |-> st.venue, kind |-> k, sym |-> st.sym, arg |-> st.arg]
    BY <1>5, StreamFields
  <2> QED
    BY <2>1
<1> QED
  BY <1>1, <1>3, <1>4, <1>5

\* Binance: diffs and partial depth share their frame, but only one of them is there.
LEMMA BinanceRouted ==
  ASSUME KeysSeparate, KeysInv, NEW st \in Streams, st.venue = "binance", NEW f \in FramesOf(st)
  PROVE  Routed(f, st)
<1>1. f = st /\ \A s \in Streams : f \in FramesOf(s) => s = st
  BY FrameFields
<1>2. RegistryKey(st) = BinanceKey(st) /\ (BinanceKey(st) \in keys <=> st \in asked)
  <2>1. RegistryKey(st) = BinanceKey(st)
    BY DEF RegistryKey
  <2> QED
    BY <2>1, KeyOfAsked
<1>3. Promised(f) = {st.kind}
  BY <1>1, StreamFields DEF Promised, Histories
<1>4. Events(f, keys) = BinanceEvents(st, keys)
  BY <1>1 DEF Events
<1>5. CASE st.kind \notin {"depth", "partialDepth"}
  BY <1>1, <1>2, <1>3, <1>4, <1>5 DEF Routed, BinanceEvents, KlineEvent, isSubscribed
<1>6. CASE st.kind \in {"depth", "partialDepth"}
  <2>0. \A x, y, z, a : a = <<a[1]>> => <<x, y, z>> \o Tail(a) = <<x, y, z>>
    <3> SUFFICES ASSUME NEW x, NEW y, NEW z, NEW v PROVE <<x, y, z>> \o Tail(<<v>>) = <<x, y, z>>
      OBVIOUS
    <3>1. Tail(<<v>>) = << >>
      OBVIOUS
    <3> QED
      BY <3>1
  <2>1. /\ BinanceKey(st) = <<st.arg[1], st.sym, st.kind>>
        /\ st.arg = <<st.arg[1]>>
        /\ \A t \in Streams \ {st} : RegistryKey(t) \notin DepthKeys(st)
        /\ st.kind = "partialDepth" => st.arg[1] # "spot"
    <3>1. /\ st.arg = <<st.arg[1]>>
          /\ \A t \in Streams \ {st} : RegistryKey(t) \notin DepthKeys(st)
          /\ st.kind = "partialDepth" => st.arg[1] # "spot"
      BY <1>1, <1>6, StreamFields DEF KeysSeparate
    <3>2. BinanceKey(st) = <<st.arg[1], st.sym, st.kind>>
      BY <2>0, <3>1 DEF BinanceKey
    <3> QED
      BY <3>1, <3>2
  <2>2. \A k \in DepthKeys(st) : k \in keys => k = BinanceKey(st)
    BY <1>2, <2>1 DEF KeysInv
  <2>3. CASE st.kind = "partialDepth"
    <3>1. Events(f, keys) = DepthEvent(st, keys)
      BY <1>4, <2>1, <2>3 DEF BinanceEvents
    <3>2. subscribedPartialDepth(st, keys) <=> st \in asked
      BY <1>2, <2>1, <2>3 DEF subscribedPartialDepth
    <3>3. BinanceKey([st EXCEPT !.kind = "depth"]) = <<st.arg[1], st.sym, "depth">>
      <4>1. [st EXCEPT !.kind = "depth"] = [venue |-> st.venue, kind |-> "depth", sym |-> st.sym, arg |-> st.arg]
        BY StreamFields
      <4>2. <<st.arg[1], st.sym, "depth">> \o Tail(st.arg) = <<st.arg[1], st.sym, "depth">>
        BY <2>0, <2>1, ZenonT(60)
      <4> QED
        BY <4>1, <4>2 DEF BinanceKey
    <3>4. <<st.arg[1], st.sym, "depth">> \notin keys
      BY <2>1, <2>2, <2>3 DEF DepthKeys
    <3> QED
      BY <1>1, <1>3, <2>3, <3>1, <3>2, <3>3, <3>4 DEF Routed, DepthEvent, isSubscribed
  <2>4. CASE st.kind = "depth"
    <3>1. Events(f, keys) = DepthEvent(st, keys)
      BY <1>4, <2>4 DEF BinanceEvents
    <3>2. ~subscribedPartialDepth(st, keys)
      BY <2>1, <2>2, <2>4 DEF subscribedPartialDepth, DepthKeys
    <3>3. [st EXCEPT !.kind = "depth"] = st
      <4>1. st = [venue |-> st.venue, kind |-> st.kind, sym |-> st.sym, arg |-> st.arg]
        BY DEF KeysSeparate
      <4> QED
        BY <2>4, <4>1, StreamFields
    <3> QED
      BY <1>1, <1>2, <1>3, <2>4, <3>1, <3>2, <3>3 DEF Routed, DepthEvent, isSubscribed
  <2> QED
    BY <1>6, <2>3, <2>4
<1> QED
  BY <1>5, <1>6

\* Hyperliquid: a frame passes by the key it names; errors are no stream's frames.
LEMMA HyperliquidRouted ==
  ASSUME KeysSeparate, KeysInv, NEW st \in Streams, st.venue = "hyperliquid", NEW f \in FramesOf(st)
  PROVE  Routed(f, st)
<1>1. f = st /\ \A s \in Streams : f \in FramesOf(s) => s = st
  BY FrameFields
<1>2. RegistryKey(st) = Key(st) /\ (Key(st) \in keys <=> st \in asked)
  <2>1. RegistryKey(st) = Key(st)
    BY DEF RegistryKey
  <2> QED
    BY <2>1, KeyOfAsked
<1>3. Promised(f) = {st.kind} /\ st.kind # "error"
  BY <1>1, StreamFields DEF Promised, Histories
<1>4. Events(f, keys) = HyperliquidEvents(st, keys)
  BY <1>1 DEF Events
<1>5. /\ st.kind \in HyperliquidChannels
      /\ st.kind # "candle" => st.arg.interval = ""
      /\ st.kind = "allMids" => st.sym = ""
  BY DEF KeysSeparate
<1>6. subscribed(keys, st.kind, st.sym, st.arg.interval) <=> st \in asked
  BY <1>2 DEF subscribed, Key
<1>7. HyperliquidEvents(st, keys) = IF st \in asked THEN {st.kind} ELSE {}
  <2>1. CASE st.kind \in {"l2Book", "trades", "bbo", "activeAssetCtx"}
    BY <1>5, <1>6, <2>1 DEF HyperliquidEvents, CoinEvent
  <2>2. CASE st.kind = "allMids"
    BY <1>5, <1>6, <2>2 DEF HyperliquidEvents, AllMidsEvent
  <2>3. CASE st.kind = "candle"
    BY <1>6, <2>3 DEF HyperliquidEvents, CandleEvent
  <2> QED
    BY <1>5, <2>1, <2>2, <2>3 DEF HyperliquidChannels
<1> QED
  BY <1>1, <1>3, <1>4, <1>7 DEF Routed

\* RTDS: a history is its stream's, whatever topic it comes under.
LEMMA RtdsRouted ==
  ASSUME KeysSeparate, KeysInv, NEW st \in Streams, st.venue = "rtds", NEW f \in FramesOf(st)
  PROVE  Routed(f, st)
<1>1. /\ f \in RtdsFrames(st) /\ f.venue = "rtds" /\ f.sym = st.sym /\ f.arg = st.arg
      /\ st = [venue |-> "rtds", kind |-> st.kind, sym |-> st.sym, arg |-> st.arg]
  BY FrameFields DEF FramesOf, KeysSeparate
<1>2. RtdsKey(st) \in keys <=> st \in asked
  <2>1. RegistryKey(st) = RtdsKey(st)
    BY DEF RegistryKey
  <2> QED
    BY <2>1, KeyOfAsked
<1>3. Events(f, keys) = RtdsEvents(f, keys)
  BY <1>1 DEF Events
\* Which stream a frame is of, by its kind.
<1>4. ASSUME NEW s \in Streams, f \in FramesOf(s)
      PROVE  /\ s = [venue |-> "rtds", kind |-> s.kind, sym |-> f.sym, arg |-> f.arg]
             /\ \/ f.kind = s.kind
                \/ f.kind = "crypto_prices.subscribe" /\ s.kind = "chainlink"
                \/ f.kind = "equity.subscribe" /\ s.kind = "equity"
             /\ s.kind \notin Histories
  <2>1. /\ s.venue = "rtds" /\ f.sym = s.sym /\ f.arg = s.arg
        /\ s = [venue |-> s.venue, kind |-> s.kind, sym |-> s.sym, arg |-> s.arg]
    BY <1>1, <1>4, FrameFields DEF KeysSeparate
  <2>2. f \in RtdsFrames(s)
    BY <1>4, <2>1 DEF FramesOf
  <2>3. \A k : [s EXCEPT !.kind = k].kind = k
    BY <2>1
  <2> QED
    BY <2>1, <2>2, <2>3, StreamFields DEF RtdsFrames
<1>5. \A s \in Streams : f \in FramesOf(s) => s = st
  <2> SUFFICES ASSUME NEW s \in Streams, f \in FramesOf(s) PROVE s.kind = st.kind
    BY <1>1, <1>4
  <2> QED
    BY <1>4 DEF Histories
<1>6. CASE f.kind = st.kind
  <2>1. f = st
    BY <1>1, <1>6, FrameFields
  <2>2. Promised(f) = {st.kind} /\ st.kind \notin {"crypto_prices.subscribe", "equity.subscribe"}
    BY <2>1, StreamFields DEF Promised, Histories
  <2> QED
    BY <1>2, <1>3, <1>5, <2>1, <2>2 DEF Routed, RtdsEvents
<1>7. CASE f.kind = "crypto_prices.subscribe" /\ st.kind = "chainlink"
  <2>1. RtdsKey(st) = <<"chainlink", f.sym>>
    <3>1. st.arg = 0
      BY <1>1, <1>7 DEF KeysSeparate
    <3>2. subsKey(st.kind, st.arg) = <<"chainlink">>
      BY <1>7, <3>1 DEF subsKey
    <3> QED
      BY <1>1, <3>2, AppendToOne DEF RtdsKey
  <2> QED
    BY <1>2, <1>3, <1>5, <1>7, <2>1 DEF Routed, RtdsEvents, Promised
<1>8. CASE f.kind = "equity.subscribe" /\ st.kind = "equity"
  <2>1. RtdsKey(st) = <<"equity", f.sym>>
    <3>1. st.arg = 0
      BY <1>1, <1>8 DEF KeysSeparate
    <3>2. subsKey(st.kind, st.arg) = <<"equity">>
      BY <1>8, <3>1 DEF subsKey
    <3> QED
      BY <1>1, <3>2, AppendToOne DEF RtdsKey
  <2> QED
    BY <1>2, <1>3, <1>5, <1>8, <2>1 DEF Routed, RtdsEvents, Promised
<1> QED
  BY <1>4, <1>6, <1>7, <1>8

\* The market channel: a frame passes by its asset.
LEMMA MarketRouted ==
  ASSUME KeysSeparate, KeysInv, NEW st \in Streams, st.venue = "market", NEW f \in FramesOf(st)
  PROVE  Routed(f, st)
<1>1. /\ f \in MarketFrames(st) /\ f.venue = "market" /\ f.sym = st.sym
  BY FrameFields DEF FramesOf
<1>2. RegistryKey(st) = <<st.sym>>
  BY DEF RegistryKey
<1>3. \A s \in Streams : f \in FramesOf(s) => s = st
  <2> SUFFICES ASSUME NEW s \in Streams, f \in FramesOf(s) PROVE RegistryKey(s) = RegistryKey(st)
    BY DEF KeysSeparate
  <2>1. s.venue = "market" /\ s.sym = f.sym
    BY <1>1, FrameFields
  <2> QED
    BY <1>1, <1>2, <2>1 DEF RegistryKey
<1>4. f.kind \in {"price_change", "book", "last_trade_price", "tick_size_change"}
  BY <1>1, StreamFields DEF MarketFrames
<1>5. <<f.sym>> \in keys <=> st \in asked
  BY <1>1, <1>2, KeyOfAsked
<1>6. Events(f, keys) = MarketEvents(f, keys)
  BY <1>1 DEF Events
<1>7. MarketEvents(f, keys) = IF <<f.sym>> \in keys THEN {f.kind} ELSE {}
  BY <1>4 DEF MarketEvents
<1>8. Promised(f) = {f.kind}
  BY <1>4 DEF Promised
<1> QED
  BY <1>3, <1>5, <1>6, <1>7, <1>8 DEF Routed

\* Of whatever streams that can be told apart, with any symbols, intervals and windows:
\* a frame becomes the event its subscriber was promised exactly while the stream that
\* has it is subscribed, whatever else is subscribed and removed meanwhile.
THEOREM FramesRouted ==
  ASSUME SeparateStreams
  PROVE  StreamsSpec => []RoutedAsAsked
<1>0. KeysSeparate
  BY StreamsKeepApart
<1>1. StreamsInit => KeysInv
  BY DEF StreamsInit, KeysInv
<1>2. KeysInv /\ [StreamsNext]_streamVars => KeysInv'
  BY <1>0, KeysStep
<1>3. KeysInv => RoutedAsAsked
  <2> SUFFICES ASSUME KeysInv, NEW f \in StreamFrames
               PROVE  Events(f, keys) = IF StreamsWith[f] \cap asked # {} THEN Promised(f) ELSE {}
    BY DEF RoutedAsAsked
  <2>1. PICK st \in Streams : f \in FramesOf(st)
    BY DEF StreamFrames
  <2>2. Routed(f, st)
    BY <1>0, <2>1, StreamFields, BinanceRouted, HyperliquidRouted, RtdsRouted, MarketRouted DEF Venues
  <2>3. StreamsWith[f] = {st}
    BY <2>1, <2>2 DEF StreamsWith, Routed
  <2> QED
    BY <2>2, <2>3 DEF Routed
<1> QED
  BY <1>1, <1>2, <1>3, PTL DEF StreamsSpec

-----------------------------------------------------------------------------
(* The channels together                                                   *)

\* A step of the channels is a step of one of them, and the others stutter.
LEMMA ChannelsMove ==
  ASSUME [ChannelsNext]_<<backoffVars, registryVars, userVars, streamVars, part>>
  PROVE  [RegistryNext]_registryVars /\ [UserNext]_userVars
<1>1. CASE UNCHANGED <<backoffVars, registryVars, userVars, streamVars, part>>
  BY <1>1
<1>2. CASE RegistryNext /\ UNCHANGED <<backoffVars, userVars, streamVars>>
  BY <1>2
<1>3. CASE UserNext /\ UNCHANGED <<backoffVars, registryVars, streamVars>>
  BY <1>3
<1>4. CASE StreamsNext /\ UNCHANGED <<backoffVars, registryVars, userVars>>
  BY <1>4
<1>5. CASE BackoffNext /\ UNCHANGED <<registryVars, userVars, streamVars>>
  BY <1>5
<1> QED
  BY <1>1, <1>2, <1>3, <1>4, <1>5 DEF ChannelsNext

\* Every variable of the registries and of the user channel has its type, whatever order
\* the channels move in.
THEOREM ChannelsTypeCorrect == ChannelsSpec => []ChannelsTypeOK
<1>1. ChannelsInit => RegistryInv /\ UserInv
  BY RegistryInitInv, UserInitInv DEF ChannelsInit
<1>2. /\ RegistryInv /\ UserInv
      /\ [ChannelsNext]_<<backoffVars, registryVars, userVars, streamVars, part>>
      => RegistryInv' /\ UserInv'
  BY ChannelsMove, RegistryStep, UserStep
<1>3. RegistryInv /\ UserInv => ChannelsTypeOK
  BY DEF RegistryInv, UserInv, ChannelsTypeOK
<1> QED
  BY <1>1, <1>2, <1>3, PTL DEF ChannelsSpec
=============================================================================
