------------------------------ MODULE DepthBook ------------------------------
(***************************************************************************)
(* The depth book of one symbol in pkg/binance/binance.go: the dispatcher  *)
(* that applies @depth@100ms diffs, the snapshotDepthBook goroutines it    *)
(* starts, the hooks of the connection that carries the stream, and the    *)
(* calls SubscribeDepth, UnsubscribeDepth and Stop.  They meet on the book *)
(* object's own mutex, which a snapshot holds over its REST request, and   *)
(* on booksMu, which guards the table of book objects and which            *)
(* resetDepthBooks holds while it waits for every book.                    *)
(*                                                                         *)
(* A book object is a pointer: an unsubscription drops it from the table   *)
(* while goroutines still hold it.  Objects are drawn from Books and used  *)
(* again once nothing refers to them.  The connection is what              *)
(* BaseWebSocket makes of it, with at most one OnDisconnect outstanding.   *)
(* The events that a new book dispatches are not followed here.            *)
(***************************************************************************)
EXTENDS VenueBook, Sequences

CONSTANTS Books,      \* book objects
          NoBook,     \* nil
          Goroutines, \* bound of the snapshotDepthBook goroutines alive at a time
          Dialer,     \* the goroutine of dialSync, which seeds books in onConnect
          QueueCap    \* capacity of eventCh

ASSUME DepthAssumption ==
  NoBook \notin Books /\ Dialer \notin Goroutines /\ QueueCap \in Nat

VARIABLES
  venue,      \* the venue's last update
  sent,       \* the last update the stream has carried, while streaming
  streaming,  \* the venue streams the symbol's diffs on the connection
  up,         \* the connection is up
  dial,       \* where dialSync is
  down,       \* where the outstanding OnDisconnect is; "reset" holds booksMu
  subscribed, \* the symbol's depth stream is in c.streams
  current,    \* b.books[mkt][symbol]
  book,       \* the book objects
  queue,      \* c.eventCh
  disp,       \* the dispatcher
  fetch,      \* each snapshotDepthBook call
  caller,     \* the application's SubscribeDepth or UnsubscribeDepth call
  phase       \* running, then Stop's steps

connVars == <<sent, streaming, up, dial, down>>
bookVars == <<current, book>>
appVars  == <<subscribed, caller, phase>>
vars == <<venue, connVars, bookVars, appVars, queue, disp, fetch>>

Fetchers == Goroutines \cup {Dialer}
MaybeBook == Books \cup {NoBook}
Diff == [first : 1 .. MaxUpdates, final : 1 .. MaxUpdates]
NoDiff == [first |-> 1, final |-> 1]

NewBook == [snapshotted |-> FALSE, lastUpdateID |-> 0, levels |-> Empty]
Waiting == [pc |-> "idle", bk |-> NoBook, diff |-> NoDiff]
NoFetch == [pc |-> "none", bk |-> NoBook, id |-> 0]
Spawned == [NoFetch EXCEPT !.pc = "bookFor"]
NoCall  == [pc |-> "idle", send |-> FALSE]

BookOK == [snapshotted : BOOLEAN, lastUpdateID : 0 .. MaxUpdates, levels : [Levels -> Nat]]
DispOK == [pc : {"idle", "bookFor"}, bk : {NoBook}, diff : Diff]
            \cup [pc : {"lock"}, bk : Books, diff : Diff]
FetchOK == [pc : {"none", "bookFor"}, bk : {NoBook}, id : {0}]
             \cup [pc : {"lock", "request", "answer", "failed"}, bk : Books, id : 0 .. MaxUpdates]

\* Every variable has its type; a goroutine that wants a book's mutex has a book.
TypeOK ==
  /\ venue \in 0 .. MaxUpdates /\ sent \in 0 .. MaxUpdates
  /\ streaming \in BOOLEAN /\ up \in BOOLEAN
  /\ dial \in {"none", "seed", "seeding"}
  /\ down \in {"none", "drain", "reset"}
  /\ subscribed \in BOOLEAN
  /\ current \in MaybeBook
  /\ book \in [Books -> BookOK]
  /\ queue \in Seq(Diff)
  /\ disp \in DispOK
  /\ fetch \in [Fetchers -> FetchOK]
  /\ caller \in [pc : {"idle", "add", "delete", "subscribe", "unsubscribe"}, send : BOOLEAN]
  /\ phase \in {"running", "closed", "cleared", "stopped"}

\* After New and Start: the connection is up and nothing is subscribed.
Init ==
  /\ venue = 0 /\ sent = 0 /\ streaming = FALSE /\ up = TRUE
  /\ dial = "none" /\ down = "none"
  /\ subscribed = FALSE /\ current = NoBook
  /\ book = [bk \in Books |-> NewBook]
  /\ queue = <<>> /\ disp = Waiting
  /\ fetch = [f \in Fetchers |-> NoFetch]
  /\ caller = NoCall /\ phase = "running"

-----------------------------------------------------------------------------
(* The table of books and its mutex                                        *)

BooksMuFree == down # "reset"

Unused(bk) == /\ bk # current /\ bk # disp.bk
              /\ \A f \in Fetchers : bk # fetch[f].bk

\* The objects are now b, less what the step has made garbage.
Keep(b) == book' = [bk \in Books |-> IF Unused(bk)' THEN NewBook ELSE b[bk]]

\* b.bookFor: the object in the table, made when there is none, is bk.
bookFor(bk) ==
  /\ BooksMuFree
  /\ IF current # NoBook THEN bk = current /\ UNCHANGED bookVars
     ELSE /\ Unused(bk)
          /\ current' = bk
          /\ UNCHANGED book

\* bk.mu is held from before the REST request until the answer is stored.
Locked(bk) == \E f \in Fetchers : fetch[f].bk = bk /\ fetch[f].pc \in {"request", "answer", "failed"}

-----------------------------------------------------------------------------
(* SubscribeDepth, UnsubscribeDepth, Stop                                  *)

\* addStreams; only a stream that was not there yet is sent.  The application makes
\* no call after it called Stop, but one may be under way.
SubscribeDepth ==
  /\ phase = "running" /\ caller.pc = "idle"
  /\ subscribed' = TRUE
  /\ caller' = [pc |-> "add", send |-> ~subscribed]
  /\ UNCHANGED <<venue, connVars, bookVars, phase, queue, disp, fetch>>

AddBook ==
  /\ caller.pc = "add"
  /\ \E bk \in Books : bookFor(bk)
  /\ caller' = IF caller.send THEN [caller EXCEPT !.pc = "subscribe"] ELSE NoCall
  /\ UNCHANGED <<venue, connVars, subscribed, phase, queue, disp, fetch>>

UnsubscribeDepth ==
  /\ phase = "running" /\ caller.pc = "idle"
  /\ subscribed' = FALSE
  /\ caller' = [pc |-> "delete", send |-> subscribed]
  /\ UNCHANGED <<venue, connVars, bookVars, phase, queue, disp, fetch>>

DeleteBook ==
  /\ caller.pc = "delete" /\ BooksMuFree
  /\ current' = NoBook
  /\ caller' = IF caller.send THEN [caller EXCEPT !.pc = "unsubscribe"] ELSE NoCall
  /\ UNCHANGED <<venue, connVars, subscribed, phase, queue, disp, fetch>>
  /\ Keep(book)

\* c.send: without a connection the frame is dropped, and a failure is only logged.
SendFrame ==
  /\ caller.pc \in {"subscribe", "unsubscribe"}
  /\ caller' = NoCall
  /\ \/ /\ up
        /\ streaming' = (caller.pc = "subscribe")
        /\ sent' = IF ~streaming' THEN 0 ELSE IF streaming THEN sent ELSE venue
     \/ UNCHANGED <<streaming, sent>>
  /\ UNCHANGED <<venue, up, dial, down, bookVars, subscribed, phase, queue, disp,
                 fetch>>

\* Stop cancels the dispatcher and closes the connection, ...
StopClose ==
  /\ phase = "running"
  /\ phase' = "closed"
  /\ up' = FALSE /\ streaming' = FALSE /\ sent' = 0
  /\ UNCHANGED <<venue, dial, down, bookVars, subscribed, caller, queue, disp,
                 fetch>>

\* ... once Close has returned it clears the streams, ...
clearStreams ==
  /\ phase = "closed" /\ dial = "none"
  /\ phase' = "cleared"
  /\ subscribed' = FALSE
  /\ UNCHANGED <<venue, connVars, bookVars, caller, queue, disp, fetch>>

\* ... and then the books.
clearBooks ==
  /\ phase = "cleared" /\ BooksMuFree
  /\ phase' = "stopped"
  /\ current' = NoBook
  /\ UNCHANGED <<venue, connVars, subscribed, caller, queue, disp, fetch>>
  /\ Keep(book)

-----------------------------------------------------------------------------
(* handleDepth, run by the dispatcher                                      *)

\* The dispatcher takes a diff; one of an unsubscribed symbol goes no further.
Dequeue ==
  /\ disp.pc = "idle" /\ queue # <<>>
  /\ queue' = Tail(queue)
  /\ disp' = IF subscribed THEN [Waiting EXCEPT !.pc = "bookFor", !.diff = Head(queue)]
             ELSE Waiting
  /\ UNCHANGED <<venue, connVars, bookVars, appVars, fetch>>

\* Mutant: the table is read without making the book that is missing.
DispatcherBookUnchecked ==
  /\ disp.pc = "bookFor" /\ BooksMuFree
  /\ disp' = [disp EXCEPT !.pc = "lock", !.bk = current]
  /\ UNCHANGED <<venue, connVars, bookVars, appVars, queue, fetch>>

DispatcherBook ==
  /\ disp.pc = "bookFor"
  /\ \E bk \in Books : bookFor(bk) /\ disp' = [disp EXCEPT !.pc = "lock", !.bk = bk]
  /\ UNCHANGED <<venue, connVars, appVars, queue, fetch>>

\* Mutant: the snapshot does not keep the dispatcher out.
HoldsUnserialized(bk) == disp.pc = "lock" /\ disp.bk = bk

\* The dispatcher enters the critical section of book bk with its diff.
Holds(bk) == disp.pc = "lock" /\ disp.bk = bk /\ ~Locked(bk)

\* Mutant: one missing update is let through.
GapOfTwo(bk, d) == d.first > book[bk].lastUpdateID + 2

Stale(bk, d) == d.final <= book[bk].lastUpdateID
Gap(bk, d)   == d.first > book[bk].lastUpdateID + 1

\* go b.snapshotDepthBook
SpawnSnapshot ==
  \E f \in Goroutines : fetch[f].pc = "none" /\ fetch' = [fetch EXCEPT ![f] = Spawned]

HandlerReturns ==
  /\ disp' = Waiting
  /\ UNCHANGED <<venue, connVars, current, appVars, queue>>

\* The book is not seeded: drop the diff.
DiffUnseeded(bk) ==
  /\ Holds(bk) /\ ~book[bk].snapshotted
  /\ SpawnSnapshot
  /\ HandlerReturns
  /\ Keep(book)

DiffStale(bk) ==
  /\ Holds(bk) /\ book[bk].snapshotted
  /\ Stale(bk, disp.diff)
  /\ UNCHANGED fetch
  /\ HandlerReturns
  /\ Keep(book)

\* Updates are missing: drop the diff and seed the book again.  What an unseeded
\* book holds is not read before a snapshot replaces it.
DiffGap(bk) ==
  /\ Holds(bk) /\ book[bk].snapshotted
  /\ ~Stale(bk, disp.diff) /\ Gap(bk, disp.diff)
  /\ SpawnSnapshot
  /\ HandlerReturns
  /\ Keep([book EXCEPT ![bk] = NewBook])

DiffApply(bk) ==
  /\ Holds(bk) /\ book[bk].snapshotted
  /\ ~Stale(bk, disp.diff) /\ ~Gap(bk, disp.diff)
  /\ UNCHANGED fetch
  /\ HandlerReturns
  /\ Keep([book EXCEPT ![bk].levels = applyLevels(@, disp.diff),
                       ![bk].lastUpdateID = disp.diff.final])

-----------------------------------------------------------------------------
(* snapshotDepthBook                                                       *)

FetchBook(f) ==
  /\ fetch[f].pc = "bookFor"
  /\ \E bk \in Books : bookFor(bk) /\ fetch' = [fetch EXCEPT ![f].pc = "lock", ![f].bk = bk]
  /\ UNCHANGED <<venue, connVars, appVars, queue, disp>>

FetchLock(f) ==
  /\ fetch[f].pc = "lock" /\ ~Locked(fetch[f].bk)
  /\ fetch' = [fetch EXCEPT ![f].pc = "request"]
  /\ UNCHANGED <<venue, connVars, bookVars, appVars, queue, disp>>

\* The venue takes the snapshot that it will send.
FetchAnswer(f) ==
  /\ fetch[f].pc = "request"
  /\ fetch' = [fetch EXCEPT ![f].pc = "answer", ![f].id = venue]
  /\ UNCHANGED <<venue, connVars, bookVars, appVars, queue, disp>>

\* The call returns, the mutex is released, and onConnect with it.
FetchReturn(f) ==
  /\ fetch' = [fetch EXCEPT ![f] = NoFetch]
  /\ dial' = IF f = Dialer THEN "none" ELSE dial
  /\ UNCHANGED <<venue, sent, streaming, up, down, current, appVars, queue, disp>>

\* The answer replaces the book.
FetchStore(f) ==
  /\ fetch[f].pc = "answer"
  /\ FetchReturn(f)
  /\ Keep([book EXCEPT ![fetch[f].bk] =
       [snapshotted |-> TRUE, lastUpdateID |-> fetch[f].id, levels |-> levelMap(fetch[f].id)]])

\* Mutant: a failed request is made again, with the mutex held.
FetchFailRetries(f) ==
  /\ fetch[f].pc \in {"request", "answer"}
  /\ fetch' = [fetch EXCEPT ![f].pc = "request", ![f].id = 0]
  /\ UNCHANGED <<venue, connVars, bookVars, appVars, queue, disp>>

\* The request fails or times out: the book stays as it was.
FetchFail(f) ==
  /\ fetch[f].pc \in {"request", "answer"}
  /\ fetch' = [fetch EXCEPT ![f].pc = "failed", ![f].id = 0]
  /\ UNCHANGED <<venue, connVars, bookVars, appVars, queue, disp>>

FetchError(f) ==
  /\ fetch[f].pc = "failed"
  /\ FetchReturn(f)
  /\ Keep(book)

-----------------------------------------------------------------------------
(* The connection that carries the stream                                  *)

\* reconnLoop dials when some stream, of this symbol or of another, is there to
\* carry, and onConnect sends all of them again.  If the dial or the frame fails,
\* there is no connection as before.
Dial ==
  /\ phase = "running" /\ ~up /\ dial = "none"
  /\ up' = TRUE /\ dial' = "seed"
  /\ streaming' = subscribed
  /\ sent' = IF subscribed THEN venue ELSE 0
  /\ UNCHANGED <<venue, down, bookVars, appVars, queue, disp, fetch>>

\* snapshotDepthBooks, over the depth streams there are now.
onConnectSeed ==
  /\ dial = "seed"
  /\ IF subscribed THEN dial' = "seeding" /\ fetch' = [fetch EXCEPT ![Dialer] = Spawned]
     ELSE dial' = "none" /\ UNCHANGED fetch
  /\ UNCHANGED <<venue, sent, streaming, up, down, bookVars, appVars, queue, disp>>

\* The connection is lost, by itself or by Disconnect, and OnDisconnect is due: it
\* may run before or after the next dial.
Break ==
  /\ up /\ down = "none"
  /\ up' = FALSE /\ streaming' = FALSE /\ sent' = 0
  /\ down' = "drain"
  /\ UNCHANGED <<venue, dial, bookVars, appVars, queue, disp, fetch>>

\* onDisconnect empties the queue, then resetDepthBooks takes booksMu ...
onDisconnectDrain ==
  /\ down = "drain"
  /\ queue' = <<>>
  /\ down' = "reset"
  /\ UNCHANGED <<venue, sent, streaming, up, dial, bookVars, appVars, disp, fetch>>

\* ... and waits for the book's mutex.
resetDepthBooks ==
  /\ down = "reset" /\ ~Locked(current)
  /\ book' = [bk \in Books |->
       IF bk = current THEN NewBook ELSE book[bk]]
  /\ down' = "none"
  /\ UNCHANGED <<venue, sent, streaming, up, dial, current, appVars, queue, disp, fetch>>

\* The other connection of the perpetual market is lost: its OnDisconnect resets
\* the books of the whole market.
OtherDisconnect ==
  /\ phase = "running" /\ down = "none"
  /\ down' = "reset"
  /\ UNCHANGED <<venue, sent, streaming, up, dial, bookVars, appVars, queue, disp, fetch>>

\* The venue's book changes.
VenueUpdate ==
  /\ venue < MaxUpdates
  /\ venue' = venue + 1
  /\ UNCHANGED <<connVars, bookVars, appVars, queue, disp, fetch>>

\* A diff arrives at the read loop, which starts when onConnect has returned;
\* onMessage queues it, or drops it when the queue is full.
onMessage ==
  /\ up /\ streaming /\ dial = "none"
  /\ \E final \in sent + 1 .. venue :
       /\ sent' = final
       /\ queue' = IF Len(queue) < QueueCap
                   THEN Append(queue, [first |-> sent + 1, final |-> final]) ELSE queue
  /\ UNCHANGED <<venue, streaming, up, dial, down, bookVars, appVars, disp, fetch>>
-----------------------------------------------------------------------------
Call == SubscribeDepth \/ UnsubscribeDepth
CallRuns == AddBook \/ DeleteBook \/ SendFrame
Stop == StopClose \/ clearStreams \/ clearBooks
handleDepth(bk) == DiffUnseeded(bk) \/ DiffStale(bk) \/ DiffGap(bk) \/ DiffApply(bk)
Dispatcher == Dequeue \/ DispatcherBook \/ \E bk \in Books : handleDepth(bk)
Snapshot(f) == FetchBook(f) \/ FetchLock(f) \/ FetchAnswer(f) \/ FetchStore(f) \/ FetchFail(f) \/ FetchError(f)
onDisconnect == onDisconnectDrain \/ resetDepthBooks

Next ==
  \/ Call \/ CallRuns \/ Stop \/ Dispatcher
  \/ \E f \in Fetchers : Snapshot(f)
  \/ Dial \/ onConnectSeed \/ Break \/ onDisconnect \/ OtherDisconnect
  \/ VenueUpdate \/ onMessage

Spec == Init /\ [][Next]_vars

\* Goroutines run, and HTTP requests end, if only by their timeout.
FairSpec ==
  /\ Spec
  /\ WF_vars(onDisconnect)
  /\ WF_vars(\E f \in Fetchers : FetchAnswer(f) \/ FetchStore(f) \/ FetchError(f))
-----------------------------------------------------------------------------
(* Properties                                                              *)

\* No book that claims to be seeded has a wrong quantity anywhere, whatever diffs
\* were dropped, delayed over a reconnection or applied on top of which snapshot:
\* a level is the venue's as of lastUpdateID, or missing.
NoWrongLevel ==
  \A bk \in Books : book[bk].snapshotted => Faithful(book[bk].levels, book[bk].lastUpdateID)

\* The book in the table, seen from outside.
Synced == current # NoBook /\ book[current].snapshotted
VenueMirrored ==
  INSTANCE VenueMirror WITH
    synced <- Synced,
    at     <- IF Synced THEN book[current].lastUpdateID ELSE 0,
    levels <- IF Synced THEN book[current].levels ELSE Empty

\* The symbol's book implements the abstract mirror: in particular a snapshot never
\* takes a seeded book back to an earlier update ("diff application is serialized
\* with the snapshot"), and a diff never loses a level that was right.
ImplementsMirror == VenueMirrored!Mirror

\* OnDisconnect returns, though it takes a book's mutex inside booksMu.
OnDisconnectReturns == (down # "none") ~> (down = "none")
=============================================================================
