--------------------------- MODULE DepthBookProofs ---------------------------
(***************************************************************************)
(* No level of a seeded depth book is ever wrong: for any history of the   *)
(* venue, any number of levels and goroutines, any depth of the snapshots  *)
(* and any capacity of the queue.  And the books implement VenueMirror:    *)
(* what is seeded shows one update of the venue, which never goes back.    *)
(***************************************************************************)
EXTENDS DepthBook, TLAPS

\* A snapshot's levels are the venue's, or missing.
LEMMA SnapshotFaithful ==
  ASSUME NEW n \in 0 .. MaxUpdates
  PROVE  /\ levelMap(n) \in [Levels -> Nat]
         /\ Faithful(levelMap(n), n)
BY VenueAssumption DEF levelMap, Faithful

\* A diff that overlaps or continues what the book has, and goes beyond it, takes
\* every level that is not missing to the diff's last update.
LEMMA DiffFaithful ==
  ASSUME NEW m \in [Levels -> Nat], NEW d \in Diff, NEW last \in 0 .. MaxUpdates,
         Faithful(m, last), d.first <= last + 1, last < d.final
  PROVE  /\ applyLevels(m, d) \in [Levels -> Nat]
         /\ Faithful(applyLevels(m, d), d.final)
<1>1. d.first \in Int /\ d.final \in 0 .. MaxUpdates /\ last \in d.first - 1 .. d.final - 1
  BY VenueAssumption DEF Diff
<1>2. ASSUME NEW p \in Levels, p \notin Changed(d.first, d.final)
      PROVE  Quantity[last][p] = Quantity[d.final][p]
  BY <1>1, <1>2 DEF Changed
<1>3. \A p \in Levels : Quantity[d.final][p] \in Nat
  BY <1>1, VenueAssumption
<1> QED
  BY <1>2, <1>3 DEF applyLevels, Faithful

-----------------------------------------------------------------------------
(* The types of the objects and of the goroutines' records                 *)

\* newDepthBook makes an object of the type.
LEMMA NewBookType == NewBook \in BookOK
BY VenueAssumption DEF NewBook, BookOK, Empty

\* What is made garbage is a new book again.
LEMMA KeepType ==
  ASSUME NEW b \in [Books -> BookOK], Keep(b)
  PROVE  book' \in [Books -> BookOK]
BY NewBookType DEF Keep

\* The record of a goroutine that has a book.
LEMMA FetchHasBook ==
  ASSUME NEW f \in Fetchers, fetch \in [Fetchers -> FetchOK],
         fetch[f].pc \in {"lock", "request", "answer", "failed"}
  PROVE  /\ fetch[f].bk \in Books /\ fetch[f].id \in 0 .. MaxUpdates
<1>1. fetch[f] \in FetchOK
  OBVIOUS
<1> QED
  BY <1>1 DEF FetchOK

\* The history has an update, and a state before the first.
LEMMA UpdateRange == MaxUpdates \in Nat \ {0} /\ 0 \in 0 .. MaxUpdates
BY VenueAssumption

\* The websocket queue starts empty.
LEMMA EmptyQueue == <<>> \in Seq(Diff)
OBVIOUS

\* What stands for no diff is one by its type.
LEMMA NoDiffType == NoDiff \in Diff
BY VenueAssumption DEF NoDiff, Diff

\* The dispatcher holds a diff, or what stands for none.
LEMMA DispDiff ==
  ASSUME disp \in DispOK
  PROVE  disp.diff \in Diff
BY DEF DispOK

-----------------------------------------------------------------------------
(* The book objects: their types, and that no level is wrong               *)

BooksInv == book \in [Books -> BookOK] /\ NoWrongLevel

\* A step that gives each object the value it had, a fresh one, or a faithful one.
LEMMA BooksKept ==
  ASSUME BooksInv, NEW bk \in Books, NEW r \in BookOK,
         r.snapshotted => Faithful(r.levels, r.lastUpdateID),
         Keep([book EXCEPT ![bk] = r])
  PROVE  BooksInv'
<1>1. [book EXCEPT ![bk] = r] \in [Books -> BookOK]
  BY DEF BooksInv
<1>2. book' \in [Books -> BookOK]
  BY <1>1, KeepType
<1>3. \A b \in Books : book'[b] \in {NewBook, r, book[b]}
  BY DEF Keep, BooksInv
<1>4. ~NewBook.snapshotted
  BY DEF NewBook
<1> QED
  BY <1>2, <1>3, <1>4 DEF BooksInv, NoWrongLevel

\* A step that gives each object the value it had or a fresh one.
LEMMA BooksUntouched ==
  ASSUME BooksInv, Keep(book) \/ UNCHANGED book
  PROVE  BooksInv'
<1>1. book' \in [Books -> BookOK]
  BY KeepType DEF BooksInv
<1>2. \A b \in Books : book'[b] \in {NewBook, book[b]}
  BY DEF Keep, BooksInv
<1>3. ~NewBook.snapshotted
  BY DEF NewBook
<1> QED
  BY <1>1, <1>2, <1>3 DEF BooksInv, NoWrongLevel

\* The dispatcher's critical section.
LEMMA DiffKeepsBooks ==
  ASSUME TypeOK, BooksInv, NEW bk \in Books, handleDepth(bk)
  PROVE  BooksInv'
<1>1. CASE DiffUnseeded(bk) \/ DiffStale(bk)
  BY <1>1, BooksUntouched DEF DiffUnseeded, DiffStale
<1>2. CASE DiffGap(bk)
  <2>1. ~NewBook.snapshotted
    BY DEF NewBook
  <2> QED
    BY <1>2, <2>1, NewBookType, BooksKept DEF DiffGap
<1>3. CASE DiffApply(bk)
  <2> DEFINE r == [book[bk] EXCEPT !.levels = applyLevels(@, disp.diff),
                                   !.lastUpdateID = disp.diff.final]
  <2>1. disp.diff \in Diff
    BY DispDiff DEF TypeOK
  <2>2. /\ book[bk] \in BookOK
        /\ book[bk].lastUpdateID \in 0 .. MaxUpdates /\ book[bk].levels \in [Levels -> Nat]
    BY DEF BooksInv, BookOK
  <2>3. disp.diff.first \in Int /\ disp.diff.final \in 0 .. MaxUpdates /\ disp.diff.final \in Int
    BY <2>1, VenueAssumption DEF Diff
  <2>4. /\ Faithful(book[bk].levels, book[bk].lastUpdateID)
        /\ disp.diff.first <= book[bk].lastUpdateID + 1
        /\ book[bk].lastUpdateID < disp.diff.final
    BY <1>3, <2>2, <2>3, VenueAssumption DEF DiffApply, Stale, Gap, BooksInv, NoWrongLevel
  <2>5. /\ applyLevels(book[bk].levels, disp.diff) \in [Levels -> Nat]
        /\ Faithful(applyLevels(book[bk].levels, disp.diff), disp.diff.final)
    BY <2>1, <2>2, <2>4, DiffFaithful
  <2>6. /\ r \in BookOK
        /\ r.levels = applyLevels(book[bk].levels, disp.diff)
        /\ r.lastUpdateID = disp.diff.final
    BY <2>2, <2>3, <2>5 DEF BookOK
  <2>7. Keep([book EXCEPT ![bk] = r])
    BY <1>3 DEF DiffApply
  <2> HIDE DEF r
  <2> QED
    BY <2>5, <2>6, <2>7, BooksKept
<1> QED
  BY <1>1, <1>2, <1>3 DEF handleDepth

\* A snapshot's critical section.
LEMMA SnapshotKeepsBooks ==
  ASSUME TypeOK, BooksInv, NEW f \in Fetchers, Snapshot(f)
  PROVE  BooksInv'
<1>1. CASE FetchBook(f) \/ FetchLock(f) \/ FetchAnswer(f) \/ FetchFail(f) \/ FetchError(f)
  BY <1>1, BooksUntouched
  DEF FetchBook, FetchLock, FetchAnswer, FetchFail, FetchError, bookFor, bookVars
<1>2. CASE FetchStore(f)
  <2> DEFINE r == [snapshotted |-> TRUE, lastUpdateID |-> fetch[f].id,
                   levels |-> levelMap(fetch[f].id)]
  <2>1. fetch[f].bk \in Books /\ fetch[f].id \in 0 .. MaxUpdates
    BY <1>2, FetchHasBook DEF FetchStore, TypeOK
  <2>2. r \in BookOK /\ Faithful(r.levels, r.lastUpdateID)
    BY <2>1, SnapshotFaithful DEF BookOK
  <2>3. Keep([book EXCEPT ![fetch[f].bk] = r])
    BY <1>2 DEF FetchStore
  <2> HIDE DEF r
  <2> QED
    BY <2>1, <2>2, <2>3, BooksKept
<1> QED
  BY <1>1, <1>2 DEF Snapshot

\* A level of a seeded book is the venue's or missing, and the objects have their type.
LEMMA BooksStep == TypeOK /\ BooksInv /\ [Next]_vars => BooksInv'
<1> SUFFICES ASSUME TypeOK, BooksInv, [Next]_vars PROVE BooksInv'
  OBVIOUS
<1>1. CASE Call \/ CallRuns \/ Stop \/ Dequeue \/ DispatcherBook
  BY <1>1, BooksUntouched
  DEF Call, CallRuns, Stop, SubscribeDepth, UnsubscribeDepth, AddBook, DeleteBook, SendFrame,
      StopClose, clearStreams, clearBooks, Dequeue, DispatcherBook, bookFor, bookVars
<1>2. ASSUME NEW bk \in Books, handleDepth(bk) PROVE BooksInv'
  BY <1>2, DiffKeepsBooks
<1>3. ASSUME NEW f \in Fetchers, Snapshot(f) PROVE BooksInv'
  BY <1>3, SnapshotKeepsBooks
<1>4. CASE resetDepthBooks
  <2>1. book' \in [Books -> BookOK]
    BY <1>4, NewBookType DEF resetDepthBooks, BooksInv
  <2>2. \A b \in Books : book'[b] \in {NewBook, book[b]}
    BY <1>4 DEF resetDepthBooks
  <2>3. ~NewBook.snapshotted
    BY DEF NewBook
  <2> QED
    BY <2>1, <2>2, <2>3 DEF BooksInv, NoWrongLevel
<1>5. CASE \/ Dial \/ onConnectSeed \/ Break \/ onDisconnectDrain \/ OtherDisconnect
           \/ VenueUpdate \/ onMessage \/ UNCHANGED vars
  BY <1>5, BooksUntouched
  DEF Dial, onConnectSeed, Break, onDisconnectDrain, OtherDisconnect, VenueUpdate, onMessage,
      vars, bookVars
<1> QED
  BY <1>1, <1>2, <1>3, <1>4, <1>5 DEF Next, Dispatcher, onDisconnect

-----------------------------------------------------------------------------
(* The types of everything else                                            *)

ControlOK ==
  /\ current \in MaybeBook
  /\ disp \in DispOK
  /\ fetch \in [Fetchers -> FetchOK]

WorldOK ==
  /\ venue \in 0 .. MaxUpdates /\ sent \in 0 .. MaxUpdates
  /\ streaming \in BOOLEAN /\ up \in BOOLEAN
  /\ dial \in {"none", "seed", "seeding"}
  /\ down \in {"none", "drain", "reset"}
  /\ subscribed \in BOOLEAN
  /\ queue \in Seq(Diff)
  /\ caller \in [pc : {"idle", "add", "delete", "subscribe", "unsubscribe"}, send : BOOLEAN]
  /\ phase \in {"running", "closed", "cleared", "stopped"}

\* The type invariant in three parts: control, the world outside, and the objects.
LEMMA TypeParts == TypeOK <=> ControlOK /\ WorldOK /\ book \in [Books -> BookOK]
BY DEF TypeOK, ControlOK, WorldOK

\* A goroutine takes a book object together with the state in which it has one.
LEMMA ControlStep == TypeOK /\ [Next]_vars => ControlOK'
<1> SUFFICES ASSUME ControlOK, WorldOK, [Next]_vars PROVE ControlOK'
  BY TypeParts
<1> USE DEF ControlOK, MaybeBook, bookVars, connVars, appVars
<1>1. CASE Call \/ CallRuns \/ Stop
  BY <1>1
  DEF Call, CallRuns, Stop, SubscribeDepth, UnsubscribeDepth, AddBook, DeleteBook, SendFrame,
      StopClose, clearStreams, clearBooks, bookFor
<1>2. CASE Dequeue
  <2>1. Waiting \in DispOK /\ \A d \in Diff : [Waiting EXCEPT !.pc = "bookFor", !.diff = d] \in DispOK
    BY NoDiffType DEF Waiting, DispOK
  <2>2. Head(queue) \in Diff
    BY <1>2 DEF Dequeue, WorldOK
  <2> QED
    BY <1>2, <2>1, <2>2 DEF Dequeue
<1>3. CASE DispatcherBook
  BY <1>3 DEF DispatcherBook, DispOK, bookFor
<1>4. ASSUME NEW bk \in Books, handleDepth(bk) PROVE ControlOK'
  <2>1. disp' = Waiting /\ UNCHANGED current /\ (UNCHANGED fetch \/ SpawnSnapshot)
    BY <1>4 DEF handleDepth, DiffUnseeded, DiffStale, DiffGap, DiffApply, HandlerReturns
  <2>2. Waiting \in DispOK
    BY NoDiffType DEF Waiting, DispOK
  <2>3. fetch' \in [Fetchers -> FetchOK]
    BY <2>1 DEF SpawnSnapshot, Spawned, NoFetch, FetchOK, Fetchers
  <2> QED
    BY <2>1, <2>2, <2>3
<1>5. ASSUME NEW f \in Fetchers, Snapshot(f) PROVE ControlOK'
  <2> USE DEF FetchOK
  <2>1. CASE FetchBook(f)
    <3>1. PICK bk \in Books : /\ bookFor(bk)
                             /\ fetch' = [fetch EXCEPT ![f].pc = "lock", ![f].bk = bk]
      BY <2>1 DEF FetchBook
    <3>2. current' \in MaybeBook
      BY <3>1 DEF bookFor
    <3>3. fetch[f] \in FetchOK /\ fetch[f].pc = "bookFor"
      BY <2>1 DEF FetchBook
    <3>4. fetch[f].id \in 0 .. MaxUpdates
      BY <3>3, UpdateRange
    <3>5. [fetch[f] EXCEPT !.pc = "lock", !.bk = bk] \in FetchOK
      BY <3>3, <3>4
    <3> QED
      BY <2>1, <3>1, <3>2, <3>5 DEF FetchBook
  <2>2. CASE FetchLock(f)
    BY <1>5, <2>2 DEF FetchLock
  <2>3. CASE FetchAnswer(f)
    BY <1>5, <2>3, ZenonT(60) DEF FetchAnswer, WorldOK
  <2>4. CASE FetchStore(f) \/ FetchError(f)
    <3>1. NoFetch \in FetchOK
      BY DEF NoFetch
    <3>2. /\ fetch' = [fetch EXCEPT ![f] = NoFetch]
          /\ UNCHANGED <<current, disp>>
      BY <2>4 DEF FetchStore, FetchError, FetchReturn
    <3> QED
      BY <3>1, <3>2
  <2>5. CASE FetchFail(f)
    BY <1>5, <2>5, UpdateRange, ZenonT(60) DEF FetchFail
  <2> QED
    BY <1>5, <2>1, <2>2, <2>3, <2>4, <2>5 DEF Snapshot
<1>6. CASE onConnectSeed
  BY <1>6 DEF onConnectSeed, FetchOK, Spawned, NoFetch
<1>7. CASE \/ Dial \/ Break \/ onDisconnect \/ OtherDisconnect
           \/ VenueUpdate \/ onMessage \/ UNCHANGED vars
  BY <1>7
  DEF Dial, Break, onDisconnect, onDisconnectDrain, resetDepthBooks, OtherDisconnect,
      VenueUpdate, onMessage, vars
<1> QED
  BY <1>1, <1>2, <1>3, <1>4, <1>5, <1>6, <1>7 DEF Next, Dispatcher

\* The queue holds diffs of the venue's updates, and so on.
LEMMA WorldStep == TypeOK /\ [Next]_vars => WorldOK'
<1> SUFFICES ASSUME ControlOK, WorldOK, [Next]_vars PROVE WorldOK'
  BY TypeParts
<1> USE DEF WorldOK, connVars, appVars
<1>1. CASE Call
  <2>1. subscribed' \in BOOLEAN
    BY <1>1 DEF Call, SubscribeDepth, UnsubscribeDepth
  <2>2. PICK p \in {"add", "delete"}, s \in BOOLEAN : caller' = [pc |-> p, send |-> s]
    BY <1>1 DEF Call, SubscribeDepth, UnsubscribeDepth
  <2>3. /\ caller' \in [pc : {"idle", "add", "delete", "subscribe", "unsubscribe"}, send : BOOLEAN]
    BY <2>2
  <2> QED
    BY <1>1, <2>1, <2>3 DEF Call, SubscribeDepth, UnsubscribeDepth
<1>2. CASE AddBook
  BY <1>2 DEF AddBook, NoCall
<1>3. CASE DeleteBook
  BY <1>3 DEF DeleteBook, NoCall
<1>4. CASE SendFrame
  BY <1>4, UpdateRange DEF SendFrame, NoCall
<1>5. CASE Stop
  BY <1>5, UpdateRange DEF Stop, StopClose, clearStreams, clearBooks
<1>6. CASE Dequeue
  BY <1>6 DEF Dequeue
<1>7. CASE DispatcherBook
  BY <1>7 DEF DispatcherBook
<1>8. ASSUME NEW bk \in Books, handleDepth(bk) PROVE WorldOK'
  BY <1>8 DEF handleDepth, DiffUnseeded, DiffStale, DiffGap, DiffApply, HandlerReturns
<1>9. ASSUME NEW f \in Fetchers, Snapshot(f) PROVE WorldOK'
  BY <1>9
  DEF Snapshot, FetchBook, FetchLock, FetchAnswer, FetchStore, FetchFail, FetchError, FetchReturn
<1>10. CASE Dial \/ onConnectSeed \/ Break \/ OtherDisconnect
  BY <1>10, UpdateRange DEF Dial, onConnectSeed, Break, OtherDisconnect
<1>11. CASE onDisconnect
  BY <1>11, EmptyQueue DEF onDisconnect, onDisconnectDrain, resetDepthBooks
<1>12. CASE VenueUpdate
  BY <1>12, UpdateRange DEF VenueUpdate
<1>13. CASE onMessage
  <2>1. PICK final \in sent + 1 .. venue :
          /\ sent' = final
          /\ queue' = IF Len(queue) < QueueCap
                      THEN Append(queue, [first |-> sent + 1, final |-> final]) ELSE queue
    BY <1>13 DEF onMessage
  <2>2. final \in 1 .. MaxUpdates /\ [first |-> sent + 1, final |-> final] \in Diff
    BY UpdateRange DEF Diff
  <2>3. queue' \in Seq(Diff) /\ sent' \in 0 .. MaxUpdates
    BY <2>1, <2>2
  <2> QED
    BY <1>13, <2>3 DEF onMessage
<1>14. CASE UNCHANGED vars
  BY <1>14 DEF vars
<1> QED
  BY <1>1, <1>2, <1>3, <1>4, <1>5, <1>6, <1>7, <1>8, <1>9, <1>10, <1>11, <1>12, <1>13, <1>14
  DEF Next, Dispatcher, CallRuns

-----------------------------------------------------------------------------
(* The theorems                                                            *)

\* The connector starts with nothing seeded.
LEMMA DepthInit == Init => TypeOK /\ NoWrongLevel
<1> SUFFICES ASSUME Init PROVE TypeOK /\ NoWrongLevel
  OBVIOUS
<1>1. book \in [Books -> BookOK] /\ NoWrongLevel
  BY NewBookType DEF Init, NewBook, NoWrongLevel
<1>2. Waiting \in DispOK /\ NoFetch \in FetchOK
  BY NoDiffType DEF Waiting, DispOK, NoFetch, FetchOK
<1>3. ControlOK
  BY <1>2 DEF Init, ControlOK, MaybeBook
<1>4. WorldOK
  BY UpdateRange, EmptyQueue DEF Init, WorldOK, NoCall
<1> QED
  BY <1>1, <1>3, <1>4, TypeParts

\* Every step keeps the types and the levels.
LEMMA DepthStep == TypeOK /\ NoWrongLevel /\ [Next]_vars => (TypeOK /\ NoWrongLevel)'
<1> SUFFICES ASSUME TypeOK, NoWrongLevel, [Next]_vars PROVE TypeOK' /\ NoWrongLevel'
  OBVIOUS
<1>1. BooksInv'
  BY BooksStep, TypeParts DEF BooksInv
<1>2. TypeOK'
  BY <1>1, ControlStep, WorldStep DEF TypeOK, ControlOK, WorldOK, BooksInv
<1> QED
  BY <1>1, <1>2 DEF BooksInv

\* Every goroutine that waits for a book's mutex has a book, and every other variable
\* its type (bookFor never hands out nil).
THEOREM DepthTypeCorrect == Spec => []TypeOK
<1> QED
  BY DepthInit, DepthStep, PTL DEF Spec

\* The sequencing of handleDepth and the snapshots is right: whatever is dropped,
\* delayed, reset or fetched meanwhile, a seeded book has no wrong level.
THEOREM BookNeverWrong == Spec => []NoWrongLevel
<1> QED
  BY DepthInit, DepthStep, PTL DEF Spec

-----------------------------------------------------------------------------
(* The book implements the mirror                                          *)

InRequest(f) == fetch[f].pc \in {"request", "answer", "failed"}

\* Nothing speaks of an update that the venue has not made.
InThePast ==
  /\ sent <= venue
  /\ \A i \in 1 .. Len(queue) : queue[i].final <= venue
  /\ disp.pc # "idle" => disp.diff.final <= venue
  /\ \A bk \in Books : book[bk].snapshotted => book[bk].lastUpdateID <= venue
  /\ \A f \in Fetchers : fetch[f].pc = "answer" => fetch[f].id <= venue

\* One request at a time holds a book, and no diff gets past the answer it waits for.
Serialized ==
  /\ \A f, g \in Fetchers : f # g /\ InRequest(f) /\ InRequest(g) => fetch[f].bk # fetch[g].bk
  /\ \A f \in Fetchers : fetch[f].pc = "answer" /\ book[fetch[f].bk].snapshotted =>
       book[fetch[f].bk].lastUpdateID <= fetch[f].id

\* A book object that nothing refers to holds nothing when it is made again, and the
\* dialer forgets no book: it seeds them for one onConnect at a time.
GarbageIsNew == \A bk \in Books : Unused(bk) => book[bk] = NewBook
OneSeeding == fetch[Dialer].pc # "none" => dial = "seeding"

MirrorInv == InThePast /\ Serialized /\ GarbageIsNew /\ OneSeeding

\* A goroutine without a book object refers to none, and NoBook is none.
LEMMA NoReference ==
  ASSUME TypeOK
  PROVE  /\ disp.pc # "lock" => disp.bk = NoBook
         /\ \A f \in Fetchers : fetch[f].pc \in {"none", "bookFor"} => fetch[f].bk = NoBook
         /\ NoBook \notin Books
<1>1. disp.pc # "lock" => disp.bk = NoBook
  BY DEF TypeOK, DispOK
<1>2. ASSUME NEW f \in Fetchers, fetch[f].pc \in {"none", "bookFor"} PROVE fetch[f].bk = NoBook
  <2>1. fetch[f] \in FetchOK
    BY DEF TypeOK
  <2> QED
    BY <1>2, <2>1 DEF FetchOK
<1> QED
  BY <1>1, <1>2, DepthAssumption

\* A step that takes no reference away keeps the garbage as it is.
LEMMA GarbageKept ==
  ASSUME GarbageIsNew, \A bk \in Books : Unused(bk)' => Unused(bk), UNCHANGED book
  PROVE  GarbageIsNew'
BY DEF GarbageIsNew

\* A step that takes some away makes new books of what nothing refers to any more.
LEMMA GarbageCollected ==
  ASSUME NEW b, Keep(b)
  PROVE  GarbageIsNew'
<1>1. \A bk \in Books : Unused(bk)' => book'[bk] = NewBook
  BY DEF Keep
<1> QED
  BY <1>1 DEF GarbageIsNew

\* A step that leaves what refers to the objects alone leaves the garbage alone.
LEMMA SameReferences ==
  ASSUME UNCHANGED <<current, disp, fetch>>
  PROVE  \A bk \in Books : Unused(bk)' <=> Unused(bk)
BY DEF Unused

\* The object that bookFor hands out is the one in the table afterwards.
LEMMA BookForRefers ==
  ASSUME TypeOK, NEW bk \in Books, bookFor(bk)
  PROVE  /\ current' = bk /\ UNCHANGED book
         /\ \A c \in Books : c = current => c = current'
<1>1. current' = bk /\ UNCHANGED book
  BY DEF bookFor, bookVars
<1>2. current = NoBook \/ current = current'
  BY <1>1 DEF bookFor
<1> QED
  BY <1>1, <1>2, DepthAssumption

\* Every step leaves the objects that nothing refers to new.
LEMMA GarbageStep == TypeOK /\ OneSeeding /\ GarbageIsNew /\ [Next]_vars => GarbageIsNew'
<1> SUFFICES ASSUME TypeOK, OneSeeding, GarbageIsNew, [Next]_vars PROVE GarbageIsNew'
  OBVIOUS
<1>1. CASE \/ UNCHANGED <<current, disp, fetch, book>>
           \/ (\E b : Keep(b))
  <2>1. CASE UNCHANGED <<current, disp, fetch, book>>
    BY <2>1, SameReferences, GarbageKept
  <2> QED
    BY <1>1, <2>1, GarbageCollected
<1>2. CASE AddBook
  <2>1. PICK bk \in Books : bookFor(bk)
    BY <1>2 DEF AddBook
  <2>2. UNCHANGED <<disp, fetch>>
    BY <1>2 DEF AddBook
  <2> QED
    BY <2>1, <2>2, BookForRefers, GarbageKept DEF Unused
<1>3. CASE Dequeue
  <2>1. UNCHANGED <<current, fetch, book>>
    BY <1>3 DEF Dequeue, bookVars
  <2>2. disp.bk = NoBook
    BY <1>3, NoReference DEF Dequeue
  <2> QED
    BY <2>1, <2>2, NoReference, GarbageKept DEF Unused
<1>4. CASE DispatcherBook
  <2>1. PICK bk \in Books : bookFor(bk) /\ disp' = [disp EXCEPT !.pc = "lock", !.bk = bk]
    BY <1>4 DEF DispatcherBook
  <2>2. disp.bk = NoBook /\ UNCHANGED fetch
    BY <1>4, NoReference DEF DispatcherBook
  <2> QED
    BY <2>1, <2>2, NoReference, BookForRefers, GarbageKept DEF Unused
<1>5. ASSUME NEW f \in Fetchers, FetchBook(f) PROVE GarbageIsNew'
  <2>1. PICK bk \in Books : bookFor(bk) /\ fetch' = [fetch EXCEPT ![f].pc = "lock", ![f].bk = bk]
    BY <1>5 DEF FetchBook
  <2>2. fetch[f].bk = NoBook /\ UNCHANGED disp
    BY <1>5, NoReference DEF FetchBook
  <2>3. \A g \in Fetchers : g # f => fetch'[g] = fetch[g]
    BY <2>1 DEF TypeOK
  <2> QED
    BY <2>1, <2>2, <2>3, NoReference, BookForRefers, GarbageKept DEF Unused
<1>6. ASSUME NEW f \in Fetchers, FetchLock(f) \/ FetchAnswer(f) \/ FetchFail(f)
      PROVE  GarbageIsNew'
  <2>1. UNCHANGED <<current, book, disp>>
    BY <1>6 DEF FetchLock, FetchAnswer, FetchFail, bookVars
  <2>2. \A g \in Fetchers : fetch'[g].bk = fetch[g].bk
    BY <1>6 DEF FetchLock, FetchAnswer, FetchFail, TypeOK, FetchOK
  <2> QED
    BY <2>1, <2>2, GarbageKept DEF Unused
<1>7. CASE onConnectSeed
  <2>1. UNCHANGED <<current, book, disp>>
    BY <1>7 DEF onConnectSeed, bookVars
  <2>2. fetch[Dialer].pc = "none"
    BY <1>7 DEF onConnectSeed, OneSeeding
  <2>3. Dialer \in Fetchers /\ fetch[Dialer].bk = NoBook
    BY <2>2, NoReference DEF Fetchers
  <2>4. \A g \in Fetchers : fetch'[g].bk = fetch[g].bk
    BY <1>7, <2>3 DEF onConnectSeed, TypeOK, Spawned, NoFetch
  <2> QED
    BY <2>1, <2>4, GarbageKept DEF Unused
<1>8. CASE resetDepthBooks
  <2>1. UNCHANGED <<current, disp, fetch>>
    BY <1>8 DEF resetDepthBooks
  <2>2. \A bk \in Books : book'[bk] \in {NewBook, book[bk]}
    BY <1>8 DEF resetDepthBooks
  <2> QED
    BY <2>1, <2>2, SameReferences DEF GarbageIsNew
<1>9. CASE \/ Call \/ SendFrame \/ StopClose \/ clearStreams \/ Dial \/ Break
           \/ onDisconnectDrain \/ OtherDisconnect \/ VenueUpdate \/ onMessage \/ UNCHANGED vars
  BY <1>1, <1>9
  DEF Call, SubscribeDepth, UnsubscribeDepth, SendFrame, StopClose, clearStreams, Dial, Break,
      onDisconnectDrain, OtherDisconnect, VenueUpdate, onMessage, vars, bookVars
<1>10. ASSUME \/ DeleteBook \/ clearBooks \/ \E bk \in Books : handleDepth(bk)
              \/ \E f \in Fetchers : FetchStore(f) \/ FetchError(f)
       PROVE  GarbageIsNew'
  BY <1>1, <1>10
  DEF DeleteBook, clearBooks, handleDepth, DiffUnseeded, DiffStale, DiffGap, DiffApply,
      FetchStore, FetchError
<1> QED
  BY <1>2, <1>3, <1>4, <1>5, <1>6, <1>7, <1>8, <1>9, <1>10
  DEF Next, CallRuns, Stop, Dispatcher, Snapshot, onDisconnect

\* The dialer is seeding from onConnect until its last snapshot is there.
LEMMA SeedingStep == TypeOK /\ OneSeeding /\ [Next]_vars => OneSeeding'
<1> SUFFICES ASSUME TypeOK, OneSeeding, [Next]_vars PROVE OneSeeding'
  OBVIOUS
<1> USE DEF OneSeeding
<1>1. Dialer \in Fetchers /\ Dialer \notin Goroutines /\ fetch \in [Fetchers -> FetchOK]
  BY DepthAssumption DEF Fetchers, TypeOK
<1>2. ASSUME NEW bk \in Books, handleDepth(bk) PROVE OneSeeding'
  <2>1. UNCHANGED dial /\ (UNCHANGED fetch \/ SpawnSnapshot)
    BY <1>2 DEF handleDepth, DiffUnseeded, DiffStale, DiffGap, DiffApply, HandlerReturns, connVars
  <2> QED
    BY <1>1, <2>1 DEF SpawnSnapshot
<1>3. ASSUME NEW f \in Fetchers, Snapshot(f) PROVE OneSeeding'
  <2>1. CASE FetchStore(f) \/ FetchError(f)
    BY <1>1, <2>1 DEF FetchStore, FetchError, FetchReturn, NoFetch
  <2>2. CASE FetchBook(f) \/ FetchLock(f) \/ FetchAnswer(f) \/ FetchFail(f)
    <3>1. /\ UNCHANGED dial /\ fetch[f].pc # "none"
          /\ \A g \in Fetchers : g # f => fetch'[g] = fetch[g]
      BY <1>1, <2>2 DEF FetchBook, FetchLock, FetchAnswer, FetchFail, connVars
    <3> QED
      BY <1>1, <3>1
  <2> QED
    BY <1>3, <2>1, <2>2 DEF Snapshot
<1>4. CASE onConnectSeed
  BY <1>1, <1>4 DEF onConnectSeed
<1>5. CASE Dial
  BY <1>1, <1>5 DEF Dial
<1>6. CASE \/ Call \/ CallRuns \/ Stop \/ Dequeue \/ DispatcherBook \/ Break \/ onDisconnect
           \/ OtherDisconnect \/ VenueUpdate \/ onMessage \/ UNCHANGED vars
  BY <1>6
  DEF Call, CallRuns, Stop, SubscribeDepth, UnsubscribeDepth, AddBook, DeleteBook, SendFrame,
      StopClose, clearStreams, clearBooks, Dequeue, DispatcherBook, Break, onDisconnect,
      onDisconnectDrain, resetDepthBooks, OtherDisconnect, VenueUpdate, onMessage, vars, connVars
<1> QED
  BY <1>2, <1>3, <1>4, <1>5, <1>6 DEF Next, Dispatcher

\* The numbers that the venue's updates are compared with are numbers.
LEMMA Numbered ==
  ASSUME TypeOK
  PROVE  /\ venue \in Int /\ sent \in Int
         /\ queue \in Seq(Diff) /\ \A i \in 1 .. Len(queue) : queue[i] \in Diff
         /\ \A d \in Diff : d.final \in Int /\ d.first \in Int
         /\ disp.diff \in Diff
         /\ \A bk \in Books : book[bk].lastUpdateID \in Int
         /\ \A f \in Fetchers : fetch[f].pc = "answer" => fetch[f].bk \in Books /\ fetch[f].id \in Int
<1>1. /\ venue \in Int /\ sent \in Int /\ queue \in Seq(Diff)
      /\ \A d \in Diff : d.final \in Int /\ d.first \in Int
  BY UpdateRange DEF TypeOK, Diff
<1>2. \A i \in 1 .. Len(queue) : queue[i] \in Diff
  BY <1>1
<1>3. disp.diff \in Diff
  BY DispDiff DEF TypeOK
<1>4. \A bk \in Books : book[bk].lastUpdateID \in Int
  BY UpdateRange DEF TypeOK, BookOK
<1>5. \A f \in Fetchers : fetch[f].pc = "answer" => fetch[f].bk \in Books /\ fetch[f].id \in Int
  BY FetchHasBook, UpdateRange DEF TypeOK
<1> QED
  BY <1>1, <1>2, <1>3, <1>4, <1>5

\* What a step that keeps or renews books and answers leaves in the past.
LEMMA PastKept ==
  ASSUME TypeOK, InThePast, venue' = venue \/ venue' = venue + 1,
         sent' <= venue',
         \A i \in 1 .. Len(queue') : queue'[i].final <= venue',
         disp'.pc # "idle" => disp'.diff.final <= venue',
         \A bk \in Books : \/ book'[bk] \in {book[bk], NewBook}
                           \/ book'[bk].lastUpdateID <= venue',
         \A f \in Fetchers : fetch'[f].pc = "answer" => fetch'[f] = fetch[f] \/ fetch'[f].id <= venue'
  PROVE  InThePast'
<1>1. venue \in Int /\ venue' \in Int /\ venue <= venue'
  BY Numbered
<1>2. ~NewBook.snapshotted
  BY DEF NewBook
<1>3. \A bk \in Books : book'[bk].snapshotted => book'[bk].lastUpdateID <= venue'
  BY <1>1, <1>2, Numbered DEF InThePast
<1>4. \A f \in Fetchers : fetch'[f].pc = "answer" => fetch'[f].id <= venue'
  BY <1>1, Numbered DEF InThePast
<1> QED
  BY <1>3, <1>4 DEF InThePast

\* The venue's updates only count up, and the stream, the queue, the dispatcher and the
\* answers take their numbers from them.
LEMMA PastStep == TypeOK /\ InThePast /\ [Next]_vars => InThePast'
<1> SUFFICES ASSUME TypeOK, InThePast, [Next]_vars PROVE InThePast'
  OBVIOUS
<1>1. /\ sent <= venue /\ \A i \in 1 .. Len(queue) : queue[i].final <= venue
      /\ disp.pc # "idle" => disp.diff.final <= venue
  BY DEF InThePast
<1>2. fetch \in [Fetchers -> FetchOK]
  BY DEF TypeOK
<1>3. ASSUME UNCHANGED <<venue, book, fetch>>, sent' \in {sent, 0, venue},
             queue' \in {queue, <<>>},
             UNCHANGED disp \/ (disp'.pc # "idle" => disp.pc # "idle" /\ disp'.diff = disp.diff)
      PROVE  InThePast'
  <2>1. sent' <= venue
    BY <1>1, <1>3, UpdateRange DEF TypeOK
  <2>2. \A i \in 1 .. Len(queue') : queue'[i].final <= venue
    BY <1>1, <1>3
  <2> QED
    BY <1>1, <1>3, <2>1, <2>2, PastKept
<1>4. CASE Call \/ AddBook \/ SendFrame \/ StopClose \/ clearStreams \/ DispatcherBook
             \/ Dial \/ Break \/ onDisconnectDrain \/ OtherDisconnect \/ UNCHANGED vars
  BY <1>3, <1>4
  DEF Call, SubscribeDepth, UnsubscribeDepth, AddBook, SendFrame, StopClose, clearStreams,
      DispatcherBook, bookFor, Dial, Break, onDisconnectDrain, OtherDisconnect, vars, bookVars,
      connVars, TypeOK, DispOK
<1>5. ASSUME UNCHANGED <<venue, sent, queue>>, UNCHANGED disp \/ disp' = Waiting,
             Keep(book) \/ UNCHANGED book,
             \A f \in Fetchers : fetch'[f].pc = "answer" => fetch'[f] = fetch[f]
      PROVE  InThePast'
  <2>1. \A bk \in Books : book'[bk] \in {book[bk], NewBook}
    BY <1>5 DEF Keep
  <2>2. disp'.pc # "idle" => disp'.diff.final <= venue'
    BY <1>1, <1>5 DEF Waiting
  <2> QED
    BY <1>1, <1>5, <2>1, <2>2, PastKept
<1>6. CASE DeleteBook \/ clearBooks
  BY <1>5, <1>6 DEF DeleteBook, clearBooks, connVars
<1>7. CASE Dequeue
  <2>1. /\ UNCHANGED <<venue, sent, book, fetch>> /\ queue # <<>> /\ queue' = Tail(queue)
        /\ disp'.pc # "idle" => disp'.diff = queue[1]
    BY <1>7 DEF Dequeue, connVars, bookVars, Waiting
  <2>2. \A i \in 1 .. Len(queue') : queue'[i].final <= venue
    BY <1>1, <2>1, Numbered
  <2>3. disp'.pc # "idle" => disp'.diff.final <= venue
    BY <1>1, <2>1, Numbered
  <2> QED
    BY <1>1, <2>1, <2>2, <2>3, PastKept
<1>8. ASSUME NEW bk \in Books, handleDepth(bk) PROVE InThePast'
  <2>1. /\ UNCHANGED <<venue, sent, queue>> /\ disp' = Waiting
        /\ UNCHANGED fetch \/ SpawnSnapshot
    BY <1>8 DEF handleDepth, DiffUnseeded, DiffStale, DiffGap, DiffApply, HandlerReturns, connVars
  <2>2. \A f \in Fetchers : fetch'[f].pc = "answer" => fetch'[f] = fetch[f]
    BY <1>2, <2>1 DEF SpawnSnapshot, Spawned, NoFetch
  <2>3. \A b \in Books : book'[b] \in {book[b], NewBook} \/ book'[b].lastUpdateID <= venue'
    <3>1. CASE DiffUnseeded(bk) \/ DiffStale(bk)
      BY <3>1 DEF DiffUnseeded, DiffStale, Keep
    <3>2. CASE DiffGap(bk)
      BY <3>2 DEF DiffGap, Keep, TypeOK
    <3>3. CASE DiffApply(bk)
      <4>1. /\ disp.diff.final <= venue /\ venue' = venue
            /\ \A b \in Books : book'[b] = NewBook \/ (b # bk /\ book'[b] = book[b])
                                \/ (b = bk /\ book'[b].lastUpdateID = disp.diff.final)
        BY <1>1, <2>1, <3>3 DEF DiffApply, Holds, Keep, TypeOK, BookOK
      <4> QED
        BY <4>1
    <3> QED
      BY <1>8, <3>1, <3>2, <3>3 DEF handleDepth
  <2>4. disp'.pc = "idle"
    BY <2>1 DEF Waiting
  <2> QED
    BY <1>1, <2>1, <2>2, <2>3, <2>4, PastKept
<1>9. ASSUME NEW f \in Fetchers, Snapshot(f) PROVE InThePast'
  <2>1. UNCHANGED <<venue, sent, queue, disp>>
    BY <1>9
    DEF Snapshot, FetchBook, FetchLock, FetchAnswer, FetchStore, FetchFail, FetchError, FetchReturn,
        connVars
  <2>2. CASE FetchBook(f) \/ FetchLock(f) \/ FetchFail(f)
    <3>1. \A g \in Fetchers : fetch'[g].pc = "answer" => fetch'[g] = fetch[g]
      BY <1>2, <2>2 DEF FetchBook, FetchLock, FetchFail, FetchOK
    <3>2. UNCHANGED book
      BY <2>2 DEF FetchBook, FetchLock, FetchFail, bookFor, bookVars
    <3> QED
      BY <1>5, <2>1, <3>1, <3>2
  <2>3. CASE FetchAnswer(f)
    <3>1. \A g \in Fetchers : fetch'[g].pc = "answer" => fetch'[g] = fetch[g] \/ fetch'[g].id <= venue
      BY <1>2, <2>3, Numbered DEF FetchAnswer, FetchOK
    <3>2. UNCHANGED book
      BY <2>3 DEF FetchAnswer, bookVars
    <3> QED
      BY <1>1, <2>1, <3>1, <3>2, PastKept
  <2>4. CASE FetchError(f)
    <3>1. \A g \in Fetchers : fetch'[g].pc = "answer" => fetch'[g] = fetch[g]
      BY <1>2, <2>4 DEF FetchError, FetchReturn, NoFetch
    <3> QED
      BY <1>5, <2>1, <2>4, <3>1 DEF FetchError
  <2>5. CASE FetchStore(f)
    <3>1. \A g \in Fetchers : fetch'[g].pc = "answer" => fetch'[g] = fetch[g]
      BY <1>2, <2>5 DEF FetchStore, FetchReturn, NoFetch
    <3>2. fetch[f].id <= venue
      BY <2>5 DEF FetchStore, InThePast
    <3>3. \A b \in Books : book'[b] \in {book[b], NewBook} \/ book'[b].lastUpdateID <= venue
      BY <2>5, <3>2 DEF FetchStore, Keep, TypeOK
    <3> QED
      BY <1>1, <2>1, <3>1, <3>3, PastKept
  <2> QED
    BY <1>9, <2>2, <2>3, <2>4, <2>5 DEF Snapshot
<1>10. CASE onConnectSeed
  <2>1. UNCHANGED <<venue, sent, queue, disp, book>>
    BY <1>10 DEF onConnectSeed, bookVars
  <2>2. \A g \in Fetchers : fetch'[g].pc = "answer" => fetch'[g] = fetch[g]
    BY <1>2, <1>10 DEF onConnectSeed, Spawned, NoFetch
  <2> QED
    BY <1>5, <2>1, <2>2
<1>11. CASE resetDepthBooks
  BY <1>1, <1>11, PastKept DEF resetDepthBooks
<1>12. CASE VenueUpdate
  <2>1. UNCHANGED <<sent, queue, disp, book, fetch>> /\ venue' = venue + 1
    BY <1>12 DEF VenueUpdate, connVars, bookVars
  <2>2. sent <= venue' /\ \A i \in 1 .. Len(queue) : queue[i].final <= venue'
    BY <1>1, <2>1, Numbered
  <2>3. disp.pc # "idle" => disp.diff.final <= venue'
    BY <1>1, <2>1, Numbered
  <2> QED
    BY <2>1, <2>2, <2>3, PastKept
<1>13. CASE onMessage
  <2>1. PICK final \in sent + 1 .. venue :
          /\ sent' = final
          /\ queue' = IF Len(queue) < QueueCap
                      THEN Append(queue, [first |-> sent + 1, final |-> final]) ELSE queue
    BY <1>13 DEF onMessage
  <2>2. UNCHANGED <<venue, disp, book, fetch>>
    BY <1>13 DEF onMessage, bookVars
  <2>3. sent' <= venue
    BY <2>1, Numbered
  <2>4. \A i \in 1 .. Len(queue') : queue'[i].final <= venue
    BY <1>1, <2>1, Numbered
  <2> QED
    BY <1>1, <2>2, <2>3, <2>4, PastKept
<1> QED
  BY <1>4, <1>6, <1>7, <1>8, <1>9, <1>10, <1>11, <1>12, <1>13
  DEF Next, CallRuns, Stop, Dispatcher, onDisconnect

\* A book's mutex is held by one request, and nothing else changes the book meanwhile.
LEMMA SerialStep == TypeOK /\ InThePast /\ Serialized /\ [Next]_vars => Serialized'
<1> SUFFICES ASSUME TypeOK, InThePast, Serialized, [Next]_vars PROVE Serialized'
  OBVIOUS
<1>1. fetch \in [Fetchers -> FetchOK] /\ ~NewBook.snapshotted
  BY DEF TypeOK, NewBook
<1>2. ASSUME \A f \in Fetchers : InRequest(f)' => fetch'[f] = fetch[f],
             \A bk \in Books : book'[bk] \in {book[bk], NewBook} \/ ~Locked(bk)
      PROVE  Serialized'
  <2>1. \A f \in Fetchers : InRequest(f)' => InRequest(f) /\ fetch'[f] = fetch[f]
    BY <1>2 DEF InRequest
  <2>2. ASSUME NEW f \in Fetchers, fetch'[f].pc = "answer", book'[fetch'[f].bk].snapshotted
        PROVE  book'[fetch'[f].bk].lastUpdateID <= fetch'[f].id
    <3>1. fetch'[f] = fetch[f] /\ InRequest(f) /\ fetch[f].pc = "answer"
      BY <2>1, <2>2 DEF InRequest
    <3>2. fetch[f].bk \in Books /\ Locked(fetch[f].bk)
      BY <3>1, Numbered DEF Locked
    <3>3. book'[fetch[f].bk] = book[fetch[f].bk]
      BY <1>1, <1>2, <2>2, <3>1, <3>2
    <3> QED
      BY <2>2, <3>1, <3>3 DEF Serialized
  <2> QED
    BY <2>1, <2>2 DEF Serialized, InRequest
<1>3. CASE \/ Call \/ CallRuns \/ Stop \/ Dequeue \/ DispatcherBook \/ Dial \/ Break \/ onDisconnect
           \/ OtherDisconnect \/ VenueUpdate \/ onMessage \/ UNCHANGED vars
  <2>1. UNCHANGED fetch
    BY <1>3
    DEF Call, CallRuns, Stop, SubscribeDepth, UnsubscribeDepth, AddBook, DeleteBook, SendFrame,
        StopClose, clearStreams, clearBooks, Dequeue, DispatcherBook, Dial, Break, onDisconnect,
        onDisconnectDrain, resetDepthBooks, OtherDisconnect, VenueUpdate, onMessage, vars
  <2>2. \A bk \in Books : book'[bk] \in {book[bk], NewBook}
    BY <1>3
    DEF Call, CallRuns, Stop, SubscribeDepth, UnsubscribeDepth, AddBook, DeleteBook, SendFrame,
        StopClose, clearStreams, clearBooks, Dequeue, DispatcherBook, Dial, Break, onDisconnect,
        onDisconnectDrain, resetDepthBooks, OtherDisconnect, VenueUpdate, onMessage, vars,
        bookFor, bookVars, Keep
  <2> QED
    BY <1>2, <2>1, <2>2
<1>4. ASSUME NEW bk \in Books, handleDepth(bk) PROVE Serialized'
  <2>1. ~Locked(bk)
    BY <1>4 DEF handleDepth, DiffUnseeded, DiffStale, DiffGap, DiffApply, Holds
  <2>2. \A b \in Books : b # bk => book'[b] \in {book[b], NewBook}
    BY <1>4 DEF handleDepth, DiffUnseeded, DiffStale, DiffGap, DiffApply, Keep, TypeOK
  <2>3. UNCHANGED fetch \/ SpawnSnapshot
    BY <1>4 DEF handleDepth, DiffUnseeded, DiffStale, DiffGap, DiffApply
  <2>4. \A f \in Fetchers : InRequest(f)' => fetch'[f] = fetch[f]
    BY <1>1, <2>3 DEF SpawnSnapshot, Spawned, NoFetch, InRequest
  <2> QED
    BY <1>2, <2>1, <2>2, <2>4
<1>5. ASSUME NEW f \in Fetchers, Snapshot(f) PROVE Serialized'
  <2>1. \A g \in Fetchers : g # f => fetch'[g] = fetch[g]
    BY <1>1, <1>5
    DEF Snapshot, FetchBook, FetchLock, FetchAnswer, FetchStore, FetchFail, FetchError, FetchReturn
  <2>2. CASE FetchBook(f) \/ FetchError(f)
    <3>1. fetch'[f].pc \in {"lock", "none"}
      <4>1. fetch[f] \in FetchOK /\ fetch[f] = [fetch[f] EXCEPT !.pc = fetch[f].pc]
        BY <1>1 DEF FetchOK
      <4> QED
        BY <1>1, <2>2, <4>1 DEF FetchBook, FetchError, FetchReturn, NoFetch, FetchOK
    <3>2. \A bk \in Books : book'[bk] \in {book[bk], NewBook}
      BY <2>2 DEF FetchBook, FetchError, Keep, bookFor, bookVars
    <3> QED
      BY <1>2, <2>1, <3>1, <3>2 DEF InRequest
  <2>3. CASE FetchStore(f)
    <3>1. ~InRequest(f)' /\ fetch[f].bk \in Books /\ InRequest(f) /\ fetch[f].pc = "answer"
      BY <1>1, <2>3, Numbered DEF FetchStore, FetchReturn, NoFetch, InRequest
    <3>2. \A bk \in Books : bk # fetch[f].bk => book'[bk] \in {book[bk], NewBook}
      BY <2>3 DEF FetchStore, Keep, TypeOK
    <3>3. ASSUME NEW g \in Fetchers, InRequest(g)'
          PROVE  g # f /\ fetch'[g] = fetch[g] /\ InRequest(g) /\ fetch[g].bk # fetch[f].bk
      BY <2>1, <3>1, <3>3 DEF InRequest, Serialized
    <3>4. ASSUME NEW g \in Fetchers, fetch'[g].pc = "answer", book'[fetch'[g].bk].snapshotted
          PROVE  book'[fetch'[g].bk].lastUpdateID <= fetch'[g].id
      <4>1. fetch'[g] = fetch[g] /\ fetch[g].bk # fetch[f].bk /\ fetch[g].pc = "answer"
        BY <3>3, <3>4 DEF InRequest
      <4>2. book'[fetch[g].bk] = book[fetch[g].bk]
        BY <1>1, <3>2, <3>4, <4>1, Numbered
      <4> QED
        BY <3>4, <4>1, <4>2 DEF Serialized
    <3> QED
      BY <3>3, <3>4 DEF Serialized
  <2>4. CASE FetchLock(f)
    <3>1. /\ fetch'[f].pc = "request" /\ fetch'[f].bk = fetch[f].bk /\ UNCHANGED book
          /\ ~Locked(fetch[f].bk)
      BY <1>1, <2>4 DEF FetchLock, FetchOK, bookVars
    <3>2. \A g \in Fetchers : g # f /\ InRequest(g)' => InRequest(g) /\ fetch'[g].bk # fetch'[f].bk
      BY <2>1, <3>1 DEF Locked, InRequest
    <3> QED
      BY <2>1, <3>1, <3>2 DEF Serialized, InRequest
  <2>5. CASE FetchAnswer(f) \/ FetchFail(f)
    <3>1. /\ InRequest(f) /\ fetch'[f].bk = fetch[f].bk /\ UNCHANGED book
          /\ fetch'[f].pc = "answer" => fetch'[f].id = venue
          /\ fetch[f].bk \in Books
      BY <1>1, <2>5, FetchHasBook DEF FetchAnswer, FetchFail, FetchOK, InRequest, bookVars, TypeOK
    <3>2. \A g, h \in Fetchers : g # h /\ InRequest(g)' /\ InRequest(h)' => fetch'[g].bk # fetch'[h].bk
      BY <2>1, <3>1 DEF Serialized, InRequest
    <3>3. \A g \in Fetchers : fetch'[g].pc = "answer" /\ book[fetch'[g].bk].snapshotted =>
            book[fetch'[g].bk].lastUpdateID <= fetch'[g].id
      BY <2>1, <3>1 DEF Serialized, InThePast
    <3> QED
      BY <3>1, <3>2, <3>3 DEF Serialized
  <2> QED
    BY <1>5, <2>2, <2>3, <2>4, <2>5 DEF Snapshot
<1>6. CASE onConnectSeed
  <2>1. UNCHANGED book /\ \A f \in Fetchers : InRequest(f)' => fetch'[f] = fetch[f]
    BY <1>1, <1>6 DEF onConnectSeed, Spawned, NoFetch, InRequest, bookVars
  <2> QED
    BY <1>2, <2>1
<1> QED
  BY <1>3, <1>4, <1>5, <1>6 DEF Next, Dispatcher

\* The invariant of the refinement holds at the start: no venue update, an empty queue.
LEMMA MirrorInvInit == Init => MirrorInv
<1> SUFFICES ASSUME Init PROVE MirrorInv
  OBVIOUS
<1>1. queue = <<>> /\ disp.pc = "idle" /\ sent = 0 /\ venue = 0
  BY DEF Init, Waiting
<1>2. \A f \in Fetchers : fetch[f].pc = "none"
  BY DEF Init, NoFetch
<1>3. \A bk \in Books : book[bk] = NewBook /\ ~NewBook.snapshotted
  BY DEF Init, NewBook
<1>4. Dialer \in Fetchers
  BY DEF Fetchers
<1>5. InThePast
  BY <1>1, <1>2, <1>3 DEF InThePast
<1>6. Serialized
  BY <1>2 DEF Serialized, InRequest
<1> QED
  BY <1>2, <1>3, <1>4, <1>5, <1>6 DEF MirrorInv, GarbageIsNew, OneSeeding

\* The four parts hold in every reachable state.
LEMMA MirrorInvariant == Spec => []MirrorInv
<1>1. TypeOK /\ MirrorInv /\ [Next]_vars => MirrorInv'
  BY PastStep, SerialStep, GarbageStep, SeedingStep DEF MirrorInv
<1> QED
  BY MirrorInvInit, <1>1, DepthTypeCorrect, PTL DEF Spec

MirrorStep ==
  VenueMirrored!VenueUpdates \/ VenueMirrored!Seed \/ VenueMirrored!Advance \/ VenueMirrored!Lose
MirrorOrStutter == MirrorStep \/ UNCHANGED VenueMirrored!mirrorVars

\* What is seen from outside stays when the table and its object stay.
LEMMA SameView ==
  ASSUME UNCHANGED <<venue, current>>, current # NoBook => book'[current] = book[current]
  PROVE  MirrorOrStutter
BY DEF MirrorOrStutter, VenueMirrored!mirrorVars, Synced

\* A view that is not in sync afterwards was not in sync before, or was lost.
LEMMA ViewLost ==
  ASSUME UNCHANGED venue, ~Synced'
  PROVE  MirrorOrStutter
<1>1. CASE Synced
  <2>1. VenueMirrored!Lose
    BY <1>1 DEF VenueMirrored!Lose, VenueMirrored!Empty, Empty, Synced
  <2> QED
    BY <2>1 DEF MirrorOrStutter, MirrorStep
<1>2. CASE ~Synced
  BY <1>2 DEF MirrorOrStutter, VenueMirrored!mirrorVars, Synced
<1> QED
  BY <1>1, <1>2

\* The object of the table is never garbage.
LEMMA TableKept ==
  ASSUME NEW b, Keep(b), UNCHANGED current, current \in Books
  PROVE  book'[current] = b[current]
BY DEF Keep, Unused

\* An object taken into the table is new.
LEMMA BookForView ==
  ASSUME TypeOK, GarbageIsNew, NEW bk \in Books, bookFor(bk), UNCHANGED venue
  PROVE  MirrorOrStutter
<1>1. CASE current # NoBook
  BY <1>1, SameView DEF bookFor, bookVars
<1>2. CASE current = NoBook
  <2>1. current' = bk /\ book'[bk] = NewBook
    BY <1>2 DEF bookFor, GarbageIsNew
  <2>2. ~Synced'
    BY <2>1 DEF Synced, NewBook
  <2> QED
    BY <2>2, ViewLost
<1> QED
  BY <1>1, <1>2

\* A diff that is applied takes the view on, and loses no level that was right.
LEMMA ApplyAdvances ==
  ASSUME TypeOK, NoWrongLevel, InThePast, NEW bk \in Books, bk = current, DiffApply(bk)
  PROVE  VenueMirrored!Advance
<1> DEFINE last == book[bk].lastUpdateID
           m == book[bk].levels
           d == disp.diff
<1>1. /\ last \in 0 .. MaxUpdates /\ m \in [Levels -> Nat] /\ d \in Diff
      /\ MaxUpdates \in Nat
  BY DispDiff, UpdateRange DEF TypeOK, BookOK
<1>2. d.first \in Int /\ d.final \in 0 .. MaxUpdates /\ d.final <= venue /\ venue \in Int
  BY <1>1, Numbered DEF Diff, DiffApply, Holds, InThePast
<1>3. /\ book[bk].snapshotted /\ d.first <= last + 1 /\ last < d.final
  BY <1>1, <1>2 DEF DiffApply, Stale, Gap
<1>4. Faithful(m, last)
  BY <1>3 DEF NoWrongLevel
<1>5. Faithful(applyLevels(m, d), d.final)
  BY <1>1, <1>3, <1>4, DiffFaithful
<1>6. \A p \in Levels : m[p] = Quantity[last][p] => applyLevels(m, d)[p] = Quantity[d.final][p]
  <2>1. last \in d.first - 1 .. d.final - 1
    BY <1>1, <1>2, <1>3
  <2> QED
    BY <2>1 DEF applyLevels, Changed
<1>7. /\ current # NoBook /\ UNCHANGED <<venue, current>>
      /\ book' = [b \in Books |-> IF Unused(b)' THEN NewBook
                    ELSE [book EXCEPT ![bk].levels = applyLevels(m, d), ![bk].lastUpdateID = d.final][b]]
  BY DepthAssumption DEF DiffApply, HandlerReturns, Keep
<1>8. /\ book'[current].snapshotted /\ book'[current].lastUpdateID = d.final
      /\ book'[current].levels = applyLevels(m, d)
  <2>1. ~Unused(current)'
    BY <1>7 DEF Unused
  <2>2. book \in [Books -> BookOK] /\ book[bk] \in BookOK
    BY DEF TypeOK
  <2> QED
    BY <1>3, <1>7, <2>1, <2>2 DEF BookOK
<1>9. Synced /\ Synced'
  BY <1>3, <1>7, <1>8 DEF Synced
<1>10. /\ (IF Synced THEN book[current].lastUpdateID ELSE 0) = last
       /\ (IF Synced THEN book[current].levels ELSE Empty) = m
       /\ (IF Synced THEN book[current].lastUpdateID ELSE 0)' = d.final
       /\ (IF Synced THEN book[current].levels ELSE Empty)' = applyLevels(m, d)
  BY <1>7, <1>8, <1>9
<1> HIDE DEF last, m, d
<1>11. d.final \in last + 1 .. venue
  BY <1>1, <1>2, <1>3
<1> QED
  BY <1>5, <1>6, <1>7, <1>9, <1>10, <1>11
  DEF VenueMirrored!Advance, VenueMirrored!Faithful, Faithful

\* Both modules read a snapshot alike.
LEMMA SameSnapshot == \A n : VenueMirrored!levelMap(n) = levelMap(n)
<1>1. \A S : VenueMirrored!Cardinality(S) = Cardinality(S)
  BY Zenon DEF Cardinality, VenueMirrored!Cardinality
<1> QED
  BY <1>1 DEF VenueMirrored!levelMap, VenueMirrored!Best, levelMap, Best

\* The answer of a request seeds the view, at no earlier update than it was at.
LEMMA StoreSeeds ==
  ASSUME TypeOK, InThePast, Serialized, NEW f \in Fetchers, FetchStore(f), fetch[f].bk = current
  PROVE  VenueMirrored!Seed
<1>1. /\ fetch[f].pc = "answer" /\ current \in Books /\ fetch[f].id \in 0 .. MaxUpdates
      /\ fetch[f].id <= venue /\ current # NoBook /\ venue \in Int
  BY FetchHasBook, Numbered, DepthAssumption DEF FetchStore, TypeOK, InThePast
<1>2. /\ UNCHANGED <<venue, current>>
      /\ Keep([book EXCEPT ![current] = [snapshotted |-> TRUE, lastUpdateID |-> fetch[f].id,
                                         levels |-> levelMap(fetch[f].id)]])
  BY DEF FetchStore, FetchReturn
<1>3. book'[current] = [snapshotted |-> TRUE, lastUpdateID |-> fetch[f].id,
                        levels |-> levelMap(fetch[f].id)]
  <2>1. [book EXCEPT ![current] = [snapshotted |-> TRUE, lastUpdateID |-> fetch[f].id,
                                   levels |-> levelMap(fetch[f].id)]][current]
          = [snapshotted |-> TRUE, lastUpdateID |-> fetch[f].id, levels |-> levelMap(fetch[f].id)]
    BY <1>1 DEF TypeOK
  <2> QED
    BY <1>1, <1>2, <2>1, TableKept
<1>4. Synced' /\ (Synced => book[current].lastUpdateID <= fetch[f].id)
  BY <1>1, <1>2, <1>3 DEF Synced, Serialized
<1>5. fetch[f].id \in 0 .. venue /\ book[current].lastUpdateID \in Int
  BY <1>1, UpdateRange, Numbered
<1> QED
  BY <1>1, <1>2, <1>3, <1>4, <1>5, SameSnapshot DEF VenueMirrored!Seed

\* Every step of the book is a step of the mirror or leaves it as it is.
LEMMA MirrorSteps ==
  ASSUME TypeOK, NoWrongLevel, MirrorInv, [Next]_vars
  PROVE  MirrorOrStutter
<1> USE DEF MirrorInv
<1>1. CASE \/ Call \/ SendFrame \/ StopClose \/ clearStreams \/ Dequeue \/ Dial \/ onConnectSeed
           \/ Break \/ onDisconnectDrain \/ OtherDisconnect \/ onMessage \/ UNCHANGED vars
  BY <1>1, SameView
  DEF Call, SubscribeDepth, UnsubscribeDepth, SendFrame, StopClose, clearStreams, Dequeue, Dial,
      onConnectSeed, Break, onDisconnectDrain, OtherDisconnect, onMessage, vars, bookVars
<1>2. CASE AddBook \/ DispatcherBook \/ \E f \in Fetchers : FetchBook(f)
  BY <1>2, BookForView DEF AddBook, DispatcherBook, FetchBook
<1>3. CASE DeleteBook \/ clearBooks
  BY <1>3, ViewLost DEF DeleteBook, clearBooks, Synced
<1>4. ASSUME NEW bk \in Books, handleDepth(bk) PROVE MirrorOrStutter
  <2>1. UNCHANGED <<venue, current>>
    BY <1>4 DEF handleDepth, DiffUnseeded, DiffStale, DiffGap, DiffApply, HandlerReturns
  <2>2. CASE DiffUnseeded(bk) \/ DiffStale(bk)
    BY <2>1, <2>2, TableKept, SameView DEF DiffUnseeded, DiffStale, TypeOK, MaybeBook
  <2>3. CASE (DiffGap(bk) \/ DiffApply(bk)) /\ bk # current
    <3>1. \A c \in Books : c # bk => book'[c] \in {book[c], NewBook} /\ (~Unused(c)' => book'[c] = book[c])
      BY <2>3 DEF DiffGap, DiffApply, Keep, TypeOK
    <3>2. current \in Books => ~Unused(current)'
      BY <2>1 DEF Unused
    <3> QED
      BY <2>1, <2>3, <3>1, <3>2, SameView DEF TypeOK, MaybeBook
  <2>4. CASE DiffGap(bk) /\ bk = current
    <3>1. Keep([book EXCEPT ![current] = NewBook]) /\ current \in Books
      BY <2>4 DEF DiffGap
    <3>2. [book EXCEPT ![current] = NewBook][current] = NewBook
      BY <3>1 DEF TypeOK
    <3>3. book'[current] = NewBook
      BY <2>1, <3>1, <3>2, TableKept
    <3> QED
      BY <2>1, <3>3, ViewLost DEF Synced, NewBook
  <2>5. CASE DiffApply(bk) /\ bk = current
    BY <2>5, ApplyAdvances DEF MirrorOrStutter, MirrorStep
  <2> QED
    BY <1>4, <2>2, <2>3, <2>4, <2>5 DEF handleDepth
<1>5. ASSUME NEW f \in Fetchers, FetchLock(f) \/ FetchAnswer(f) \/ FetchFail(f)
      PROVE  MirrorOrStutter
  BY <1>5, SameView DEF FetchLock, FetchAnswer, FetchFail, bookVars
<1>6. ASSUME NEW f \in Fetchers, FetchError(f) PROVE MirrorOrStutter
  BY <1>6, TableKept, SameView DEF FetchError, FetchReturn, TypeOK, MaybeBook
<1>7. ASSUME NEW f \in Fetchers, FetchStore(f) PROVE MirrorOrStutter
  <2>1. UNCHANGED <<venue, current>>
    BY <1>7 DEF FetchStore, FetchReturn
  <2>2. CASE fetch[f].bk = current
    BY <1>7, <2>2, StoreSeeds DEF MirrorOrStutter, MirrorStep
  <2>3. CASE fetch[f].bk # current
    <3>1. \A c \in Books : c # fetch[f].bk /\ ~Unused(c)' => book'[c] = book[c]
      BY <1>7 DEF FetchStore, Keep, TypeOK
    <3>2. current \in Books => ~Unused(current)'
      BY <2>1 DEF Unused
    <3> QED
      BY <2>1, <2>3, <3>1, <3>2, SameView DEF TypeOK, MaybeBook
  <2> QED
    BY <2>2, <2>3
<1>8. CASE resetDepthBooks
  <2>1. UNCHANGED <<venue, current>> /\ (current \in Books => book'[current] = NewBook)
    BY <1>8 DEF resetDepthBooks
  <2> QED
    BY <2>1, ViewLost DEF Synced, NewBook, TypeOK, MaybeBook
<1>9. CASE VenueUpdate
  <2>1. venue' = venue + 1 /\ UNCHANGED <<current, book>>
    BY <1>9 DEF VenueUpdate, bookVars
  <2>2. VenueMirrored!VenueUpdates
    BY <2>1 DEF VenueMirrored!VenueUpdates, Synced
  <2> QED
    BY <2>2 DEF MirrorOrStutter, MirrorStep
<1> QED
  BY <1>1, <1>2, <1>3, <1>4, <1>5, <1>6, <1>7, <1>8, <1>9
  DEF Next, CallRuns, Stop, Dispatcher, Snapshot, onDisconnect

\* The book of a symbol implements the abstract mirror of the venue, with any number of
\* books, goroutines, levels and updates: while it claims to be in sync it only goes on,
\* and what brings it back is a snapshot that is not older (the claim that "diff
\* application is serialized with the snapshot").
THEOREM BookImplementsMirror == Spec => ImplementsMirror
<1>1. Init => VenueMirrored!MirrorInit
  <2> SUFFICES ASSUME Init PROVE VenueMirrored!MirrorInit
    OBVIOUS
  <2>1. ~Synced /\ venue = 0
    BY DEF Init, Synced
  <2> QED
    BY <2>1 DEF VenueMirrored!MirrorInit, VenueMirrored!Empty, Empty
<1>2. TypeOK /\ NoWrongLevel /\ MirrorInv /\ [Next]_vars => [MirrorStep]_(VenueMirrored!mirrorVars)
  BY MirrorSteps DEF MirrorOrStutter
<1> QED
  BY <1>1, <1>2, DepthTypeCorrect, BookNeverWrong, MirrorInvariant, PTL
  DEF Spec, ImplementsMirror, VenueMirrored!Mirror, MirrorStep
=============================================================================
