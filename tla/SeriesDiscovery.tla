--------------------------- MODULE SeriesDiscovery ---------------------------
(***************************************************************************)
(* Series discovery of the Polymarket connector, pkg/polymarket/series.go: *)
(* GetSeries over its cache, for one slug, and the pages that              *)
(* ListSeriesEvents puts together while the venue's listing changes.  The  *)
(* two share nothing: each has its own variables and its own next step.    *)
(***************************************************************************)
EXTENDS Naturals, Sequences, FiniteSets

CONSTANTS Readers,      \* goroutines that call GetSeries
          TTL,          \* seriesCacheTTL, in ticks
          MaxTime,      \* bound: the clock
          MaxVersion,   \* bound: the versions of the series at the venue
          MaxEvents,    \* bound: the events that the series ever has
          Offsets,      \* EventQuery.Offset
          Limits,       \* EventQuery.Limit; 0 is the default
          DefaultLimit, \* defaultSeriesEventsLimit, 100
          MaxLimit,     \* maxSeriesEventsLimit, 500
          PageSize      \* seriesEventsPageSize, 100

ASSUME SeriesAssumption ==
  /\ TTL \in Nat /\ MaxTime \in Nat /\ MaxVersion \in Nat
  /\ MaxEvents \in Nat /\ Offsets \subseteq Nat /\ Limits \subseteq Nat
  /\ DefaultLimit \in 1 .. MaxLimit /\ MaxLimit \in Nat /\ PageSize \in Nat \ {0}
-----------------------------------------------------------------------------
(* GetSeries and its cache                                                 *)

VARIABLES
  clock,       \* time.Now()
  version,     \* the series as the venue has it
  cache,       \* entries[slug]: the version, when it was stored and when it expires
  getting,     \* each GetSeries: where it is, its version, when that was stored and
               \* when the cache gave it
  invalidated, \* history: the version when InvalidateSeries was last called
  overtaken,   \* history: the goroutines whose fetch was under way then
  lateStore    \* history: the entry was stored by one of those

storeVars == <<cache, lateStore>>
cacheVars == <<clock, version, getting, invalidated, overtaken, storeVars>>

NoEntry == [version |-> 0, storedAt |-> 0, expiresAt |-> 0]
NotGetting == [pc |-> "idle", version |-> 0, storedAt |-> 0, servedAt |-> 0]

CacheInit ==
  /\ clock = 0 /\ version = 1
  /\ cache = NoEntry /\ getting = [r \in Readers |-> NotGetting]
  /\ invalidated = 0 /\ overtaken = {} /\ lateStore = FALSE

\* Mutant: an entry is found for ever.
FoundAnyway == cache.version # 0

\* lookup
Found == cache.version # 0 /\ clock <= cache.expiresAt

\* A hit is returned; an expired entry is deleted and the series fetched.
Lookup(r) ==
  /\ getting[r].pc = "idle"
  /\ IF Found
     THEN /\ getting' = [getting EXCEPT ![r] = [pc |-> "hit", version |-> cache.version,
                           storedAt |-> cache.storedAt, servedAt |-> clock]]
          /\ UNCHANGED <<cache, lateStore>>
     ELSE /\ getting' = [getting EXCEPT ![r] = [NotGetting EXCEPT !.pc = "fetch"]]
          /\ cache' = NoEntry /\ lateStore' = FALSE
  /\ UNCHANGED <<clock, version, invalidated, overtaken>>

\* fetchSeries: the venue answers with what it has, or the request fails.
Fetch(r) ==
  /\ getting[r].pc = "fetch"
  /\ \/ /\ getting' = [getting EXCEPT ![r] = [pc |-> "store", version |-> version,
                         storedAt |-> 0, servedAt |-> 0]]
        /\ UNCHANGED overtaken
     \/ getting' = [getting EXCEPT ![r] = NotGetting] /\ overtaken' = overtaken \ {r}
  /\ UNCHANGED <<clock, version, invalidated, storeVars>>

\* store replaces what another fetch has stored, newer or not; GetSeries returns the
\* series that the entry is a clone of.
Store(r) ==
  /\ getting[r].pc = "store"
  /\ cache' = [version |-> getting[r].version, storedAt |-> clock, expiresAt |-> clock + TTL]
  /\ lateStore' = (r \in overtaken) /\ overtaken' = overtaken \ {r}
  /\ getting' = [getting EXCEPT ![r] = NotGetting]
  /\ UNCHANGED <<clock, version, invalidated>>

\* The caller has its hit.
HitReturns(r) ==
  /\ getting[r].pc = "hit"
  /\ getting' = [getting EXCEPT ![r] = NotGetting]
  /\ UNCHANGED <<clock, version, invalidated, overtaken, storeVars>>

GetSeries(r) == Lookup(r) \/ Fetch(r) \/ Store(r) \/ HitReturns(r)

\* Mutant: the entry is kept until it expires.
KeptEntry == cache

\* What is left of an invalidated entry.
DeletedEntry == NoEntry

InvalidateSeries ==
  /\ cache' = DeletedEntry /\ lateStore' = FALSE
  /\ invalidated' = version
  /\ overtaken' = {r \in Readers : getting[r].pc \in {"fetch", "store"}}
  /\ UNCHANGED <<clock, version, getting>>

SeriesChanges ==
  /\ version < MaxVersion /\ version' = version + 1
  /\ UNCHANGED <<clock, getting, invalidated, overtaken, storeVars>>

ClockTicks ==
  /\ clock < MaxTime /\ clock' = clock + 1
  /\ UNCHANGED <<version, getting, invalidated, overtaken, storeVars>>

CacheNext ==
  \/ \E r \in Readers : GetSeries(r)
  \/ InvalidateSeries \/ SeriesChanges \/ ClockTicks

CacheSpec == CacheInit /\ [][CacheNext]_cacheVars
-----------------------------------------------------------------------------
(* ListSeriesEvents                                                        *)

VARIABLES
  listing, \* the venue's events of the series, in its order; IDs count up
  closed,  \* those that are closed, when the call asks for open ones
  query,   \* the call: its offset, its limit and whether it asks for open events
  pager,   \* where it is, the offset of the next page and the events found
  left     \* history: the events that went from the listing during the call

pageVars == <<listing, closed, query, pager, left>>

Members(s) == {s[i] : i \in DOMAIN s}
Low(x, y) == IF x < y THEN x ELSE y
Ever == Members(listing) \cup left

PagesInit ==
  /\ \E n \in 0 .. MaxEvents : listing = [i \in 1 .. n |-> i]
  /\ \E o \in Offsets, l \in Limits, open \in BOOLEAN :
       query = [offset |-> o, openOnly |-> open, asked |-> Members(SubSeq(listing, o + 1, Len(listing))),
                limit |-> IF l = 0 THEN DefaultLimit ELSE Low(l, MaxLimit)]
  /\ closed \in IF query.openOnly THEN SUBSET Members(listing) ELSE {{}}
  /\ pager = [pc |-> "page", offset |-> query.offset, found |-> <<>>]
  /\ left = {}

\* The page that the venue answers with; it may or may not have left closed events out.
PageOf(size) == SubSeq(listing, pager.offset + 1, Low(pager.offset + size, Len(listing)))

\* The places of a page that hold no duplicate of an earlier page.
NewPlaces(page) == {i \in DOMAIN page : page[i] \notin Members(pager.found)}

\* The duplicates are dropped, the rest keeps its order: the k-th has k - 1 before it.
NewOnes(page) ==
  LET new == NewPlaces(page) IN
  [k \in 1 .. Cardinality(new) |->
     page[CHOOSE i \in new : Cardinality({j \in new : j < i}) = k - 1]]

\* Mutant: a page that is exactly full counts as a short one.
ShortAtFull(page, size, found) ==
  IF Len(found) >= query.limit THEN "full"
  ELSE IF Len(page) <= size THEN "short"
  ELSE IF query.openOnly /\ Members(page) \subseteq closed THEN "closed"
  ELSE "page"

\* Why the loop ends: the limit, a short page, or a page of closed events only.
AfterPage(page, size, found) ==
  IF Len(found) >= query.limit THEN "full"
  ELSE IF Len(page) < size THEN "short"
  ELSE IF query.openOnly /\ Members(page) \subseteq closed THEN "closed"
  ELSE "page"

NextPage ==
  /\ pager.pc = "page"
  /\ LET size == Low(query.limit - Len(pager.found), PageSize)
         page == PageOf(size)
         found == pager.found \o NewOnes(page)
     IN pager' = [pc |-> AfterPage(page, size, found), offset |-> pager.offset + Len(page),
                  found |-> found]
  /\ UNCHANGED <<listing, closed, query, left>>

\* A request fails: the call returns an error and nothing else.
PageFails ==
  /\ pager.pc = "page"
  /\ pager' = [pager EXCEPT !.pc = "error"]
  /\ UNCHANGED <<listing, closed, query, left>>

\* Between two pages an event comes, at either end of the venue's order, closes, or goes.
ListingChanges ==
  /\ pager.pc = "page"
  /\ \/ /\ Cardinality(Ever) < MaxEvents
        /\ listing' \in {Append(listing, Cardinality(Ever) + 1), <<Cardinality(Ever) + 1>> \o listing}
        /\ UNCHANGED <<closed, left>>
     \/ /\ query.openOnly
        /\ \E e \in Members(listing) \ closed : closed' = closed \cup {e}
        /\ UNCHANGED <<listing, left>>
     \/ \E i \in DOMAIN listing :
          /\ listing' = SubSeq(listing, 1, i - 1) \o SubSeq(listing, i + 1, Len(listing))
          /\ left' = left \cup {listing[i]}
          /\ UNCHANGED closed
  /\ UNCHANGED <<query, pager>>

PagesNext == NextPage \/ PageFails \/ ListingChanges
-----------------------------------------------------------------------------
(* Properties                                                              *)

CacheTypeOK ==
  /\ clock \in 0 .. MaxTime /\ version \in Nat
  /\ cache \in [version : Nat, storedAt : Nat, expiresAt : Nat]
  /\ getting \in [Readers -> [pc : {"idle", "fetch", "store", "hit"}, version : Nat,
                              storedAt : Nat, servedAt : Nat]]
  /\ invalidated \in Nat /\ overtaken \subseteq Readers /\ lateStore \in BOOLEAN

\* Every variable has its type, and a call finds no more than its limit.
SeriesTypeOK ==
  /\ CacheTypeOK
  /\ closed \subseteq Ever
  /\ pager.pc \in {"page", "full", "short", "closed", "error"}
  /\ Len(pager.found) <= query.limit /\ Members(pager.found) \subseteq Ever

\* What GetSeries answers from the cache was stored no longer than the TTL ago; and the
\* cache holds nothing of what the venue had before the last InvalidateSeries, unless a
\* fetch that was under way at that moment has stored its answer since.
CacheFresh ==
  /\ \A r \in Readers :
       getting[r].pc = "hit" => getting[r].servedAt <= getting[r].storedAt + TTL
  /\ cache.version # 0 /\ ~lateStore => cache.version >= invalidated

\* What the comment of InvalidateSeries says: the next GetSeries call goes back to the
\* venue, so a call never begins with a hit on what the venue had before.
NextCallAsksAgain ==
  [][\A r \in Readers :
       getting[r].pc = "idle" /\ getting'[r].pc = "hit" => getting'[r].version >= invalidated]_cacheVars

\* The pages make up one list, however the venue's listing grows or closes between
\* them: no event twice; when the call ends at a short page it has every event that was
\* there from the offset on when it began; and it ends short of its limit only there or
\* at a page of closed events.  An event that goes from the listing shifts the rest
\* towards pages that are already read, and is excepted.
PagesComplete ==
  /\ Cardinality(Members(pager.found)) = Len(pager.found)
  /\ pager.pc = "short" /\ left = {} => query.asked \subseteq Members(pager.found)
  /\ pager.pc = "full" => Len(pager.found) = query.limit
=============================================================================
