------------------------------- MODULE Orders -------------------------------
(***************************************************************************)
(* Placing and cancelling orders: the live executor of pkg/polymarket/     *)
(* connector.go over the CLOB client, clob.go, and the paper mode of the   *)
(* base connector, connector.go.  One goroutine calls; the venue accepts,  *)
(* rejects and fills, and its answers may be lost.                         *)
(*                                                                         *)
(* The fixed-point amounts of an order are a part of their own: `ticket`   *)
(* is the order being built, in units of 1/Scale, and what goes into it    *)
(* does not depend on the calls before.                                    *)
(***************************************************************************)
EXTENDS Integers, Sequences, FiniteSets

CONSTANTS OrderNames,  \* orders, each placed once: every one has a salt of its own
          BatchSize,   \* IDs in a DELETE /orders
          MaxIDs,      \* bound: orders in one call
          Scale,       \* 1_000_000, the units of one dollar or share
          MakerTrunc,  \* 10_000, the units of the coarsest maker amount
          TakerTrunc,  \* 100
          MaxInt,      \* the largest int64
          Sizes,       \* bound: sizes and dollar amounts, in units
          Prices       \* bound: prices, in units

ASSUME OrderAssumption ==
  /\ {BatchSize, Scale, MakerTrunc, TakerTrunc} \subseteq Nat \ {0}
  /\ MaxIDs \in Nat /\ MaxInt \in Nat
  /\ Sizes \subseteq Nat /\ Prices \subseteq Nat

VARIABLES
  ticket,     \* the last order built
  trading,    \* "live", "paper", or "unset" when IsLive is set without an executor
  exec,       \* the call in progress: its orders, those done, what is known of them
  answer,     \* what the last call returned
  venueOrder, \* each order at the venue
  lostAnswer, \* history: orders whose answer to PostOrder was lost
  placed      \* history: orders that some call has been given

callVars == <<trading, exec, answer, venueOrder, lostAnswer, placed>>
orderVars == <<ticket, callVars>>
-----------------------------------------------------------------------------
(* The amounts                                                             *)

\* An int64 product that does not fit wraps around.
Int64(x) == IF x <= MaxInt THEN x ELSE ((x + MaxInt + 1) % (2 * (MaxInt + 1))) - (MaxInt + 1)

\* Go divides towards zero.
Quo(x, y) == IF x >= 0 THEN x \div y ELSE -((-x) \div y)
Truncated(x, unit) == Quo(x, unit) * unit

\* int64(v * 1_000_000) of a float64 can fall one unit short.
Raw(v) == {v} \cup IF v > 0 THEN {v - 1} ELSE {}

\* Mutant: what a buyer pays and a seller gets is rounded up.
RoundedUp(side, size, price) ==
  LET worth == Quo(Int64(size * price) + Scale - 1, Scale)
  IN IF side = "BUY" THEN [maker |-> worth, taker |-> size] ELSE [maker |-> size, taker |-> worth]

\* buildSendOrder: what the order gives and takes.
LimitAmounts(side, size, price) ==
  LET worth == Quo(Int64(size * price), Scale)
  IN IF side = "BUY" THEN [maker |-> worth, taker |-> size] ELSE [maker |-> size, taker |-> worth]

\* buildMarketSendOrder: size is in dollars for a BUY, and divided by the price.
MarketAmounts(side, size, price) ==
  LET other == IF side = "BUY" THEN Quo(Int64(size * Scale), price)
               ELSE Quo(Int64(size * price), Scale)
  IN [maker |-> Truncated(size, MakerTrunc), taker |-> Truncated(other, TakerTrunc)]

NoTicket == [kind |-> "none", side |-> "BUY", size |-> 0, price |-> 0, maker |-> 0, taker |-> 0]

Build(kind, side, size, price) ==
  \E s \in Raw(size), p \in Raw(price) :
    /\ kind = "market" /\ side = "BUY" => p # 0
    /\ LET a == IF kind = "limit" THEN LimitAmounts(side, s, p) ELSE MarketAmounts(side, s, p)
       IN ticket' = [kind |-> kind, side |-> side, size |-> size, price |-> price,
                     maker |-> a.maker, taker |-> a.taker]

\* The division by a price that became zero panics.
BuildPanics(size, price) ==
  /\ 0 \in Raw(price)
  /\ ticket' = [NoTicket EXCEPT !.kind = "panic", !.size = size, !.price = price]
-----------------------------------------------------------------------------
(* The calls                                                               *)

NoExec == [op |-> "idle", ids |-> <<>>, done |-> <<>>, canceled |-> {}, not |-> {}]
NoAnswer == [op |-> "none", ids |-> <<>>, error |-> FALSE, success |-> FALSE,
             done |-> <<>>, canceled |-> {}, not |-> {}]

OrdersInit ==
  /\ ticket = NoTicket
  /\ trading \in {"live", "paper", "unset"}
  /\ exec = NoExec /\ answer = NoAnswer
  /\ venueOrder = [o \in OrderNames |-> "none"]
  /\ lostAnswer = {} /\ placed = {}

IDs(seq) == {seq[i] : i \in DOMAIN seq}
Requests == UNION {[1 .. n -> OrderNames] : n \in 0 .. MaxIDs}
NewOrders == {r \in Requests : IDs(r) \cap placed = {} /\ Cardinality(IDs(r)) = Len(r)}

Return(e, error, success) ==
  /\ answer' = [op |-> e.op, ids |-> e.ids, error |-> error, success |-> success,
                done |-> e.done, canceled |-> e.canceled, not |-> e.not]
  /\ exec' = NoExec

AnySuccess(done) == \E i \in DOMAIN done : done[i]

\* PlaceLimitOrders and PlaceMarketOrder in live mode: every order is built and signed
\* before the first is posted, and one that cannot be fails the call.
PlaceLive(op, ids) ==
  /\ exec.op = "idle" /\ trading = "live"
  /\ placed' = placed \cup IDs(ids)
  /\ LET e == [NoExec EXCEPT !.op = op, !.ids = ids] IN
       \/ ids # <<>> /\ exec' = e /\ answer' = NoAnswer
       \/ ids # <<>> /\ Return(e, TRUE, FALSE)
       \/ ids = <<>> /\ Return(e, FALSE, TRUE)
  /\ UNCHANGED <<ticket, trading, venueOrder, lostAnswer>>

\* In paper mode ValidateOrder judges each order and the call succeeds in any case.
PlacePaper(op, ids) ==
  /\ exec.op = "idle" /\ trading = "paper"
  /\ placed' = placed \cup IDs(ids)
  /\ \E verdict \in [DOMAIN ids -> BOOLEAN] :
       Return([NoExec EXCEPT !.op = op, !.ids = ids, !.done = verdict], FALSE, TRUE)
  /\ UNCHANGED <<ticket, trading, venueOrder, lostAnswer>>

\* IsLive without an executor.
NotImplemented(op, ids) ==
  /\ exec.op = "idle" /\ trading = "unset"
  /\ placed' = placed \cup IDs(ids)
  /\ Return([NoExec EXCEPT !.op = op, !.ids = ids], TRUE, FALSE)
  /\ UNCHANGED <<ticket, trading, venueOrder, lostAnswer>>

Place(op, ids) == PlaceLive(op, ids) \/ PlacePaper(op, ids) \/ NotImplemented(op, ids)

PlaceLimitOrders == \E r \in NewOrders : Place("limit", r)
PlaceMarketOrder == \E r \in {q \in NewOrders : Len(q) = 1} : Place("market", r)

\* Mutant: a failed post leaves no result.
SuccessesOnly(ok) == IF ok THEN Append(exec.done, ok) ELSE exec.done

WithResult(ok) == Append(exec.done, ok)

\* PostOrder for the next order: the venue accepts it, the answer perhaps getting lost
\* or unreadable, or rejects it, with a result or with an HTTP error.  A market order
\* whose post fails has no result.
PostOrder ==
  LET o == exec.ids[Len(exec.done) + 1]
      Next1(ok) == exec' = [exec EXCEPT !.done = WithResult(ok)] /\ UNCHANGED answer
  IN
  /\ exec.op \in {"limit", "market"} /\ Len(exec.done) < Len(exec.ids)
  /\ \/ /\ venueOrder' = [venueOrder EXCEPT ![o] = "open"]
        /\ Next1(TRUE)
        /\ UNCHANGED lostAnswer
     \/ /\ venueOrder' = [venueOrder EXCEPT ![o] = "open"]
        /\ lostAnswer' = lostAnswer \cup {o}
        /\ IF exec.op = "limit" THEN Next1(FALSE) ELSE Return(exec, TRUE, FALSE)
     \/ Next1(FALSE) /\ UNCHANGED <<venueOrder, lostAnswer>>
     \/ /\ exec.op = "market" /\ Return(exec, TRUE, FALSE)
        /\ UNCHANGED <<venueOrder, lostAnswer>>
  /\ UNCHANGED <<ticket, trading, placed>>

\* A limit batch succeeds when one of its orders did.
PlaceReturns ==
  /\ exec.op \in {"limit", "market"} /\ Len(exec.done) = Len(exec.ids)
  /\ Return(exec, FALSE, AnySuccess(exec.done))
  /\ UNCHANGED <<ticket, trading, venueOrder, lostAnswer, placed>>

CancelCall(ids) ==
  /\ exec.op = "idle"
  /\ LET e == [NoExec EXCEPT !.op = "cancel", !.ids = ids] IN
       \/ trading = "live" /\ exec' = e /\ answer' = NoAnswer
       \/ trading = "paper" /\ Return([e EXCEPT !.canceled = IDs(ids)], FALSE, TRUE)
       \/ trading = "unset" /\ Return(e, TRUE, FALSE)
  /\ UNCHANGED <<ticket, trading, venueOrder, lostAnswer, placed>>

CancelOrders == \E r \in Requests : CancelCall(r)

\* The slice of the next batch.
BatchEnd(n) == IF n + BatchSize <= Len(exec.ids) THEN n + BatchSize ELSE Len(exec.ids)
NextBatch == {exec.ids[i] : i \in Len(exec.done) + 1 .. BatchEnd(Len(exec.done))}
BatchDone == [exec EXCEPT !.done = [i \in 1 .. BatchEnd(Len(exec.done)) |-> TRUE]]

\* Mutant: a failed batch is skipped.
FailedIsSkipped(B) == exec.not

FailedBatch(B) == exec.not \cup B

\* The venue cancels the open ones; the answer, when it comes, names every ID of the
\* batch.  A failed batch is reported as not canceled, whatever the venue did, and the
\* next one goes out.
CancelBatch ==
  LET open == {o \in NextBatch : venueOrder[o] = "open"} IN
  /\ exec.op = "cancel" /\ Len(exec.done) < Len(exec.ids)
  /\ \/ /\ venueOrder' = [o \in OrderNames |-> IF o \in open THEN "canceled" ELSE venueOrder[o]]
        /\ \/ exec' = [BatchDone EXCEPT !.canceled = @ \cup open, !.not = @ \cup (NextBatch \ open)]
           \/ exec' = [BatchDone EXCEPT !.not = FailedBatch(NextBatch)]
     \/ exec' = [BatchDone EXCEPT !.not = FailedBatch(NextBatch)] /\ UNCHANGED venueOrder
  /\ UNCHANGED <<ticket, trading, answer, lostAnswer, placed>>

CancelReturns ==
  /\ exec.op = "cancel" /\ Len(exec.done) = Len(exec.ids)
  /\ Return(exec, FALSE, TRUE)
  /\ UNCHANGED <<ticket, trading, venueOrder, lostAnswer, placed>>

\* The venue matches an open order.
Fill ==
  /\ \E o \in OrderNames :
       venueOrder[o] = "open" /\ venueOrder' = [venueOrder EXCEPT ![o] = "filled"]
  /\ UNCHANGED <<ticket, trading, exec, answer, lostAnswer, placed>>
-----------------------------------------------------------------------------
\* One order is built in a behaviour: nothing of it outlives the call.
BuildNext ==
  /\ ticket = NoTicket
  /\ \E size \in Sizes, price \in Prices :
       \/ \E kind \in {"limit", "market"}, side \in {"BUY", "SELL"} : Build(kind, side, size, price)
       \/ BuildPanics(size, price)
  /\ UNCHANGED callVars

ExecNext ==
  \/ PlaceLimitOrders \/ PlaceMarketOrder \/ PostOrder \/ PlaceReturns
  \/ CancelOrders \/ CancelBatch \/ CancelReturns \/ Fill

OrdersNext == BuildNext \/ ExecNext
OrdersSpec == OrdersInit /\ [][OrdersNext]_orderVars
-----------------------------------------------------------------------------
(* Properties                                                              *)

\* Every variable has its type.
OrdersTypeOK ==
  /\ ticket.kind \in {"none", "limit", "market", "panic"}
  /\ ticket.maker \in Int /\ ticket.taker \in Int
  /\ exec.op \in {"idle", "limit", "market", "cancel"}
  /\ Len(exec.done) <= Len(exec.ids)
  /\ venueOrder \in [OrderNames -> {"none", "open", "filled", "canceled"}]
  /\ lostAnswer \subseteq placed

\* Every product of the amounts fits an int64.
Fits(t) == t.size * t.price <= MaxInt /\ t.size * Scale <= MaxInt

\* The order that goes out never asks a worse price than its limit, in whatever
\* direction conversion and truncation round: a buyer's is exact for a limit order,
\* and a market order's taker amount, or a seller's proceeds, fall short of it by less
\* than the unit they are truncated to, beside the unit that the price may have lost.
NeverWorseThanLimit ==
  Fits(ticket) =>
    LET t == ticket IN
    /\ t.kind = "limit" /\ t.side = "BUY" =>
         t.maker * Scale <= t.taker * t.price /\ t.taker <= t.size
    /\ t.kind = "limit" /\ t.side = "SELL" =>
         t.maker * (t.price - 1) <= (t.taker + 1) * Scale /\ t.maker <= t.size
    /\ t.kind = "market" /\ t.side = "BUY" =>
         t.maker * Scale <= (t.taker + TakerTrunc) * t.price /\ t.maker <= t.size
    /\ t.kind = "market" /\ t.side = "SELL" =>
         t.maker * (t.price - 1) <= (t.taker + TakerTrunc) * Scale /\ t.maker <= t.size

\* What a placement reports is what the venue has: one result for each order, in the
\* order of the call; a success is an order the venue accepted, an order the venue
\* accepted is a success unless its answer was lost; and a call that fails as a whole
\* left nothing at the venue but, at most, a market order whose answer was lost.
PlacementReported ==
  trading = "live" /\ answer.op \in {"limit", "market"} =>
    IF answer.error
    THEN \A o \in IDs(answer.ids) : venueOrder[o] # "none" => o \in lostAnswer
    ELSE /\ Len(answer.done) = Len(answer.ids)
         /\ \A i \in DOMAIN answer.ids :
              answer.done[i] <=> venueOrder[answer.ids[i]] # "none" /\ answer.ids[i] \notin lostAnswer
         /\ answer.ids # <<>> => (answer.success <=> AnySuccess(answer.done))

\* Whatever batch fails, every ID of a CancelOrders call is answered, what is reported
\* canceled is, and an ID is reported both ways only if it was asked for twice.
EveryCancelAnswered ==
  trading = "live" /\ answer.op = "cancel" =>
    /\ answer.canceled \cup answer.not = IDs(answer.ids)
    /\ \A o \in answer.canceled : venueOrder[o] = "canceled"
    /\ \A o \in answer.canceled \cap answer.not :
         \E i, j \in DOMAIN answer.ids : i # j /\ answer.ids[i] = o /\ answer.ids[j] = o
=============================================================================
