----------------------------- MODULE OrdersProofs -----------------------------
(***************************************************************************)
(* No order asks a worse price than its limit, for any scale, truncation,  *)
(* size and price whose products fit an int64; and what the calls report   *)
(* of placed and cancelled orders is true, for any number of orders, batch *)
(* size and run of fills, failures and lost answers.                       *)
(***************************************************************************)
EXTENDS Orders, FiniteSetTheorems, SequenceTheorems, TLAPS

\* Rounding down loses less than one.
LEMMA Division ==
  ASSUME NEW x \in Nat, NEW y \in Nat \ {0}
  PROVE  /\ Quo(x, y) \in Nat
         /\ Quo(x, y) * y <= x
         /\ x < (Quo(x, y) + 1) * y
  BY DEF Quo

\* Products grow with their factors.
LEMMA ProductGrows ==
  ASSUME NEW a \in Nat, NEW b \in Nat, NEW c \in Nat, NEW d \in Nat, a <= c, b <= d
  PROVE  a * b \in Nat /\ a * b <= c * d
<1>1. a * b \in Nat /\ c * b \in Nat /\ c * d \in Nat
  OBVIOUS
<1>2. a * b <= c * b
  <2>1. (c - a) * b >= 0
    OBVIOUS
  <2> QED
    BY <2>1
<1>3. c * b <= c * d
  <2>1. c * (d - b) >= 0
    OBVIOUS
  <2> QED
    BY <2>1
<1> QED
  BY <1>1, <1>2, <1>3

\* Truncation to a unit takes away less than the unit.
LEMMA Truncation ==
  ASSUME NEW x \in Nat, NEW unit \in Nat \ {0}
  PROVE  /\ Truncated(x, unit) \in Nat
         /\ Truncated(x, unit) <= x
         /\ x < Truncated(x, unit) + unit
<1>1. Quo(x, unit) * unit \in Nat
  BY Division
<1> QED
  BY <1>1, Division DEF Truncated
-----------------------------------------------------------------------------
\* The facts about the constants that the amounts need.
LEMMA OrderConstants ==
  /\ Scale \in Nat \ {0} /\ MakerTrunc \in Nat \ {0} /\ TakerTrunc \in Nat \ {0}
  /\ MaxInt \in Nat /\ Sizes \subseteq Nat /\ Prices \subseteq Nat
  BY OrderAssumption

\* A float that is converted loses one unit at most.
LEMMA RawRange ==
  ASSUME NEW v \in Nat, NEW r \in Raw(v)
  PROVE  r \in Nat /\ r <= v /\ v - 1 <= r
  BY DEF Raw

\* With products that fit, a converted product is the product of what was converted.
LEMMA Fitting ==
  ASSUME NEW size \in Nat, NEW price \in Nat, NEW s \in Raw(size), NEW p \in Raw(price),
         size * price <= MaxInt, size * Scale <= MaxInt
  PROVE  /\ s * p \in Nat /\ Int64(s * p) = s * p
         /\ s * Scale \in Nat /\ Int64(s * Scale) = s * Scale
<1>1. s \in Nat /\ p \in Nat /\ s <= size /\ p <= price
  BY RawRange
<1>2. s * p \in Nat /\ s * p <= size * price
  BY <1>1, ProductGrows
<1>3. s * Scale \in Nat /\ s * Scale <= size * Scale
  BY <1>1, ProductGrows, OrderConstants
<1>4. size * price \in Nat /\ size * Scale \in Nat
  BY OrderConstants
<1> QED
  BY <1>2, <1>3, <1>4, OrderConstants DEF Int64

\* A buyer's limit order pays no more than the price for what it takes.
LEMMA LimitBuy ==
  ASSUME NEW s \in Nat, NEW p \in Nat, NEW price \in Nat, p <= price
  PROVE  /\ Quo(s * p, Scale) \in Nat
         /\ Quo(s * p, Scale) * Scale <= s * price
<1>1. s * p \in Nat /\ s * p <= s * price
  BY ProductGrows
<1>2. Quo(s * p, Scale) \in Nat /\ Quo(s * p, Scale) * Scale <= s * p
  BY <1>1, Division, OrderConstants
<1> QED
  BY <1>1, <1>2, OrderConstants

\* A seller gets what the price is worth, but for less than the unit it is rounded to.
LEMMA Proceeds ==
  ASSUME NEW s \in Nat, NEW p \in Nat, NEW price \in Nat, price - 1 <= p,
         NEW unit \in Nat \ {0}, NEW m \in Nat, m <= s,
         NEW got \in Nat, Quo(s * p, Scale) < got + unit
  PROVE  m * (price - 1) <= (got + unit) * Scale
<1>1. s * p \in Nat
  BY ProductGrows
<1>2. Quo(s * p, Scale) \in Nat /\ s * p < (Quo(s * p, Scale) + 1) * Scale
  BY <1>1, Division, OrderConstants
<1>3. (Quo(s * p, Scale) + 1) * Scale <= (got + unit) * Scale
  BY <1>2, ProductGrows, OrderConstants
<1>4. m * (price - 1) <= s * p
  <2>1. CASE price = 0
    <3>1. m * (price - 1) = -m
      BY <2>1
    <3> QED
      BY <1>1, <3>1
  <2>2. CASE price # 0
    <3>1. price - 1 \in Nat
      BY <2>2
    <3> QED
      BY <3>1, ProductGrows
  <2> QED
    BY <2>1, <2>2
<1>5. (Quo(s * p, Scale) + 1) * Scale \in Nat /\ (got + unit) * Scale \in Nat
        /\ m * (price - 1) \in Int
  BY <1>2, OrderConstants
<1> QED
  BY <1>1, <1>2, <1>3, <1>4, <1>5

\* A buyer's market order pays no more than the price for what it takes and the unit
\* that was cut off.
LEMMA MarketBuy ==
  ASSUME NEW s \in Nat, NEW p \in Nat \ {0}, NEW price \in Nat, p <= price,
         s * Scale \in Nat, NEW unit \in Nat \ {0}, NEW m \in Nat, m <= s,
         NEW got \in Nat, Quo(s * Scale, p) < got + unit
  PROVE  m * Scale <= (got + unit) * price
<1>1. m * Scale \in Nat /\ m * Scale <= s * Scale
  BY ProductGrows, OrderConstants
<1>2. Quo(s * Scale, p) \in Nat /\ s * Scale < (Quo(s * Scale, p) + 1) * p
  BY Division
<1>3. (Quo(s * Scale, p) + 1) * p <= (got + unit) * price
  BY <1>2, ProductGrows
<1>4. (Quo(s * Scale, p) + 1) * p \in Nat /\ (got + unit) * price \in Nat
  BY <1>2
<1> QED
  BY <1>1, <1>2, <1>3, <1>4
-----------------------------------------------------------------------------
\* The order that Build makes keeps to its limit.
LEMMA BuildKeepsLimit ==
  ASSUME NEW kind \in {"limit", "market"}, NEW side \in {"BUY", "SELL"},
         NEW size \in Nat, NEW price \in Nat, Build(kind, side, size, price)
  PROVE  NeverWorseThanLimit'
<1>1. PICK s \in Raw(size), p \in Raw(price) :
        /\ kind = "market" /\ side = "BUY" => p # 0
        /\ LET a == IF kind = "limit" THEN LimitAmounts(side, s, p) ELSE MarketAmounts(side, s, p)
           IN ticket' = [kind |-> kind, side |-> side, size |-> size, price |-> price,
                         maker |-> a.maker, taker |-> a.taker]
  BY DEF Build
<1> SUFFICES ASSUME size * price <= MaxInt, size * Scale <= MaxInt
             PROVE  NeverWorseThanLimit'
  BY <1>1 DEF NeverWorseThanLimit, Fits
<1>2. s \in Nat /\ p \in Nat /\ s <= size /\ p <= price /\ price - 1 <= p
  BY RawRange
<1>3. /\ s * p \in Nat /\ Int64(s * p) = s * p
      /\ s * Scale \in Nat /\ Int64(s * Scale) = s * Scale
  BY Fitting
<1>4. CASE kind = "limit" /\ side = "BUY"
  <2>1. ticket' = [kind |-> "limit", side |-> "BUY", size |-> size, price |-> price,
                   maker |-> Quo(s * p, Scale), taker |-> s]
    BY <1>1, <1>3, <1>4 DEF LimitAmounts
  <2>2. Quo(s * p, Scale) * Scale <= s * price
    BY <1>2, LimitBuy
  <2> QED
    BY <1>2, <2>1, <2>2 DEF NeverWorseThanLimit
<1>5. CASE kind = "limit" /\ side = "SELL"
  <2> DEFINE got == Quo(s * p, Scale)
  <2>1. ticket' = [kind |-> "limit", side |-> "SELL", size |-> size, price |-> price,
                   maker |-> s, taker |-> got]
    BY <1>1, <1>3, <1>5 DEF LimitAmounts
  <2>2. got \in Nat /\ Quo(s * p, Scale) < got + 1
    BY <1>3, Division, OrderConstants
  <2> HIDE DEF got
  <2>3. s * (price - 1) <= (got + 1) * Scale
    <3>1. PICK one \in Nat \ {0} : one = 1
      OBVIOUS
    <3>2. ASSUME NEW m \in Nat, m <= s, NEW unit \in Nat \ {0}, Quo(s * p, Scale) < got + unit
          PROVE  m * (price - 1) <= (got + unit) * Scale
      BY <1>2, <2>2, <3>2, Proceeds
    <3> QED
      BY <1>2, <2>2, <3>1, <3>2
  <2>4. /\ ticket'.kind = "limit" /\ ticket'.side = "SELL" /\ ticket'.size = size
        /\ ticket'.price = price /\ ticket'.maker = s /\ ticket'.taker = got
    BY <2>1
  <2>5. /\ ticket'.maker * (ticket'.price - 1) <= (ticket'.taker + 1) * Scale
        /\ ticket'.maker <= ticket'.size
    BY <1>2, <2>3, <2>4
  <2> QED
    BY <2>4, <2>5, Zenon DEF NeverWorseThanLimit
<1>6. CASE kind = "market" /\ side = "BUY"
  <2> DEFINE m == Truncated(s, MakerTrunc)
             got == Truncated(Quo(s * Scale, p), TakerTrunc)
  <2>1. ticket' = [kind |-> "market", side |-> "BUY", size |-> size, price |-> price,
                   maker |-> m, taker |-> got]
    BY <1>1, <1>3, <1>6 DEF MarketAmounts
  <2>2. p \in Nat \ {0}
    BY <1>1, <1>2, <1>6
  <2>3. Quo(s * Scale, p) \in Nat
    BY <1>3, <2>2, Division
  <2>4. m \in Nat /\ m <= s /\ got \in Nat /\ Quo(s * Scale, p) < got + TakerTrunc
    BY <1>2, <2>3, Truncation, OrderConstants
  <2> HIDE DEF m, got
  <2>5. m * Scale <= (got + TakerTrunc) * price
    BY <1>2, <1>3, <2>2, <2>4, MarketBuy, OrderConstants
  <2> QED
    BY <1>2, <2>1, <2>4, <2>5 DEF NeverWorseThanLimit
<1>7. CASE kind = "market" /\ side = "SELL"
  <2> DEFINE m == Truncated(s, MakerTrunc)
             got == Truncated(Quo(s * p, Scale), TakerTrunc)
  <2>1. ticket' = [kind |-> "market", side |-> "SELL", size |-> size, price |-> price,
                   maker |-> m, taker |-> got]
    BY <1>1, <1>3, <1>7 DEF MarketAmounts
  <2>2. Quo(s * p, Scale) \in Nat
    BY <1>3, Division, OrderConstants
  <2>3. m \in Nat /\ m <= s /\ got \in Nat /\ Quo(s * p, Scale) < got + TakerTrunc
    BY <1>2, <2>2, Truncation, OrderConstants
  <2> HIDE DEF m, got
  <2>4. m * (price - 1) <= (got + TakerTrunc) * Scale
    BY <1>2, <2>3, Proceeds, OrderConstants
  <2> QED
    BY <1>2, <2>1, <2>3, <2>4 DEF NeverWorseThanLimit
<1> QED
  BY <1>4, <1>5, <1>6, <1>7

\* Nothing else builds an order.
LEMMA LimitStep == NeverWorseThanLimit /\ [OrdersNext]_orderVars => NeverWorseThanLimit'
<1>1. ASSUME NeverWorseThanLimit, BuildNext PROVE NeverWorseThanLimit'
  <2>1. PICK size \in Sizes, price \in Prices :
          \/ \E kind \in {"limit", "market"}, side \in {"BUY", "SELL"} : Build(kind, side, size, price)
          \/ BuildPanics(size, price)
    BY <1>1 DEF BuildNext
  <2>2. size \in Nat /\ price \in Nat
    BY OrderConstants
  <2>3. CASE BuildPanics(size, price)
    <3>1. ticket'.kind = "panic"
      BY <2>3 DEF BuildPanics, NoTicket
    <3> QED
      BY <3>1 DEF NeverWorseThanLimit
  <2> QED
    BY <2>1, <2>2, <2>3, BuildKeepsLimit
<1>2. ASSUME NeverWorseThanLimit, UNCHANGED ticket PROVE NeverWorseThanLimit'
  BY <1>2 DEF NeverWorseThanLimit, Fits
<1>3. ASSUME ExecNext PROVE UNCHANGED ticket
  BY <1>3
  DEF ExecNext, PlaceLimitOrders, PlaceMarketOrder, Place, PlaceLive, PlacePaper, NotImplemented,
      PostOrder, PlaceReturns, CancelOrders, CancelCall, CancelBatch, CancelReturns, Fill
<1> QED
  BY <1>1, <1>2, <1>3 DEF OrdersNext, orderVars

\* Whatever the conversion to integers and the truncations do, no order that goes out
\* asks a worse price than its limit, as long as the products fit an int64.
THEOREM LimitIsKept == OrdersSpec => []NeverWorseThanLimit
<1>1. OrdersInit => NeverWorseThanLimit
  BY DEF OrdersInit, NeverWorseThanLimit, NoTicket
<1> QED
  BY <1>1, LimitStep, PTL DEF OrdersSpec

-----------------------------------------------------------------------------
(* What a call reports of the venue                                        *)

Placements == {"limit", "market"}

\* A call is its orders and what is known of those it is done with.
CallType == [op : {"idle", "limit", "market", "cancel"}, ids : Seq(OrderNames),
             done : Seq(BOOLEAN), canceled : SUBSET OrderNames, not : SUBSET OrderNames]

CallOK ==
  /\ exec \in CallType /\ Len(exec.done) <= Len(exec.ids)
  /\ venueOrder \in [OrderNames -> {"none", "open", "filled", "canceled"}]
  /\ placed \subseteq OrderNames /\ lostAnswer \subseteq placed

\* Result d is the truth about order o: the venue has it, and said so.
TrueOf(o, d) == d <=> venueOrder[o] # "none" /\ o \notin lostAnswer

\* The venue has never been asked for o.
Unposted(o) == venueOrder[o] = "none" /\ o \notin lostAnswer

\* A placement's results are true, and the rest of its orders are not posted yet.
PlacingInv ==
  exec.op \in Placements =>
    /\ IsInjective(exec.ids) /\ IDs(exec.ids) \subseteq placed
    /\ exec.op = "market" => Len(exec.ids) = 1
    /\ \A i \in 1 .. Len(exec.done) : TrueOf(exec.ids[i], exec.done[i])
    /\ \A i \in Len(exec.done) + 1 .. Len(exec.ids) : Unposted(exec.ids[i])

\* The first n of the IDs are answered, as EveryCancelAnswered says of all of them.
Answered(ids, n, canceled, not) ==
  /\ canceled \cup not = {ids[i] : i \in 1 .. n}
  /\ \A o \in canceled : venueOrder[o] = "canceled"
  /\ \A o \in canceled \cap not : \E i, j \in 1 .. n : i # j /\ ids[i] = o /\ ids[j] = o

CancelingInv ==
  exec.op = "cancel" => Answered(exec.ids, Len(exec.done), exec.canceled, exec.not)

\* While a call is in progress the answer of the one before is gone, and an order that
\* no call was given is not posted.
ReportInv ==
  /\ CallOK
  /\ exec.op # "idle" => trading = "live" /\ answer.op = "none"
  /\ \A o \in OrderNames \ placed : Unposted(o)
  /\ PlacingInv /\ CancelingInv
  /\ PlacementReported /\ EveryCancelAnswered

\* The IDs of a call are a sequence of orders.
LEMMA RequestIsSequence ==
  ASSUME NEW r \in Requests
  PROVE  r \in Seq(OrderNames) /\ Len(r) \in Nat /\ DOMAIN r = 1 .. Len(r)
<1>1. PICK n \in 0 .. MaxIDs : r \in [1 .. n -> OrderNames]
  BY DEF Requests
<1>2. n \in Nat
  BY OrderAssumption
<1>3. r \in Seq(OrderNames)
  BY <1>1, <1>2, SeqDef
<1> QED
  BY <1>3, LenProperties

\* A placement names each of its orders once, and none that was placed before.
LEMMA NewOrdersDistinct ==
  ASSUME NEW r \in NewOrders
  PROVE  /\ r \in Seq(OrderNames) /\ Len(r) \in Nat /\ DOMAIN r = 1 .. Len(r)
         /\ IsInjective(r) /\ IDs(r) \cap placed = {} /\ IDs(r) \subseteq OrderNames
<1>1. r \in Requests /\ IDs(r) \cap placed = {} /\ Cardinality(IDs(r)) = Len(r)
  BY DEF NewOrders
<1>2. r \in Seq(OrderNames) /\ Len(r) \in Nat /\ DOMAIN r = 1 .. Len(r)
  BY <1>1, RequestIsSequence
<1>3. r \in [1 .. Len(r) -> OrderNames]
  BY <1>2, LenProperties
<1>4. r \in Surjection(1 .. Len(r), IDs(r))
  BY <1>2, <1>3 DEF IDs, Surjection
<1>5. IsFiniteSet(1 .. Len(r)) /\ Cardinality(1 .. Len(r)) = Len(r)
  BY <1>2, FS_Interval
<1>6. r \in Injection(1 .. Len(r), IDs(r))
  BY <1>1, <1>4, <1>5, FS_Surjection
<1> QED
  BY <1>1, <1>2, <1>3, <1>6 DEF Injection, IDs

\* The initial state has nothing to report.
LEMMA ReportInit == OrdersInit => ReportInv
<1> SUFFICES ASSUME OrdersInit PROVE ReportInv
  OBVIOUS
<1>1. exec \in CallType /\ Len(exec.done) = 0 /\ Len(exec.ids) = 0
  BY EmptySeq DEF OrdersInit, NoExec, CallType
<1>2. exec.op = "idle" /\ answer.op = "none"
  BY DEF OrdersInit, NoExec, NoAnswer
<1> QED
  BY <1>1, <1>2 DEF OrdersInit, ReportInv, CallOK, Unposted, PlacingInv, CancelingInv, Placements,
     PlacementReported, EveryCancelAnswered

\* A step that ends between two calls needs nothing but true answers.
LEMMA BetweenCalls ==
  ASSUME exec' = NoExec,
         venueOrder' \in [OrderNames -> {"none", "open", "filled", "canceled"}],
         placed' \subseteq OrderNames, lostAnswer' \subseteq placed',
         \A o \in OrderNames \ placed' : Unposted(o)',
         PlacementReported', EveryCancelAnswered'
  PROVE  ReportInv'
<1>1. exec' \in CallType /\ Len(exec'.done) = 0 /\ Len(exec'.ids) = 0 /\ exec'.op = "idle"
  BY EmptySeq DEF NoExec, CallType
<1> QED
  BY <1>1 DEF ReportInv, CallOK, PlacingInv, CancelingInv, Placements

\* A placement begins with orders that the venue has not seen, or fails before one is
\* posted.
LEMMA PlaceReport ==
  ASSUME ReportInv, NEW op \in Placements, NEW r \in NewOrders, op = "market" => Len(r) = 1,
         Place(op, r)
  PROVE  ReportInv'
<1>1. /\ r \in Seq(OrderNames) /\ Len(r) \in Nat /\ DOMAIN r = 1 .. Len(r)
      /\ IsInjective(r) /\ IDs(r) \cap placed = {} /\ IDs(r) \subseteq OrderNames
  BY NewOrdersDistinct
<1>2. /\ placed' = placed \cup IDs(r)
      /\ UNCHANGED <<trading, venueOrder, lostAnswer>>
  BY DEF Place, PlaceLive, PlacePaper, NotImplemented
<1>3. /\ venueOrder' \in [OrderNames -> {"none", "open", "filled", "canceled"}]
      /\ placed' \subseteq OrderNames /\ lostAnswer' \subseteq placed'
      /\ \A o \in OrderNames \ placed' : Unposted(o)'
  BY <1>1, <1>2 DEF ReportInv, CallOK, Unposted
<1>4. \A o \in IDs(r) : Unposted(o)'
  BY <1>1, <1>2 DEF ReportInv, Unposted
<1>5. ASSUME exec' = NoExec, answer'.op = op, answer'.ids = r,
             \/ trading # "live"
             \/ answer'.error
             \/ r = <<>> /\ answer'.done = <<>> /\ answer'.error = FALSE
      PROVE  ReportInv'
  <2>1. PlacementReported'
    <3>1. CASE trading # "live"
      BY <1>2, <3>1 DEF PlacementReported
    <3>2. CASE answer'.error
      BY <1>4, <1>5, <3>2 DEF PlacementReported, Unposted
    <3>3. CASE r = <<>> /\ answer'.done = <<>> /\ answer'.error = FALSE
      BY <1>1, <1>5, <3>3, EmptySeq DEF PlacementReported
    <3> QED
      BY <1>5, <3>1, <3>2, <3>3
  <2>2. EveryCancelAnswered'
    BY <1>5 DEF EveryCancelAnswered, Placements
  <2> QED
    BY <1>3, <1>5, <2>1, <2>2, BetweenCalls
<1>7. CASE PlaceLive(op, r) /\ exec' = [NoExec EXCEPT !.op = op, !.ids = r] /\ answer' = NoAnswer
  <2>1. /\ exec' = [op |-> op, ids |-> r, done |-> <<>>, canceled |-> {}, not |-> {}]
        /\ answer'.op = "none" /\ trading = "live"
    BY <1>7 DEF NoExec, NoAnswer, PlaceLive
  <2>2. exec' \in CallType /\ Len(exec'.done) = 0 /\ exec'.op = op /\ exec'.ids = r
    BY <1>1, <2>1, EmptySeq DEF CallType, Placements
  <2>3. CallOK'
    BY <1>1, <1>3, <2>2 DEF CallOK
  <2>4. PlacingInv'
    BY <1>1, <1>2, <1>4, <2>2 DEF PlacingInv, IDs
  <2>5. CancelingInv' /\ PlacementReported' /\ EveryCancelAnswered'
    BY <2>1, <2>2 DEF CancelingInv, PlacementReported, EveryCancelAnswered, Placements
  <2> QED
    BY <1>2, <1>3, <2>1, <2>3, <2>4, <2>5 DEF ReportInv
<1>8. CASE PlaceLive(op, r) /\ Return([NoExec EXCEPT !.op = op, !.ids = r], TRUE, FALSE)
  BY <1>5, <1>8 DEF Return, NoExec
<1>9. CASE PlaceLive(op, r) /\ r = <<>> /\ Return([NoExec EXCEPT !.op = op, !.ids = r], FALSE, TRUE)
  BY <1>5, <1>9 DEF Return, NoExec
<1>10. CASE PlacePaper(op, r)
  BY <1>5, <1>10 DEF PlacePaper, Return, NoExec
<1>11. CASE NotImplemented(op, r)
  BY <1>5, <1>11 DEF NotImplemented, Return, NoExec
<1> QED
  BY <1>7, <1>8, <1>9, <1>10, <1>11 DEF Place, PlaceLive

\* Each post adds a result that is true of its order, and the market order whose post
\* fails is at the venue only if the answer was lost.
LEMMA PostReport ==
  ASSUME ReportInv, PostOrder
  PROVE  ReportInv'
<1>0. PICK n, o : n = Len(exec.done) /\ o = exec.ids[n + 1]
  OBVIOUS
<1>1. /\ exec.op \in Placements /\ n < Len(exec.ids) /\ UNCHANGED <<trading, placed>>
  BY <1>0 DEF PostOrder, Placements
<1>2. /\ exec \in CallType /\ n \in Nat /\ Len(exec.ids) \in Nat /\ n + 1 \in 1 .. Len(exec.ids)
      /\ exec.ids \in Seq(OrderNames) /\ exec.done \in Seq(BOOLEAN)
      /\ DOMAIN exec.ids = 1 .. Len(exec.ids)
  <2>1. exec \in CallType /\ exec.ids \in Seq(OrderNames) /\ exec.done \in Seq(BOOLEAN)
    BY DEF ReportInv, CallOK, CallType
  <2> QED
    BY <1>0, <1>1, <2>1, LenProperties
<1>3. /\ IsInjective(exec.ids) /\ IDs(exec.ids) \subseteq placed
      /\ exec.op = "market" => Len(exec.ids) = 1
      /\ \A i \in 1 .. n : TrueOf(exec.ids[i], exec.done[i])
      /\ \A i \in n + 1 .. Len(exec.ids) : Unposted(exec.ids[i])
  BY <1>0, <1>1 DEF ReportInv, PlacingInv
<1>4. o \in placed /\ o \in OrderNames /\ Unposted(o)
  BY <1>0, <1>2, <1>3 DEF IDs, ReportInv, CallOK
<1>5. \A i \in 1 .. Len(exec.ids) : i # n + 1 => exec.ids[i] # o
  BY <1>0, <1>2, <1>3 DEF IsInjective
<1>6. /\ \/ venueOrder' = [venueOrder EXCEPT ![o] = "open"]
         \/ venueOrder' = venueOrder
      /\ \/ lostAnswer' = lostAnswer \cup {o}
         \/ lostAnswer' = lostAnswer
  BY <1>0 DEF PostOrder
<1>7. /\ venueOrder' \in [OrderNames -> {"none", "open", "filled", "canceled"}]
      /\ placed' \subseteq OrderNames /\ lostAnswer' \subseteq placed'
      /\ \A x \in OrderNames : x # o => venueOrder'[x] = venueOrder[x]
                                        /\ (x \in lostAnswer' <=> x \in lostAnswer)
  BY <1>1, <1>4, <1>6 DEF ReportInv, CallOK
<1>8. \A x \in OrderNames \ placed' : Unposted(x)'
  BY <1>1, <1>4, <1>7 DEF ReportInv, Unposted
<1>9. ASSUME NEW ok \in BOOLEAN, exec' = [exec EXCEPT !.done = WithResult(ok)],
             UNCHANGED answer, TrueOf(o, ok)'
      PROVE  ReportInv'
  <2>1. /\ Append(exec.done, ok) \in Seq(BOOLEAN) /\ Len(Append(exec.done, ok)) = n + 1
        /\ \A i \in 1 .. n : Append(exec.done, ok)[i] = exec.done[i]
        /\ Append(exec.done, ok)[n + 1] = ok
    BY <1>2, <1>0, AppendProperties
  <2>2. /\ exec' \in CallType /\ exec'.op = exec.op /\ exec'.ids = exec.ids
        /\ exec'.done = Append(exec.done, ok)
    BY <1>2, <1>9, <2>1 DEF CallType, WithResult
  <2>3. CallOK'
    BY <1>2, <1>7, <2>1, <2>2 DEF CallOK
  <2>4. PlacingInv'
    <3>1. \A i \in 1 .. n + 1 : TrueOf(exec.ids[i], exec.done[i])'
      <4> SUFFICES ASSUME NEW i \in 1 .. n + 1 PROVE TrueOf(exec.ids[i], exec.done[i])'
        OBVIOUS
      <4>1. CASE i = n + 1
        BY <1>0, <1>9, <2>1, <2>2, <4>1
      <4>2. CASE i # n + 1
        <5>1. i \in 1 .. n /\ i \in 1 .. Len(exec.ids)
          BY <1>2, <4>2
        <5>2. exec.ids[i] # o /\ exec.ids[i] \in OrderNames
          BY <1>2, <1>5, <5>1
        <5> QED
          BY <1>3, <1>7, <2>1, <2>2, <5>1, <5>2 DEF TrueOf
      <4> QED
        BY <4>1, <4>2
    <3>2. \A i \in n + 2 .. Len(exec.ids) : Unposted(exec.ids[i])'
      <4> SUFFICES ASSUME NEW i \in n + 2 .. Len(exec.ids) PROVE Unposted(exec.ids[i])'
        OBVIOUS
      <4>1. i \in n + 1 .. Len(exec.ids) /\ i # n + 1 /\ i \in 1 .. Len(exec.ids)
        BY <1>2
      <4>2. exec.ids[i] # o /\ exec.ids[i] \in OrderNames
        BY <1>2, <1>5, <4>1
      <4> QED
        BY <1>3, <1>7, <2>2, <4>1, <4>2 DEF Unposted
    <3> QED
      BY <1>1, <1>2, <1>3, <2>1, <2>2, <3>1, <3>2 DEF PlacingInv
  <2>5. CancelingInv' /\ PlacementReported' /\ EveryCancelAnswered'
    BY <1>1, <1>9, <2>2 DEF CancelingInv, PlacementReported, EveryCancelAnswered, Placements, ReportInv
  <2> QED
    BY <1>1, <1>8, <1>9, <2>2, <2>3, <2>4, <2>5 DEF ReportInv, Placements
<1>10. ASSUME exec.op = "market", Return(exec, TRUE, FALSE), Unposted(o)' \/ o \in lostAnswer'
       PROVE  ReportInv'
  <2>1. /\ exec' = NoExec /\ answer'.op = exec.op /\ answer'.ids = exec.ids /\ answer'.error
    BY <1>10 DEF Return
  <2>2. \A i \in DOMAIN exec.ids : exec.ids[i] = o
    BY <1>0, <1>2, <1>3, <1>10
  <2>3. PlacementReported'
    BY <1>10, <2>1, <2>2 DEF PlacementReported, IDs, Unposted
  <2>4. EveryCancelAnswered'
    BY <1>10, <2>1 DEF EveryCancelAnswered
  <2> QED
    BY <1>7, <1>8, <2>1, <2>3, <2>4, BetweenCalls
<1>11. CASE /\ venueOrder' = [venueOrder EXCEPT ![o] = "open"]
            /\ exec' = [exec EXCEPT !.done = WithResult(TRUE)] /\ UNCHANGED <<answer, lostAnswer>>
  <2>1. TrueOf(o, TRUE)'
    BY <1>4, <1>11 DEF TrueOf, Unposted, ReportInv, CallOK
  <2> QED
    BY <1>9, <1>11, <2>1
<1>12. CASE /\ venueOrder' = [venueOrder EXCEPT ![o] = "open"]
            /\ lostAnswer' = lostAnswer \cup {o}
            /\ \/ exec' = [exec EXCEPT !.done = WithResult(FALSE)] /\ UNCHANGED answer
               \/ exec.op = "market" /\ Return(exec, TRUE, FALSE)
  <2>1. o \in lostAnswer' /\ TrueOf(o, FALSE)'
    BY <1>12 DEF TrueOf
  <2> QED
    BY <1>9, <1>10, <1>12, <2>1
<1>13. CASE /\ UNCHANGED <<venueOrder, lostAnswer>>
            /\ \/ exec' = [exec EXCEPT !.done = WithResult(FALSE)] /\ UNCHANGED answer
               \/ exec.op = "market" /\ Return(exec, TRUE, FALSE)
  <2>1. Unposted(o)' /\ TrueOf(o, FALSE)'
    BY <1>4, <1>13 DEF TrueOf, Unposted
  <2> QED
    BY <1>9, <1>10, <1>13, <2>1
<1> QED
  BY <1>0, <1>1, <1>11, <1>12, <1>13 DEF PostOrder, Placements

\* Between two orders only the end of the call or the venue moves: a placement returns
\* the results it has, all of them true.
LEMMA PlaceReturnsReport ==
  ASSUME ReportInv, PlaceReturns
  PROVE  ReportInv'
<1>1. /\ exec.op \in Placements /\ Len(exec.done) = Len(exec.ids)
      /\ UNCHANGED <<trading, venueOrder, lostAnswer, placed>>
      /\ exec' = NoExec /\ answer'.op = exec.op /\ answer'.ids = exec.ids
      /\ answer'.error = FALSE /\ answer'.done = exec.done
      /\ answer'.success = AnySuccess(exec.done)
  BY DEF PlaceReturns, Return, Placements
<1>2. /\ exec.ids \in Seq(OrderNames) /\ exec.done \in Seq(BOOLEAN)
      /\ DOMAIN exec.ids = 1 .. Len(exec.ids)
  <2>1. exec.ids \in Seq(OrderNames) /\ exec.done \in Seq(BOOLEAN)
    BY DEF ReportInv, CallOK, CallType
  <2> QED
    BY <2>1, LenProperties
<1>3. \A i \in 1 .. Len(exec.ids) : TrueOf(exec.ids[i], exec.done[i])
  BY <1>1 DEF ReportInv, PlacingInv
<1>4. PlacementReported'
  <2>1. answer'.success <=> AnySuccess(answer'.done)
    BY <1>1 DEF AnySuccess
  <2>2. \A i \in DOMAIN answer'.ids :
          answer'.done[i] <=> venueOrder'[answer'.ids[i]] # "none"
                                /\ answer'.ids[i] \notin lostAnswer'
    BY <1>1, <1>2, <1>3 DEF TrueOf
  <2>3. ~answer'.error /\ Len(answer'.done) = Len(answer'.ids)
    BY <1>1
  <2> QED
    BY <2>1, <2>2, <2>3 DEF PlacementReported
<1>5. EveryCancelAnswered'
  BY <1>1 DEF EveryCancelAnswered, Placements
<1> QED
  BY <1>1, <1>4, <1>5, BetweenCalls DEF ReportInv, CallOK, Unposted

\* A cancellation begins with nothing answered.
LEMMA CancelCallReport ==
  ASSUME ReportInv, NEW r \in Requests, CancelCall(r)
  PROVE  ReportInv'
<1>1. r \in Seq(OrderNames) /\ Len(r) \in Nat /\ DOMAIN r = 1 .. Len(r)
  BY RequestIsSequence
<1>2. UNCHANGED <<trading, venueOrder, lostAnswer, placed>>
  BY DEF CancelCall
<1>3. CASE trading = "live" /\ exec' = [NoExec EXCEPT !.op = "cancel", !.ids = r] /\ answer' = NoAnswer
  <2>1. /\ exec' = [op |-> "cancel", ids |-> r, done |-> <<>>, canceled |-> {}, not |-> {}]
        /\ answer'.op = "none"
    BY <1>3 DEF NoExec, NoAnswer
  <2>2. exec' \in CallType /\ Len(exec'.done) = 0 /\ exec'.op = "cancel"
    BY <1>1, <2>1, EmptySeq DEF CallType
  <2>3. CallOK'
    BY <1>1, <1>2, <2>1, <2>2 DEF CallOK, ReportInv
  <2>4. CancelingInv'
    BY <2>1, <2>2 DEF CancelingInv, Answered
  <2>5. PlacingInv' /\ PlacementReported' /\ EveryCancelAnswered'
    BY <2>1 DEF PlacingInv, PlacementReported, EveryCancelAnswered, Placements
  <2> QED
    BY <1>2, <1>3, <2>1, <2>3, <2>4, <2>5 DEF ReportInv, Unposted
<1>4. ASSUME exec' = NoExec, answer'.op = "cancel", trading # "live" PROVE ReportInv'
  <2>1. PlacementReported' /\ EveryCancelAnswered'
    BY <1>2, <1>4 DEF PlacementReported, EveryCancelAnswered, Placements
  <2> QED
    BY <1>2, <1>4, <2>1, BetweenCalls DEF ReportInv, CallOK, Unposted
<1> QED
  BY <1>3, <1>4 DEF CancelCall, Return, NoExec

\* Answering a batch B answers every ID of it: as canceled only those in C, which the
\* venue has canceled, and one that is answered again was asked for again.
LEMMA AnswerBatch ==
  ASSUME NEW ids \in Seq(OrderNames), NEW n \in Nat, NEW m \in Nat, n <= m,
         NEW canceled, NEW not, Answered(ids, n, canceled, not),
         NEW B, B = {ids[i] : i \in n + 1 .. m}, NEW C, C \subseteq B,
         \A o \in canceled \cup C : venueOrder'[o] = "canceled"
  PROVE  Answered(ids, m, canceled \cup C, not \cup (B \ C))'
<1>1. canceled \cup not = {ids[i] : i \in 1 .. n}
  BY DEF Answered
<1>2. 1 .. m = (1 .. n) \cup (n + 1 .. m)
  OBVIOUS
<1>3. (canceled \cup C) \cup (not \cup (B \ C)) = {ids[i] : i \in 1 .. m}
  BY <1>1, <1>2
<1>4. ASSUME NEW o \in (canceled \cup C) \cap (not \cup (B \ C))
      PROVE  \E i, j \in 1 .. m : i # j /\ ids[i] = o /\ ids[j] = o
  <2>1. CASE o \in canceled \cap not
    <3>1. \E i, j \in 1 .. n : i # j /\ ids[i] = o /\ ids[j] = o
      BY <2>1 DEF Answered
    <3> QED
      BY <1>2, <3>1
  <2>2. CASE o \in canceled \cup not /\ o \in B
    <3>1. PICK i \in 1 .. n : ids[i] = o
      BY <1>1, <2>2
    <3>2. PICK j \in n + 1 .. m : ids[j] = o
      BY <2>2
    <3> QED
      BY <1>2, <3>1, <3>2
  <2> QED
    BY <1>4, <2>1, <2>2
<1> QED
  BY <1>3, <1>4 DEF Answered

\* A batch is answered whether or not it fails.
LEMMA CancelBatchReport ==
  ASSUME ReportInv, CancelBatch
  PROVE  ReportInv'
<1>0. PICK n, m, B, open :
        /\ n = Len(exec.done) /\ m = BatchEnd(n)
        /\ B = NextBatch /\ open = {o \in B : venueOrder[o] = "open"}
  OBVIOUS
<1>1. /\ exec.op = "cancel" /\ n < Len(exec.ids)
      /\ UNCHANGED <<trading, answer, lostAnswer, placed>>
  BY <1>0 DEF CancelBatch
<1>2. /\ exec \in CallType /\ n \in Nat /\ Len(exec.ids) \in Nat
      /\ exec.ids \in Seq(OrderNames) /\ DOMAIN exec.ids = 1 .. Len(exec.ids)
  <2>1. exec \in CallType /\ exec.ids \in Seq(OrderNames) /\ exec.done \in Seq(BOOLEAN)
    BY DEF ReportInv, CallOK, CallType
  <2> QED
    BY <1>0, <1>1, <2>1, LenProperties
<1>3. m \in Nat /\ n < m /\ m <= Len(exec.ids)
  <2>1. BatchSize \in Nat \ {0}
    BY OrderAssumption
  <2> QED
    BY <1>0, <1>1, <1>2, <2>1 DEF BatchEnd
<1>4. B = {exec.ids[i] : i \in n + 1 .. m} /\ B \subseteq OrderNames
  <2>1. B = {exec.ids[i] : i \in n + 1 .. m}
    BY <1>0 DEF NextBatch
  <2>2. \A i \in n + 1 .. m : i \in 1 .. Len(exec.ids)
    BY <1>2, <1>3
  <2> QED
    BY <1>2, <2>1, <2>2, ElementOfSeq
<1>5. Answered(exec.ids, n, exec.canceled, exec.not)
  BY <1>0, <1>1 DEF ReportInv, CancelingInv
<1>6. BatchDone = [exec EXCEPT !.done = [i \in 1 .. m |-> TRUE]]
  BY <1>0 DEF BatchDone
<1>7. [i \in 1 .. m |-> TRUE] \in Seq(BOOLEAN) /\ Len([i \in 1 .. m |-> TRUE]) = m
  BY <1>3
<1>8. ASSUME NEW C, C \subseteq B, exec'.op = "cancel", exec'.ids = exec.ids,
             exec'.done = [i \in 1 .. m |-> TRUE], exec' \in CallType,
             exec'.canceled = exec.canceled \cup C, exec'.not = exec.not \cup (B \ C),
             venueOrder' \in [OrderNames -> {"none", "open", "filled", "canceled"}],
             \A o \in exec.canceled \cup C : venueOrder'[o] = "canceled",
             \A o \in OrderNames : venueOrder[o] = "none" => venueOrder'[o] = "none"
      PROVE  ReportInv'
  <2>1. CallOK'
    BY <1>1, <1>3, <1>7, <1>8 DEF ReportInv, CallOK
  <2>2. Answered(exec.ids, m, exec.canceled, exec.not)'
    <3>1. PICK ids, canceled, not : ids = exec.ids /\ canceled = exec.canceled /\ not = exec.not
      OBVIOUS
    <3>2. Answered(ids, m, canceled \cup C, not \cup (B \ C))'
      <4>1. Answered(ids, n, canceled, not)
        BY <1>5, <3>1
      <4>2. ids \in Seq(OrderNames) /\ n <= m /\ B = {ids[i] : i \in n + 1 .. m}
        BY <1>2, <1>3, <1>4, <3>1
      <4>3. \A o \in canceled \cup C : venueOrder'[o] = "canceled"
        BY <1>8, <3>1
      <4> QED
        BY <1>2, <1>3, <1>8, <4>1, <4>2, <4>3, AnswerBatch
    <3> QED
      BY <1>8, <3>1, <3>2 DEF Answered
  <2>3. CancelingInv'
    BY <1>7, <1>8, <2>2 DEF CancelingInv
  <2>4. PlacingInv' /\ PlacementReported' /\ EveryCancelAnswered'
    BY <1>1, <1>8 DEF PlacingInv, PlacementReported, EveryCancelAnswered, Placements, ReportInv
  <2>5. \A o \in OrderNames \ placed' : Unposted(o)'
    BY <1>1, <1>8 DEF ReportInv, Unposted
  <2> QED
    BY <1>1, <2>1, <2>3, <2>4, <2>5 DEF ReportInv
<1>9. /\ \A o \in exec.canceled : venueOrder[o] = "canceled"
      /\ venueOrder \in [OrderNames -> {"none", "open", "filled", "canceled"}]
  BY <1>5 DEF Answered, ReportInv, CallOK
<1>10. \/ venueOrder' = venueOrder
       \/ venueOrder' = [o \in OrderNames |-> IF o \in open THEN "canceled" ELSE venueOrder[o]]
  BY <1>0 DEF CancelBatch
<1>11. /\ venueOrder' \in [OrderNames -> {"none", "open", "filled", "canceled"}]
       /\ \A o \in exec.canceled : venueOrder'[o] = "canceled"
       /\ \A o \in OrderNames : venueOrder[o] = "none" => venueOrder'[o] = "none"
  BY <1>0, <1>2, <1>9, <1>10 DEF CallType
<1>12. CASE /\ venueOrder' = [o \in OrderNames |-> IF o \in open THEN "canceled" ELSE venueOrder[o]]
            /\ exec' = [BatchDone EXCEPT !.canceled = @ \cup open, !.not = @ \cup (B \ open)]
  <2>1. exec' = [exec EXCEPT !.done = [i \in 1 .. m |-> TRUE], !.canceled = @ \cup open,
                             !.not = @ \cup (B \ open)]
    BY <1>2, <1>6, <1>12 DEF CallType
  <2>2. open \subseteq B /\ \A o \in open : venueOrder'[o] = "canceled"
    BY <1>0, <1>4, <1>12
  <2>3. /\ exec' \in CallType /\ exec'.op = "cancel" /\ exec'.ids = exec.ids
        /\ exec'.done = [i \in 1 .. m |-> TRUE]
        /\ exec'.canceled = exec.canceled \cup open /\ exec'.not = exec.not \cup (B \ open)
    BY <1>1, <1>2, <1>4, <1>7, <2>1, <2>2 DEF CallType
  <2>4. \A o \in exec.canceled \cup open : venueOrder'[o] = "canceled"
    BY <1>11, <2>2
  <2> QED
    BY <1>8, <1>11, <2>2, <2>3, <2>4
<1>13. CASE exec' = [BatchDone EXCEPT !.not = FailedBatch(B)]
  <2>1. exec' = [exec EXCEPT !.done = [i \in 1 .. m |-> TRUE], !.not = @ \cup B]
    BY <1>2, <1>6, <1>13 DEF CallType, FailedBatch
  <2>2. /\ exec' \in CallType /\ exec'.op = "cancel" /\ exec'.ids = exec.ids
        /\ exec'.done = [i \in 1 .. m |-> TRUE]
        /\ exec'.canceled = exec.canceled /\ exec'.not = exec.not \cup B
    BY <1>1, <1>2, <1>4, <1>7, <2>1 DEF CallType
  <2>3. PICK C : C = {}
    OBVIOUS
  <2>4. /\ C \subseteq B /\ exec'.canceled = exec.canceled \cup C
        /\ exec'.not = exec.not \cup (B \ C)
        /\ \A o \in exec.canceled \cup C : venueOrder'[o] = "canceled"
    BY <1>11, <2>2, <2>3
  <2> QED
    BY <1>8, <1>11, <2>2, <2>4
<1> QED
  BY <1>0, <1>12, <1>13 DEF CancelBatch

\* A cancellation returns when every ID is answered.
LEMMA CancelReturnsReport ==
  ASSUME ReportInv, CancelReturns
  PROVE  ReportInv'
<1>1. /\ exec.op = "cancel" /\ Len(exec.done) = Len(exec.ids)
      /\ UNCHANGED <<trading, venueOrder, lostAnswer, placed>>
      /\ exec' = NoExec /\ answer'.op = "cancel" /\ answer'.ids = exec.ids
      /\ answer'.canceled = exec.canceled /\ answer'.not = exec.not
  BY DEF CancelReturns, Return
<1>2. DOMAIN exec.ids = 1 .. Len(exec.ids)
  BY LenProperties DEF ReportInv, CallOK, CallType
<1>3. Answered(exec.ids, Len(exec.ids), exec.canceled, exec.not)
  BY <1>1 DEF ReportInv, CancelingInv
<1>4. EveryCancelAnswered'
  BY <1>1, <1>2, <1>3 DEF EveryCancelAnswered, Answered, IDs
<1>5. PlacementReported'
  BY <1>1 DEF PlacementReported, Placements
<1> QED
  BY <1>1, <1>4, <1>5, BetweenCalls DEF ReportInv, CallOK, Unposted

\* A fill turns no report into a lie.
LEMMA FillReport ==
  ASSUME ReportInv, Fill
  PROVE  ReportInv'
<1>1. UNCHANGED <<trading, exec, answer, lostAnswer, placed>>
  BY DEF Fill
<1>2. PICK x \in OrderNames :
        venueOrder[x] = "open" /\ venueOrder' = [venueOrder EXCEPT ![x] = "filled"]
  BY DEF Fill
<1>3. /\ venueOrder' \in [OrderNames -> {"none", "open", "filled", "canceled"}]
      /\ \A o : venueOrder'[o] = "none" <=> venueOrder[o] = "none"
      /\ \A o : venueOrder[o] = "canceled" => venueOrder'[o] = "canceled"
  BY <1>2 DEF ReportInv, CallOK
<1>4. CallOK' /\ \A o \in OrderNames \ placed' : Unposted(o)'
  BY <1>1, <1>3 DEF ReportInv, CallOK, Unposted
<1>5. PlacingInv'
  BY <1>1, <1>3 DEF ReportInv, PlacingInv, TrueOf, Unposted
<1>6. CancelingInv' /\ EveryCancelAnswered'
  BY <1>1, <1>3 DEF ReportInv, CancelingInv, Answered, EveryCancelAnswered
<1>7. PlacementReported'
  BY <1>1, <1>3 DEF ReportInv, PlacementReported
<1> QED
  BY <1>1, <1>4, <1>5, <1>6, <1>7 DEF ReportInv

\* Every step keeps the invariant.
LEMMA ReportStep == ReportInv /\ [OrdersNext]_orderVars => ReportInv'
<1>1. ASSUME ReportInv, PlaceLimitOrders \/ PlaceMarketOrder PROVE ReportInv'
  BY <1>1, PlaceReport DEF PlaceLimitOrders, PlaceMarketOrder, Placements
<1>2. ASSUME ReportInv, CancelOrders PROVE ReportInv'
  BY <1>2, CancelCallReport DEF CancelOrders
<1>3. ASSUME ReportInv, UNCHANGED callVars PROVE ReportInv'
  BY <1>3 DEF callVars, ReportInv, CallOK, Unposted, PlacingInv, CancelingInv, Answered,
     TrueOf, PlacementReported, EveryCancelAnswered
<1>4. [OrdersNext]_orderVars => ExecNext \/ UNCHANGED callVars
  BY DEF OrdersNext, BuildNext, orderVars
<1> QED
  BY <1>1, <1>2, <1>3, <1>4, PostReport, PlaceReturnsReport, CancelBatchReport,
     CancelReturnsReport, FillReport DEF ExecNext

\* The invariant holds in every reachable state.
LEMMA ReportInvariant == OrdersSpec => []ReportInv
  BY ReportInit, ReportStep, PTL DEF OrdersSpec

\* What a placement reports is what the venue has: a success is an order it accepted,
\* and an order it accepted is a success unless its answer was lost, for any number of
\* orders, calls and fills.
THEOREM PlacementsAreTrue == OrdersSpec => []PlacementReported
<1>1. ReportInv => PlacementReported
  BY DEF ReportInv
<1> QED
  BY <1>1, ReportInvariant, PTL

\* Every ID of a CancelOrders call is answered, whatever the batch size and whichever
\* batches fail.
THEOREM CancelsAreAnswered == OrdersSpec => []EveryCancelAnswered
<1>1. ReportInv => EveryCancelAnswered
  BY DEF ReportInv
<1> QED
  BY <1>1, ReportInvariant, PTL

-----------------------------------------------------------------------------
\* Products and quotients of integers are integers, also those that wrap around.
LEMMA AmountsAreIntegers ==
  ASSUME NEW x \in Int, NEW y \in Nat \ {0}
  PROVE  Int64(x) \in Int /\ Quo(x, y) \in Int /\ Truncated(x, y) \in Int
<1>1. MaxInt + 1 \in Nat \ {0} /\ 2 * (MaxInt + 1) \in Nat \ {0}
  BY OrderConstants
<1>2. Int64(x) \in Int
  <2>1. (x + MaxInt + 1) % (2 * (MaxInt + 1)) \in Int
    BY <1>1, OrderConstants
  <2> QED
    BY <1>1, <2>1, OrderConstants DEF Int64
<1>3. Quo(x, y) \in Int
  BY DEF Quo
<1> QED
  BY <1>2, <1>3 DEF Truncated

\* The order that is built has integer amounts.
TicketOK == /\ ticket.kind \in {"none", "limit", "market", "panic"}
            /\ ticket.maker \in Int /\ ticket.taker \in Int

\* The amounts of a built order are integers.
LEMMA BuildTicketOK ==
  ASSUME NEW kind \in {"limit", "market"}, NEW side \in {"BUY", "SELL"},
         NEW size \in Nat, NEW price \in Nat, Build(kind, side, size, price)
  PROVE  TicketOK'
<1>1. PICK s \in Raw(size), p \in Raw(price) :
        /\ kind = "market" /\ side = "BUY" => p # 0
        /\ LET a == IF kind = "limit" THEN LimitAmounts(side, s, p) ELSE MarketAmounts(side, s, p)
           IN ticket' = [kind |-> kind, side |-> side, size |-> size, price |-> price,
                         maker |-> a.maker, taker |-> a.taker]
  BY DEF Build
<1>2. s \in Nat /\ p \in Nat
  BY RawRange
<1>3. s * p \in Int /\ s * Scale \in Int
  BY <1>2, OrderConstants
<1>4. Int64(s * p) \in Int /\ Int64(s * Scale) \in Int
  BY <1>3, AmountsAreIntegers
<1>5. Quo(Int64(s * p), Scale) \in Int
  BY <1>4, AmountsAreIntegers, OrderConstants
<1>6. CASE kind = "limit"
  BY <1>1, <1>2, <1>5, <1>6 DEF LimitAmounts, TicketOK
<1>7. CASE kind = "market"
  <2> DEFINE other == IF side = "BUY" THEN Quo(Int64(s * Scale), p) ELSE Quo(Int64(s * p), Scale)
  <2>1. other \in Int
    BY <1>1, <1>2, <1>4, <1>5, <1>7, AmountsAreIntegers
  <2>2. \A x \in Int : Truncated(x, MakerTrunc) \in Int /\ Truncated(x, TakerTrunc) \in Int
    BY AmountsAreIntegers, OrderConstants
  <2>3. /\ ticket'.kind = "market" /\ ticket'.maker = Truncated(s, MakerTrunc)
        /\ ticket'.taker = Truncated(other, TakerTrunc)
    BY <1>1, <1>7 DEF MarketAmounts
  <2> HIDE DEF other
  <2> QED
    BY <1>2, <2>1, <2>2, <2>3 DEF TicketOK
<1> QED
  BY <1>6, <1>7

\* An order is built once, or its building panics.
LEMMA TicketStep == TicketOK /\ [OrdersNext]_orderVars => TicketOK'
<1>1. ASSUME BuildNext PROVE TicketOK'
  <2>1. PICK size \in Sizes, price \in Prices :
          \/ \E kind \in {"limit", "market"}, side \in {"BUY", "SELL"} : Build(kind, side, size, price)
          \/ BuildPanics(size, price)
    BY <1>1 DEF BuildNext
  <2>2. size \in Nat /\ price \in Nat
    BY OrderConstants
  <2>3. CASE BuildPanics(size, price)
    BY <2>3 DEF BuildPanics, NoTicket, TicketOK
  <2> QED
    BY <2>1, <2>2, <2>3, BuildTicketOK
<1>2. ExecNext => UNCHANGED ticket
  BY DEF ExecNext, PlaceLimitOrders, PlaceMarketOrder, Place, PlaceLive, PlacePaper, NotImplemented,
     PostOrder, PlaceReturns, CancelOrders, CancelCall, CancelBatch, CancelReturns, Fill
<1>3. TicketOK /\ UNCHANGED ticket => TicketOK'
  BY DEF TicketOK
<1> QED
  BY <1>1, <1>2, <1>3 DEF OrdersNext, orderVars

\* Every variable of the orders has its type in every reachable state.
THEOREM OrdersTypeCorrect == OrdersSpec => []OrdersTypeOK
<1>1. OrdersInit => TicketOK
  BY DEF OrdersInit, TicketOK, NoTicket
<1>2. ReportInv /\ TicketOK => OrdersTypeOK
  BY DEF ReportInv, CallOK, CallType, TicketOK, OrdersTypeOK
<1> QED
  BY <1>1, <1>2, TicketStep, ReportInvariant, PTL DEF OrdersSpec
=============================================================================
