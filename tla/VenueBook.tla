------------------------------ MODULE VenueBook ------------------------------
(***************************************************************************)
(* One side of a venue's order book, as Binance publishes it: a numbered   *)
(* history of the quantity at every price level, REST snapshots of the     *)
(* best levels, and diffs that carry the levels changed by a run of        *)
(* updates.  Prices are their rank, the best is the smallest; quantity 0   *)
(* is a level that is not in the book, which is how the code reads a diff. *)
(***************************************************************************)
EXTENDS Integers, FiniteSets

CONSTANTS Levels,      \* the price levels, by rank
          MaxUpdates,  \* bound of the updates of the venue
          Quantity,    \* the quantity at each level after each update
          Limit        \* the levels a snapshot carries (limit=50)

ASSUME VenueAssumption ==
  /\ Levels \subseteq Nat /\ MaxUpdates \in Nat \ {0} /\ Limit \in Nat
  /\ Quantity \in [0 .. MaxUpdates -> [Levels -> Nat]]

Empty == [p \in Levels |-> 0]

\* The best Limit levels that have a quantity after update n.
Best(n) ==
  {p \in Levels : /\ Quantity[n][p] # 0
                  /\ Cardinality({q \in Levels : q < p /\ Quantity[n][q] # 0}) < Limit}

\* What levelMap makes of the snapshot taken after update n.
levelMap(n) == [p \in Levels |-> IF p \in Best(n) THEN Quantity[n][p] ELSE 0]

\* The levels in the diff of the updates first to final: those that changed
\* meanwhile.  The venue may also send one that has changed back, to no effect.
Changed(first, final) ==
  {p \in Levels : \E n \in first - 1 .. final - 1 : Quantity[n][p] # Quantity[final][p]}

\* applyLevels: the diff's quantities replace what the book m has.
applyLevels(m, d) ==
  [p \in Levels |-> IF p \in Changed(d.first, d.final) THEN Quantity[d.final][p] ELSE m[p]]

\* Every level of the book m is the venue's after update n, or is missing.
Faithful(m, n) == \A p \in Levels : m[p] \in {0, Quantity[n][p]}
=============================================================================
