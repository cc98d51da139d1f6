----------------------------- MODULE MCDepthBook -----------------------------
(* Two price levels and two updates of the venue: the best level goes, then *)
(* the other one, which a snapshot did not carry before, changes.           *)
EXTENDS DepthBook

MCLevels == {1, 2}
MCQuantity ==
  [n \in 0 .. MaxUpdates |-> IF n = 0 THEN <<1, 1>> ELSE <<0, n>>]
=============================================================================
