------------------------- MODULE MCReconnectBackoff -------------------------
(* ReconnectBackoff for TLC.  The market channel's numbers in units of half  *)
(* a second are Base = 1 and MinStable = 10, its cap is 60.                  *)
EXTENDS ReconnectBackoff
=============================================================================
