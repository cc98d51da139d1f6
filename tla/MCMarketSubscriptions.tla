----------------------- MODULE MCMarketSubscriptions -----------------------
(* MarketSubscriptions for TLC: one asset, one caller against the flush     *)
(* loop, and two connections, so that frames cross a reconnection.          *)
EXTENDS MarketSubscriptions
=============================================================================
