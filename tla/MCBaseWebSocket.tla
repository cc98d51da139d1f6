-------------------------- MODULE MCBaseWebSocket --------------------------
(* BaseWebSocket for TLC: two socket identities are enough for an old       *)
(* connection's goroutines to meet the connection that replaced it.  The    *)
(* options differ from run to run and are in the configurations.            *)
EXTENDS BaseWebSocket
=============================================================================
