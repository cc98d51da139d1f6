--------------------------- MODULE MCVenueChannels ---------------------------
(***************************************************************************)
(* The timing of the reconnection that every channel has, the registries  *)
(* of the venues' channels, the Polymarket user channel and the routing of *)
(* frames, explored side by side: they share no state, so `part` says in   *)
(* each behaviour which of them moves.                                     *)
(***************************************************************************)
EXTENDS ReconnectBackoff, SubscriptionRegistry, UserChannel, VenueStreams, TLC

VARIABLE part

Symmetry == Permutations(Callers) \cup Permutations(Conns)

Bin(kind, sym, arg) == [venue |-> "binance", kind |-> kind, sym |-> sym, arg |-> arg]
Rtds(kind, window) == [venue |-> "rtds", kind |-> kind, sym |-> "btc", arg |-> window]

\* Two symbols of a broadcast, registered under the entry that asks for both.
SymbolsMC == {Rtds("crypto_prices", 0), [Rtds("crypto_prices", 0) EXCEPT !.sym = "eth"]}
TopicsMC == UNION {RtdsEntries(s) : s \in SymbolsMC}
TopicMC == [s \in SymbolsMC |-> CHOOSE p \in RtdsEntries(s) : TRUE]

\* Streams of every kind, and pairs that differ only in their interval or window.
StreamsMC ==
  {Bin("bookTicker", "btc", <<"spot">>), Bin("depth", "btc", <<"perp">>),
   Bin("partialDepth", "eth", <<"perp">>),
   Bin("kline", "btc", <<"perp", "1m">>), Bin("kline", "btc", <<"perp", "5m">>),
   Rtds("crypto_prices", 0), Rtds("chainlink", 0), Rtds("twap", 30), Rtds("twap", 60),
   Rtds("equity", 0),
   [venue |-> "market", kind |-> "market", sym |-> "a1", arg |-> 0]}
  \cup BuildSubscriptions("candle", <<"btc">>, [NoParams EXCEPT !.interval = "1m"])
  \cup BuildSubscriptions("candle", <<"btc">>, [NoParams EXCEPT !.interval = "1h"])
  \cup BuildSubscriptions("l2Book", <<"btc">>, [NoParams EXCEPT !.nSigFigs = 5, !.mantissa = 2])
  \cup BuildSubscriptions("allMids", <<>>, NoParams)

\* The streams are as RoutedAsAsked wants them.
ASSUME StreamsAreSeparate == SeparateStreams

ChannelsInit ==
  /\ BackoffInit /\ RegistryInit /\ UserInit /\ StreamsInit
  /\ part \in {"backoff", "registry", "user", "streams"}

ChannelsNext ==
  /\ UNCHANGED part
  /\ \/ part = "backoff" /\ BackoffNext /\ UNCHANGED <<registryVars, userVars, streamVars>>
     \/ part = "registry" /\ RegistryNext /\ UNCHANGED <<backoffVars, userVars, streamVars>>
     \/ part = "user" /\ UserNext /\ UNCHANGED <<backoffVars, registryVars, streamVars>>
     \/ part = "streams" /\ StreamsNext /\ UNCHANGED <<backoffVars, registryVars, userVars>>

ChannelsSpec ==
  ChannelsInit /\ [][ChannelsNext]_<<backoffVars, registryVars, userVars, streamVars, part>>

\* Every variable has its type, in the registries and in the user channel.
ChannelsTypeOK == RegistryTypeOK /\ UserTypeOK
=============================================================================
