---------------------------- MODULE MC_AlpnContext ----------------------------
(* Model-checking instance of AlpnContext: the protocol tables of spec 8  *)
(* and client offers that overlap them in either order or not at all.   *)
EXTENDS AlpnContext, TLC

MCTables == {<<"h3", "h2">>, <<"h2">>}
MCPeerLists == {<<"h2">>, <<"h2", "h3">>, <<"spdy">>}

\* Contexts are only compared for equality.
Symmetry == Permutations(Contexts)
=============================================================================
