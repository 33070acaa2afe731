----------------------------- MODULE MC_QuicConn -----------------------------
EXTENDS QuicConn, TLC

\* Address arrays: a valid IPv4 endpoint (family 4, port 443, 10.0.0.1)
\* and one with an unknown family byte.
MCAddresses == {<<4, 1, -69, 10, 0, 0, 1>>, <<5, 1, -69, 10, 0, 0, 1>>}

\* Only the valid endpoint, for runs about stream I/O.
MCGoodAddresses == {<<4, 1, -69, 10, 0, 0, 1>>}

Symmetry == Permutations(Streams)
=============================================================================
