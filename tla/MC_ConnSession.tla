---------------------------- MODULE MC_ConnSession ----------------------------
EXTENDS ConnSession

\* ALPN ids as bytes: "h3" and "h2".
MCProtos == {<<104, 51>>, <<104, 50>>}
====
