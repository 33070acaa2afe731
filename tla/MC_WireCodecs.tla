---------------------------- MODULE MC_WireCodecs ----------------------------
(* Inputs for WireCodecs: ports and address bytes on both sides of 128,   *)
(* arrays one byte short of a full address, unknown families, connection  *)
(* ids of 0, 8 and 20 bytes, tokens up to and beyond the 64-byte buffer.  *)
(* Nameserver configurations: IPv4 and IPv6 resolver entries in either    *)
(* order; Windows lists with empty entries, growing or shrinking between  *)
(* the two GetNetworkParams calls; every failure of the calls on the way. *)
EXTENDS WireCodecs

MCPorts == {0, 80, 443, 32768, 65535}
MCAddrs4 == {<<127, 0, 0, 1>>, <<192, 168, 1, 200>>, <<255, 255, 255, 255>>}
MCAddrs6 == {[i \in 1 .. 16 |-> 0], [i \in 1 .. 16 |-> IF i = 1 THEN 254 ELSE i]}

MCEndpoints ==
    [family : {"AF_INET"}, port : MCPorts, addr : MCAddrs4]
    \cup [family : {"AF_INET6"}, port : MCPorts, addr : MCAddrs6]

MCRawAddresses ==
    { <<>>, <<4>>, <<4, 1>>, <<4, 1, -69>>,
      <<4, 1, -69, 127, 0, 0>>,              \* IPv4 one byte short
      <<4, 1, -69, 127, 0, 0, 1, 9>>,        \* IPv4 with a trailing byte
      <<6, 0, 80>> \o [i \in 1 .. 15 |-> 0], \* IPv6 one byte short
      <<5, 0, 80, 1, 2, 3, 4>>, <<-4, 0, 80, 1, 2, 3, 4>>,
      <<0, 0, 80>> \o [i \in 1 .. 16 |-> 1] }

Bytes(n, v) == [i \in 1 .. n |-> v]

MCHeaders ==
    \* versions 1, 0xff00001d (draft-29) and 0xffffffff as 16-bit halves
    [version : {<<0, 1>>, <<65280, 29>>, <<65535, 65535>>},
     type : {0, 255},
     dcid : {<<>>, Bytes(8, 200), Bytes(20, 7)},
     scid : {<<>>, Bytes(8, 131)},
     token : {<<>>, Bytes(64, 1), Bytes(65, 2)}]

V4a == [family |-> "AF_INET", addr |-> <<10, 0, 0, 1>>, text |-> "10.0.0.1"]
V4b == [family |-> "AF_INET", addr |-> <<192, 168, 1, 200>>,
        text |-> "192.168.1.200"]
V6 == [family |-> "AF_INET6", addr |-> <<254, 128>> \o [i \in 1 .. 14 |-> 0],
       text |-> "fe80::"]

MCPosixInputs ==
    [rc : {0, -1},
     servers : {<<>>, <<V4a>>, <<V4a, V6>>, <<V6, V4b>>, <<V4a, V4b, V6>>},
     leftover : {<<0, 0, 0, 0>>, <<10, 0, 0, 1>>},
     arrayOk : BOOLEAN]

MCWinLists ==
    {<<"">>, <<"10.0.0.1">>, <<"", "10.0.0.1">>,
     <<"10.0.0.1", "192.168.1.200">>, <<"10.0.0.1", "", "192.168.1.200">>}

MCWindowsInputs ==
    [first : MCWinLists, second : MCWinLists, sizeRc : BOOLEAN,
     mallocOk : BOOLEAN, arrayOk : BOOLEAN]

=============================================================================
