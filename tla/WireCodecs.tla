------------------------------ MODULE WireCodecs ------------------------------
(***************************************************************************)
(* The two binary encodings quiche_jni.c shares with the Java side:       *)
(*  - decode_address (lines 144-179): [family:1][port:2 BE][addr:4|16] to *)
(*    a struct sockaddr_storage and its length (0 when rejected);         *)
(*  - quiche_header_info (lines 368-446): the parsed long-header fields   *)
(*    as [version:4 BE][type:1][dcid_len:1][dcid][scid_len:1][scid]       *)
(*    [token_len:1][token].                                               *)
(* Java bytes are signed: a jbyte is -128..127, the C code casts with     *)
(* (uint8_t) and (jbyte), and both casts are modelled by what they do.    *)
(* The Java encoder and parser are not in this repository; they are       *)
(* modelled from spec section 6 and serve as the reference the C side is  *)
(* checked against.  The state machine feeds the bridge one input per    *)
(* step, so TLC covers every input in the sets below.  It also feeds the  *)
(* nameserver discovery of dns_jni.c (module Nameservers), the other      *)
(* pure conversion from platform data to what Java receives.             *)
(***************************************************************************)
EXTENDS Integers, Sequences, Bitwise

CONSTANTS
    Endpoints,    \* endpoints the Java side may encode
    RawAddresses, \* other byte arrays a caller may pass as an address
    Headers,      \* long headers quiche may parse
    PosixInputs,  \* [rc, servers, leftover, arrayOk] for the POSIX branch
    WindowsInputs,\* [first, second, sizeRc, mallocOk, arrayOk] for Windows
    NULL

NS == INSTANCE Nameservers

VARIABLES
    input,  \* what the bridge was given last
    output  \* what it produced

vars == <<input, output>>

\* (jbyte)v for 0 <= v < 256, and (uint8_t)b for a jbyte b.
Jbyte(v) == IF v >= 128 THEN v - 256 ELSE v
U8(b) == IF b < 0 THEN b + 256 ELSE b

\* sizeof(struct sockaddr_in), sizeof(struct sockaddr_in6) on Linux
SizeofSockaddrIn == 16
SizeofSockaddrIn6 == 28

\* The Java encoding of an endpoint (spec 4.1 / 6).
EncodeEndpoint(e) ==
    << Jbyte(IF e.family = "AF_INET" THEN 4 ELSE 6),
       Jbyte(e.port \div 256), Jbyte(e.port % 256) >>
    \o [i \in 1 .. Len(e.addr) |-> Jbyte(e.addr[i])]

\* Fault variant of PortOf: the bytes are not cast to uint8_t, so a
\* negative low byte is sign-extended over the high byte.
PortOfNoCast(hi, lo) == ((hi * 256) % 65536) | (lo % 65536)

\* "(uint16_t)(((uint8_t)bytes[1] << 8) | (uint8_t)bytes[2])"
PortOf(hi, lo) == U8(hi) * 256 + U8(lo)

\* The sockaddr decode_address leaves behind: memset to zero when the
\* family byte or the length does not fit; left uninitialised when
\* GetByteArrayElements fails (bytes == NULL, the early return).
Rejected == [len |-> 0, family |-> "AF_UNSPEC", port |-> 0, addr |-> <<>>]
Uninitialised == [len |-> 0, family |-> "garbage", port |-> 0, addr |-> <<>>]

\* Byte i of array b; a read past its end yields whatever follows it in
\* memory, taken to be 0.
At(b, i) == IF i <= Len(b) THEN b[i] ELSE 0

Sockaddr(len, fam, b, n) ==
    [len |-> len, family |-> fam, port |-> PortOf(At(b, 2), At(b, 3)),
     addr |-> [i \in 1 .. n |-> U8(At(b, 3 + i))]]

\* Fault variant of DecodeAddress: IPv4 accepted from 6 bytes on.
DecodeAddressShortV4(b) ==
    CASE b = NULL -> Uninitialised
      [] Len(b) >= 6 /\ U8(b[1]) = 4 -> Sockaddr(SizeofSockaddrIn, "AF_INET", b, 4)
      [] Len(b) >= 19 /\ U8(b[1]) = 6 -> Sockaddr(SizeofSockaddrIn6, "AF_INET6", b, 16)
      [] OTHER -> Rejected

DecodeAddress(b) ==
    CASE b = NULL -> Uninitialised
      [] Len(b) >= 7 /\ U8(b[1]) = 4 -> Sockaddr(SizeofSockaddrIn, "AF_INET", b, 4)
      [] Len(b) >= 19 /\ U8(b[1]) = 6 -> Sockaddr(SizeofSockaddrIn6, "AF_INET6", b, 16)
      [] OTHER -> Rejected

\* A 32-bit version is kept as its two 16-bit halves <<hi, lo>>, since TLC
\* integers are 32-bit signed.  Byte k (1 = most significant) of it:
VersionByte(v, k) ==
    IF k <= 2 THEN (v[1] \div 2^(8 * (2 - k))) % 256
              ELSE (v[2] \div 2^(8 * (4 - k))) % 256

\* Fault variant of VersionBytes: the bytes are stored without the (jbyte)
\* narrowing, as values 0..255.
VersionBytesNoCast(v) == [k \in 1 .. 4 |-> VersionByte(v, k)]

\* Fault variant of VersionBytes: least significant byte first.
VersionBytesLE(v) == [k \in 1 .. 4 |-> Jbyte(VersionByte(v, 5 - k))]

\* ver_bytes[k] = (jbyte)((version >> (24 - 8k)) & 0xFF), lines 412-416
VersionBytes(v) == [k \in 1 .. 4 |-> Jbyte(VersionByte(v, k))]

Jbytes(s) == [i \in 1 .. Len(s) |-> Jbyte(s[i])]

\* The result array of quiche_header_info for the fields quiche reported.
EncodeHeaderInfo(h) ==
    VersionBytes(h.version) \o << Jbyte(h.type) >>
    \o << Jbyte(Len(h.dcid)) >> \o Jbytes(h.dcid)
    \o << Jbyte(Len(h.scid)) >> \o Jbytes(h.scid)
    \o << Jbyte(Len(h.token)) >> \o Jbytes(h.token)

\* quiche_header_info is given a 64-byte token buffer (uint8_t token[64]).
TokenCapacity == 64

(***************************************************************************)
(* Steps: the bridge decodes an address or serialises a parsed header.    *)
(***************************************************************************)
Init == input = NULL /\ output = NULL

DecodeEncoded(e) ==
    /\ input' = [kind |-> "endpoint", value |-> e]
    /\ output' = DecodeAddress(EncodeEndpoint(e))

DecodeRaw(b) ==
    /\ input' = [kind |-> "raw", value |-> b]
    /\ output' = DecodeAddress(b)

\* quiche_header_info (lines 368-446).  A token longer than the 64-byte
\* buffer is quiche's to handle: the call either fails (rc < 0, NULL
\* returned) or reports at most 64 bytes.
HeaderInfo(h) ==
    /\ input' = [kind |-> "header", value |-> h]
    /\ IF Len(h.token) <= TokenCapacity
       THEN output' = EncodeHeaderInfo(h)
       ELSE \/ output' = NULL
            \/ output' = EncodeHeaderInfo([h EXCEPT !.token = SubSeq(h.token, 1, TokenCapacity)])

\* getSystemNameservers on a POSIX or a Windows build.
DiscoverPosix(c) ==
    /\ input' = [kind |-> "posix", value |-> c]
    /\ output' = NS!PosixResult(c.rc, c.servers, c.leftover, c.arrayOk)

DiscoverWindows(c) ==
    /\ input' = [kind |-> "windows", value |-> c]
    /\ output' = NS!WindowsResult(c.first, c.second, c.sizeRc, c.mallocOk,
                                  c.arrayOk)

Next ==
    \/ \E c \in PosixInputs : DiscoverPosix(c)
    \/ \E c \in WindowsInputs : DiscoverWindows(c)
    \/ \E e \in Endpoints : DecodeEncoded(e)
    \/ \E b \in RawAddresses \cup {NULL} : DecodeRaw(b)
    \/ \E h \in Headers : HeaderInfo(h)

Spec == Init /\ [][Next]_vars

(***************************************************************************)
(* Properties                                                              *)
(***************************************************************************)

TypeOK ==
    \/ input = NULL /\ output = NULL
    \/ /\ \/ input.kind = "endpoint" /\ input.value \in Endpoints
          \/ input.kind = "raw" /\ input.value \in RawAddresses \cup {NULL}
       /\ output.len \in {0, SizeofSockaddrIn, SizeofSockaddrIn6}
    \/ /\ input.kind = "header"
       /\ input.value \in Headers
       /\ output = NULL \/ \A i \in DOMAIN output : output[i] \in -128 .. 127
    \/ /\ input.kind \in {"posix", "windows"}
       /\ output.st \in {"null", "crash", "array"}
       /\ \A i \in DOMAIN output.arr : output.arr[i] \in STRING

\* Reference decoder from spec 4.1: family byte 4 or 6, big-endian port,
\* then exactly the 4 or 16 address bytes, rejected when the input is
\* shorter than 3 + address length or the family is anything else.
AddrLen == [f \in {4, 6} |-> IF f = 4 THEN 4 ELSE 16]
FamilyName == [f \in {4, 6} |-> IF f = 4 THEN "AF_INET" ELSE "AF_INET6"]

SpecDecode(b) ==
    IF b # NULL /\ Len(b) >= 1 /\ U8(b[1]) \in {4, 6}
       /\ Len(b) >= 3 + AddrLen[U8(b[1])]
    THEN LET f == U8(b[1]) IN
         [len |-> IF f = 4 THEN SizeofSockaddrIn ELSE SizeofSockaddrIn6,
          family |-> FamilyName[f],
          port |-> 256 * U8(b[2]) + U8(b[3]),
          addr |-> [i \in 1 .. AddrLen[f] |-> U8(SubSeq(b, 4, 3 + AddrLen[f])[i])]]
    ELSE [len |-> 0]

Decoded(o) == IF o.len = 0 THEN [len |-> 0] ELSE o

\* decode_address agrees with the spec's codec on every input: each
\* encoded endpoint comes back with its family, port and address (ports
\* and address bytes of 128 and above included), and every malformed
\* array, one byte short of a full address included, is rejected.
DecodeMatchesReference ==
    /\ (input # NULL /\ input.kind = "endpoint") =>
          /\ Decoded(output) = SpecDecode(EncodeEndpoint(input.value))
          /\ output.port = input.value.port
          /\ output.addr = input.value.addr
    /\ (input # NULL /\ input.kind = "raw") =>
          Decoded(output) = SpecDecode(input.value)

\* The Java side's parse of the layout of spec 6.
ParseHeaderInfo(o) ==
    LET d == U8(o[6])
        s == U8(o[7 + d])
        t == U8(o[8 + d + s])
        Field(from, n) == [i \in 1 .. n |-> U8(o[from + i])]
    IN [version |-> <<U8(o[1]) * 256 + U8(o[2]), U8(o[3]) * 256 + U8(o[4])>>,
        type |-> U8(o[5]),
        dcid |-> Field(6, d), scid |-> Field(7 + d, s), token |-> Field(8 + d + s, t)]

Reported(h) ==
    [h EXCEPT !.token = IF Len(@) > TokenCapacity THEN SubSeq(@, 1, TokenCapacity) ELSE @]

\* The header-info array has exactly 4+1+1+dcid+1+scid+1+token bytes and
\* parses back to the fields quiche reported, versions with the top bit
\* set and lengths stored in signed bytes included.
HeaderInfoRoundTrip ==
    (input # NULL /\ input.kind = "header" /\ output # NULL) =>
        LET h == Reported(input.value) IN
        /\ Len(output) = 8 + Len(h.dcid) + Len(h.scid) + Len(h.token)
        /\ ParseHeaderInfo(output) = h

\* Windows: a returned String[] lists exactly the non-empty DNS servers of
\* the configuration the second GetNetworkParams call read, in order and
\* with no null element, even when the list changed between the calls or
\* has empty entries between servers.
WindowsListsConfigured ==
    (input # NULL /\ input.kind = "windows" /\ output.st = "array")
        => output.arr = SelectSeq(input.value.second, NS!NonEmpty)

=====
