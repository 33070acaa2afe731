----------------------------- MODULE Nameservers -----------------------------
(***************************************************************************)
(* getSystemNameservers (jni/dns_jni.c), both platform branches, as       *)
(* operators from what the platform reports to the String[] Java gets.    *)
(*                                                                         *)
(* POSIX: res_init() fills _res; the code reads _res.nscount entries of   *)
(* _res.nsaddr_list, casts each to struct sockaddr_in whatever its family *)
(* and prints it with inet_ntop(AF_INET).  An IPv6 nameserver is kept     *)
(* elsewhere by the resolver and its nsaddr_list slot is not an IPv4      *)
(* address: the model lets that slot hold whatever sin_addr the resolver  *)
(* left there (leftover).                                                 *)
(*                                                                         *)
(* Windows: GetNetworkParams is called once with no buffer to learn the   *)
(* size, then again into a malloc'd buffer; the DNS server list is walked *)
(* twice, once to count the non-empty entries and once to fill the       *)
(* array.  The network configuration may change between the two calls.   *)
(*                                                                         *)
(* A Windows list entry is its IpAddress.String ("" when empty); a POSIX  *)
(* address is its four bytes in network order.                            *)
(***************************************************************************)
EXTENDS Integers, Sequences, TLC

CONSTANT NULL

\* What the call ends in: a null jobjectArray, a String[] arr, or an abort
\* of the process (SetObjectArrayElement on the NULL that NewObjectArray
\* returns when the JVM is out of memory).
Returned(arr) == [st |-> "array", arr |-> arr]
NoArray == [st |-> "null", arr |-> <<>>]
Crash == [st |-> "crash", arr |-> <<>>]

(* -------------------------------- POSIX -------------------------------- *)

\* inet_ntop(AF_INET, &sin_addr, buf, INET6_ADDRSTRLEN): dotted decimal.
\* It cannot fail here (buf holds 46 bytes), so the "continue" that skips
\* a failed entry is never taken.
InetNtop4(a) ==
    ToString(a[1]) \o "." \o ToString(a[2]) \o "." \o
    ToString(a[3]) \o "." \o ToString(a[4])

\* The sin_addr of (struct sockaddr_in *)&_res.nsaddr_list[i].
NsaddrEntry(server, leftover) ==
    IF server.family = "AF_INET" THEN server.addr ELSE leftover

\* res_init() returned rc; servers are the resolver's nameservers in
\* order (nscount = Len(servers)); arrayOk: NewObjectArray succeeded.
PosixResult(rc, servers, leftover, arrayOk) ==
    CASE rc # 0            -> NoArray
      [] Len(servers) <= 0 -> NoArray
      [] ~arrayOk          -> Crash
      [] OTHER -> Returned([i \in 1 .. Len(servers) |->
                               InetNtop4(NsaddrEntry(servers[i], leftover))])

(* ------------------------------- Windows ------------------------------- *)

\* The test of both loops: addr->IpAddress.String[0] != '\0'.
NonEmpty(str) == str # ""

\* Bytes GetNetworkParams needs beyond FIXED_INFO: the first server is
\* inline, every further one is an IP_ADDR_STRING appended to the buffer.
ExtraSize(list) == IF Len(list) <= 1 THEN 0 ELSE Len(list) - 1

\* The counting loop.
RECURSIVE CountServers(_)
CountServers(list) ==
    IF list = <<>> THEN 0
    ELSE (IF NonEmpty(Head(list)) THEN 1 ELSE 0) + CountServers(Tail(list))

\* Fault variant of FillServers: every entry is stored, empty or not.
RECURSIVE FillServersNoSkip(_, _, _)
FillServersNoSkip(list, i, count) ==
    IF list = <<>> \/ i >= count THEN <<>>
    ELSE <<Head(list)>> \o FillServersNoSkip(Tail(list), i + 1, count)

\* The filling loop "while (addr != NULL && i < count)": the strings
\* stored at indexes 0, 1, ... in order.
RECURSIVE FillServers(_, _, _)
FillServers(list, i, count) ==
    IF list = <<>> \/ i >= count THEN <<>>
    ELSE IF NonEmpty(Head(list))
         THEN <<Head(list)>> \o FillServers(Tail(list), i + 1, count)
         ELSE FillServers(Tail(list), i, count)

\* The String[count] after the loop; an index the loop did not reach
\* stays null.
ServerArray(count, stored) ==
    [i \in 1 .. count |-> IF i <= Len(stored) THEN stored[i] ELSE NULL]

\* first and second are the DNS server lists at the two GetNetworkParams
\* calls; sizeRc: the first call reported ERROR_BUFFER_OVERFLOW; mallocOk
\* and arrayOk: malloc(bufLen) and NewObjectArray succeeded.
WindowsResult(first, second, sizeRc, mallocOk, arrayOk) ==
    LET count == CountServers(second) IN
    CASE ~sizeRc                              -> NoArray
      [] ~mallocOk                            -> NoArray
      [] ExtraSize(second) > ExtraSize(first) -> NoArray \* ERROR_BUFFER_OVERFLOW
      [] count = 0                            -> NoArray
      [] ~arrayOk                             -> Crash
      [] OTHER -> Returned(ServerArray(count, FillServers(second, 0, count)))

====
