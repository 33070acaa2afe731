------------------------------ MODULE QuicConn ------------------------------
(***************************************************************************)
(* Packet and stream I/O of quiche_jni.c (lines 181-336, 558-563): one    *)
(* connection handle driven by Java through conn_new_with_tls, conn_recv, *)
(* conn_send, conn_stream_recv, conn_stream_send, conn_readable and       *)
(* conn_free.  The quiche connection behind the handle is abstracted to   *)
(* the stream state the bridge reads and writes; datagrams fed to         *)
(* conn_recv carry one frame (stream data, stream fin, or stream reset).  *)
(* Addresses are decoded by decode_address, taken from WireCodecs.        *)
(***************************************************************************)
EXTENDS Integers, Sequences, SequencesExt

CONSTANTS
    Streams,     \* stream ids of the connection
    Addresses,   \* jbyte[] address arrays Java may pass (some malformed)
    MaxData,     \* bytes a stream buffers in quiche, in this model
    IdsCapacity, \* "uint64_t ids[256]" of conn_readable, scaled down
    NULL

ASSUME IdsCapacity \in Nat \ {0}

W == INSTANCE WireCodecs WITH Endpoints <- {}, RawAddresses <- {},
                              Headers <- {}, PosixInputs <- {},
                              WindowsInputs <- {}, input <- NULL, output <- NULL

\* quiche.h error codes the bridge passes through.
QUICHE_ERR_DONE == -1
QUICHE_ERR_FINAL_SIZE == -13
QUICHE_ERR_STREAM_RESET == -16

Buffers == {"direct", "heap"}   \* GetDirectBufferAddress: address or NULL
Frames == {"data", "fin", "reset"}

VARIABLES
    conn,      \* the handle: "none" (0), "live" or "freed"
    recvBuf,   \* [stream -> bytes quiche holds for the application]
    peerFin,   \* [stream -> the peer's fin has arrived]
    reset,     \* [stream -> the peer reset the stream]
    readDone,  \* [stream -> quiche has handed the fin to the application]
    sendFin,   \* [stream -> quiche has accepted the local fin]
    addrLens,  \* sockaddr lengths handed to quiche so far
    finArr,    \* the caller's boolean[1] fin array, reused between calls
    last,      \* the last call: [op, stream, len, fin, ret]
    reported,  \* the jlong[] of the last conn_readable call
    snapshot,  \* the streams quiche_conn_readable iterated for that call
    uaf,       \* a call dispatched on a freed quiche_conn
    crashed    \* the process aborted (NULL dereference)

vars == <<conn, recvBuf, peerFin, reset, readDone, sendFin, addrLens, finArr,
          last, reported, snapshot, uaf, crashed>>

NoCall == [op |-> "none", stream |-> NULL, len |-> 0, fin |-> FALSE, ret |-> 0]

TypeOK ==
    /\ conn \in {"none", "live", "freed"}
    /\ recvBuf \in [Streams -> 0 .. MaxData]
    /\ peerFin \in [Streams -> BOOLEAN]
    /\ reset \in [Streams -> BOOLEAN]
    /\ readDone \in [Streams -> BOOLEAN]
    /\ sendFin \in [Streams -> BOOLEAN]
    /\ addrLens \subseteq {0, W!SizeofSockaddrIn, W!SizeofSockaddrIn6}
    /\ finArr \in BOOLEAN
    /\ reported \in Seq(Streams)
    /\ snapshot \subseteq Streams

Init ==
    /\ conn = "none"
    /\ recvBuf = [s \in Streams |-> 0]
    /\ peerFin = [s \in Streams |-> FALSE]
    /\ reset = [s \in Streams |-> FALSE]
    /\ readDone = [s \in Streams |-> FALSE]
    /\ sendFin = [s \in Streams |-> FALSE]
    /\ addrLens = {}
    /\ finArr = FALSE
    /\ last = NoCall
    /\ reported = <<>>
    /\ snapshot = {}
    /\ uaf = FALSE
    /\ crashed = FALSE

\* quiche's readable set: buffered data, an undelivered fin, or a reset.
ReadableSet ==
    {s \in Streams : ~readDone[s] /\ (recvBuf[s] > 0 \/ peerFin[s] \/ reset[s])}

Live == conn = "live" /\ ~crashed

\* An early "if (data == NULL) return -1;": quiche is not called.
NoBuffer(op, s) ==
    /\ last' = [NoCall EXCEPT !.op = op, !.stream = s, !.ret = -1]
    /\ UNCHANGED <<recvBuf, peerFin, reset, readDone, sendFin, addrLens,
                   finArr>>

\* Fault variant of SockaddrLen: sizeof(struct sockaddr_storage) is passed
\* instead of the length decode_address returned.
SockaddrLenStorage(a) == 128

\* The socklen_t decode_address returns for an address array (0: rejected).
SockaddrLen(a) == W!DecodeAddress(a).len

(***************************************************************************)
(* quiche_conn_new_with_tls (lines 181-218): both addresses are decoded   *)
(* and handed to quiche whatever decode_address returned; quiche may      *)
(* return NULL, which Java receives as handle 0.                          *)
(***************************************************************************)
ConnNewWithTls(local, peer) ==
    /\ conn = "none" /\ ~crashed
    /\ addrLens' = addrLens \cup {SockaddrLen(local), SockaddrLen(peer)}
    /\ conn' \in {"live", "none"}
    /\ UNCHANGED <<recvBuf, peerFin, reset, readDone, sendFin, finArr, last,
                   reported, snapshot, uaf, crashed>>

(***************************************************************************)
(* quiche_conn_recv (lines 222-246): one datagram carrying frame f for    *)
(* stream s, with its from/to addresses.                                  *)
(***************************************************************************)
Deliver(f, s) ==
    CASE f = "data" -> /\ recvBuf' = [recvBuf EXCEPT ![s] = @ + 1]
                       /\ UNCHANGED <<peerFin, reset>>
      [] f = "fin" -> /\ peerFin' = [peerFin EXCEPT ![s] = TRUE]
                      /\ UNCHANGED <<recvBuf, reset>>
      [] f = "reset" -> /\ reset' = [reset EXCEPT ![s] = TRUE]
                        /\ UNCHANGED <<recvBuf, peerFin>>

\* Frames the peer may still send on s (nothing after its fin or a reset).
Accepts(f, s) ==
    /\ ~peerFin[s] /\ ~reset[s]
    /\ f = "data" => recvBuf[s] < MaxData

ConnRecv(buf, from, to, f, s) ==
    /\ Live
    /\ \/ buf = "heap" /\ NoBuffer("recv", NULL)
       \/ /\ buf = "direct"
          /\ Accepts(f, s)
          /\ addrLens' = addrLens \cup {SockaddrLen(from), SockaddrLen(to)}
          /\ Deliver(f, s)
          /\ last' = [NoCall EXCEPT !.op = "recv", !.stream = s, !.ret = 1]
          /\ UNCHANGED <<readDone, sendFin, finArr>>
    /\ UNCHANGED <<conn, reported, snapshot, uaf, crashed>>

(***************************************************************************)
(* quiche_conn_send (lines 248-262): quiche writes its next datagram, or  *)
(* reports QUICHE_ERR_DONE; send_info (where to send it) is dropped.      *)
(***************************************************************************)
ConnSend(buf) ==
    /\ Live
    /\ \/ buf = "heap" /\ NoBuffer("send", NULL)
       \/ /\ buf = "direct"
          /\ \E r \in {1, QUICHE_ERR_DONE} :
                last' = [NoCall EXCEPT !.op = "send", !.ret = r]
          /\ UNCHANGED <<recvBuf, peerFin, reset, readDone, sendFin, addrLens,
                         finArr>>
    /\ UNCHANGED <<conn, reported, snapshot, uaf, crashed>>

(***************************************************************************)
(* quiche_conn_stream_recv (lines 266-286) into a buffer of len bytes:    *)
(* quiche reports a reset, QUICHE_ERR_DONE, or reads k bytes and sets     *)
(* is_fin once the last byte before the peer's fin is read.  The bridge  *)
(* copies is_fin to the caller's array only when recv_len >= 0, and drops *)
(* error_code.                                                           *)
(***************************************************************************)
\* SetBooleanArrayRegion(env, fin, 0, 1, &jfin).
CopyFin(fin) == finArr' = fin

StreamRecv(s, buf, len) ==
    /\ Live
    /\ \/ buf = "heap" /\ NoBuffer("stream_recv", s)
       \/ /\ buf = "direct"
          /\ LET k == IF len < recvBuf[s] THEN len ELSE recvBuf[s]
                 fin == peerFin[s] /\ k = recvBuf[s]
                 call == [NoCall EXCEPT !.op = "stream_recv", !.stream = s,
                                        !.len = len]
             IN \/ /\ s \in ReadableSet /\ reset[s]
                   /\ readDone' = [readDone EXCEPT ![s] = TRUE]
                   /\ last' = [call EXCEPT !.ret = QUICHE_ERR_STREAM_RESET]
                   /\ UNCHANGED <<recvBuf, finArr>>
                \/ /\ s \notin ReadableSet
                   /\ last' = [call EXCEPT !.ret = QUICHE_ERR_DONE]
                   /\ UNCHANGED <<recvBuf, readDone, finArr>>
                \/ /\ s \in ReadableSet /\ ~reset[s]
                   /\ recvBuf' = [recvBuf EXCEPT ![s] = @ - k]
                   /\ readDone' = [readDone EXCEPT ![s] = fin]
                   /\ CopyFin(fin)
                   /\ last' = [call EXCEPT !.fin = fin, !.ret = k]
          /\ UNCHANGED <<peerFin, reset, sendFin, addrLens>>
    /\ UNCHANGED <<conn, reported, snapshot, uaf, crashed>>

(***************************************************************************)
(* quiche_conn_stream_send (lines 288-304) of len bytes with fin: quiche  *)
(* refuses anything after the fin it accepted (QUICHE_ERR_FINAL_SIZE),    *)
(* may have no capacity for payload (QUICHE_ERR_DONE), or takes it all.   *)
(***************************************************************************)
\* The quiche_conn_stream_send call itself (lines 297-302).
QuicheStreamSend(s, len, fin) ==
    LET call == [NoCall EXCEPT !.op = "stream_send", !.stream = s,
                               !.len = len, !.fin = fin]
    IN \/ /\ sendFin[s]
          /\ last' = [call EXCEPT !.ret = QUICHE_ERR_FINAL_SIZE]
          /\ UNCHANGED sendFin
       \/ /\ ~sendFin[s] /\ len > 0
          /\ last' = [call EXCEPT !.ret = QUICHE_ERR_DONE]
          /\ UNCHANGED sendFin
       \/ /\ ~sendFin[s]
          /\ sendFin' = [sendFin EXCEPT ![s] = fin]
          /\ last' = [call EXCEPT !.ret = len]

\* Fault variant of StreamSend: "if (len == 0) return 0;" before quiche.
StreamSendSkipEmpty(s, buf, len, fin) ==
    /\ Live
    /\ \/ buf = "heap" /\ NoBuffer("stream_send", s)
       \/ /\ buf = "direct" /\ len = 0
          /\ last' = [NoCall EXCEPT !.op = "stream_send", !.stream = s, !.fin = fin]
          /\ UNCHANGED <<recvBuf, peerFin, reset, readDone, sendFin, addrLens, finArr>>
       \/ /\ buf = "direct" /\ len > 0
          /\ QuicheStreamSend(s, len, fin)
          /\ UNCHANGED <<recvBuf, peerFin, reset, readDone, addrLens, finArr>>
    /\ UNCHANGED <<conn, reported, snapshot, uaf, crashed>>

StreamSend(s, buf, len, fin) ==
    /\ Live
    /\ \/ buf = "heap" /\ NoBuffer("stream_send", s)
       \/ /\ buf = "direct"
          /\ QuicheStreamSend(s, len, fin)
          /\ UNCHANGED <<recvBuf, peerFin, reset, readDone, addrLens, finArr>>
    /\ UNCHANGED <<conn, reported, snapshot, uaf, crashed>>

(***************************************************************************)
(* quiche_conn_readable (lines 308-336).  quiche_conn_readable iterates a *)
(* snapshot of the readable set, in an order the bridge does not know.    *)
(* The loop "while (quiche_stream_iter_next(iter, &id) && count < 256)"   *)
(* takes the next id before testing the count, so it stops after         *)
(* drawing and discarding the id past the capacity.  NewLongArray may     *)
(* fail; the result is then passed, unchecked, to GetLongArrayElements    *)
(* when count > 0.                                                        *)
(***************************************************************************)
\* Fault variant of LoopTakes: "count <= 256".
LoopTakesOffByOne(count) == count <= IdsCapacity

\* The loop test "count < 256" when count ids are collected.
LoopTakes(count) == count < IdsCapacity

\* How many ids the while loop stores from an iterator yielding order: it
\* runs while the iterator yields and the loop test holds.
Collected(order) ==
    CHOOSE k \in 0 .. Len(order) :
        /\ \A i \in 1 .. k : LoopTakes(i - 1)
        /\ k < Len(order) => ~LoopTakes(k)

ConnReadable ==
    /\ Live
    /\ \E order \in SetToSeqs(ReadableSet) :
          LET ids == SubSeq(order, 1, Collected(order)) IN
          \/ /\ reported' = ids
             /\ snapshot' = ReadableSet
             /\ UNCHANGED crashed
          \/ /\ Len(ids) > 0           \* NewLongArray returned NULL
             /\ crashed' = TRUE
             /\ UNCHANGED <<reported, snapshot>>
    /\ last' = [NoCall EXCEPT !.op = "readable"]
    /\ UNCHANGED <<conn, recvBuf, peerFin, reset, readDone, sendFin, addrLens,
                   finArr, uaf>>

\* quiche_conn_free (lines 558-563).
ConnFree ==
    /\ Live
    /\ conn' = "freed"
    /\ UNCHANGED <<recvBuf, peerFin, reset, readDone, sendFin, addrLens,
                   finArr, last, reported, snapshot, uaf, crashed>>

(***************************************************************************)
(* Java keeps the jlong after conn_free: every function above casts it    *)
(* back to a quiche_conn * without any check.                             *)
(***************************************************************************)
CallAfterFree ==
    /\ conn = "freed" /\ ~uaf /\ ~crashed
    /\ uaf' = TRUE
    /\ UNCHANGED <<conn, recvBuf, peerFin, reset, readDone, sendFin, addrLens,
                   finArr, last, reported, snapshot, crashed>>

Next ==
    \/ \E l, p \in Addresses : ConnNewWithTls(l, p)
    \/ \E b \in Buffers, from, to \in Addresses, f \in Frames, s \in Streams :
          ConnRecv(b, from, to, f, s)
    \/ \E b \in Buffers : ConnSend(b)
    \/ \E s \in Streams, b \in Buffers, len \in 1 .. MaxData : StreamRecv(s, b, len)
    \/ \E s \in Streams, b \in Buffers, len \in 0 .. 1, fin \in BOOLEAN :
          StreamSend(s, b, len, fin)
    \/ ConnReadable
    \/ ConnFree
    \/ CallAfterFree

Spec == Init /\ [][Next]_vars

(***************************************************************************)
(* The caller spec 4.4 asks for ("callers should re-poll"): it keeps      *)
(* calling conn_readable, and drains every stream the last call reported  *)
(* into a direct buffer.  The peer, conn_free and conn_send carry no      *)
(* fairness: nothing in the bridge makes them happen.                     *)
(***************************************************************************)
DrainReported(s) ==
    /\ s \in ToSet(reported)
    /\ StreamRecv(s, "direct", MaxData)

FairSpec ==
    /\ Spec
    /\ WF_vars(ConnReadable)
    /\ \A s \in Streams : WF_vars(DrainReported(s))

(***************************************************************************)
(* Properties                                                              *)
(***************************************************************************)

\* conn_readable returns distinct streams that were readable, never more
\* than ids[] holds, and truncates only when ids[] is full (spec 4.4).
ReadableSound ==
    /\ Len(reported) <= IdsCapacity
    /\ IsInjective(reported)
    /\ ToSet(reported) \subseteq snapshot
    /\ Len(reported) < IdsCapacity => ToSet(reported) = snapshot

\* Spec 8: a zero-length conn_stream_send with fin that succeeds has
\* marked the stream finished in quiche.
ZeroLengthFinDelivered ==
    (last.op = "stream_send" /\ last.len = 0 /\ last.fin /\ last.ret >= 0)
        => sendFin[last.stream]

\* Spec 4.4: truncation is no silent loss of which streams exist, because
\* a caller that re-polls learns of every readable stream: a stream that
\* is readable on a live connection is eventually reported by
\* conn_readable (or stops being readable).
EveryReadableReported ==
    \A s \in Streams :
        (Live /\ s \in ReadableSet)
            ~> (~Live \/ s \in ToSet(reported) \/ s \notin ReadableSet)

=============================================================================
