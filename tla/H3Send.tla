------------------------------- MODULE H3Send -------------------------------
(***************************************************************************)
(* The HTTP/3 body and header sending bridge of h3_jni.c:                 *)
(* quiche_h3_recv_body, quiche_h3_send_response, quiche_h3_send_body and  *)
(* quiche_h3_send_request, over one quiche_h3_conn whose role (server or  *)
(* client) is fixed when it is created.                                   *)
(*                                                                         *)
(* Data is abstracted to what the properties tell apart: the body a Java  *)
(* caller sends on a stream is the byte sequence 1..MaxBody, held in a    *)
(* ByteBuffer of one of four kinds: direct, heap, a heap slice whose      *)
(* backing array starts one byte earlier (arrayOffset 1) and a read-only  *)
(* heap buffer (array() throws).  A header array is only its length; the  *)
(* pairing of its strings is the Header List Codec's concern.             *)
(*                                                                         *)
(* The quiche h3 engine and the peer are the environment: the peer opens  *)
(* request streams, grants flow-control credit and sends body bytes.  The *)
(* Java caller is the environment too: it keeps a ByteBuffer position per *)
(* stream and advances it by what send_body reports written.              *)
(***************************************************************************)
EXTENDS Integers, Sequences

CONSTANTS
    Streams,      \* stream ids the session may use
    MaxBody,      \* length of every response/request body
    MaxCredit,    \* bound on the connection's send credit
    HeaderCounts, \* lengths of the Java String[] header arrays passed in
    Buffers       \* kinds of ByteBuffer the caller passes

ASSUME MaxBody \in Nat \ {0} /\ MaxCredit \in Nat \ {0}
ASSUME HeaderCounts \subseteq Nat
ASSUME Buffers \subseteq {"direct", "heap", "slice", "readonly"}

\* quiche status codes the bridge returns.  QUICHE_ERR_DONE (transport) and
\* QUICHE_H3_ERR_DONE (h3) are both -1.
QUICHE_H3_ERR_DONE == -1
QUICHE_ERR_DONE == -1
QUICHE_H3_ERR_STREAM_BLOCKED == -13

Body == [i \in 1 .. MaxBody |-> i]

\* ByteBuffer.arrayOffset() of a heap buffer, and the backing array it
\* exposes: a slice has one foreign byte (0) in front of the body.
ArrayOffset(kind) == IF kind = "slice" THEN 1 ELSE 0
Backing(kind) == IF kind = "slice" THEN <<0>> \o Body ELSE Body

VARIABLES
    role,           \* "server" or "client", fixed at quiche_h3_conn_new
    mallocZeroNull, \* whether this build's malloc(0) returns NULL
    open,           \* [Streams -> BOOLEAN]: request stream exists
    hdrSent,        \* [Streams -> BOOLEAN]: HEADERS frame accepted by quiche
    finSent,        \* [Streams -> BOOLEAN]: fin accepted by quiche
    bufKind,        \* [Streams -> Buffers]: the body buffer of the stream
    posJ,           \* [Streams -> 0..MaxBody]: the Java buffer's position
    sent,           \* [Streams -> Seq]: body bytes quiche accepted, in order
    credit,         \* send credit quiche has for body bytes
    inAvail,        \* [Streams -> 0..1]: body bytes the peer has sent us
    last            \* [op, ret, called]: the latest bridge call's result and
                    \* whether it is quiche's (the bridge returns quiche's
                    \* result unchanged when it calls quiche)

vars == <<role, mallocZeroNull, open, hdrSent, finSent, bufKind, posJ, sent,
          credit, inAvail, last>>

Ops == {"none", "recv_body", "send_response", "send_body", "send_request"}

TypeOK ==
    /\ role \in {"server", "client"}
    /\ mallocZeroNull \in BOOLEAN
    /\ open \in [Streams -> BOOLEAN]
    /\ hdrSent \in [Streams -> BOOLEAN]
    /\ finSent \in [Streams -> BOOLEAN]
    /\ bufKind \in [Streams -> Buffers]
    /\ posJ \in [Streams -> 0 .. MaxBody]
    /\ \A s \in Streams : /\ Len(sent[s]) <= MaxBody
                          /\ \A i \in 1 .. Len(sent[s]) : sent[s][i] \in 1 .. MaxBody
    /\ credit \in 0 .. MaxCredit
    /\ inAvail \in [Streams -> 0 .. 1]
    /\ last \in [op : Ops, ret : Int, called : BOOLEAN]

Init ==
    /\ role \in {"server", "client"}
    /\ mallocZeroNull \in BOOLEAN
    /\ open = [s \in Streams |-> FALSE]
    /\ hdrSent = [s \in Streams |-> FALSE]
    /\ finSent = [s \in Streams |-> FALSE]
    /\ bufKind \in [Streams -> Buffers]
    /\ posJ = [s \in Streams |-> 0]
    /\ sent = [s \in Streams |-> <<>>]
    /\ credit = 0
    /\ inAvail = [s \in Streams |-> 0]
    /\ last = [op |-> "none", ret |-> 0, called |-> FALSE]

\* The bridge returns quiche's result (called) or one of its own.
Report(op, ret, called) == last' = [op |-> op, ret |-> ret, called |-> called]

(* ---------------------------- environment ---------------------------- *)

\* The peer opens a request stream on a server session.
PeerRequest(s) ==
    /\ role = "server" /\ ~open[s]
    /\ open' = [open EXCEPT ![s] = TRUE]
    /\ UNCHANGED <<role, mallocZeroNull, hdrSent, finSent, bufKind, posJ,
                   sent, credit, inAvail, last>>

\* The peer acknowledges data / raises MAX_DATA.
PeerGrant ==
    /\ credit < MaxCredit
    /\ credit' = credit + 1
    /\ UNCHANGED <<role, mallocZeroNull, open, hdrSent, finSent, bufKind,
                   posJ, sent, inAvail, last>>

\* The peer sends a body byte on an open stream.
PeerBody(s) ==
    /\ open[s] /\ inAvail[s] = 0
    /\ inAvail' = [inAvail EXCEPT ![s] = 1]
    /\ UNCHANGED <<role, mallocZeroNull, open, hdrSent, finSent, bufKind,
                   posJ, sent, credit, last>>

(* ------------------------------ the bridge ----------------------------- *)

\* malloc(num_headers * sizeof(quiche_h3_header)) returns NULL: on
\* exhaustion (oom), or for an empty or one-element array (num_headers = 0)
\* whenever this build's malloc(0) returns NULL.
HeaderArrayNull(count, oom) ==
    IF count \div 2 = 0 THEN mallocZeroNull ELSE oom

\* Where send_body's data pointer starts: data += pos for a direct buffer,
\* arrayOffset() + pos into the backing array for a heap buffer.
DirectStart(pos) == pos
HeapStartNoOffset(kind, pos) == pos          \* mutant: arrayOffset() ignored
HeapStartNoPos(kind, pos) == ArrayOffset(kind) \* mutant: position ignored
HeapStart(kind, pos) == ArrayOffset(kind) + pos

\* The fin flag passed to quiche in the len == 0 branch.
ZeroLengthFinDropped(fin) == FALSE   \* mutant: fin not passed on
ZeroLengthFin(fin) == fin

\* The len bytes of a buffer from byte index from (0-based).
Data(buf, from, len) == SubSeq(buf, from + 1, from + len)

\* quiche_h3_send_body with the bridge's data and fin, followed by the
\* Java caller advancing its buffer position by what was written.  quiche
\* writes as much as its credit allows and reports DONE when it can write
\* nothing of a non-empty body; fin is recorded only with the last byte.
EngineSendBody(s, data, fin) ==
    LET w == IF Len(data) < credit THEN Len(data) ELSE credit IN
    IF Len(data) > 0 /\ w = 0
    THEN /\ Report("send_body", QUICHE_H3_ERR_DONE, TRUE)
         /\ UNCHANGED <<finSent, posJ, sent, credit>>
    ELSE /\ sent' = [sent EXCEPT ![s] = @ \o SubSeq(data, 1, w)]
         /\ credit' = credit - w
         /\ finSent' = [finSent EXCEPT ![s] = fin /\ w = Len(data)]
         /\ posJ' = [posJ EXCEPT ![s] = @ + w]
         /\ Report("send_body", w, TRUE)

\* quiche_h3_recv_body into a caller buffer: -1 when the buffer is not
\* direct (GetDirectBufferAddress returns NULL), else quiche's result.
RecvBody(s, kind) ==
    /\ open[s]
    /\ IF kind # "direct"
       THEN /\ Report("recv_body", -1, FALSE)
            /\ UNCHANGED inAvail
       ELSE IF inAvail[s] = 0
            THEN /\ Report("recv_body", QUICHE_H3_ERR_DONE, TRUE)
                 /\ UNCHANGED inAvail
            ELSE /\ inAvail' = [inAvail EXCEPT ![s] = 0]
                 /\ Report("recv_body", 1, TRUE)
    /\ UNCHANGED <<role, mallocZeroNull, open, hdrSent, finSent, bufKind,
                   posJ, sent, credit>>

\* quiche_h3_send_response: the header array is allocated, filled from the
\* Java strings, handed to quiche and released.  quiche refuses the
\* HEADERS frame with STREAM_BLOCKED while it has no send capacity.
SendResponse(s, count, fin, oom) ==
    /\ role = "server" /\ open[s] /\ ~hdrSent[s]
    /\ IF HeaderArrayNull(count, oom)
       THEN /\ Report("send_response", -1, FALSE)
            /\ UNCHANGED <<hdrSent, finSent>>
       ELSE IF credit = 0
            THEN /\ Report("send_response", QUICHE_H3_ERR_STREAM_BLOCKED, TRUE)
                 /\ UNCHANGED <<hdrSent, finSent>>
            ELSE /\ hdrSent' = [hdrSent EXCEPT ![s] = TRUE]
                 /\ finSent' = [finSent EXCEPT ![s] = fin]
                 /\ Report("send_response", 0, TRUE)
    /\ UNCHANGED <<role, mallocZeroNull, open, bufKind, posJ, sent, credit,
                   inAvail>>

\* quiche_h3_send_request: as send_response, on the stream quiche opens;
\* the result is the new stream's (non-negative) id.
SendRequest(s, count, fin, oom) ==
    /\ role = "client" /\ ~open[s]
    /\ IF HeaderArrayNull(count, oom)
       THEN /\ Report("send_request", -1, FALSE)
            /\ UNCHANGED <<open, hdrSent, finSent>>
       ELSE IF credit = 0
            THEN /\ Report("send_request", QUICHE_H3_ERR_STREAM_BLOCKED, TRUE)
                 /\ UNCHANGED <<open, hdrSent, finSent>>
            ELSE /\ open' = [open EXCEPT ![s] = TRUE]
                 /\ hdrSent' = [hdrSent EXCEPT ![s] = TRUE]
                 /\ finSent' = [finSent EXCEPT ![s] = fin]
                 /\ Report("send_request", 0, TRUE)
    /\ UNCHANGED <<role, mallocZeroNull, bufKind, posJ, sent, credit,
                   inAvail>>

\* quiche_h3_send_body of len bytes from the stream's buffer at the Java
\* position.  A heap buffer is copied through GetByteArrayElements: a
\* read-only one throws in array(), and the copy may fail (oom); both
\* return QUICHE_ERR_DONE without calling quiche.  The Java caller sends
\* only after the headers and stops after fin.
SendBody(s, len, fin, oom) ==
    /\ open[s] /\ hdrSent[s] /\ ~finSent[s]
    /\ len <= MaxBody - posJ[s]
    /\ CASE len = 0 ->
              EngineSendBody(s, <<>>, ZeroLengthFin(fin))
         [] bufKind[s] = "direct" ->
              EngineSendBody(s, Data(Body, DirectStart(posJ[s]), len), fin)
         [] bufKind[s] = "readonly" \/ oom ->
              /\ Report("send_body", QUICHE_ERR_DONE, FALSE)
              /\ UNCHANGED <<finSent, posJ, sent, credit>>
         [] OTHER ->
              EngineSendBody(s, Data(Backing(bufKind[s]),
                                     HeapStart(bufKind[s], posJ[s]), len), fin)
    /\ UNCHANGED <<role, mallocZeroNull, open, hdrSent, bufKind, inAvail>>

Next ==
    \/ PeerGrant
    \/ \E s \in Streams : PeerRequest(s) \/ PeerBody(s)
    \/ \E s \in Streams, k \in Buffers \ {"readonly"} : RecvBody(s, k)
    \/ \E s \in Streams, c \in HeaderCounts, fin, oom \in BOOLEAN :
          SendResponse(s, c, fin, oom) \/ SendRequest(s, c, fin, oom)
    \/ \E s \in Streams, len \in 0 .. MaxBody, fin, oom \in BOOLEAN :
          SendBody(s, len, fin, oom)

Spec == Init /\ [][Next]_vars

(* ------------------------------- fairness ------------------------------ *)
(* The bridge has no thread of its own; progress depends on its caller    *)
(* and the peer.  The fair specification assumes a server that answers    *)
(* every request, a caller that retries the rest of its body with fin     *)
(* until fin is accepted, a peer that keeps granting credit, and memory   *)
(* exhaustion that does not last forever (the fair steps are the ones     *)
(* with oom FALSE).                                                       *)

Respond(s) == \E c \in HeaderCounts, fin \in BOOLEAN :
                  SendResponse(s, c, fin, FALSE)
FinishBody(s) == SendBody(s, MaxBody - posJ[s], TRUE, FALSE)

FairSpec ==
    /\ Spec
    /\ WF_vars(PeerGrant)
    /\ \A s \in Streams : WF_vars(Respond(s)) /\ WF_vars(FinishBody(s))

(* ------------------------------ properties ----------------------------- *)

\* Partial writes resume where they stopped: on every stream quiche has
\* received exactly a prefix of the body, in order and without repeats,
\* and the caller's buffer position is just past it.  This is what the
\* "data += pos" and "arrayOffset() + pos" arithmetic of send_body, over a
\* sequence of calls each writing part of the body, must get right.
BodySentInOrder ==
    \A s \in Streams : /\ sent[s] = SubSeq(Body, 1, Len(sent[s]))
                       /\ posJ[s] = Len(sent[s])

\* A caller that retries send_body until fin is accepted finishes every
\* stream: the final (possibly zero-length) send_body delivers fin.
EveryStreamFinishes == \A s \in Streams : open[s] ~> finSent[s]

\* Spec section 7: the engine's status is passed through unmodified and a
\* bridge failure is reported as such.  So a DONE ("try again later") seen
\* by the caller must be quiche's own DONE.
DoneComesFromEngine ==
    last.ret = QUICHE_H3_ERR_DONE => last.called
====
