----------------------------- MODULE AlpnContext -----------------------------
(***************************************************************************)
(* TLS context management and server-side ALPN selection of              *)
(* ssl_ctx_jni.c.  ssl_ctx_set_alpn_protos stores a copy of the protocol   *)
(* table (alpn_protos_t) in the SSL_CTX's ex_data under an index kept in   *)
(* the process-wide static ssl_ctx_ex_data_index, allocated lazily by the  *)
(* first call; alpn_select_cb reads the table back through that static at *)
(* handshake time.                                                         *)
(*                                                                         *)
(* set_alpn_protos is split into its three steps that touch shared state  *)
(* (the test of the static, the allocation of an index and the store),   *)
(* since different Java threads may configure different contexts at the  *)
(* same time.  BoringSSL's reference counting is modelled: every SSL      *)
(* holds a reference to its SSL_CTX and SSL_CTX_free releases the         *)
(* ex_data (calling alpn_protos_free) only when the last reference goes.  *)
(* An SSL is released when the quiche connection that owns it is freed.  *)
(***************************************************************************)
EXTENDS Integers, Sequences, FiniteSets

CONSTANTS
    Threads,   \* Java threads configuring contexts
    Contexts,  \* SSL_CTX handles
    Tables,    \* ALPN protocol lists the Java side may configure
    PeerLists, \* protocol lists a client may advertise
    MaxTables, \* bound on the number of alpn_protos_t allocations
    MaxSsls,   \* bound on the number of SSL objects per context
    NULL,
    NOACK      \* SSL_TLSEXT_ERR_NOACK: no protocol acknowledged

ASSUME MaxTables \in Nat /\ MaxSsls \in Nat

TableIds == 1 .. MaxTables
NoIndex == -1   \* "static int ssl_ctx_ex_data_index = -1"

VARIABLES
    ctx,         \* [Contexts -> {"unused", "live", "freed"}]: freed = SSL_CTX_free called
    ssls,        \* [Contexts -> Nat]: live SSL objects referencing the context
    advertised,  \* [Contexts -> Seq]: client-side list (SSL_CTX_set_alpn_protos)
    selectCb,    \* [Contexts -> BOOLEAN]: alpn_select_cb installed
    exData,      \* [Contexts -> [Nat -> TableIds \cup {NULL}]]: ex_data slots
    exIndex,     \* the static ssl_ctx_ex_data_index
    nextIndex,   \* the next index SSL_CTX_get_ex_new_index hands out
    tables,      \* [TableIds -> [protos, st]]: alpn_protos_t allocations
    nextTable,
    pc,          \* [Threads -> step of set_alpn_protos the thread is in]
    configured,  \* [Contexts -> Seq]: table the last completed set_alpn_protos gave
    handshake    \* NULL or the latest server handshake: the context, the
                 \* client's offer, the table the callback found, whether it
                 \* was still allocated, what was configured, the result

vars == <<ctx, ssls, advertised, selectCb, exData, exIndex, nextIndex,
          tables, nextTable, pc, configured, handshake>>

Idle == [st |-> "idle", ctx |-> NULL, protos |-> <<>>]

Indexes == 0 .. Cardinality(Threads) - 1   \* at most one allocation per racing thread

TypeOK ==
    /\ ctx \in [Contexts -> {"unused", "live", "freed"}]
    /\ ssls \in [Contexts -> 0 .. MaxSsls]
    /\ advertised \in [Contexts -> {<<>>} \cup Tables]
    /\ selectCb \in [Contexts -> BOOLEAN]
    /\ exData \in [Contexts -> [Indexes -> TableIds \cup {NULL}]]
    /\ exIndex \in {NoIndex} \cup Indexes
    /\ nextIndex \in 0 .. Cardinality(Threads)
    /\ tables \in [TableIds -> [protos : {<<>>} \cup Tables,
                                st : {"unborn", "live", "freed"}]]
    /\ pc \in [Threads -> [st : {"idle", "newindex", "store"},
                           ctx : Contexts \cup {NULL},
                           protos : {<<>>} \cup Tables]]
    /\ configured \in [Contexts -> {<<>>} \cup Tables]

Init ==
    /\ ctx = [c \in Contexts |-> "unused"]
    /\ ssls = [c \in Contexts |-> 0]
    /\ advertised = [c \in Contexts |-> <<>>]
    /\ selectCb = [c \in Contexts |-> FALSE]
    /\ exData = [c \in Contexts |-> [i \in Indexes |-> NULL]]
    /\ exIndex = NoIndex
    /\ nextIndex = 0
    /\ tables = [a \in TableIds |-> [protos |-> <<>>, st |-> "unborn"]]
    /\ nextTable = 1
    /\ pc = [t \in Threads |-> Idle]
    /\ configured = [c \in Contexts |-> <<>>]
    /\ handshake = NULL

\* Fault variant of SelectNextProto: the two lists passed the other way
\* round, so the client's order wins.
RECURSIVE SelectNextProtoPeerFirst(_, _)
SelectNextProtoPeerFirst(local, peer) ==
    IF peer = <<>> THEN NOACK
    ELSE IF \E i \in 1 .. Len(local) : local[i] = Head(peer) THEN Head(peer)
    ELSE SelectNextProtoPeerFirst(local, Tail(peer))

(***************************************************************************)
(* SSL_select_next_proto(out, outlen, protos->data, protos->len, in,      *)
(* inlen), as alpn_select_cb calls it: the first protocol of the FIRST    *)
(* list (here the locally configured table) that the second list (the     *)
(* client's offer) also contains; NOACK when there is none.               *)
(***************************************************************************)
RECURSIVE SelectNextProto(_, _)
SelectNextProto(local, peer) ==
    IF local = <<>> THEN NOACK
    ELSE IF \E i \in 1 .. Len(peer) : peer[i] = Head(local) THEN Head(local)
    ELSE SelectNextProto(Tail(local), peer)

\* The ex_data slot of context c under the index alpn_select_cb reads now.
TableOf(c) == IF exIndex = NoIndex THEN NULL ELSE exData[c][exIndex]

\* alpn_protos_free for every index: the tables a context's ex_data holds.
HeldTables(c) == {exData[c][i] : i \in Indexes} \ {NULL}

\* The tables freed when context c's last reference goes.
FreedTables(c) ==
    [a \in TableIds |-> IF a \in HeldTables(c)
                        THEN [tables[a] EXCEPT !.st = "freed"] ELSE tables[a]]

(***************************************************************************)
(* ssl_ctx_new (lines 42-56): a TLS_method context pinned to TLS 1.3.     *)
(***************************************************************************)
SslCtxNew(c) ==
    /\ ctx[c] = "unused"
    /\ ctx' = [ctx EXCEPT ![c] = "live"]
    /\ UNCHANGED <<ssls, advertised, selectCb, exData, exIndex, nextIndex,
                   tables, nextTable, pc, configured, handshake>>

\* No other thread is configuring context c (one caller per handle).
NotBeingConfigured(c) == \A u \in Threads : pc[u].ctx # c

(***************************************************************************)
(* ssl_ctx_set_alpn_protos (lines 147-173), step 1: SSL_CTX_set_alpn_protos *)
(* copies the client-side list; then "if (ssl_ctx_ex_data_index < 0)".     *)
(***************************************************************************)
\* Fault variant of SetAlpnBegin: the "ssl_ctx_ex_data_index < 0" test is
\* missing, so every call allocates a fresh ex_data index.
SetAlpnBeginNewIndexAlways(t, c, p) ==
    /\ pc[t].st = "idle"
    /\ ctx[c] = "live"
    /\ NotBeingConfigured(c)
    /\ advertised' = [advertised EXCEPT ![c] = p]
    /\ pc' = [pc EXCEPT ![t] = [st |-> "newindex", ctx |-> c, protos |-> p]]
    /\ UNCHANGED <<ctx, ssls, selectCb, exData, exIndex, nextIndex, tables,
                   nextTable, configured, handshake>>

SetAlpnBegin(t, c, p) ==
    /\ pc[t].st = "idle"
    /\ ctx[c] = "live"
    /\ NotBeingConfigured(c)
    /\ advertised' = [advertised EXCEPT ![c] = p]
    /\ pc' = [pc EXCEPT ![t] = [st |-> IF exIndex < 0 THEN "newindex" ELSE "store",
                                ctx |-> c, protos |-> p]]
    /\ UNCHANGED <<ctx, ssls, selectCb, exData, exIndex, nextIndex, tables,
                   nextTable, configured, handshake>>

\* Step 2: ssl_ctx_ex_data_index = SSL_CTX_get_ex_new_index(..., alpn_protos_free).
SetAlpnNewIndex(t) ==
    /\ pc[t].st = "newindex"
    /\ exIndex' = nextIndex
    /\ nextIndex' = nextIndex + 1
    /\ pc' = [pc EXCEPT ![t].st = "store"]
    /\ UNCHANGED <<ctx, ssls, advertised, selectCb, exData, tables, nextTable,
                   configured, handshake>>

\* Fault variant of SetAlpnStore: the table is stored but alpn_select_cb
\* is never installed.
SetAlpnStoreNoCallback(t) ==
    /\ pc[t].st = "store"
    /\ nextTable <= MaxTables
    /\ LET c == pc[t].ctx IN
       /\ tables' = [tables EXCEPT ![nextTable] = [protos |-> pc[t].protos, st |-> "live"]]
       /\ exData' = [exData EXCEPT ![c][exIndex] = nextTable]
       /\ configured' = [configured EXCEPT ![c] = pc[t].protos]
    /\ nextTable' = nextTable + 1
    /\ pc' = [pc EXCEPT ![t] = Idle]
    /\ UNCHANGED <<ctx, ssls, advertised, selectCb, exIndex, nextIndex, handshake>>

\* Step 3: copy the list into a fresh alpn_protos_t, store it with
\* SSL_CTX_set_ex_data(ctx, ssl_ctx_ex_data_index, ap) (whatever the slot
\* held is overwritten) and install alpn_select_cb.
SetAlpnStore(t) ==
    /\ pc[t].st = "store"
    /\ nextTable <= MaxTables
    /\ LET c == pc[t].ctx IN
       /\ tables' = [tables EXCEPT ![nextTable] = [protos |-> pc[t].protos, st |-> "live"]]
       /\ exData' = [exData EXCEPT ![c][exIndex] = nextTable]
       /\ selectCb' = [selectCb EXCEPT ![c] = TRUE]
       /\ configured' = [configured EXCEPT ![c] = pc[t].protos]
    /\ nextTable' = nextTable + 1
    /\ pc' = [pc EXCEPT ![t] = Idle]
    /\ UNCHANGED <<ctx, ssls, advertised, exIndex, nextIndex, handshake>>

(***************************************************************************)
(* ssl_new (lines 183-189): SSL_new takes a reference on the context.     *)
(***************************************************************************)
SslNew(c) ==
    /\ ctx[c] = "live"
    /\ ssls[c] < MaxSsls
    /\ ssls' = [ssls EXCEPT ![c] = @ + 1]
    /\ UNCHANGED <<ctx, advertised, selectCb, exData, exIndex, nextIndex,
                   tables, nextTable, pc, configured, handshake>>

(***************************************************************************)
(* A client's ClientHello offering list `peer` reaches a server SSL of    *)
(* context c: without a callback nothing is acknowledged; alpn_select_cb  *)
(* (lines 127-145) looks the table up under the current static index,    *)
(* NULL -> NOACK, otherwise SSL_select_next_proto decides.                *)
(***************************************************************************)
ServerHandshake(c, peer) ==
    /\ ssls[c] > 0
    /\ LET a == IF selectCb[c] THEN TableOf(c) ELSE NULL IN
       handshake' = [ctx |-> c, peer |-> peer, table |-> a,
                     configured |-> configured[c],
                     tableLive |-> a = NULL \/ tables[a].st = "live",
                     result |-> IF a = NULL THEN NOACK
                                ELSE SelectNextProto(tables[a].protos, peer)]
    /\ UNCHANGED <<ctx, ssls, advertised, selectCb, exData, exIndex, nextIndex,
                   tables, nextTable, pc, configured>>

(***************************************************************************)
(* An SSL is freed with the quiche connection that owns it                *)
(* (quiche_conn_free, quiche_jni.c:558-563); the last reference to a      *)
(* context already passed to ssl_ctx_free releases its ex_data.           *)
(***************************************************************************)
SslRelease(c) ==
    /\ ssls[c] > 0
    /\ ssls' = [ssls EXCEPT ![c] = @ - 1]
    /\ tables' = IF ctx[c] = "freed" /\ ssls[c] = 1 THEN FreedTables(c) ELSE tables
    /\ UNCHANGED <<ctx, advertised, selectCb, exData, exIndex, nextIndex,
                   nextTable, pc, configured, handshake>>

\* Fault variant of SslCtxFree: the tables are freed at once, as if SSL
\* objects held no reference to their context.
SslCtxFreeIgnoringRefs(c) ==
    /\ ctx[c] = "live"
    /\ NotBeingConfigured(c)
    /\ ctx' = [ctx EXCEPT ![c] = "freed"]
    /\ tables' = FreedTables(c)
    /\ UNCHANGED <<ssls, advertised, selectCb, exData, exIndex, nextIndex,
                   nextTable, pc, configured, handshake>>

(***************************************************************************)
(* ssl_ctx_free (lines 200-205): SSL_CTX_free drops the Java reference;   *)
(* the ex_data tables go when no SSL still holds the context.             *)
(***************************************************************************)
SslCtxFree(c) ==
    /\ ctx[c] = "live"
    /\ NotBeingConfigured(c)
    /\ ctx' = [ctx EXCEPT ![c] = "freed"]
    /\ tables' = IF ssls[c] = 0 THEN FreedTables(c) ELSE tables
    /\ UNCHANGED <<ssls, advertised, selectCb, exData, exIndex, nextIndex,
                   nextTable, pc, configured, handshake>>

Next ==
    \/ \E c \in Contexts :
          \/ SslCtxNew(c) \/ SslNew(c) \/ SslRelease(c) \/ SslCtxFree(c)
          \/ \E p \in PeerLists : ServerHandshake(c, p)
    \/ \E t \in Threads :
          \/ SetAlpnNewIndex(t) \/ SetAlpnStore(t)
          \/ \E c \in Contexts, p \in Tables : SetAlpnBegin(t, c, p)

Spec == Init /\ [][Next]_vars

(***************************************************************************)
(* Properties                                                              *)
(***************************************************************************)

ProtosOf(s) == {s[i] : i \in 1 .. Len(s)}

\* Reference: the server's preference order, i.e. the first entry of the
\* local table that the client offers.
ServerPreferred(local, peer) ==
    LET common == {i \in 1 .. Len(local) : local[i] \in ProtosOf(peer)}
    IN IF common = {} THEN NOACK
       ELSE local[CHOOSE i \in common : \A j \in common : i <= j]

\* A server handshake that finds an ALPN table acknowledges the first
\* protocol of that table the client offers, and acknowledges nothing
\* (without failing) when they have none in common.
NegotiationServerPreference ==
    (handshake # NULL /\ handshake.table # NULL)
        => handshake.result = ServerPreferred(tables[handshake.table].protos,
                                              handshake.peer)

\* alpn_select_cb never reads a freed alpn_protos_t, whatever order the
\* Java side frees contexts and the connections owning their SSLs in.
NoFreedTableRead == handshake # NULL => handshake.tableLive

\* Spec 4.3: once set_alpn_protos has returned for a context, its server
\* handshakes select from the table it was given.
AlpnTableInEffect ==
    (handshake # NULL /\ handshake.configured # <<>>)
        => /\ handshake.table # NULL
           /\ tables[handshake.table].protos = handshake.configured

\* Spec 3: a context owns its ALPN table for its lifetime; no allocated
\* table is unreachable from every context while still allocated.
NoTableLeak ==
    \A a \in TableIds :
        tables[a].st = "live" => \E c \in Contexts : a \in HeldTables(c)

=============================================================================
