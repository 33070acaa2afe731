# TLA+ models of the gumdrop QUIC/HTTP-3 JNI bridge

This directory holds TLA+ models of the native bridge under
`src/src/org/bluezoo/gumdrop/quic/jni/`:

- `quiche_jni.c`: QUIC transport, address codec and packet-header info;
- `h3_jni.c`: HTTP/3 connection, event polling and header collection;
- `ssl_ctx_jni.c`: BoringSSL context, ALPN selection and SSL objects.

The models check how these files share state: the thread-local event slot, the
static ex_data index and the context reference counts. They also check the
allocation-failure paths and the byte-level encodings.

## The system's parts and how they interact

| Part | Code | State owned by the bridge | Model |
|---|---|---|---|
| Event polling and the single-slot cache | `h3_jni.c:39-149, 204-262` | `static __thread quiche_h3_event *current_event`: one slot per OS thread, shared by every session polled on it | `H3EventSlot` |
| Header list codec (decode side) | `h3_jni.c:157-262` | `header_collector` arrays that grow from 32 entries, and malloc'd strings | `HeaderCollector`, refining `HeaderDecode` |
| TLS/ALPN context manager | `ssl_ctx_jni.c` | per-context `alpn_protos_t` in ex_data under one process-wide `static int ssl_ctx_ex_data_index`; BoringSSL reference counts | `AlpnContext`; credentials, verify mode and SSL handles in `ConnSession` |
| Address codec and header info | `quiche_jni.c:144-179, 368-446` | none (pure functions on byte arrays) | `WireCodecs` |
| Packet and stream I/O | `quiche_jni.c:181-336, 558-563` | none beyond quiche's own connection; the caller's reused `boolean[] fin` | `QuicConn` |
| HTTP/3 body and header sending | `h3_jni.c:266-459` | none; a header array malloc'd per call, and the caller's `ByteBuffer` position | `H3Send` |
| Transport and h3 config builders | `quiche_jni.c:46-140`, `h3_jni.c:49-69` | none (quiche's config objects) | `ConnSession` |
| Connection lifetime, timer and state queries; version, cipher, peer cert, ALPN getters, debug log | `quiche_jni.c:181-218, 338-364, 450-563` | a malloc'd copy of the ALPN id per call; quiche's process-wide log callback | `ConnSession` |
| System nameservers | `jni/dns_jni.c` | none (one call that converts platform data) | `Nameservers`, driven by `WireCodecs` |

How the parts interact:

- Java holds every native object as a raw pointer in a `jlong`, and there is no
  registry.
- An h3 connection wraps a quiche connection.
- A quiche connection owns the `SSL` it was built with. It frees that `SSL` in
  `quiche_conn_free`.
- That `SSL` holds a reference on its `SSL_CTX`. This reference is the only
  thing that keeps the context's ALPN table alive after Java calls
  `ssl_ctx_free`.

## Modules, runs and what they show

Each module has a type invariant `TypeOK`. Every property in a passing run has a
mutant in `PROJECT.json`: a plausible bug in the mapped definition, which TLC
must then report as a violation.

### `H3EventSlot` (+ `MC_H3EventSlot`)

**State.**
- `current_event` is a function from threads to an event or `NULL`.
- quiche's per-session queues and event records are kept as bookkeeping.
- `frees` counts calls to `quiche_h3_event_free` per event.

**Actions.**
- `H3ConnNew`.
- `H3ConnFree`: frees the h3 connection, then the *calling thread's* slot.
- `H3ConnPoll`: frees the slot, polls, and on an event caches it. Its return
  value is not modelled, so a failed `NewLongArray` leaves the same state as
  a successful poll.
- `H3EventHeaders`: a NULL slot gives NULL; a non-HEADERS event crashes; a
  HEADERS event iterates.
- `Arrive` is the peer enqueueing an event.

**Runs.**
- `h3_slot_memory` (pass, 2 threads × 2 sessions, 3 events, symmetry). Every
  interleaving frees each event at most once (`NoDoubleFree`), never drops a
  cached event without freeing it (`NoEventLeak`).
- `h3_slot_own_session` (violation, `ReadHeadersOwnSession`). One thread serves
  two sessions. Reading s1's headers after polling s2 returns s2's headers,
  because `h3_conn_ptr` is ignored (h3_jni.c:207).
- A second consequence of the per-thread slot was checked as a separate run in
  an earlier version: a session freed from another thread leaves its event
  cached (h3_jni.c:89-92). That run was retired to stay within the project's
  run budget. The hazard stays listed in `PROJECT.json`, and its root cause is
  the `h3_slot_own_session` finding.
- `h3_slot_non_headers_read` (violation, `StaleReadRejected`). Reading headers
  after a DATA event reaches quiche's `unreachable!()` (h3_jni.c:223).

### `HeaderCollector`

**State.**
- `pc` is the control point.
- `count` and `capacity` are the collector's fields.
- `names` and `values` are heap blocks, and `slots` holds their contents.
- `live` and `cap` describe the abstract heap.
- `faults` records overflow, use-after-free and double-free faults.

**Actions.**
- `HeaderCb` is one callback. The two reallocs each fail, stay in place or
  move, and every malloc may fail.
- `IterationDone`, `Cleanup` and `Build` are the steps of
  `quiche_h3_event_headers` after the iteration.

**Runs.**
- Checked in the `codecs` run (see `MC_Codecs` below), with 0, 1, 33
  and 65 headers. 33 crosses the initial capacity of 32; 65 grows twice, the
  second time from an array the first growth may already have moved. It checks three things:
  - the arrays grow before the 33rd write (`WritesWithinCapacity`);
  - every block is released on every return path (`NoLeakOnReturn`);
  - the collector implements `HeaderDecode`, the abstract promise of spec 4.6
    (`HeaderDecodeRefined`, the abstract `Spec` as a PROPERTY). The abstract
    module has three actions: `Take` one header, `Deliver` the whole flat list, or `Fail` with
    AllocationFailure and nothing held. The mapping reads the phase off `pc`
    and the number of headers held off the string blocks still allocated. A
    successful call therefore returns every header as alternating name/value in
    order, and a failing one releases every string, never returning a truncated list.
- `header_collector_cleanup` (violation, `CleanupMemorySafe`). One realloc
  succeeds and the other fails (h3_jni.c:176-179). The collector keeps a pointer
  to a block realloc already released, and cleanup reads it and frees it again.

### `AlpnContext` (+ `MC_AlpnContext`)

**State.**
- contexts with reference counts;
- `ssls` and `advertised`;
- the `selectCb` flag and per-context `exData`;
- the static `exIndex`;
- tables, with live and freed status;
- per-thread program counters of `set_alpn_protos`, which is split into three
  steps at its shared-state accesses.

**Actions.**
- `SslCtxNew`, `SslNew` and `SslCtxFree`.
- `SetAlpnBegin`, `SetAlpnNewIndex` and `SetAlpnStore`.
- `ServerHandshake`, which is `alpn_select_cb` with `SSL_select_next_proto`.
- `SslRelease`, which is the `SSL_free` inside `quiche_conn_free`.

**Runs.**
- `alpn_context` (pass, 1 thread, 2 contexts, symmetry). Contexts are
  configured and reconfigured, and SSLs outlive `ssl_ctx_free`. The run checks:
  - the callback never reads a freed table (`NoFreedTableRead`);
  - the selection is the first table entry the client offers
    (`NegotiationServerPreference`, checked against a reference operator);
  - each handshake selects from the table last configured on its context
    (`AlpnTableInEffect`).

  Two configuring threads are needed only for the index race below.
- `alpn_index_race` (violation of `AlpnTableInEffect`, 2 threads). The lazy static
  index is allocated twice (ssl_ctx_jni.c:159-162), and one context's table is
  lost.
- Spec 4.3 speaks of the peer's order. The code passes the local list first
  (ssl_ctx_jni.c:139-141), so the server's order wins; `alpn_context` checks
  exactly that order. A separate violation run against the spec's wording was
  retired for the run budget, because server preference is usual TLS practice.
- A second `set_alpn_protos` overwrites ex_data without freeing the old table
  (ssl_ctx_jni.c:168). An earlier run found `NoTableLeak` violated this way (a
  table is neither installed nor freed after the second call); that run was
  retired to make room for `conn_session`, and `NoTableLeak` is kept in the
  module so the check can be repeated with a cfg of one `INVARIANT
  NoTableLeak` over `AlpnContext.cfg`'s constants.

### `WireCodecs` (+ `MC_WireCodecs`)

`decode_address` and the `quiche_header_info` result layout are modelled as
operators. Bytes are signed `jbyte`s (`Jbyte`), and the C casts to `uint8_t`
are `U8`. The 32-bit version is a pair of 16-bit halves, because TLC integers are
32-bit signed.

**Run.** Checked in the `codecs` run (see `MC_Codecs` below).
- It checks that decoding agrees with the spec's reference
  decoder (`DecodeMatchesReference`). The inputs are:
  - every encoded endpoint (ports 0, 80, 443, 32768, 65535; IPv4 and IPv6);
  - ten malformed arrays: empty, short, and unknown families 0, 5 and 255.
- It also checks that the header-info byte layout parses back to quiche's
  fields (`HeaderInfoRoundTrip`). The inputs cover:
  - versions with the top bit set;
  - connection IDs of length 0, 8 and 20;
  - tokens of 0, 64 and 65 bytes, where 65 is over the 64-byte buffer.
- The same driver feeds `getSystemNameservers` (module `Nameservers`). Both
  platform branches are operators there, with every early return and the
  unchecked `NewObjectArray` (the `Crash` outcome):
  - POSIX: `res_init`, then `inet_ntop(AF_INET)` of each
    `_res.nsaddr_list` slot;
  - Windows: two `GetNetworkParams` calls, then a counting walk and a filling
    walk (`CountServers`, `FillServers`, both `RECURSIVE`).

  `WindowsListsConfigured` checks that a returned array is exactly the
  non-empty servers the second call read, in order, with no null slot. The
  inputs are lists with empty entries between servers, lists that grow or
  shrink between the two calls, and every failing call.

  The POSIX branch is modelled (one element per resolver slot, each printed
  with `inet_ntop(AF_INET)`), but no property is spent on it: its length and
  order follow from the loop over `1..nscount`, and what it gets wrong, IPv6
  entries printed as whatever IPv4 address their slot holds (`0.0.0.0` or a
  stale one), breaks no promise, since spec 6 asks only for best effort. It is
  recorded as a hazard.

### `MC_Codecs`: the codecs in one run

`WireCodecs` (with `Nameservers`) and `HeaderCollector` share no state, so
`MC_Codecs` checks them in one run, `codecs` (pass, 327,117 states, about 35 s).
Each step is a step of one of them and leaves the other's variables alone.
A `WireCodecs` call carries nothing to the next call, so each behaviour
makes one, with any input, at any point of a header collection. That covers
every input and every collector path without multiplying the two state
spaces. `CodecsTypeOK` is the conjunction of both type invariants; every
other property is the component's own.

### `QuicConn` (+ `MC_QuicConn`)

**Model of the connection.**
- The quiche connection behind one handle is abstracted to per-stream state:
  - bytes buffered for the application (`recvBuf`);
  - the peer's fin and reset;
  - whether quiche has handed out the fin (`readDone`);
  - whether it accepted the local fin (`sendFin`).
- quiche's readable set is derived from that state.
- Each datagram Java passes to `conn_recv` carries one frame (data, fin or
  reset).
- Addresses go through `decode_address`, taken from `WireCodecs` by `INSTANCE`.
- Every call takes a buffer that is direct or heap. `GetDirectBufferAddress`
  returns NULL for a heap buffer, which triggers the early `return -1`.
- `last` records the call, whether quiche was called, and the return value.
- `finArr` is the caller's `boolean[1]`, which the caller reuses between calls.

**Actions.**
- `ConnNewWithTls`, `ConnRecv`, `ConnSend`, `StreamRecv`, `StreamSend`,
  `ConnReadable`, `ConnFree`.
- `CallAfterFree`: any call on the stale `jlong`.

**Runs.**
- `quic_conn_io` (pass: 2 streams, 1 byte per stream, `ids[]` scaled from 256
  to 1 so truncation happens with two readable streams; 179,083 states). It
  checks two things:
  - `conn_readable` returns distinct, readable streams, at most `ids[]` of them,
    and truncates only when `ids[]` is full (`ReadableSound`). The id the loop
    draws past the capacity is discarded, but it stays in quiche's readable set.
  - A zero-length `stream_send` with fin marks the stream finished
    (`ZeroLengthFinDelivered`, spec 8).

- `quic_readable_starvation` (violation, `EveryReadableReported`, under
  `FairSpec`, 119,189 states, 50 s). Spec 4.4 allows truncation as long as
  callers that re-poll learn of every readable stream. `FairSpec` is that
  caller: weak fairness on `ConnReadable` and on `DrainReported(s)`, a
  drain of each reported stream into a direct buffer. The peer, `conn_send`
  and `conn_free` carry no fairness. TLC finds a cycle in which one stream
  holds only an undelivered fin, the other is reported, drained and refilled
  by the peer before every poll, and the iterator yields the refilled one
  first. The stream with the fin is never reported. In the code, the ids past
  256 are dropped silently and the order is quiche's hash-set order, which the
  bridge does not rotate (quiche_jni.c:319-322). So with more than 256 busy
  streams, the later ones can starve.

Three disagreements with the spec are single unconditional steps of this
module, so they are recorded as hazards in `PROJECT.json` and not as runs:
- `ConnRecv`/`ConnNewWithTls` hand quiche a zeroed `sockaddr` of length 0 for a
  rejected address (quiche_jni.c:201-202, 234-235). This shows in `addrLens`.
- `NoBuffer` returns `-1`, which is `QUICHE_ERR_DONE`, for a heap buffer. This
  masks `BufferUnavailable` (quiche_jni.c:226-229 and every I/O call).
- `ConnReadable` dereferences the NULL result of a failed `NewLongArray`
  (quiche_jni.c:326-328). This shows in `crashed`.

### `H3Send` (+ `MC_H3Send`)

**Model.**
- One `quiche_h3_conn`, server or client (`role`), with request streams.
- The peer opens streams (`PeerRequest`), grants send credit (`PeerGrant`) and
  sends body bytes (`PeerBody`).
- Each stream's body is the bytes `1..MaxBody`, held in a `ByteBuffer` of one
  of four kinds:
  - direct;
  - heap;
  - a heap slice whose backing array has one foreign byte in front
    (`arrayOffset() = 1`);
  - read-only heap, where `array()` throws.
- `posJ` is the Java buffer's position. The caller advances it by what
  `send_body` reports written.
- `sent` is what quiche accepted, in order, and `credit` is its send capacity.
  quiche writes `min(len, credit)` bytes and answers DONE when it can write
  none of a non-empty body.
- A header array is only its length. `HeaderArrayNull` is the
  `malloc(num_headers * ...)` result. `num_headers` is the length divided by
  2, so for 0 or 1 it is `malloc(0)`. That call returns NULL or not per build
  (`mallocZeroNull`, chosen once); other sizes may fail on exhaustion.
- `last` records each call's result and whether it came from quiche.

**Actions.** `RecvBody`, `SendResponse`, `SendBody` (with the `len == 0`,
direct and heap-copy branches), `SendRequest`.

**Runs.**
- `h3_send` (pass, 2 streams, 2-byte bodies, credit at most 1 so that a body
  goes out in two partial writes, header arrays of 2 and 3 strings, writable
  buffer kinds; 81,248 states). It checks two things:
  - Across partial writes, quiche receives exactly a prefix of each body, in
    order and without repeats, and the Java position is just past it
    (`BodySentInOrder`). This is the `data += pos` and
    `arrayOffset() + pos` arithmetic of h3_jni.c:364 and 387.
  - Every open stream is eventually finished (`EveryStreamFinishes`, under
    `FairSpec`; see Fairness). This includes a final zero-length `send_body`
    (h3_jni.c:350-356).
- `h3_done_masking` (violation, `DoneComesFromEngine`). The bridge returns
  `-1` or `QUICHE_ERR_DONE` for its own failures:
  - header-array malloc NULL, which includes `malloc(0)`;
  - a non-direct buffer in `recv_body`;
  - a read-only buffer or a failed copy in `send_body`.

  That value equals `QUICHE_H3_ERR_DONE`. Spec 7 requires these failures to be
  reported as such. A caller retrying on DONE never finishes a stream whose
  buffer is read-only, or whose header array hits `malloc(0)` NULL.

### `ConnSession` (+ `MC_ConnSession`)

**Model.** The handles around one server connection and every call on them
that the other modules leave out.
- `config`, `h3config`, `ssl`, `conn` are handle states. The SSL is `"live"`
  while Java owns it, `"owned"` once `quiche_conn_new_with_tls` took it, and
  `"freed"` after `quiche_conn_free`, or at once when creation fails.
- `settings`, `h3settings`, `creds` and `verify` are what the config setters,
  the credential loaders and `set_verify_peer` stored. Values are abstracted
  to the field being set.
- quiche's connection is abstracted to what the queries read: `established`,
  `closed`, `timer` (none, armed or expired), the ALPN id settled (`alpn`, a
  byte sequence) and whether a peer certificate came (`peerCert`, only when
  the context verifies peers).
- `last` is the last call and its result; `uaf` records a call through a freed
  handle; `crashed` an abort.

**Actions.**
- Config: `ConfigNew` (0 for an unsupported version), `ConfigSet` (every
  `quiche_config_set_*`), `ConfigFree`, `H3ConfigNew`, `H3ConfigFree`,
  `H3ConfigSetMaxDynamicTableCapacity` (sets `max_field_section_size`, see
  below).
- TLS: `CredLoad` (cert chain, key, verify locations, cipher suites, groups:
  0, -1, or an out-of-memory `GetStringUTFChars`, which makes the file loaders
  return -1 and the list parsers abort), `SslCtxSetVerifyPeer`, `SslNew`,
  `SslSetHostname`, `SslGetCipherName`.
- Connection: `ConnNewWithTls`, `Datagram` (the effect of `conn_recv` /
  `conn_send` on the queried state: timers armed, handshake completed),
  `Expire` (Java's clock passing the deadline), `ConnTimeoutAsMillis` (-1 for
  no timer, the `(jlong)` of `UINT64_MAX`), `ConnOnTimeout`,
  `ConnIsEstablished`, `ConnIsClosed`, `ConnPeerCert`,
  `ConnApplicationProto` (the NUL-terminated copy, `CStr`), `ConnFree`.
- Stateless: `VersionIsSupported`, `NegotiateVersion` (-1 for a non-direct
  buffer), `EnableDebugLogging`.

**Runs.**
- `conn_session` (pass, 2 config setters, a file loader and a list parser,
  ALPN ids `h3` and `h2`; about 1.3 million states, 40 s). Every order of
  the calls, with every allocation and handshake outcome, is explored. It
  checks two things:
  - Every credential call returns 0 or -1, and the timer and state queries
    return values of their types (`TypeOK`, with `ReturnTypeOK`).
  - `quiche_conn_application_proto` gives Java the settled ALPN id whole, or
    NULL when none was acknowledged or an allocation failed
    (`ApplicationProtoNegotiated`). The `proto_len == 0` test is what keeps a
    handshake without ALPN from returning an empty string.

  The SSL's transfer to the connection is modelled as quiche does it (freed
  with the connection, or at once when creation fails); no property restates
  it. A later call on the SSL handle is recorded as `uaf`, which the spec
  leaves to the caller.

  An ALPN id containing a 0 byte would be cut by the copy (`CStr`); the run's
  ids have none, as ids the server configures in practice do not.

## Bounds and why they are enough

- **QuicConn: two streams and a one-entry `ids[]`.** Two readable streams
  exceed the array, so truncation and the discarded extra id both happen. One
  buffered byte per stream separates a read that ends at the fin from one that
  does not.
- **Two threads and two sessions or contexts.** This is the least that lets one
  thread's slot hold another session's event, or two threads race on the static
  index.
- **Three events.** This lets one session's queue hold an event while another's
  is cached.
- **Header counts 0, 1, 33 and 65.** These are the empty list, the no-growth
  path, exactly one growth step and two growth steps in a row. Every allocation may fail at every point.
- **ALPN.** Two tables and three peer lists cover:
  - overlap in both orders;
  - no overlap, which gives NOACK;
  - a single shared protocol.

  `MaxTables 3` allows a reconfiguration, and `MaxSsls 1` allows an SSL that
  outlives its context.

- **H3Send: two streams, 2-byte bodies, credit at most 1.** A body needs two
  writes, so the position arithmetic is exercised after a partial write. Two
  streams share the credit. Header arrays of 2 and 3 strings cover the even
  and odd counts that allocate one entry. The violation run adds 0, which is
  `malloc(0)`.

- **ConnSession: one connection, two setters, two credential calls, two
  ALPN ids.** Every setter and loader is the same action on a different
  name, so two of each (one file loader, one list parser) cover both failure
  behaviours. One connection suffices because connections share no bridge
  state; the SSL's transfer and every query before and after the handshake,
  timer expiry and close are all reached.

- **Nameservers: up to three resolver entries and three Windows list
  entries.** IPv4 entries come before and after an IPv6 one. Empty Windows
  entries appear first and between servers, and the list grows and shrinks
  between the two calls. Every call that can fail does so in some input.

## Fairness

The bridge schedules nothing of its own: every call is made by a Java caller.
So liveness can only be stated under assumptions about that caller and the
peer, and only `h3_send` checks it. Its `FairSpec` puts weak fairness on these
steps only, following the practice of putting fairness on the steps that must
happen rather than on `Next`:
- `PeerGrant`: the peer keeps acknowledging, so send credit reappears.
- `Respond(s)`: a server answers each open request with a header array whose
  allocation succeeds.
- `FinishBody(s)`: the caller retries the rest of its body with fin, and the
  heap copy eventually succeeds, because memory exhaustion is transient.

Peer data, receives and the client opening streams carry no fairness. The run
uses no symmetry, because symmetry is not sound for liveness checking. Deadlock
checking is off in the state-machine runs because every call can legitimately
stop being made.

`quic_readable_starvation` uses `QuicConn`'s `FairSpec`. It puts weak fairness
on the caller that spec 4.4 describes: `ConnReadable` (the caller re-polls)
and `DrainReported(s)` (it reads each stream the last poll reported). The
peer gets none, because nothing stops it from sending. That is the case the
run is about.

## Not modelled, and why

- **`quiche_h3_config_set_max_dynamic_table_capacity`.** It is modelled, and
  reading it turned up a defect that needs no model checker: it passes its
  argument to `quiche_h3_config_set_max_field_section_size`
  (h3_jni.c:66-67). The QPACK table capacity is therefore never set, and the
  header-section limit gets the table-size value instead. `ConnSession`
  records it as the field set; no property is spent on a one-line mistake.
- **Setting values.** Config and credential values (timeouts, limits, paths,
  cipher strings) are abstracted to which field was set; the bridge only casts
  them and quiche or BoringSSL validates them outside this repository.
- **The header-string loops of `send_response`/`send_request`.**
  `GetStringUTFChars` may return NULL, and `strlen` of it crashes
  (h3_jni.c:310-314). This is recorded as a hazard. The pinning and release of
  strings within one call is not modelled, because no other call can observe
  it.
- **Aborts on unchecked allocations.** `set_alpn_protos` dereferences its
  two mallocs unchecked (ssl_ctx_jni.c:164-167), and `negotiate_version` hands
  quiche an unchecked `GetByteArrayElements` result (quiche_jni.c:462). Each is
  an abort in every interleaving, and a terminal crash state there is not
  distinguishable by any property, so neither is modelled (the first is listed
  as a hazard).
- **SNI.** `ssl_set_hostname` ignores the result of `SSL_set_tlsext_host_name`
  (ssl_ctx_jni.c:196). No code in the repository reads the name back, so it is
  not state of `ConnSession`; the hazard is listed.
- **The debug log callback's output.** Only its installation is state; the
  `fprintf` is I/O.

## Plan for later work

1. **`QuicConn` liveness.** `quic_readable_starvation` shows the property fails
   for a peer that keeps streams busy. For a peer that eventually stops
   sending, the property follows from `ReadableSound`: each poll reports every
   readable stream, or a full `ids[]` of them, and draining shrinks the set.
   A mutant that broke it would break `ReadableSound` first, so it is not
   checked separately. A bridge fix, such as rotating the start of the next
   call past the last id taken, could be checked with `quic_readable_starvation`.
2. **`H3Send` and `QuicConn` composed.** h3 body bytes and fin should reach
   the same quiche stream state that `stream_send` writes.
3. **A handle-lifecycle composition.** `ConnSession` covers the SSL's
   transfer to one quiche connection; composing it with `AlpnContext`'s
   contexts and `H3EventSlot`'s h3 connection would cover use after
   `quiche_conn_free` across all three files.
