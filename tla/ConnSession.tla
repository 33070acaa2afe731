----------------------------- MODULE ConnSession -----------------------------
(***************************************************************************)
(* The handles Java holds around one server connection, and the calls on *)
(* them that QuicConn (stream I/O) and AlpnContext (ALPN tables) leave    *)
(* out: the transport and HTTP/3 config builders, the TLS context's       *)
(* credential loaders and verify mode, the TLS session (ssl_new,          *)
(* set_hostname, cipher name), the connection's creation and free, its   *)
(* timer and state queries, the peer certificate and negotiated ALPN     *)
(* queries, and the stateless version calls.                              *)
(*                                                                         *)
(* Every handle is a jlong cast back to a pointer with no check, so a    *)
(* call on freed memory is recorded (uaf) rather than rejected.  Java is  *)
(* assumed to keep the spec's contract for the handles it frees itself   *)
(* (config_free, h3_config_free, conn_free): it never uses one after     *)
(* freeing it.  There is no ssl_free: the SSL is freed by quiche, so Java *)
(* may still call on it afterwards.                                       *)
(*                                                                         *)
(* quiche is abstracted to what these calls read: the handshake phase,    *)
(* whether a timer is armed or has expired, and what the handshake       *)
(* settled (ALPN id, peer certificate).  ALPN ids are byte sequences.    *)
(***************************************************************************)
EXTENDS Naturals, Sequences, SequencesExt

CONSTANTS
    ConfigSetters, \* the quiche_config_set_* calls Java makes, by name
    CredLoaders,   \* the ssl_ctx_load_* / set_* calls taking a path or list
    Protos,        \* ALPN ids a handshake may settle on (non-empty)
    NULL

\* quiche.h: quiche_negotiate_version's error for a short buffer.
QUICHE_ERR_BUFFER_TOO_SHORT == -2

VARIABLES
    config,     \* quiche_config handle: "none", "live" or "freed"
    settings,   \* the setters applied to it
    h3config,   \* quiche_h3_config handle: "none", "live" or "freed"
    h3settings, \* the h3 config fields set
    creds,      \* the SSL_CTX's credentials and lists that loaded
    verify,     \* the SSL_CTX's verify mode is SSL_VERIFY_PEER
    ssl,        \* SSL handle: "none", "live" (Java's), "owned" (by the
                \* connection) or "freed"
    conn,       \* quiche_conn handle: "none", "live" or "freed"
    established, \* quiche_conn_is_established: the handshake completed
    closed,     \* quiche_conn_is_closed
    timer,      \* "none", "armed" or "expired"
    alpn,       \* the ALPN id the handshake settled, <<>> for none
    peerCert,   \* the peer presented a certificate
    uaf,        \* a call dereferenced a freed handle
    crashed,    \* the process aborted
    debugLog,   \* quiche's process-wide log callback is installed
    last        \* the last call: [op, ret]

cfgVars == <<config, settings, h3config, h3settings>>
tlsVars == <<creds, verify, ssl>>
connVars == <<conn, established, closed, timer, alpn, peerCert>>
procVars == <<uaf, crashed, debugLog>>
vars == <<cfgVars, tlsVars, connVars, procVars, last>>

H3Fields == {"max_field_section_size", "qpack_max_table_capacity"}

\* The jint/jboolean results Java reads: the credential calls return 0 or
\* -1, the timer query -1 (no timer), 0 (expired) or a positive delay
\* (1 here), the state queries a boolean.
ReturnTypeOK ==
    /\ last.op = "cred_load" => last.ret \in {0, -1}
    /\ last.op = "timeout_as_millis" => last.ret \in {-1, 0, 1}
    /\ last.op \in {"is_established", "is_closed", "version_is_supported"}
           => last.ret \in BOOLEAN

TypeOK ==
    /\ config \in {"none", "live", "freed"}
    /\ settings \subseteq ConfigSetters
    /\ h3config \in {"none", "live", "freed"}
    /\ h3settings \subseteq H3Fields
    /\ creds \subseteq CredLoaders
    /\ verify \in BOOLEAN
    /\ ssl \in {"none", "live", "owned", "freed"}
    /\ conn \in {"none", "live", "freed"}
    /\ established \in BOOLEAN
    /\ closed \in BOOLEAN
    /\ timer \in {"none", "armed", "expired"}
    /\ alpn \in Protos \cup {<<>>}
    /\ peerCert \in BOOLEAN
    /\ uaf \in BOOLEAN
    /\ crashed \in BOOLEAN
    /\ debugLog \in BOOLEAN
    /\ ReturnTypeOK

Init ==
    /\ config = "none" /\ settings = {}
    /\ h3config = "none" /\ h3settings = {}
    /\ creds = {} /\ verify = FALSE /\ ssl = "none"
    /\ conn = "none" /\ established = FALSE /\ closed = FALSE
    /\ timer = "none" /\ alpn = <<>> /\ peerCert = FALSE
    /\ uaf = FALSE /\ crashed = FALSE /\ debugLog = FALSE
    /\ last = [op |-> "none", ret |-> NULL]

Up == ~crashed

\* The call op returned ret.
Ret(op, ret) == last' = [op |-> op, ret |-> ret]

(* --------------------------- config builders ---------------------------- *)

\* quiche_config_new(version): NULL (handle 0) for an unsupported version.
ConfigNew(supported) ==
    /\ Up /\ config = "none"
    /\ config' = IF supported THEN "live" ELSE "none"
    /\ Ret("config_new", IF supported THEN "handle" ELSE 0)
    /\ UNCHANGED <<settings, h3config, h3settings, tlsVars, connVars, procVars>>

\* Every quiche_config_set_*: the value is cast (jlong to uint64_t or
\* size_t, jint to the enum) and stored; set_application_protos drops
\* quiche's return code.  Values are abstracted to "set".
ConfigSet(p) ==
    /\ Up /\ config = "live"
    /\ settings' = settings \cup {p}
    /\ Ret("config_set", NULL)
    /\ UNCHANGED <<config, h3config, h3settings, tlsVars, connVars, procVars>>

ConfigFree ==
    /\ Up /\ config = "live"
    /\ config' = "freed"
    /\ Ret("config_free", NULL)
    /\ UNCHANGED <<settings, h3config, h3settings, tlsVars, connVars, procVars>>

H3ConfigNew ==
    /\ Up /\ h3config = "none"
    /\ h3config' = "live"
    /\ Ret("h3_config_new", "handle")
    /\ UNCHANGED <<config, settings, h3settings, tlsVars, connVars, procVars>>

H3ConfigFree ==
    /\ Up /\ h3config = "live"
    /\ h3config' = "freed"
    /\ Ret("h3_config_free", NULL)
    /\ UNCHANGED <<config, settings, h3settings, tlsVars, connVars, procVars>>

\* quiche_h3_config_set_max_dynamic_table_capacity calls
\* quiche_h3_config_set_max_field_section_size with the capacity.
H3ConfigSetMaxDynamicTableCapacity ==
    /\ Up /\ h3config = "live"
    /\ h3settings' = h3settings \cup {"max_field_section_size"}
    /\ Ret("h3_config_set", NULL)
    /\ UNCHANGED <<config, settings, h3config, tlsVars, connVars, procVars>>

(* ------------------------ TLS context and session ----------------------- *)

\* The calls that parse a list rather than open a file.
ParsesList(what) == what \in {"ciphersuites", "groups"}

\* Fault variant of CredLoad: BoringSSL's own result (1 on success, 0 on
\* failure) is returned without the "ret == 1 ? 0 : -1" conversion.
CredLoadRawRet(what, outcome) ==
    /\ Up
    /\ \/ /\ outcome = "ok"
          /\ creds' = creds \cup {what}
          /\ Ret("cred_load", 1)
          /\ UNCHANGED crashed
       \/ /\ outcome = "rejected" \/ (outcome = "oom" /\ ~ParsesList(what))
          /\ Ret("cred_load", 0)
          /\ UNCHANGED <<creds, crashed>>
       \/ /\ outcome = "oom" /\ ParsesList(what)
          /\ crashed' = TRUE
          /\ UNCHANGED <<creds, last>>
    /\ UNCHANGED <<cfgVars, verify, ssl, connVars, uaf, debugLog>>

\* ssl_ctx_load_cert_chain, _load_priv_key, _load_verify_locations,
\* _set_ciphersuites and _set_groups: GetStringUTFChars, the BoringSSL
\* call, "ret == 1 ? 0 : -1".  Out of memory, GetStringUTFChars returns
\* NULL, unchecked: the file loaders then fail to open a NULL path, the
\* list parsers read through the NULL pointer.
CredLoad(what, outcome) ==
    /\ Up
    /\ \/ /\ outcome = "ok"
          /\ creds' = creds \cup {what}
          /\ Ret("cred_load", 0)
          /\ UNCHANGED crashed
       \/ /\ outcome = "rejected" \/ (outcome = "oom" /\ ~ParsesList(what))
          /\ Ret("cred_load", -1)
          /\ UNCHANGED <<creds, crashed>>
       \/ /\ outcome = "oom" /\ ParsesList(what)
          /\ crashed' = TRUE
          /\ UNCHANGED <<creds, last>>
    /\ UNCHANGED <<cfgVars, verify, ssl, connVars, uaf, debugLog>>

\* ssl_ctx_set_verify_peer: SSL_VERIFY_PEER or SSL_VERIFY_NONE.
SslCtxSetVerifyPeer(v) ==
    /\ Up
    /\ verify' = v
    /\ Ret("set_verify_peer", NULL)
    /\ UNCHANGED <<cfgVars, creds, ssl, connVars, procVars>>

\* ssl_new: SSL_new(ctx), NULL (handle 0) when it fails.
SslNew(ok) ==
    /\ Up /\ ssl = "none"
    /\ ssl' = IF ok THEN "live" ELSE "none"
    /\ Ret("ssl_new", IF ok THEN "handle" ELSE 0)
    /\ UNCHANGED <<cfgVars, creds, verify, connVars, procVars>>

\* ssl_set_hostname: SSL_set_tlsext_host_name on the handle, whoever owns
\* the SSL by now (a NULL name from GetStringUTFChars clears it).
SslSetHostname ==
    /\ Up /\ ssl # "none"
    /\ uaf' = (uaf \/ ssl = "freed")
    /\ Ret("set_hostname", NULL)
    /\ UNCHANGED <<cfgVars, tlsVars, connVars, crashed, debugLog>>

\* ssl_get_cipher_name: NULL for handle 0; otherwise SSL_get_cipher_name,
\* which is never NULL ("(NONE)" before the handshake), then NewStringUTF
\* (NULL when out of memory).  A freed SSL yields garbage.
SslGetCipherName(strOk) ==
    /\ Up
    /\ uaf' = (uaf \/ ssl = "freed")
    /\ Ret("cipher_name",
           CASE ssl = "none"    -> NULL
             [] ssl = "freed"   -> "garbage"
             [] ~strOk          -> NULL
             [] established     -> "cipher"
             [] OTHER           -> "(NONE)")
    /\ UNCHANGED <<cfgVars, tlsVars, connVars, crashed, debugLog>>

(* ------------------------------ connection ------------------------------ *)

\* quiche_conn_new_with_tls: quiche takes the SSL whatever happens; it is
\* freed with the connection, or at once when creation fails.
ConnNewWithTls(ok) ==
    /\ Up /\ conn = "none" /\ config = "live" /\ ssl = "live"
    /\ conn' = IF ok THEN "live" ELSE "none"
    /\ ssl' = IF ok THEN "owned" ELSE "freed"
    /\ Ret("conn_new", IF ok THEN "handle" ELSE 0)
    /\ UNCHANGED <<cfgVars, creds, verify, established, closed, timer, alpn,
                   peerCert, procVars>>

\* What conn_recv and conn_send (QuicConn) do to the state read here: any
\* datagram arms quiche's timers and may complete the handshake, which
\* settles the ALPN id and, when the context asks for one, whether the
\* client sent a certificate.
Datagram ==
    /\ Up /\ conn = "live" /\ ~closed
    /\ timer' = "armed"
    /\ \/ UNCHANGED <<established, alpn, peerCert>>
       \/ /\ ~established
          /\ established' = TRUE
          /\ alpn' \in Protos \cup {<<>>}
          /\ peerCert' \in IF verify THEN BOOLEAN ELSE {FALSE}
    /\ Ret("datagram", NULL)
    /\ UNCHANGED <<cfgVars, tlsVars, conn, closed, procVars>>

\* The deadline quiche reported passes (Java's own clock).
Expire ==
    /\ Up /\ conn = "live" /\ timer = "armed"
    /\ timer' = "expired"
    /\ UNCHANGED <<cfgVars, tlsVars, conn, established, closed, alpn, peerCert,
                   procVars, last>>

\* quiche_conn_timeout_as_millis: UINT64_MAX (no timer) becomes -1 in the
\* (jlong) cast; an expired deadline is 0.
ConnTimeoutAsMillis ==
    /\ Up /\ conn = "live"
    /\ Ret("timeout_as_millis",
           CASE timer = "none" -> -1 [] timer = "expired" -> 0 [] OTHER -> 1)
    /\ UNCHANGED <<cfgVars, tlsVars, connVars, procVars>>

\* quiche_conn_on_timeout: a no-op unless the deadline passed; then either
\* the idle timeout closes the connection or loss recovery re-arms.
ConnOnTimeout ==
    /\ Up /\ conn = "live"
    /\ \/ timer # "expired" /\ UNCHANGED <<closed, timer>>
       \/ timer = "expired" /\ closed' = TRUE /\ timer' = "none"
       \/ timer = "expired" /\ timer' = "armed" /\ UNCHANGED closed
    /\ Ret("on_timeout", NULL)
    /\ UNCHANGED <<cfgVars, tlsVars, conn, established, alpn, peerCert, procVars>>

ConnIsEstablished ==
    /\ Up /\ conn = "live"
    /\ Ret("is_established", established)
    /\ UNCHANGED <<cfgVars, tlsVars, connVars, procVars>>

ConnIsClosed ==
    /\ Up /\ conn = "live"
    /\ Ret("is_closed", closed)
    /\ UNCHANGED <<cfgVars, tlsVars, connVars, procVars>>

\* quiche_conn_peer_cert: NULL when there is none, or when NewByteArray
\* fails; otherwise a copy of the DER bytes.
ConnPeerCert(arrayOk) ==
    /\ Up /\ conn = "live"
    /\ Ret("peer_cert", IF peerCert /\ arrayOk THEN "cert" ELSE NULL)
    /\ UNCHANGED <<cfgVars, tlsVars, connVars, procVars>>

\* The C string proto_str holds: the bytes before the first NUL.
CStr(b) ==
    LET nul == SelectInSeq(b, LAMBDA x : x = 0)
    IN IF nul = 0 THEN b ELSE SubSeq(b, 1, nul - 1)

\* Fault variant of ProtoResult: no "proto_len == 0" test, so a handshake
\* without ALPN yields an empty string.
ProtoResultNoEmptyCheck(mallocOk) ==
    IF ~mallocOk THEN NULL ELSE CStr(alpn)

\* quiche_conn_application_proto's result: NULL when no protocol was
\* negotiated or malloc(proto_len + 1) or NewStringUTF fails, else the string of the
\* NUL-terminated copy.
ProtoResult(mallocOk) ==
    IF alpn = <<>> \/ ~mallocOk THEN NULL ELSE CStr(alpn)

ConnApplicationProto(mallocOk) ==
    /\ Up /\ conn = "live"
    /\ Ret("application_proto", ProtoResult(mallocOk))
    /\ UNCHANGED <<cfgVars, tlsVars, connVars, procVars>>

\* quiche_conn_free: the connection and the SSL it owns.
ConnFree ==
    /\ Up /\ conn = "live"
    /\ conn' = "freed"
    /\ ssl' = "freed"
    /\ Ret("conn_free", NULL)
    /\ UNCHANGED <<cfgVars, creds, verify, established, closed, timer, alpn,
                   peerCert, procVars>>

(* ------------------------------- stateless ------------------------------ *)

\* quiche_version_is_supported((uint32_t)version).
VersionIsSupported(supported) ==
    /\ Up
    /\ Ret("version_is_supported", supported)
    /\ UNCHANGED <<cfgVars, tlsVars, connVars, procVars>>

\* quiche_negotiate_version: -1 when the output buffer is not direct,
\* else quiche's length or error, cast to jint.
NegotiateVersion(direct, fits) ==
    /\ Up
    /\ Ret("negotiate_version",
           CASE ~direct -> -1 [] fits -> "written" [] OTHER -> QUICHE_ERR_BUFFER_TOO_SHORT)
    /\ UNCHANGED <<cfgVars, tlsVars, connVars, procVars>>

\* quiche_enable_debug_logging: installs the stderr callback process-wide.
EnableDebugLogging ==
    /\ Up
    /\ debugLog' = TRUE
    /\ Ret("debug_logging", NULL)
    /\ UNCHANGED <<cfgVars, tlsVars, connVars, uaf, crashed>>

Next ==
    \/ \E b \in BOOLEAN : ConfigNew(b) \/ SslNew(b) \/ SslCtxSetVerifyPeer(b)
                          \/ ConnNewWithTls(b) \/ SslGetCipherName(b)
                          \/ ConnPeerCert(b) \/ ConnApplicationProto(b)
                          \/ VersionIsSupported(b)
    \/ \E p \in ConfigSetters : ConfigSet(p)
    \/ \E w \in CredLoaders, o \in {"ok", "rejected", "oom"} : CredLoad(w, o)
    \/ \E d, f \in BOOLEAN : NegotiateVersion(d, f)
    \/ ConfigFree \/ H3ConfigNew \/ H3ConfigFree
    \/ H3ConfigSetMaxDynamicTableCapacity
    \/ SslSetHostname \/ Datagram \/ Expire \/ ConnTimeoutAsMillis
    \/ ConnOnTimeout \/ ConnIsEstablished \/ ConnIsClosed \/ ConnFree
    \/ EnableDebugLogging

Spec == Init /\ [][Next]_vars

(***************************************************************************)
(* Properties                                                              *)
(***************************************************************************)

\* Spec 4.3: Java learns the protocol the handshake settled, whole, or
\* NULL when none was acknowledged (an allocation failure also gives
\* NULL), never an empty or cut string.
ApplicationProtoNegotiated ==
    last.op = "application_proto"
        => /\ last.ret \in {NULL, alpn}
           /\ alpn = <<>> => last.ret = NULL

====
