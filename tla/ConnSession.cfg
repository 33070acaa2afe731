\* One server connection with its configs and TLS session; two of the
\* twelve config setters and two of the five credential calls (a file
\* loader and a list parser) stand for the rest.
CONSTANTS
    NULL = NULL
    ConfigSetters = {"max_idle_timeout", "application_protos"}
    CredLoaders = {"cert_chain", "ciphersuites"}
    Protos <- MCProtos
SPECIFICATION Spec
INVARIANT TypeOK
INVARIANT ApplicationProtoNegotiated
\* The process stops when it aborts, and Java may stop calling at any time.
CHECK_DEADLOCK FALSE
