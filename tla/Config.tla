------------------------------- MODULE Config -------------------------------
(***************************************************************************)
(* The configuration a server runs with: infrastructure/config.rs, and     *)
(* what run in presentation/http/server.rs makes of it before it binds     *)
(* anything.                                                               *)
(*                                                                         *)
(* The file is a function from the keys it gives to their values; a file   *)
(* that is missing, is no YAML or has a value of the wrong type gives none *)
(* of them, and keys the structs do not have are not looked at.            *)
(***************************************************************************)
EXTENDS Naturals

\* The structs flattened.  cache stands for the two keys of CacheConfig.
DefaultConfig ==
    [host |-> "0.0.0.0", port |-> 8080, admin_port |-> 9090,
     socket |-> "/tmp/fastcache.sock", max_body_size |-> 10 * 1024 * 1024,
     cache |-> "10000 entries, 3600 s", origins |-> "./public at /",
     requests_per_second |-> 100, burst_size |-> 50, tls |-> "none"]

Keys == DOMAIN DefaultConfig

\* The keys without a serde default.
Required == {"host", "port", "cache", "origins"}

\* Config::load: every key from the file or its own default, or an error.
Loads(file) == Required \subseteq DOMAIN file

Load(file) ==
    [k \in Keys |-> IF k \in DOMAIN file THEN file[k] ELSE DefaultConfig[k]]

\* run: whatever is wrong with the file, the server goes on with the defaults.
ConfigOf(file) == IF Loads(file) THEN Load(file) ELSE DefaultConfig

\* The hosts that parse as part of a SocketAddr: addresses, not names.
Addresses == {"0.0.0.0", "127.0.0.1"}

\* run gets to its servers: the rate limiter accepts no zero (expect), and both
\* addresses parse (?).
Usable(config) ==
    /\ config.requests_per_second > 0 /\ config.burst_size > 0
    /\ config.host \in Addresses
=============================================================================
