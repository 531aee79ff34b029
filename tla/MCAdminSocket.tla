--------------------------- MODULE MCAdminSocket ---------------------------
(* Small instances of AdminSocket for TLC. *)
EXTENDS AdminSocket, TLC

\* The required keys only, as in the README's example without its options.
Plain == [host |-> "0.0.0.0", port |-> 8080, cache |-> "100 entries, 60 s",
          origins |-> "http://backend:3000 at /api"]

NoFile == [k \in {} |-> 0]

\* Other ports, the default socket.
OtherPorts == [admin_port |-> 9091, burst_size |-> 5] @@ [Plain EXCEPT !.port = 8081]

\* Everything elsewhere.
OtherSocket == [socket |-> "/run/other.sock"] @@ OtherPorts

\* Both ports the same, no rate, no certificate.
SamePorts == [admin_port |-> 8080] @@ Plain
NoRate == [requests_per_second |-> 0] @@ Plain
NoCert == [tls |-> "unreadable"] @@ Plain

OneFile == {Plain}
SomeFiles == {NoFile, OtherSocket, SamePorts, NoRate, NoCert}

\* fastcache stats, the command that prints another kind of response than a purge.
StatsArgs ==
    [c \in Cmds |-> [target |-> "stats", socket |-> "/tmp/fastcache.sock"]]
=============================================================================
