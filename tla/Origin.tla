------------------------------- MODULE Origin -------------------------------
(***************************************************************************)
(* The origins of a fastcache server: domain/origin.rs (the Origin trait), *)
(* infrastructure/origin/local.rs and infrastructure/origin/remote.rs, as  *)
(* seen from a caller of fetch().                                          *)
(*                                                                         *)
(* One element of Origins is one entry of the configuration (one           *)
(* OriginEntry).  What an origin holds is a version number that only the   *)
(* outside world advances; a response body is the record of where and when *)
(* it was produced, which is all the properties tell apart.  The SHA-256   *)
(* entity tag of a body is taken to be injective, so a tag is its body.    *)
(***************************************************************************)
EXTENDS Naturals

CONSTANTS
    Paths,          \* the URL paths the clients ask for: the cache keys
    Origins,        \* the configured origin entries
    LocalOrigins,   \* those of them that are LocalOrigin; the rest are RemoteOrigin
    MaxVer          \* bound: how often the content of an origin may change

ASSUME OriginAssumption ==
    /\ LocalOrigins \subseteq Origins
    /\ MaxVer \in Nat

VARIABLE ver        \* [Origins -> 0..MaxVer]: the content each origin holds now

\* The methods CdnService answers through the cache.
Reads == {"GET", "HEAD"}

\* The methods RemoteOrigin::fetch has a request builder for.
RemoteMethods == {"GET", "POST", "PUT", "PATCH", "DELETE", "HEAD"}

\* Any other method is an error before anything is sent.
Supports(o, m) == m \in IF o \in LocalOrigins THEN Reads ELSE RemoteMethods

\* full is FALSE for the empty body a remote server sends back to a HEAD.
Body == [origin : Origins, path : Paths, ver : 0..MaxVer, full : BOOLEAN]

VerType == ver \in [Origins -> 0..MaxVer]

\* What fetch() answers when it succeeds: the content of this moment.
ContentOf(o, p, m) ==
    [origin |-> o, path |-> p, ver |-> ver[o],
     full |-> o \in LocalOrigins \/ m # "HEAD"]

\* The outside world replaces the content of an origin.
Deploy(o) ==
    /\ ver[o] < MaxVer
    /\ ver' = [ver EXCEPT ![o] = @ + 1]
=============================================================================
