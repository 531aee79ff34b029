----------------------------- MODULE RateLimit -----------------------------
(***************************************************************************)
(* The rate limiter that run in presentation/http/server.rs puts in front  *)
(* of everything else: GovernorLayer of tower_governor.                    *)
(*                                                                         *)
(* What is this program's own is the configuration, the key that it leaves *)
(* at its default, and the place of the layer.  The cell rate algorithm is *)
(* that of the governor crate in the version Cargo.lock names (0.6.3): it  *)
(* keeps one time per address and lets a request through if this time is   *)
(* no more than the whole burst ahead of the clock.                        *)
(*                                                                         *)
(* Time is counted in seconds.  The field at of a request is auxiliary:    *)
(* when the limiter has decided about it.                                  *)
(***************************************************************************)
EXTENDS Integers, FiniteSets

CONSTANTS
    Requests,           \* the requests of a run
    AddressOf,          \* AddressOf[r]: the address its client connects from
    RequestsPerSecond,  \* rate_limit.requests_per_second
    BurstSize,          \* rate_limit.burst_size
    MaxTime             \* bound: how long the run is looked at

\* finish() has returned a configuration: neither value is zero.
ASSUME RateAssumption ==
    /\ RequestsPerSecond \in Nat \ {0} /\ BurstSize \in Nat \ {0}
    /\ MaxTime \in Nat

VARIABLES
    now,        \* the clock, in seconds
    tat,        \* tat[a]: the time kept of an address; 0: it has not been met
    req         \* the requests

vars == <<now, tat, req>>

Addresses == {AddressOf[r] : r \in Requests}

Init ==
    /\ now = 0
    /\ tat = [a \in Addresses |-> 0]
    /\ req = [r \in Requests |-> [pc |-> "new", at |-> 0]]

\* per_second(requests_per_second): the seconds between two tokens.
Interval == RequestsPerSecond

Later(s, t) == IF s > t THEN s ELSE t

\* Mutant: one bucket for all clients (GlobalKeyExtractor).
BucketOfAll(r) == CHOOSE a \in Addresses : TRUE

\* PeerIpKeyExtractor, the default: the address of the connection.
Bucket(r) == AddressOf[r]

\* An address that has not been met before is taken to be one token ahead.
Arrival(a) == IF tat[a] = 0 THEN now + Interval ELSE tat[a]

\* One of the tokens of the address is there.
HasToken(a) == Arrival(a) <= now + BurstSize * Interval

-----------------------------------------------------------------------------
\* The request is passed on and takes a token.
Admit(r) ==
    /\ req[r].pc = "new" /\ HasToken(Bucket(r))
    /\ tat' = [tat EXCEPT ![Bucket(r)] = Later(now, Arrival(Bucket(r))) + Interval]
    /\ req' = [req EXCEPT ![r] = [pc |-> "admitted", at |-> now]]
    /\ UNCHANGED now

\* It is answered 429; no token is taken, and no inner layer sees it.
Refuse(r) ==
    /\ req[r].pc = "new" /\ ~HasToken(Bucket(r))
    /\ req' = [req EXCEPT ![r] = [pc |-> "refused", at |-> now]]
    /\ UNCHANGED <<now, tat>>

Tick ==
    /\ now < MaxTime
    /\ now' = now + 1
    /\ UNCHANGED <<tat, req>>

Next == Tick \/ \E r \in Requests : Admit(r) \/ Refuse(r)

Spec == Init /\ [][Next]_vars

-----------------------------------------------------------------------------
\* The requests of an address that were let through from s to t, both included.
Admitted(a, s, t) ==
    {r \in Requests : AddressOf[r] = a /\ req[r].pc = "admitted" /\ req[r].at \in s..t}

\* A request is refused only if its own address has had a whole burst let through
\* in the time a burst takes to come back; what others do is of no account.
RefusedOverLimit ==
    \A r \in Requests : req[r].pc = "refused" =>
        \E s \in 0..req[r].at :
            /\ req[r].at - s < BurstSize * Interval
            /\ Cardinality(Admitted(AddressOf[r], s, req[r].at)) >= BurstSize

\* README: requests_per_second.  An address with nothing left has had that many
\* requests, or a burst, let through within the last second.
HonoursRate ==
    \A r \in Requests : req[r].pc = "refused" =>
        LET n == Cardinality(Admitted(AddressOf[r], req[r].at, req[r].at))
        IN n >= RequestsPerSecond \/ n >= BurstSize
=============================================================================
