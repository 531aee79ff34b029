------------------------- MODULE ContractRefinement -------------------------
(***************************************************************************)
(* FastCache implements CacheContract.  An entry loses its age, a request  *)
(* its place in the loop over the origins and its entity tag, a purge its  *)
(* scan; bodies lose whether they are complete.                            *)
(***************************************************************************)
EXTENDS FastCache

AbsBody(b) == [held |-> TRUE, origin |-> b.origin, path |-> b.path, ver |-> b.ver]

AbsEntries ==
    [k \in DOMAIN store |->
       [body |-> AbsBody(store[k].body), before |-> store[k].before]]

\* What a request has obtained: the reply it holds, or the body of its result.
Got(q) ==
    IF q.reply.status = "ok" THEN AbsBody(q.reply.body)
    ELSE IF q.result.kind \in BodyKinds THEN AbsBody(q.result.body)
    ELSE [held |-> FALSE]

AbsAsks ==
    [r \in DOMAIN req |->
       [path |-> req[r].path, read |-> req[r].method \in Reads,
        got |-> Got(req[r]), done |-> req[r].pc = "done"]]

AbsPurges ==
    [a \in DOMAIN adm |-> [target |-> adm[a].target, done |-> adm[a].replied]]

RouteSources == [p \in Paths |-> {Route[p][i] : i \in DOMAIN Route[p]}]

Contract == INSTANCE CacheContract WITH
    Sources <- RouteSources,
    entries <- AbsEntries, asks <- AbsAsks, purges <- AbsPurges

\* Every behaviour of the server, with its loops, retries, expiry, scans and
\* disconnects, is one that the contract allows.
ContractHolds == Contract!Spec
=============================================================================
