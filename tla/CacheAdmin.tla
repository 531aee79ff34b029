----------------------------- MODULE CacheAdmin -----------------------------
(***************************************************************************)
(* The purges of the admin socket: process_request of                      *)
(* presentation/admin/socket_server.rs, application/cache_service.rs and   *)
(* the purging half of domain/cache.rs.                                    *)
(*                                                                         *)
(* Each connection is a spawned task of its own, so purges interleave with *)
(* each other and with the requests.  adm is a function from the           *)
(* connections whose request is being processed to the state of the purge. *)
(* A purge by prefix is not atomic: it walks the cache with moka's         *)
(* iterator, which visits the keys in any order while others use the       *)
(* cache, and only then removes what it collected, key by key.             *)
(*                                                                         *)
(* The field asOf of a purge is auxiliary: the content of the origins when *)
(* the purge began.                                                        *)
(***************************************************************************)
EXTENDS CdnCache

CONSTANT
    PrefixKeys      \* for each prefix the operators purge, the paths that start with it

ASSUME AdminAssumption == PrefixKeys \subseteq SUBSET Paths

VARIABLE adm        \* a function from the busy connections to their purge

Purge ==
    [op : {"purge", "prefix", "all"},
     target : SUBSET Paths,             \* the paths the operator asked to purge
     visited : SUBSET Paths,            \* what the iterator has passed
     keysToRemove : SUBSET Paths,
     replied : BOOLEAN,
     asOf : [Origins -> 0..MaxVer]]

AdmType == DOMAIN adm \subseteq Admins /\ adm \in [DOMAIN adm -> Purge]

Running(a, op) == a \in DOMAIN adm /\ adm[a].op = op /\ ~adm[a].replied

ReplyOk(a) == adm' = [adm EXCEPT ![a].replied = TRUE]

\* The request line has been read and parsed.
StartPurge(a, op, T) ==
    /\ a \notin DOMAIN adm
    /\ adm' = [x \in DOMAIN adm \cup {a} |->
                 IF x # a THEN adm[x] ELSE
                 [op |-> op, target |-> T, visited |-> {}, keysToRemove |-> {},
                  replied |-> FALSE, asOf |-> ver]]
    /\ MarkOlder(a)
    /\ UNCHANGED ver

\* AdminRequest::Purge
PurgePath(a) ==
    /\ Running(a, "purge")
    /\ \E k \in adm[a].target : CacheRemove(k)
    /\ ReplyOk(a)
    /\ UNCHANGED ver

\* AdminRequest::PurgeAll
PurgeAll(a) ==
    /\ Running(a, "all")
    /\ CacheClear
    /\ ReplyOk(a)
    /\ UNCHANGED ver

\* Mutant: the filter on the prefix is forgotten.
ScanKeyUnfiltered(a, k) ==
    /\ Running(a, "prefix")
    /\ k \notin adm[a].visited
    /\ adm' = [adm EXCEPT
                 ![a].visited = @ \cup {k},
                 ![a].keysToRemove = IF Cached(k) THEN @ \cup {k} ELSE @]
    /\ UNCHANGED <<ver, store>>

\* Mutant: a key that another purge has collected is left to that one.
ScanKeyShared(a, k) ==
    /\ Running(a, "prefix")
    /\ k \notin adm[a].visited
    /\ adm' = [adm EXCEPT
                 ![a].visited = @ \cup {k},
                 ![a].keysToRemove =
                     IF /\ Cached(k) /\ k \in adm[a].target
                        /\ \A b \in DOMAIN adm : k \notin adm[b].keysToRemove
                     THEN @ \cup {k} ELSE @]
    /\ UNCHANGED <<ver, store>>

\* AdminRequest::PurgePrefix, the iterator: it comes to one more key, and
\* collects it if it is cached at that moment and starts with the prefix.
ScanKey(a, k) ==
    /\ Running(a, "prefix")
    /\ k \notin adm[a].visited
    /\ adm' = [adm EXCEPT
                 ![a].visited = @ \cup {k},
                 ![a].keysToRemove =
                     IF Cached(k) /\ k \in adm[a].target THEN @ \cup {k} ELSE @]
    /\ UNCHANGED <<ver, store>>

\* AdminRequest::PurgePrefix, the loop over the collected keys.
RemoveKey(a, k) ==
    /\ Running(a, "prefix") /\ adm[a].visited = Paths
    /\ k \in adm[a].keysToRemove
    /\ CacheRemove(k)
    /\ adm' = [adm EXCEPT ![a].keysToRemove = @ \ {k}]
    /\ UNCHANGED ver

\* Mutant: the removals are not awaited.
PrefixDoneEarly(a) ==
    /\ Running(a, "prefix") /\ adm[a].visited = Paths
    /\ ReplyOk(a)
    /\ UNCHANGED <<ver, store>>

\* Mutant: success is reported only once nothing with the prefix is cached.
PrefixDoneWhenEmpty(a) ==
    /\ Running(a, "prefix") /\ adm[a].visited = Paths
    /\ adm[a].keysToRemove = {} /\ \A k \in adm[a].target : ~Cached(k)
    /\ ReplyOk(a)
    /\ UNCHANGED <<ver, store>>

PrefixDone(a) ==
    /\ Running(a, "prefix") /\ adm[a].visited = Paths
    /\ adm[a].keysToRemove = {}
    /\ ReplyOk(a)
    /\ UNCHANGED <<ver, store>>

\* The connection is closed; it may be followed by another one.
Close(a) ==
    /\ a \in DOMAIN adm /\ adm[a].replied
    /\ adm' = Restrict(adm, DOMAIN adm \ {a})
    /\ Unmark(a)
    /\ UNCHANGED ver
=============================================================================
