--------------------------- MODULE CacheContract ---------------------------
(***************************************************************************)
(* What fastcache promises to its clients and operators, without saying    *)
(* how: no fallback loop, no entity tags, no clock, no scan.               *)
(*                                                                         *)
(* A request is answered with what its path's entry held, or an origin of  *)
(* its path held, at one moment while the request was open; or it is       *)
(* refused.  Entries are forgotten at any time, and only what a read has   *)
(* obtained becomes one.  A purge reports success when nothing of its      *)
(* target is left that was there when it began.                            *)
(***************************************************************************)
EXTENDS Naturals, Functions

CONSTANTS
    Paths, Origins, Reqs, Admins,
    Sources         \* a function from Paths: the origins that may answer for each

VARIABLES
    ver,            \* [Origins -> Nat]: the content each origin holds now
    entries,        \* a function from paths: what is cached, and which purges it predates
    asks,           \* a function from the open requests
    purges          \* a function from the open purges

vars == <<ver, entries, asks, purges>>

Nothing == [held |-> FALSE]

Held(o, p) == [held |-> TRUE, origin |-> o, path |-> p, ver |-> ver[o]]

Init ==
    /\ ver = [o \in Origins |-> 0]
    /\ entries = [p \in {} |-> 0]
    /\ asks = [r \in {} |-> 0]
    /\ purges = [a \in {} |-> 0]

Open(r) == r \in DOMAIN asks /\ ~asks[r].done

-----------------------------------------------------------------------------
(* Requests.                                                               *)

Ask(r, p, read) ==
    /\ r \notin DOMAIN asks
    /\ asks' = [x \in DOMAIN asks \cup {r} |->
                  IF x # r THEN asks[x]
                  ELSE [path |-> p, read |-> read, got |-> Nothing, done |-> FALSE]]
    /\ UNCHANGED <<ver, entries, purges>>

Obtain(r) ==
    /\ Open(r) /\ asks[r].got = Nothing
    /\ \E o \in Sources[asks[r].path] :
          asks' = [asks EXCEPT ![r].got = Held(o, asks[r].path)]
    /\ UNCHANGED <<ver, entries, purges>>

Hit(r) ==
    /\ Open(r) /\ asks[r].got = Nothing /\ asks[r].read
    /\ asks[r].path \in DOMAIN entries
    /\ asks' = [asks EXCEPT ![r].got = entries[asks[r].path].body, ![r].done = TRUE]
    /\ UNCHANGED <<ver, entries, purges>>

Deliver(r) ==
    /\ Open(r) /\ asks[r].got # Nothing
    /\ asks' = [asks EXCEPT ![r].done = TRUE]
    /\ \/ UNCHANGED entries
       \/ /\ asks[r].read
          /\ entries' = [p \in DOMAIN entries \cup {asks[r].path} |->
                           IF p = asks[r].path
                           THEN [body |-> asks[r].got, before |-> {}]
                           ELSE entries[p]]
    /\ UNCHANGED <<ver, purges>>

Refuse(r) ==
    /\ Open(r) /\ asks[r].got = Nothing
    /\ asks' = [asks EXCEPT ![r].done = TRUE]
    /\ UNCHANGED <<ver, entries, purges>>

Leave(r) ==
    /\ r \in DOMAIN asks
    /\ asks' = Restrict(asks, DOMAIN asks \ {r})
    /\ UNCHANGED <<ver, entries, purges>>

-----------------------------------------------------------------------------
(* Purges, and what happens of itself.                                     *)

PurgeBegin(a, T) ==
    /\ a \notin DOMAIN purges
    /\ purges' = [x \in DOMAIN purges \cup {a} |->
                    IF x # a THEN purges[x] ELSE [target |-> T, done |-> FALSE]]
    /\ entries' = [p \in DOMAIN entries |-> [entries[p] EXCEPT !.before = @ \cup {a}]]
    /\ UNCHANGED <<ver, asks>>

PurgeEnd(a) ==
    /\ a \in DOMAIN purges /\ ~purges[a].done
    /\ \E kept \in SUBSET DOMAIN entries :
          /\ DOMAIN entries \ purges[a].target \subseteq kept
          /\ \A p \in kept \cap purges[a].target : a \notin entries[p].before
          /\ entries' = Restrict(entries, kept)
    /\ purges' = [purges EXCEPT ![a].done = TRUE]
    /\ UNCHANGED <<ver, asks>>

PurgeClose(a) ==
    /\ a \in DOMAIN purges /\ purges[a].done
    /\ purges' = Restrict(purges, DOMAIN purges \ {a})
    /\ entries' = [p \in DOMAIN entries |-> [entries[p] EXCEPT !.before = @ \ {a}]]
    /\ UNCHANGED <<ver, asks>>

Forget ==
    /\ \E kept \in SUBSET DOMAIN entries : entries' = Restrict(entries, kept)
    /\ UNCHANGED <<ver, asks, purges>>

Change(o) ==
    /\ ver' = [ver EXCEPT ![o] = @ + 1]
    /\ UNCHANGED <<entries, asks, purges>>

Next ==
    \/ \E r \in Reqs :
          \/ \E p \in Paths, read \in BOOLEAN : Ask(r, p, read)
          \/ Obtain(r) \/ Hit(r) \/ Deliver(r) \/ Refuse(r) \/ Leave(r)
    \/ \E a \in Admins :
          (\E T \in SUBSET Paths : PurgeBegin(a, T)) \/ PurgeEnd(a) \/ PurgeClose(a)
    \/ Forget
    \/ \E o \in Origins : Change(o)

Spec == Init /\ [][Next]_vars
=============================================================================
