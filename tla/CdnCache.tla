------------------------------ MODULE CdnCache ------------------------------
(***************************************************************************)
(* The shared in-memory cache: domain/cache.rs, a thin wrapper over        *)
(* moka::future::Cache.  The value of store is the set of entries get()    *)
(* can still return; what moka does on its own (expiry, eviction) is       *)
(* external and may happen at any moment.                                  *)
(*                                                                         *)
(* The field before of an entry is auxiliary: the purges that began while  *)
(* this very entry was already in the cache.  No code reads it.            *)
(***************************************************************************)
EXTENDS Origin, Functions

CONSTANTS
    DefaultTtl,     \* cache.default_ttl, in ticks of the clock
    Admins          \* the connections of the admin socket

ASSUME CacheAssumption == DefaultTtl \in Nat

VARIABLE store      \* a function from the cached paths to their entries

Entry == [body : Body, age : Nat, before : SUBSET Admins]

StoreType == DOMAIN store \subseteq Paths /\ store \in [DOMAIN store -> Entry]

Cached(k) == k \in DOMAIN store

\* CdnCache::insert.  A ttl of zero returns early; any other value of ttl is
\* dropped, the entry lives for the builder's time_to_live whoever inserts it.
\* With a time_to_live of zero moka never hands the entry out again.
CacheInsert(k, b, ttl) ==
    store' = IF ttl = 0 \/ DefaultTtl = 0
             THEN store
             ELSE [j \in DOMAIN store \cup {k} |->
                     IF j = k THEN [body |-> b, age |-> 0, before |-> {}]
                              ELSE store[j]]

\* CdnCache::remove
CacheRemove(k) == store' = Restrict(store, DOMAIN store \ {k})

\* Mutant: the invalidation is only scheduled.
CacheClearLater == UNCHANGED store

\* CdnCache::clear
CacheClear == store' = Restrict(store, {})

\* moka: an entry is gone once it is time_to_live old, however often it is read.
Tick ==
    /\ DOMAIN store # {}
    /\ LET alive == {k \in DOMAIN store : store[k].age + 1 < DefaultTtl}
       IN store' = [k \in alive |-> [store[k] EXCEPT !.age = @ + 1]]

\* moka: the size policy (TinyLFU, max_capacity) may drop any entry at any time.
Evict(k) ==
    /\ Cached(k)
    /\ CacheRemove(k)

\* Auxiliary: the purge of connection a begins, or its record is dropped.
MarkOlder(a) ==
    store' = [k \in DOMAIN store |->
                [store[k] EXCEPT !.before = @ \cup {a}]]

Unmark(a) ==
    store' = [k \in DOMAIN store |->
                [store[k] EXCEPT !.before = @ \ {a}]]
=============================================================================
