------------------------------ MODULE FastCache ------------------------------
(***************************************************************************)
(* The running server: the requests of CdnService and the purges of        *)
(* CacheAdmin over one shared CdnCache (the clones of CdnCache made in     *)
(* server.rs and socket_server.rs share one moka cache), with origins      *)
(* whose content changes behind the server's back.                         *)
(***************************************************************************)
EXTENDS CdnService, CacheAdmin

vars == <<ver, store, req, adm>>

Init ==
    /\ ver = [o \in Origins |-> 0]
    /\ store = [k \in {} |-> 0]
    /\ req = [r \in {} |-> 0]
    /\ adm = [a \in {} |-> 0]

\* What the runtime does with the future of a request once its await is over.
ServiceStep(r) ==
    Lookup(r) \/ FillAndAnswer(r) \/ Forward(r) \/ TryFallback(r)

OriginStep(r) == OriginOk(r) \/ OriginErr(r) \/ OriginHang(r)

ClientStep(r) ==
    \/ \E m \in Methods, p \in Paths, t \in Tags : Receive(r, m, p, t)
    \/ ReadBody(r) \/ RejectBody(r) \/ Respond(r) \/ Disconnect(r)

PurgeStep(a) ==
    \/ PurgePath(a) \/ PurgeAll(a) \/ PrefixDone(a)
    \/ \E k \in Paths : ScanKey(a, k) \/ RemoveKey(a, k)

OperatorStep(a) ==
    \/ \E p \in Paths : StartPurge(a, "purge", {p})
    \/ \E T \in PrefixKeys : StartPurge(a, "prefix", T)
    \/ StartPurge(a, "all", Paths)
    \/ Close(a)

RequestNext == \E r \in Reqs : ServiceStep(r) \/ OriginStep(r) \/ ClientStep(r)

AdminNext == \E a \in Admins : PurgeStep(a) \/ OperatorStep(a)

\* moka's own doings, and the outside world.
CacheNext == Tick \/ \E k \in Paths : Evict(k)

DeployNext == \E o \in Origins : Deploy(o)

Next ==
    \/ RequestNext /\ UNCHANGED adm
    \/ AdminNext /\ UNCHANGED req
    \/ CacheNext /\ UNCHANGED <<ver, req, adm>>
    \/ DeployNext /\ UNCHANGED <<store, req, adm>>

Spec == Init /\ [][Next]_vars

\* The tokio runtime polls every woken future, an origin that does not hang
\* answers, and the clock of the cache goes on.  Nothing is assumed of the
\* clients, the operators, the eviction or the deployments.
Fairness ==
    /\ \A r \in Reqs : /\ WF_vars(ServiceStep(r) /\ UNCHANGED adm)
                       /\ WF_vars(OriginStep(r) /\ UNCHANGED adm)
    /\ \A a \in Admins : WF_vars(PurgeStep(a) /\ UNCHANGED req)
    /\ WF_vars(Tick /\ UNCHANGED <<ver, req, adm>>)

FairSpec == Spec /\ Fairness

-----------------------------------------------------------------------------
(* Invariants.                                                             *)

\* Every variable has its type: the tables are functions over their ids, and
\* a request that waits for an origin waits for one that its route has.
TypeOK == VerType /\ StoreType /\ ReqType /\ AdmType /\ IdxInRoute

\* When a purge (by path, by prefix, of everything) reports success, no entry
\* it was asked for that was in the cache when the purge began is still there,
\* whatever requests and other purges did between its steps.
PurgeLeavesNothingOlder ==
    \A a \in DOMAIN adm, k \in DOMAIN store :
        adm[a].replied /\ k \in adm[a].target => a \notin store[k].before

\* How a purge gets there: an entry it has to remove, from before it began, is
\* there only while the purge has not reported success, and a purge by prefix has
\* either not come to it yet or holds its key in keys_to_remove.
PurgeProgress ==
    \A a \in DOMAIN adm :
        /\ adm[a].op = "purge" => \E k \in Paths : adm[a].target = {k}
        /\ \A k \in DOMAIN store :
             k \in adm[a].target /\ a \in store[k].before =>
                /\ ~adm[a].replied
                /\ adm[a].op = "prefix" =>
                     k \notin adm[a].visited \/ k \in adm[a].keysToRemove

\* An entry is the full content that an origin of its own path's route has
\* produced for this very path, and only origins with a cache_ttl get cached.
CachedFromOwnRoute ==
    \A k \in DOMAIN store :
        LET b == store[k].body IN
        /\ b.path = k /\ b.full
        /\ \E i \in DOMAIN Route[k] : b.origin = Route[k][i]
        /\ CacheTtl[b.origin] > 0
        /\ b.ver <= ver[b.origin]
        /\ store[k].age < DefaultTtl

\* A request on its way: before the loop over the origins nothing has been asked;
\* in it, the origins up to the current one have been asked in the order of the
\* route and all have failed, except that the current one may have answered,
\* with what it held at some moment for this path.
RequestInv ==
    \A r \in DOMAIN req :
        LET q == req[r]
            route == Route[q.path]
            asked == IF q.reply.status \in {"ok", "err"} THEN q.idx ELSE q.idx - 1
        IN /\ q.pc \in {"body", "lookup"} =>
                /\ q.log = <<>> /\ q.reply = Waiting
                /\ q.pc = "lookup" <=> q.method \in Reads
           /\ q.pc = "fetch" =>
                /\ Len(q.log) = asked
                /\ \A i \in 1..asked :
                      /\ q.log[i].origin = route[i]
                      /\ q.log[i].ok <=> i = q.idx /\ q.reply.status = "ok"
                /\ q.reply.status = "ok" =>
                      LET b == q.reply.body IN
                      /\ b.path = q.path /\ b.origin = route[q.idx]
                      /\ b.ver <= ver[b.origin]
                      /\ q.method \in Reads => b.full
           /\ q.pc # "done" => q.result = NoResult

\* Fallback: a request asks the origins of its route in the configured order,
\* each at most once, goes on only after a failure, answers with the one that
\* succeeded, and reports "not found" only after all of them have failed.
FallbackOrder ==
    \A r \in DOMAIN req :
        LET log == req[r].log
            route == Route[req[r].path]
            res == req[r].result
        IN /\ Len(log) <= Len(route)
           /\ \A i \in 1..Len(log) : log[i].origin = route[i]
           /\ \A i \in 1..Len(log) : log[i].ok => i = Len(log)
           /\ res.kind \in {"Fresh", "Forwarded"} =>
                /\ log # <<>> /\ log[Len(log)].ok
                /\ res.body.origin = route[Len(log)]
           /\ res.kind = "NotFound" =>
                Len(log) = Len(route) /\ \A i \in 1..Len(log) : ~log[i].ok

\* The answer is about what was asked: the body belongs to the path, X-Cache
\* is HIT exactly when no origin was asked and MISS when one was, a 304 goes
\* out only to a client whose tag is that of the body it stands for (and a 200
\* with a cached or fresh body only to one whose tag is not), and only reads
\* are answered with anything else than a forwarded answer or an error.
AnswerIsHonest ==
    \A r \in DOMAIN req :
        LET res == req[r].result IN
        res.kind \in BodyKinds =>
            /\ res.body.path = req[r].path
            /\ XCache(res) = "HIT" => req[r].log = <<>>
            /\ XCache(res) = "MISS" => req[r].log # <<>>
            /\ Status(res) = 304 <=>
                 res.body \in req[r].tag /\ req[r].method \in Reads
            /\ res.kind = "Forwarded" <=> req[r].method \notin Reads

-----------------------------------------------------------------------------
(* Action properties.                                                      *)

\* A purge never touches an entry it was not asked to remove.
PurgeScope ==
    [][\A a \in DOMAIN adm : a \in DOMAIN adm' /\ adm'[a] # adm[a] =>
         \A k \in DOMAIN store \ adm[a].target :
             k \in DOMAIN store' /\ store'[k].body = store[k].body]_vars

\* The cache of a path is filled by nothing but a GET or HEAD of this path
\* that was answered by an origin: never by a POST, PUT, PATCH or DELETE.
OnlyReadsFill ==
    [][\A k \in DOMAIN store' :
         k \notin DOMAIN store \/ store'[k].body # store[k].body =>
           \E r \in DOMAIN req :
              /\ req[r].path = k /\ req[r].method \in Reads
              /\ req[r].reply.status = "ok" /\ req'[r].pc = "done"]_vars

-----------------------------------------------------------------------------
(* Liveness, under FairSpec.                                               *)

InService(r) == r \in DOMAIN req /\ req[r].pc \in {"lookup", "fetch"}

\* Once its body is read, a request is answered or its client goes away,
\* unless an origin leaves it without an answer for ever.
RequestAnswered ==
    \A r \in Reqs :
        InService(r) ~> (~InService(r) \/ req[r].reply = Hung)

\* Every purge reports success, however fast requests refill the cache.
PurgeAnswered ==
    \A a \in Admins :
        a \in DOMAIN adm ~> (a \in DOMAIN adm => adm[a].replied)

\* After the last change of an origin the cache ends up with nothing outdated:
\* an entry is not kept alive by being read.
EventuallyFresh ==
    <>[](\A k \in DOMAIN store : store[k].body.ver = ver[store[k].body.origin])

-----------------------------------------------------------------------------
(* What the documentation says and the code does not do (see README.md).   *)

\* README: an origin's cache_ttl is the time its content stays in the cache.
HonoursCacheTtl ==
    \A k \in DOMAIN store : store[k].age < CacheTtl[store[k].body.origin]

\* README and the tests of CacheService: a purge deletes what was cached; what
\* an origin had already replaced when the purge began is gone after it.
PurgeDefeatsStale ==
    \A a \in DOMAIN adm, k \in DOMAIN store :
        adm[a].replied /\ k \in adm[a].target =>
            LET b == store[k].body IN b.ver >= adm[a].asOf[b.origin]
=============================================================================
