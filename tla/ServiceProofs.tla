---------------------------- MODULE ServiceProofs ----------------------------
(***************************************************************************)
(* What a request asks of its origins, what it answers and what it leaves  *)
(* in the cache, for every value of the constants of FastCache.            *)
(***************************************************************************)
EXTENDS FastCacheProofs

\* What RequestInv, FallbackOrder and AnswerIsHonest say of one request q.
Underway(q) ==
    LET route == Route[q.path]
        asked == IF q.reply.status \in {"ok", "err"} THEN q.idx ELSE q.idx - 1
    IN /\ q.pc \in {"body", "lookup"} =>
            /\ q.log = <<>> /\ q.reply = Waiting
            /\ q.pc = "lookup" <=> q.method \in Reads
       /\ q.pc = "fetch" =>
            /\ Len(q.log) = asked
            /\ \A i \in 1..asked :
                  /\ q.log[i].origin = route[i]
                  /\ q.log[i].ok <=> i = q.idx /\ q.reply.status = "ok"
            /\ q.reply.status = "ok" =>
                  LET b == q.reply.body IN
                  /\ b.path = q.path /\ b.origin = route[q.idx]
                  /\ b.ver <= ver[b.origin]
                  /\ q.method \in Reads => b.full
       /\ q.pc # "done" => q.result = NoResult

InOrder(q) ==
    LET log == q.log
        route == Route[q.path]
        res == q.result
    IN /\ Len(log) <= Len(route)
       /\ \A i \in 1..Len(log) : log[i].origin = route[i]
       /\ \A i \in 1..Len(log) : log[i].ok => i = Len(log)
       /\ res.kind \in {"Fresh", "Forwarded"} =>
            /\ log # <<>> /\ log[Len(log)].ok
            /\ res.body.origin = route[Len(log)]
       /\ res.kind = "NotFound" =>
            Len(log) = Len(route) /\ \A i \in 1..Len(log) : ~log[i].ok

Honest(q) ==
    LET res == q.result IN
    res.kind \in BodyKinds =>
        /\ res.body.path = q.path
        /\ XCache(res) = "HIT" => q.log = <<>>
        /\ XCache(res) = "MISS" => q.log # <<>>
        /\ Status(res) = 304 <=> res.body \in q.tag /\ q.method \in Reads
        /\ res.kind = "Forwarded" <=> q.method \notin Reads

Fits(q) == Underway(q) /\ InOrder(q) /\ Honest(q)

RequestsFit == RequestInv /\ FallbackOrder /\ AnswerIsHonest

LEMMA FitsParts == RequestsFit <=> \A r \in DOMAIN req : Fits(req[r])
  BY DEF RequestsFit, RequestInv, FallbackOrder, AnswerIsHonest, Fits, Underway, InOrder, Honest

\* The same of the next state, as long as the origins have not changed.
LEMMA FitsPartsPrime ==
    ASSUME ver' = ver
    PROVE  RequestsFit' <=> \A r \in DOMAIN req' : Fits(req'[r])
  BY DEF RequestsFit, RequestInv, FallbackOrder, AnswerIsHonest, Fits, Underway, InOrder, Honest

LEMMA UpdateFits ==
    ASSUME RequestsFit, ver' = ver, NEW r \in DOMAIN req, NEW q, Fits(q),
           req' = [req EXCEPT ![r] = q]
    PROVE  RequestsFit'
  BY FitsParts, FitsPartsPrime

\* Before the last step of its future, a request is not past its route.
LEMMA UnderwayInOrder ==
    ASSUME TypeOK, NEW q \in Request, Underway(q), q.pc # "done",
           q.pc = "fetch" => q.idx \in DOMAIN Route[q.path]
    PROVE  InOrder(q) /\ Honest(q)
<1>1. q.result = NoResult /\ q.log \in Seq([origin : Origins, ok : BOOLEAN])
  BY DEF Underway, Request
<1>2. q.result.kind = "None"
  BY <1>1 DEF NoResult
<1>3. Honest(q)
  BY <1>2 DEF Honest, BodyKinds
<1>4. Route[q.path] \in Seq(Origins) /\ q.idx \in Nat
  BY ServiceAssumption DEF Request
<1>5. CASE q.pc = "fetch"
  <2> DEFINE asked == IF q.reply.status \in {"ok", "err"} THEN q.idx ELSE q.idx - 1
  <2>1. /\ Len(q.log) = asked
        /\ \A i \in 1..asked : /\ q.log[i].origin = Route[q.path][i]
                               /\ q.log[i].ok => i = q.idx
    BY <1>5 DEF Underway
  <2>2. asked \in Nat /\ asked <= q.idx /\ asked <= Len(Route[q.path])
    BY <1>4, <1>5
  <2> HIDE DEF asked
  <2>3. \A i \in 1..asked : i = q.idx => i = asked
    BY <1>4, <2>2
  <2>4. \A i \in 1..Len(q.log) : q.log[i].ok => i = Len(q.log)
    <3> SUFFICES ASSUME NEW i \in 1..Len(q.log), q.log[i].ok PROVE i = Len(q.log)
      OBVIOUS
    <3>1. i \in 1..asked
      BY <2>1
    <3>2. i = q.idx
      BY <2>1, <3>1, Zenon
    <3>3. QED
      BY <2>1, <2>3, <3>1, <3>2
  <2>5. Len(q.log) <= Len(Route[q.path])
    BY <2>1, <2>2
  <2>6. \A i \in 1..Len(q.log) : q.log[i].origin = Route[q.path][i]
    BY <2>1
  <2>7. q.result.kind \notin {"Fresh", "Forwarded", "NotFound"}
    BY <1>2
  <2>8. QED
    BY <1>3, <2>4, <2>5, <2>6, <2>7, Zenon DEF InOrder
<1>6. CASE q.pc \in {"body", "lookup"}
  BY <1>2, <1>3, <1>4, <1>6 DEF Underway, InOrder
<1>7. QED
  BY <1>5, <1>6 DEF Request

-----------------------------------------------------------------------------
(* The end of the future: what it may be given as a result.                *)

LEMMA FinishFits ==
    ASSUME TypeOK, RequestsFit, ver' = ver, NEW r \in DOMAIN req, NEW res \in Result,
           Finish(r, res),
           LET q == [req[r] EXCEPT !.result = res] IN InOrder(q) /\ Honest(q)
    PROVE  RequestsFit'
<1> DEFINE q == [req[r] EXCEPT !.result = res]
<1>1. req[r] \in Request
  BY DEF TypeOK, ReqType
<1>2. Finished(r, res) \in Request /\ req' = [req EXCEPT ![r] = Finished(r, res)]
  BY FinishUpdate DEF TypeOK
<1>3. LET f == Finished(r, res) IN
        /\ f.pc = "done" /\ f.result = res
        /\ f.log = req[r].log /\ f.path = req[r].path
        /\ f.method = req[r].method /\ f.tag = req[r].tag
  BY <1>1 DEF Finished, Request
<1>4. /\ q.result = res /\ q.log = req[r].log /\ q.path = req[r].path
      /\ q.method = req[r].method /\ q.tag = req[r].tag
  BY <1>1 DEF Request
<1>5. InOrder(Finished(r, res)) /\ Honest(Finished(r, res))
  BY <1>3, <1>4 DEF InOrder, Honest
<1>6. Underway(Finished(r, res))
  BY <1>3 DEF Underway
<1>7. QED
  BY <1>2, <1>5, <1>6, UpdateFits DEF Fits

LEMMA UnderwayUpdate ==
    ASSUME TypeOK, RequestsFit, ver' = ver, NEW r \in DOMAIN req,
           NEW q \in Request, Underway(q), q.pc # "done",
           q.pc = "fetch" => q.idx \in DOMAIN Route[q.path],
           req' = [req EXCEPT ![r] = q]
    PROVE  RequestsFit'
  BY UnderwayInOrder, UpdateFits DEF Fits

LEMMA FitsOne ==
    ASSUME TypeOK, RequestsFit, NEW r \in DOMAIN req
    PROVE  /\ req[r] \in Request /\ Underway(req[r])
           /\ req[r].path \in Paths /\ Route[req[r].path] \in Seq(Origins)
           /\ req[r].idx \in Nat /\ req[r].log \in Seq([origin : Origins, ok : BOOLEAN])
  BY FitsParts, ServiceAssumption DEF Fits, TypeOK, ReqType, Request

\* A future that ends with "not found": every origin of its route has failed.
LEMMA NotFoundFits ==
    ASSUME TypeOK, RequestsFit, ver' = ver, NEW r \in DOMAIN req, Finish(r, NotFound),
           Len(req[r].log) = Len(Route[req[r].path]),
           \A i \in 1..Len(req[r].log) : /\ req[r].log[i].origin = Route[req[r].path][i]
                                         /\ ~req[r].log[i].ok
    PROVE  RequestsFit'
<1> DEFINE q == [req[r] EXCEPT !.result = NotFound]
<1>1. q.result = NotFound /\ q.log = req[r].log /\ q.path = req[r].path
  BY FitsOne DEF Request
<1>2. Len(req[r].log) <= Len(Route[req[r].path])
  BY FitsOne
<1>3. NotFound.kind = "NotFound"
  BY DEF NotFound
<1> HIDE DEF q
<1>4. InOrder(q)
  BY <1>1, <1>2, <1>3, Zenon DEF InOrder
<1>5. Honest(q)
  BY <1>1, <1>3 DEF Honest, BodyKinds
<1>6. QED
  BY <1>4, <1>5, ReplyTypes, FinishFits DEF q

LEMMA BeginFetchFits ==
    ASSUME TypeOK, RequestsFit, ver' = ver, NEW r \in DOMAIN req,
           req[r].pc \in {"body", "lookup"}, BeginFetch(r)
    PROVE  RequestsFit'
<1>1. req[r].log = <<>> /\ req[r].reply = Waiting /\ req[r].result = NoResult
  BY FitsOne DEF Underway
<1>2. CASE Route[req[r].path] = <<>>
  <2>1. Finish(r, NotFound)
    BY <1>2 DEF BeginFetch
  <2>2. Len(req[r].log) = Len(Route[req[r].path]) /\ 1..Len(req[r].log) = {}
    BY <1>1, <1>2
  <2>3. QED
    BY <2>1, <2>2, NotFoundFits
<1>3. CASE Route[req[r].path] # <<>>
  <2>1. /\ Fetching(r) \in Request
        /\ Fetching(r).pc = "fetch" /\ Fetching(r).idx = 1
        /\ Fetching(r).path = req[r].path /\ Fetching(r).log = <<>>
        /\ Fetching(r).reply = Waiting /\ Fetching(r).result = NoResult
    BY <1>1, FitsOne DEF Request, Fetching
  <2>2. req' = [req EXCEPT ![r] = Fetching(r)]
    BY <1>3 DEF BeginFetch, Fetching
  <2>3. Underway(Fetching(r))
    BY <2>1 DEF Underway, Waiting
  <2>4. 1 \in DOMAIN Route[req[r].path]
    BY <1>3, FitsOne
  <2>5. QED
    BY <2>1, <2>2, <2>3, <2>4, UnderwayUpdate
<1>4. QED
  BY <1>2, <1>3

-----------------------------------------------------------------------------
(* The cache.                                                              *)

StoreFits(k) ==
    LET b == store[k].body IN
    /\ b.path = k /\ b.full
    /\ \E i \in DOMAIN Route[k] : b.origin = Route[k][i]
    /\ CacheTtl[b.origin] > 0
    /\ b.ver <= ver[b.origin]
    /\ store[k].age < DefaultTtl

LEMMA StoreParts == CachedFromOwnRoute <=> \A k \in DOMAIN store : StoreFits(k)
  BY DEF CachedFromOwnRoute, StoreFits

LEMMA LookupFits ==
    ASSUME TypeOK, RequestsFit, CachedFromOwnRoute, NEW r \in Reqs, Lookup(r)
    PROVE  RequestsFit'
<1>1. r \in DOMAIN req /\ req[r].pc = "lookup" /\ ver' = ver
  BY DEF Lookup, At
<1>2. req[r].log = <<>> /\ req[r].method \in Reads
  BY <1>1, FitsOne DEF Underway
<1>3. CASE Cached(req[r].path)
  <2> DEFINE b == store[req[r].path].body
             res == [kind |-> IF EtagMatches(req[r].tag, b) THEN "NotModified" ELSE "Cached",
                     body |-> b]
             q == [req[r] EXCEPT !.result = res]
  <2>1. b \in Body /\ b.path = req[r].path
    BY <1>3 DEF Cached, TypeOK, StoreType, Entry, CachedFromOwnRoute
  <2>2. res \in Result /\ Finish(r, res)
    BY <1>1, <1>3, <2>1 DEF Lookup, Result, BodyKinds
  <2>3. /\ q.result = res /\ q.log = <<>> /\ q.path = req[r].path
        /\ q.method = req[r].method /\ q.tag = req[r].tag
    BY <1>1, <1>2, FitsOne DEF Request
  <2>4. /\ res.kind = IF b \in req[r].tag THEN "NotModified" ELSE "Cached"
        /\ res.body = b
    BY DEF EtagMatches
  <2> HIDE DEF res, q
  <2>5. InOrder(q)
    BY <1>1, <2>3, <2>4, FitsOne DEF InOrder
  <2>6. Honest(q)
    BY <1>2, <2>1, <2>3, <2>4 DEF Honest, XCache, Status, BodyKinds
  <2>7. QED
    BY <1>1, <2>2, <2>5, <2>6, FinishFits DEF q
<1>4. CASE ~Cached(req[r].path)
  BY <1>1, <1>4, BeginFetchFits DEF Lookup
<1>5. QED
  BY <1>3, <1>4

-----------------------------------------------------------------------------
(* The answers of the origins.                                             *)

\* What is known of a request whose origin has answered.
LEMMA Answered ==
    ASSUME TypeOK, RequestsFit, NEW r \in DOMAIN req, req[r].pc = "fetch",
           req[r].reply.status \in {"ok", "err"}
    PROVE  /\ req[r].idx \in DOMAIN Route[req[r].path]
           /\ Len(req[r].log) = req[r].idx
           /\ \A i \in 1..Len(req[r].log) :
                 /\ req[r].log[i].origin = Route[req[r].path][i]
                 /\ req[r].log[i].ok <=> i = req[r].idx /\ req[r].reply.status = "ok"
  BY FitsOne DEF Underway, TypeOK, IdxInRoute

LEMMA AnsweredOk ==
    ASSUME TypeOK, RequestsFit, NEW r \in DOMAIN req, req[r].pc = "fetch",
           req[r].reply.status = "ok"
    PROVE  LET b == req[r].reply.body IN
           /\ b \in Body /\ b.path = req[r].path
           /\ b.origin = CurrentOrigin(r) /\ CurrentOrigin(r) = Route[req[r].path][req[r].idx]
           /\ b.ver <= ver[b.origin]
           /\ req[r].method \in Reads => b.full
<1>1. req[r] \in Request /\ Underway(req[r])
  BY FitsOne
<1>2. req[r].reply.body \in Body
  BY <1>1 DEF Request, Reply, Waiting, Failed, Hung
<1>3. QED
  BY <1>1, <1>2 DEF Underway, CurrentOrigin

\* The results that stand for the answer of the origin that was asked last.
LEMMA FinishOkFits ==
    ASSUME TypeOK, RequestsFit, ver' = ver, NEW r \in DOMAIN req, req[r].pc = "fetch",
           req[r].reply.status = "ok",
           NEW kind \in {"Fresh", "NotModified", "Forwarded"},
           kind = "Forwarded" <=> req[r].method \notin Reads,
           kind = "NotModified" => req[r].reply.body \in req[r].tag,
           kind = "Fresh" => req[r].reply.body \notin req[r].tag,
           Finish(r, [kind |-> kind, body |-> req[r].reply.body])
    PROVE  RequestsFit'
<1> DEFINE b == req[r].reply.body
           res == [kind |-> kind, body |-> b]
           q == [req[r] EXCEPT !.result = res]
<1>1. /\ b \in Body /\ b.path = req[r].path
      /\ b.origin = Route[req[r].path][req[r].idx]
  BY AnsweredOk
<1>2. res \in Result /\ res.kind = kind /\ res.body = b
  BY <1>1 DEF Result, BodyKinds
<1>3. /\ q.result = res /\ q.log = req[r].log /\ q.path = req[r].path
      /\ q.method = req[r].method /\ q.tag = req[r].tag
  BY FitsOne DEF Request
<1>4. /\ Route[req[r].path] \in Seq(Origins) /\ req[r].idx \in Nat
      /\ req[r].log \in Seq([origin : Origins, ok : BOOLEAN])
  BY FitsOne
<1>5. /\ req[r].idx \in 1..Len(Route[req[r].path])
      /\ Len(req[r].log) = req[r].idx /\ req[r].log # <<>>
      /\ req[r].idx \in 1..Len(req[r].log)
  BY <1>4, Answered
<1>6. /\ \A i \in 1..Len(req[r].log) : req[r].log[i].origin = Route[req[r].path][i]
      /\ \A i \in 1..Len(req[r].log) : req[r].log[i].ok => i = Len(req[r].log)
      /\ req[r].log[Len(req[r].log)].ok
      /\ Len(req[r].log) <= Len(Route[req[r].path])
  BY <1>5, Answered
<1> HIDE DEF res, q
<1>7. InOrder(q)
  BY <1>1, <1>2, <1>3, <1>5, <1>6 DEF InOrder
<1>8. Honest(q)
  BY <1>1, <1>2, <1>3, <1>5 DEF Honest, XCache, Status, BodyKinds
<1>9. QED
  BY <1>2, <1>7, <1>8, FinishFits DEF q, res

LEMMA TryFallbackFits ==
    ASSUME TypeOK, RequestsFit, NEW r \in Reqs, TryFallback(r)
    PROVE  RequestsFit'
<1>1. /\ r \in DOMAIN req /\ req[r].pc = "fetch" /\ req[r].reply.status = "err"
      /\ ver' = ver /\ NextOrigin(r)
  BY DEF TryFallback, At, Failed
<1>2. /\ req[r].idx \in DOMAIN Route[req[r].path] /\ req[r].idx \in Nat
      /\ Route[req[r].path] \in Seq(Origins) /\ req[r] \in Request
  BY <1>1, Answered, FitsOne
<1>3. /\ Len(req[r].log) = req[r].idx
      /\ \A i \in 1..Len(req[r].log) : /\ req[r].log[i].origin = Route[req[r].path][i]
                                        /\ ~req[r].log[i].ok
  BY <1>1, Answered
<1>4. CASE req[r].idx < Len(Route[req[r].path])
  <2>1. /\ NextTurn(r) \in Request /\ NextTurn(r).pc = "fetch"
        /\ NextTurn(r).idx = req[r].idx + 1 /\ NextTurn(r).path = req[r].path
        /\ NextTurn(r).log = req[r].log /\ NextTurn(r).reply = Waiting
        /\ NextTurn(r).result = NoResult
    <3>1. req[r].idx + 1 \in Nat /\ req[r].result = NoResult
      BY <1>1, <1>2, FitsOne DEF Underway
    <3>2. QED
      BY <1>1, <1>2, <3>1, ReplyTypes DEF Request, NextTurn
  <2>2. req' = [req EXCEPT ![r] = NextTurn(r)]
    BY <1>1, <1>4 DEF NextOrigin, NextTurn
  <2>3. (req[r].idx + 1) - 1 = req[r].idx
    BY <1>2
  <2>4. Underway(NextTurn(r))
    BY <1>3, <2>1, <2>3 DEF Underway, Waiting
  <2>5. req[r].idx + 1 \in DOMAIN Route[req[r].path]
    BY <1>2, <1>4
  <2>6. QED
    BY <1>1, <2>1, <2>2, <2>4, <2>5, UnderwayUpdate
<1>5. CASE ~(req[r].idx < Len(Route[req[r].path]))
  <2>1. Len(req[r].log) = Len(Route[req[r].path])
    BY <1>2, <1>3, <1>5
  <2>2. Finish(r, NotFound)
    BY <1>1, <1>5 DEF NextOrigin
  <2>3. QED
    BY <1>1, <1>3, <2>1, <2>2, NotFoundFits
<1>6. QED
  BY <1>4, <1>5

LEMMA ForwardFits ==
    ASSUME TypeOK, RequestsFit, NEW r \in Reqs, Forward(r)
    PROVE  RequestsFit'
  BY FinishOkFits DEF Forward, At

LEMMA FillAndAnswerFits ==
    ASSUME TypeOK, RequestsFit, CachedFromOwnRoute, NEW r \in Reqs, FillAndAnswer(r)
    PROVE  RequestsFit' /\ CachedFromOwnRoute'
<1>0. PICK b, p, ttl :
         b = req[r].reply.body /\ p = req[r].path /\ ttl = CacheTtl[CurrentOrigin(r)]
  OBVIOUS
<1>1. /\ r \in DOMAIN req /\ req[r].pc = "fetch" /\ req[r].reply.status = "ok"
      /\ req[r].method \in Reads /\ ver' = ver
  BY DEF FillAndAnswer, At
<1>2. RequestsFit'
  <2>1. CASE b \in req[r].tag
    BY <1>0, <1>1, <2>1, FinishOkFits DEF FillAndAnswer, EtagMatches
  <2>2. CASE b \notin req[r].tag
    BY <1>0, <1>1, <2>2, FinishOkFits DEF FillAndAnswer, EtagMatches
  <2>3. QED
    BY <2>1, <2>2
<1>3. CASE UNCHANGED store
  BY <1>1, <1>2, <1>3 DEF CachedFromOwnRoute
<1>4. CASE ttl > 0 /\ CacheInsert(p, b, ttl) /\ store' # store
  <2>1. /\ b.path = p /\ b.origin = CurrentOrigin(r) /\ b.full
        /\ CurrentOrigin(r) = Route[p][req[r].idx] /\ b.ver <= ver[b.origin]
        /\ req[r].idx \in DOMAIN Route[p]
    BY <1>0, <1>1, AnsweredOk, Answered
  <2>2. /\ DefaultTtl # 0
        /\ store' = [j \in DOMAIN store \cup {p} |->
                       IF j = p THEN [body |-> b, age |-> 0, before |-> {}] ELSE store[j]]
    BY <1>4 DEF CacheInsert
  <2>3. 0 < DefaultTtl
    BY <2>2, CacheAssumption
  <2>4. /\ store'[p].body = b /\ store'[p].age = 0
        /\ \A j \in DOMAIN store' : j # p => j \in DOMAIN store /\ store'[j] = store[j]
    BY <2>2
  <2>5. StoreFits(p)'
    BY <1>0, <1>1, <1>4, <2>1, <2>3, <2>4 DEF StoreFits
  <2>6. \A j \in DOMAIN store' : j # p => StoreFits(j)'
    BY <1>1, <2>4, StoreParts DEF StoreFits
  <2>7. QED
    BY <1>2, <2>5, <2>6 DEF CachedFromOwnRoute, StoreFits
<1>5. UNCHANGED store \/ (ttl > 0 /\ CacheInsert(p, b, ttl))
  BY <1>0 DEF FillAndAnswer
<1>6. QED
  BY <1>2, <1>3, <1>4, <1>5

-----------------------------------------------------------------------------
(* The other steps of a request.                                           *)

LEMMA AnswerFits ==
    ASSUME TypeOK, RequestsFit, NEW r \in Reqs, NEW reply \in Reply, Answer(r, reply),
           reply.status \in {"ok", "err"},
           reply.status = "ok" =>
              /\ reply.body.path = req[r].path /\ reply.body.origin = CurrentOrigin(r)
              /\ reply.body.ver <= ver[CurrentOrigin(r)]
              /\ req[r].method \in Reads => reply.body.full,
           ReqOK'
    PROVE  RequestsFit'
<1> DEFINE entry == [origin |-> CurrentOrigin(r), ok |-> reply.status = "ok"]
           log == Append(req[r].log, entry)
           q == [req[r] EXCEPT !.reply = reply, !.log = log]
<1>1. /\ r \in DOMAIN req /\ req[r].pc = "fetch" /\ req[r].reply = Waiting /\ ver' = ver
  BY DEF Answer, At
<1>2. /\ req[r] \in Request /\ Underway(req[r])
      /\ req[r].idx \in DOMAIN Route[req[r].path] /\ req[r].idx \in Nat
      /\ Route[req[r].path] \in Seq(Origins)
      /\ req[r].log \in Seq([origin : Origins, ok : BOOLEAN])
  BY <1>1, FitsOne DEF TypeOK, IdxInRoute
<1>3. /\ Len(req[r].log) = req[r].idx - 1
      /\ \A i \in 1..Len(req[r].log) : /\ req[r].log[i].origin = Route[req[r].path][i]
                                        /\ ~req[r].log[i].ok
      /\ req[r].result = NoResult
  BY <1>1, <1>2 DEF Underway, Waiting
<1>4. req' = [req EXCEPT ![r] = q]
  BY DEF Answer
<1>5. /\ q.pc = "fetch" /\ q.reply = reply /\ q.log = log /\ q.idx = req[r].idx
      /\ q.path = req[r].path /\ q.method = req[r].method /\ q.result = NoResult
  BY <1>1, <1>2, <1>3 DEF Request
<1>6. q \in Request
  BY <1>1, <1>4 DEF ReqOK, ReqType
<1>7. entry.origin = Route[req[r].path][req[r].idx] /\ entry.ok = (reply.status = "ok")
  BY DEF CurrentOrigin
<1> HIDE DEF entry
<1>8. /\ Len(log) = req[r].idx /\ log[req[r].idx] = entry
      /\ \A i \in 1..Len(req[r].log) : log[i] = req[r].log[i] /\ i # req[r].idx
  BY <1>2, <1>3
<1>9. \A i \in 1..req[r].idx : i \in 1..Len(req[r].log) \/ i = req[r].idx
  BY <1>2, <1>3
<1> HIDE DEF log, q
<1>10. ASSUME NEW i \in 1..req[r].idx
       PROVE  /\ log[i].origin = Route[req[r].path][i]
              /\ log[i].ok <=> i = req[r].idx /\ reply.status = "ok"
  <2>1. CASE i = req[r].idx
    BY <1>7, <1>8, <2>1
  <2>2. CASE i \in 1..Len(req[r].log)
    BY <1>3, <1>8, <2>2
  <2>3. QED
    BY <1>9, <2>1, <2>2
<1>11. Underway(q)
  BY <1>5, <1>8, <1>10 DEF Underway, CurrentOrigin
<1>12. QED
  BY <1>1, <1>2, <1>4, <1>5, <1>6, <1>11, UnderwayUpdate

LEMMA OriginStepFits ==
    ASSUME TypeOK, RequestsFit, NEW r \in Reqs, OriginStep(r)
    PROVE  RequestsFit'
<1>0. ReqOK'
  BY OriginStepType
<1>1. CASE OriginOk(r)
  <2> DEFINE b == ContentOf(CurrentOrigin(r), req[r].path, UpstreamMethod(r))
             reply == [status |-> "ok", body |-> b]
  <2>1. /\ r \in DOMAIN req /\ req[r].pc = "fetch" /\ req[r].path \in Paths
        /\ req[r].idx \in DOMAIN Route[req[r].path] /\ Route[req[r].path] \in Seq(Origins)
    BY <1>1, FitsOne DEF OriginOk, At, TypeOK, IdxInRoute
  <2>2. CurrentOrigin(r) \in Origins
    BY <2>1 DEF CurrentOrigin
  <2>3. b \in Body /\ ver[CurrentOrigin(r)] \in Nat
    BY <2>1, <2>2, ContentType, OriginAssumption DEF TypeOK, VerType
  <2>4. /\ b.path = req[r].path /\ b.origin = CurrentOrigin(r)
        /\ b.ver <= ver[CurrentOrigin(r)]
        /\ req[r].method \in Reads => b.full
    <3>1. /\ b.path = req[r].path /\ b.origin = CurrentOrigin(r)
          /\ b.ver = ver[CurrentOrigin(r)]
          /\ b.full = (CurrentOrigin(r) \in LocalOrigins \/ UpstreamMethod(r) # "HEAD")
      BY DEF ContentOf
    <3>2. req[r].method \in Reads => UpstreamMethod(r) # "HEAD"
      BY DEF UpstreamMethod
    <3> HIDE DEF b
    <3>3. b.ver <= ver[CurrentOrigin(r)]
      BY <2>3, <3>1
    <3>4. req[r].method \in Reads => b.full
      BY <3>1, <3>2, Zenon
    <3>5. QED
      BY <3>1, <3>3, <3>4
  <2>5. Answer(r, reply)
    BY <1>1 DEF OriginOk
  <2> HIDE DEF b
  <2>6. reply \in Reply
    BY <2>3 DEF Reply
  <2>7. reply.status = "ok" /\ reply.body = b
    OBVIOUS
  <2>8. /\ reply.body.path = req[r].path /\ reply.body.origin = CurrentOrigin(r)
        /\ reply.body.ver <= ver[CurrentOrigin(r)]
        /\ req[r].method \in Reads => reply.body.full
    BY <2>4
  <2> HIDE DEF reply
  <2>9. QED
    BY <1>0, <2>5, <2>6, <2>7, <2>8, AnswerFits
<1>2. CASE OriginErr(r)
  <2>1. Failed.status = "err" /\ Failed \in Reply
    BY ReplyTypes DEF Failed
  <2>2. QED
    BY <1>0, <1>2, <2>1, AnswerFits DEF OriginErr
<1>3. CASE OriginHang(r)
  <2> DEFINE q == [req[r] EXCEPT !.reply = Hung]
  <2>1. /\ r \in DOMAIN req /\ req[r].pc = "fetch" /\ req[r].reply = Waiting /\ ver' = ver
        /\ req[r] \in Request /\ Underway(req[r])
        /\ req[r].idx \in DOMAIN Route[req[r].path]
    BY <1>3, FitsOne DEF OriginHang, At, TypeOK, IdxInRoute
  <2>2. req' = [req EXCEPT ![r] = q]
    BY <1>3 DEF OriginHang
  <2>3. q \in Request
    BY <2>1, ReplyTypes DEF Request
  <2>4. /\ q.pc = "fetch" /\ q.reply = Hung /\ q.log = req[r].log /\ q.idx = req[r].idx
        /\ q.path = req[r].path /\ q.result = req[r].result
    BY <2>1 DEF Request
  <2> HIDE DEF q
  <2>5. Underway(q)
    BY <2>1, <2>4 DEF Underway, Hung, Waiting
  <2>6. QED
    BY <2>1, <2>2, <2>3, <2>4, <2>5, UnderwayUpdate
<1>4. QED
  BY <1>1, <1>2, <1>3 DEF OriginStep

LEMMA ClientStepFits ==
    ASSUME TypeOK, RequestsFit, NEW r \in Reqs, ClientStep(r)
    PROVE  RequestsFit'
<1>1. ver' = ver
  BY DEF ClientStep, Receive, ReadBody, RejectBody, Respond, Disconnect
<1>2. ASSUME NEW m \in Methods, NEW p \in Paths, NEW t \in Tags, Receive(r, m, p, t)
      PROVE  RequestsFit'
  <2> DEFINE q == [method |-> m, path |-> p, tag |-> t,
                   pc |-> IF m \in Reads THEN "lookup" ELSE "body",
                   idx |-> 0, reply |-> Waiting, log |-> <<>>,
                   result |-> NoResult]
  <2>1. q \in Request
    BY ReplyTypes, ServiceAssumption DEF Request
  <2>2. Underway(q)
    BY DEF Underway
  <2>3. q.pc # "done" /\ q.pc # "fetch"
    OBVIOUS
  <2>4. req' = [x \in DOMAIN req \cup {r} |-> IF x # r THEN req[x] ELSE q]
    BY <1>2 DEF Receive
  <2> HIDE DEF q
  <2>5. Fits(q)
    BY <2>1, <2>2, <2>3, UnderwayInOrder DEF Fits
  <2>6. QED
    BY <1>1, <2>4, <2>5, FitsParts, FitsPartsPrime
<1>3. CASE ReadBody(r)
  BY <1>1, <1>3, BeginFetchFits DEF ReadBody, At
<1>4. CASE RejectBody(r)
  <2> DEFINE q == [req[r] EXCEPT !.result = TooLarge]
  <2>1. r \in DOMAIN req /\ req[r].pc = "body" /\ Finish(r, TooLarge)
    BY <1>4 DEF RejectBody, At
  <2>2. req[r].log = <<>> /\ req[r] \in Request /\ Route[req[r].path] \in Seq(Origins)
    BY <2>1, FitsOne DEF Underway
  <2>3. q.result = TooLarge /\ q.log = <<>> /\ q.path = req[r].path
    BY <2>2 DEF Request
  <2> HIDE DEF q
  <2>4. InOrder(q) /\ Honest(q)
    BY <2>2, <2>3 DEF InOrder, Honest, TooLarge, BodyKinds
  <2>5. QED
    BY <1>1, <2>1, <2>4, ReplyTypes, FinishFits DEF q
<1>5. CASE Respond(r) \/ Disconnect(r)
  <2>1. \A x \in DOMAIN req' : x \in DOMAIN req /\ req'[x] = req[x]
    BY <1>5 DEF Respond, Disconnect, Restrict
  <2>2. QED
    BY <1>1, <2>1, FitsParts, FitsPartsPrime
<1>6. QED
  BY <1>2, <1>3, <1>4, <1>5 DEF ClientStep

-----------------------------------------------------------------------------
(* The steps of the others.                                                *)

\* Entries are only taken out of the cache, or keep what they hold.
LEMMA StoreShrinks ==
    ASSUME CachedFromOwnRoute, ver' = ver,
           \A k \in DOMAIN store' :
              /\ k \in DOMAIN store /\ store'[k].body = store[k].body
              /\ store'[k].age = store[k].age
    PROVE  CachedFromOwnRoute'
  BY DEF CachedFromOwnRoute

LEMMA AdminStepFits ==
    ASSUME TypeOK, CachedFromOwnRoute, NEW a \in Admins, PurgeStep(a) \/ OperatorStep(a)
    PROVE  CachedFromOwnRoute' /\ ver' = ver
<1>1. ver' = ver
  BY DEF PurgeStep, PurgePath, PurgeAll, PrefixDone, ScanKey, RemoveKey,
         OperatorStep, StartPurge, Close
<1>2. CASE \E S \in SUBSET DOMAIN store : store' = Restrict(store, S)
  BY <1>1, <1>2, StoreShrinks DEF Restrict
<1>3. CASE UNCHANGED store
  BY <1>1, <1>3, StoreShrinks
<1>4. CASE MarkOlder(a) \/ Unmark(a)
  <2>1. \A k \in DOMAIN store :
           /\ [store[k] EXCEPT !.before = @ \cup {a}].body = store[k].body
           /\ [store[k] EXCEPT !.before = @ \cup {a}].age = store[k].age
           /\ [store[k] EXCEPT !.before = @ \ {a}].body = store[k].body
           /\ [store[k] EXCEPT !.before = @ \ {a}].age = store[k].age
    BY DEF TypeOK, StoreType, Entry
  <2>2. \A k \in DOMAIN store' : /\ k \in DOMAIN store /\ store'[k].body = store[k].body
                                /\ store'[k].age = store[k].age
    BY <1>4, <2>1 DEF MarkOlder, Unmark
  <2>3. QED
    BY <1>1, <2>2, StoreShrinks
<1>5. \/ \E S \in SUBSET DOMAIN store : store' = Restrict(store, S)
      \/ UNCHANGED store
      \/ MarkOlder(a) \/ Unmark(a)
  BY DEF PurgeStep, PurgePath, PurgeAll, PrefixDone, ScanKey, RemoveKey,
         OperatorStep, StartPurge, Close, CacheRemove, CacheClear
<1>6. QED
  BY <1>1, <1>2, <1>3, <1>4, <1>5

LEMMA CacheStepFits ==
    ASSUME TypeOK, CachedFromOwnRoute, CacheNext, ver' = ver
    PROVE  CachedFromOwnRoute'
<1>1. CASE Tick
  <2>1. \A k \in DOMAIN store :
           /\ [store[k] EXCEPT !.age = @ + 1].body = store[k].body
           /\ [store[k] EXCEPT !.age = @ + 1].age = store[k].age + 1
    BY DEF TypeOK, StoreType, Entry
  <2>2. \A k \in DOMAIN store' : /\ k \in DOMAIN store /\ store'[k].body = store[k].body
                                /\ store'[k].age < DefaultTtl
    BY <1>1, <2>1 DEF Tick
  <2>3. QED
    BY <2>2 DEF CachedFromOwnRoute
<1>2. ASSUME NEW k \in Paths, Evict(k)
      PROVE  CachedFromOwnRoute'
  BY <1>2, StoreShrinks DEF Evict, CacheRemove, Restrict
<1>3. QED
  BY <1>1, <1>2 DEF CacheNext

LEMMA DeployFits ==
    ASSUME TypeOK, RequestInv, CachedFromOwnRoute, NEW o \in Origins, Deploy(o),
           UNCHANGED <<store, req>>
    PROVE  RequestInv' /\ CachedFromOwnRoute'
<1>1. \A x \in Origins : ver[x] \in Nat /\ ver'[x] \in Nat /\ ver[x] <= ver'[x]
  BY OriginAssumption DEF TypeOK, VerType, Deploy
<1>2. \A b \in Body : b.ver <= ver[b.origin] => b.ver <= ver'[b.origin]
  BY <1>1, OriginAssumption DEF Body
<1>3. CachedFromOwnRoute'
  <2>1. \A k \in DOMAIN store : store[k].body \in Body
    BY DEF TypeOK, StoreType, Entry
  <2>2. QED
    BY <1>2, <2>1 DEF CachedFromOwnRoute
<1>4. RequestInv'
  <2>1. \A r \in DOMAIN req : req[r].reply.status = "ok" => req[r].reply.body \in Body
    BY DEF TypeOK, ReqType, Request, Reply, Waiting, Failed, Hung
  <2>2. QED
    BY <1>2, <2>1 DEF RequestInv
<1>5. QED
  BY <1>3, <1>4

\* What is in the cache comes from the right origin, for the right path, and is
\* complete; a request asks the origins of its route in order, each once and
\* only after the earlier ones have failed; and its answer says what it is.
THEOREM ServiceCorrect ==
    Spec => [](CachedFromOwnRoute /\ RequestInv /\ FallbackOrder /\ AnswerIsHonest)
<1> DEFINE IInv == CachedFromOwnRoute /\ RequestsFit
<1>1. Init => IInv
  BY DEF Init, CachedFromOwnRoute, RequestsFit, RequestInv, FallbackOrder, AnswerIsHonest
<1>2. TypeOK /\ IInv /\ [Next]_vars => IInv'
  <2> SUFFICES ASSUME TypeOK, IInv, [Next]_vars PROVE IInv'
    OBVIOUS
  <2>1. CASE RequestNext
    <3>1. PICK r \in Reqs : ServiceStep(r) \/ OriginStep(r) \/ ClientStep(r)
      BY <2>1 DEF RequestNext
    <3>2. RequestsFit'
      BY <3>1, LookupFits, FillAndAnswerFits, ForwardFits, TryFallbackFits, OriginStepFits,
         ClientStepFits DEF ServiceStep
    <3>3. CASE FillAndAnswer(r)
      BY <3>2, <3>3, FillAndAnswerFits
    <3>4. CASE UNCHANGED <<ver, store>>
      BY <3>2, <3>4, StoreShrinks
    <3>5. FillAndAnswer(r) \/ UNCHANGED <<ver, store>>
      BY <3>1 DEF ServiceStep, Lookup, Forward, TryFallback,
         OriginStep, OriginOk, OriginErr, OriginHang, Answer,
         ClientStep, Receive, ReadBody, RejectBody, Respond, Disconnect
    <3>6. QED
      BY <3>3, <3>4, <3>5
  <2>2. CASE AdminNext /\ UNCHANGED req
    BY <2>2, AdminStepFits, FitsParts, FitsPartsPrime DEF AdminNext
  <2>3. CASE CacheNext /\ UNCHANGED <<ver, req, adm>>
    BY <2>3, CacheStepFits, FitsParts, FitsPartsPrime
  <2>4. CASE DeployNext /\ UNCHANGED <<store, req, adm>>
    <3>1. RequestInv' /\ CachedFromOwnRoute'
      BY <2>4, DeployFits DEF DeployNext, RequestsFit
    <3>2. FallbackOrder' /\ AnswerIsHonest'
      BY <2>4 DEF RequestsFit, FallbackOrder, AnswerIsHonest
    <3>3. QED
      BY <3>1, <3>2 DEF RequestsFit
  <2>5. CASE UNCHANGED vars
    BY <2>5, StoreShrinks, FitsParts, FitsPartsPrime DEF vars
  <2>6. QED
    BY <2>1, <2>2, <2>3, <2>4, <2>5 DEF Next
<1>3. QED
  BY <1>1, <1>2, TypeCorrect, PTL DEF Spec, RequestsFit

\* What a request has asked and been answered so far fits the loop it is in: the
\* origins before the current one have been asked and have failed, and an answer that
\* is waiting is the current one's, for the path that was requested.
THEOREM RequestCorrect == Spec => []RequestInv
BY ServiceCorrect, PTL

\* The loops over the origins: asked in the configured order, each at most once,
\* the next one only after a failure, and "not found" only after all of them.
THEOREM FallbackCorrect == Spec => []FallbackOrder
BY ServiceCorrect, PTL

\* The cache holds under each path nothing but the full content of an origin of
\* this path's route, whatever methods and headers its requests have had.
THEOREM CacheContentCorrect == Spec => []CachedFromOwnRoute
BY ServiceCorrect, PTL
=============================================================================
