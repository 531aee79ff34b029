--------------------------- MODULE FastCacheProofs ---------------------------
(***************************************************************************)
(* Theorems about FastCache, for every value of its constants.             *)
(***************************************************************************)
EXTENDS FastCache, TLAPS

-----------------------------------------------------------------------------
(* The tables store, req and adm are functions on the set of their ids.    *)

LEMMA PutInTable ==
    ASSUME NEW V, NEW f, f \in [DOMAIN f -> V], NEW k, NEW v \in V
    PROVE  [j \in DOMAIN f \cup {k} |-> IF j = k THEN v ELSE f[j]]
               \in [DOMAIN f \cup {k} -> V]
  OBVIOUS

LEMMA DropFromTable ==
    ASSUME NEW V, NEW f, f \in [DOMAIN f -> V], NEW S, S \subseteq DOMAIN f
    PROVE  Restrict(f, S) \in [S -> V]
  BY DEF Restrict

-----------------------------------------------------------------------------
(* Type correctness.                                                       *)

LEMMA ReplyTypes ==
    /\ Waiting \in Reply /\ Failed \in Reply /\ Hung \in Reply
    /\ NotFound \in Result /\ TooLarge \in Result /\ NoResult \in Result
  BY DEF Reply, Result, Waiting, Failed, Hung, NotFound, TooLarge, NoResult

ReqOK == ReqType /\ IdxInRoute

\* One request of the table is replaced by another well-formed one.
LEMMA UpdateRequest ==
    ASSUME ReqOK, NEW r \in DOMAIN req, NEW q \in Request,
           q.pc = "fetch" => q.idx \in DOMAIN Route[q.path],
           req' = [req EXCEPT ![r] = q]
    PROVE  ReqOK'
<1>1. ReqType'
  BY DEF ReqOK, ReqType
<1>2. DOMAIN req' = DOMAIN req /\ req'[r] = q /\ \A s \in DOMAIN req \ {r} : req'[s] = req[s]
  BY DEF ReqOK, ReqType
<1>3. IdxInRoute'
  BY <1>2 DEF ReqOK, IdxInRoute
<1>4. QED
  BY <1>1, <1>3 DEF ReqOK

Finished(r, res) ==
    [req[r] EXCEPT !.pc = "done", !.reply = Waiting, !.result = res]

LEMMA FinishUpdate ==
    ASSUME ReqType, NEW r \in DOMAIN req, NEW res \in Result, Finish(r, res)
    PROVE  Finished(r, res) \in Request /\ req' = [req EXCEPT ![r] = Finished(r, res)]
<1>1. Finished(r, res) \in Request
  BY ReplyTypes DEF Request, ReqType, Finished
<1>2. req' = [req EXCEPT ![r] = Finished(r, res)]
  BY DEF Finish, Finished
<1>3. QED
  BY <1>1, <1>2

LEMMA FinishType ==
    ASSUME ReqOK, NEW r \in DOMAIN req, NEW res \in Result, Finish(r, res)
    PROVE  ReqOK'
<1>1. Finished(r, res).pc = "done"
  BY DEF Finished, ReqOK, ReqType, Request
<1>2. QED
  BY <1>1, FinishUpdate, UpdateRequest DEF ReqOK

Fetching(r) == [req[r] EXCEPT !.pc = "fetch", !.idx = 1]

LEMMA BeginFetchType ==
    ASSUME ReqOK, NEW r \in DOMAIN req, BeginFetch(r)
    PROVE  ReqOK'
<1>1. CASE Route[req[r].path] = <<>>
  BY <1>1, FinishType, ReplyTypes DEF BeginFetch
<1>2. CASE Route[req[r].path] # <<>>
  <2>0. req[r] \in Request
    BY DEF ReqOK, ReqType
  <2>1. Fetching(r) \in Request
    BY <2>0 DEF Request, Fetching
  <2>2. req' = [req EXCEPT ![r] = Fetching(r)]
    BY <1>2 DEF BeginFetch, Fetching
  <2>3. Fetching(r).idx = 1 /\ Fetching(r).path = req[r].path
    BY <2>0 DEF Request, Fetching
  <2>4. 1 \in DOMAIN Route[req[r].path]
    <3>1. Route[req[r].path] \in Seq(Origins)
      BY <2>0, ServiceAssumption DEF Request
    <3>2. QED
      BY <1>2, <3>1
  <2>5. QED
    BY <2>1, <2>2, <2>3, <2>4, UpdateRequest
<1>3. QED
  BY <1>1, <1>2

NextTurn(r) == [req[r] EXCEPT !.idx = req[r].idx + 1, !.reply = Waiting]

LEMMA NextOriginType ==
    ASSUME ReqOK, NEW r \in DOMAIN req, req[r].pc = "fetch", NextOrigin(r)
    PROVE  ReqOK'
<1>1. CASE req[r].idx < Len(Route[req[r].path])
  <2>a. req[r] \in Request
    BY DEF ReqOK, ReqType
  <2>b. req[r].idx \in Nat
    BY <2>a DEF Request
  <2>c. req[r].idx + 1 \in Nat
    BY <2>b
  <2>1. NextTurn(r) \in Request
    BY <2>a, <2>c, ReplyTypes DEF Request, NextTurn
  <2>2. req' = [req EXCEPT ![r] = NextTurn(r)]
    BY <1>1 DEF NextOrigin, NextTurn
  <2>3. NextTurn(r).idx = req[r].idx + 1 /\ NextTurn(r).path = req[r].path
    BY <2>a DEF Request, NextTurn
  <2>4. req[r].idx + 1 \in DOMAIN Route[req[r].path]
    <3>1. Route[req[r].path] \in Seq(Origins)
      BY <2>a, ServiceAssumption DEF Request
    <3>2. QED
      BY <1>1, <2>b, <3>1
  <2>5. QED
    BY <2>1, <2>2, <2>3, <2>4, UpdateRequest
<1>2. CASE ~(req[r].idx < Len(Route[req[r].path]))
  BY <1>2, FinishType, ReplyTypes DEF NextOrigin
<1>3. QED
  BY <1>1, <1>2

-----------------------------------------------------------------------------
(* The cache operations keep the table of entries well-formed.             *)

LEMMA CacheInsertType ==
    ASSUME StoreType, NEW k \in Paths, NEW b \in Body, NEW ttl, CacheInsert(k, b, ttl)
    PROVE  StoreType'
<1> DEFINE e == [body |-> b, age |-> 0, before |-> {}]
<1>1. e \in Entry
  BY DEF Entry
<1>2. CASE ttl = 0 \/ DefaultTtl = 0
  BY <1>2 DEF CacheInsert, StoreType
<1>3. CASE ~(ttl = 0 \/ DefaultTtl = 0)
  <2>1. store' = [j \in DOMAIN store \cup {k} |-> IF j = k THEN e ELSE store[j]]
    BY <1>3 DEF CacheInsert
  <2> HIDE DEF e
  <2>2. QED
    BY <1>1, <2>1 DEF StoreType
<1>4. QED
  BY <1>2, <1>3

LEMMA RestrictStoreType ==
    ASSUME StoreType, NEW S, S \subseteq DOMAIN store, store' = Restrict(store, S)
    PROVE  StoreType'
  BY DEF StoreType, Restrict

LEMMA CacheRemoveType ==
    ASSUME StoreType, NEW k, CacheRemove(k)
    PROVE  StoreType'
  BY RestrictStoreType DEF CacheRemove

LEMMA CacheClearType ==
    ASSUME StoreType, CacheClear
    PROVE  StoreType'
  BY RestrictStoreType DEF CacheClear

LEMMA TickType ==
    ASSUME StoreType, Tick
    PROVE  StoreType'
<1>1. \A k \in DOMAIN store : [store[k] EXCEPT !.age = @ + 1] \in Entry
  BY DEF StoreType, Entry
<1>2. QED
  BY <1>1 DEF Tick, StoreType

LEMMA MarkOlderType ==
    ASSUME StoreType, NEW a \in Admins, MarkOlder(a)
    PROVE  StoreType'
<1>1. \A k \in DOMAIN store : [store[k] EXCEPT !.before = @ \cup {a}] \in Entry
  BY DEF StoreType, Entry
<1>2. QED
  BY <1>1 DEF MarkOlder, StoreType

LEMMA UnmarkType ==
    ASSUME StoreType, NEW a \in Admins, Unmark(a)
    PROVE  StoreType'
<1>1. \A k \in DOMAIN store : [store[k] EXCEPT !.before = @ \ {a}] \in Entry
  BY DEF StoreType, Entry
<1>2. QED
  BY <1>1 DEF Unmark, StoreType

-----------------------------------------------------------------------------
(* Each kind of step keeps the types.                                      *)

LEMMA ContentType ==
    ASSUME VerType, NEW o \in Origins, NEW p \in Paths, NEW m
    PROVE  ContentOf(o, p, m) \in Body
  BY DEF VerType, ContentOf, Body

LEMMA ServiceStepType ==
    ASSUME TypeOK, NEW r \in Reqs, ServiceStep(r)
    PROVE  VerType' /\ StoreType' /\ ReqOK'
<1> USE DEF TypeOK, ReqOK
<1>0. r \in DOMAIN req /\ req[r] \in Request /\ req[r].path \in Paths
  BY DEF ServiceStep, Lookup, FillAndAnswer, Forward, TryFallback, At, ReqType, Request
<1>1. CASE Lookup(r)
  <2>1. VerType' /\ StoreType'
    BY <1>1 DEF Lookup, VerType, StoreType
  <2>2. CASE Cached(req[r].path)
    <3> DEFINE b == store[req[r].path].body
               res == [kind |-> IF EtagMatches(req[r].tag, b) THEN "NotModified" ELSE "Cached",
                       body |-> b]
    <3>1. b \in Body
      BY <2>2 DEF Cached, StoreType, Entry
    <3>2. res \in Result
      BY <3>1 DEF Result, BodyKinds
    <3>3. Finish(r, res)
      BY <1>1, <2>2 DEF Lookup
    <3> HIDE DEF res
    <3>4. QED
      BY <1>0, <2>1, <3>2, <3>3, FinishType
  <2>3. CASE ~Cached(req[r].path)
    <3>1. BeginFetch(r)
      BY <1>1, <2>3 DEF Lookup
    <3>2. QED
      BY <1>0, <2>1, <3>1, BeginFetchType
  <2>4. QED
    BY <2>2, <2>3
<1>2. CASE FillAndAnswer(r)
  <2> DEFINE b == req[r].reply.body
             res == [kind |-> IF EtagMatches(req[r].tag, b) THEN "NotModified" ELSE "Fresh",
                     body |-> b]
  <2>1. b \in Body
    BY <1>0, <1>2 DEF FillAndAnswer, Request, Reply, Waiting, Failed, Hung
  <2>2. res \in Result
    BY <2>1 DEF Result, BodyKinds
  <2>3. Finish(r, res) /\ VerType'
    BY <1>2 DEF FillAndAnswer, VerType
  <2>4. StoreType'
    <3>1. CASE CacheTtl[CurrentOrigin(r)] > 0
      BY <1>0, <1>2, <2>1, <3>1, CacheInsertType DEF FillAndAnswer
    <3>2. CASE ~(CacheTtl[CurrentOrigin(r)] > 0)
      BY <1>2, <3>2 DEF FillAndAnswer, StoreType
    <3>3. QED
      BY <3>1, <3>2
  <2> HIDE DEF res
  <2>5. QED
    BY <1>0, <2>2, <2>3, <2>4, FinishType
<1>3. CASE Forward(r)
  <2> DEFINE res == [kind |-> "Forwarded", body |-> req[r].reply.body]
  <2>1. res \in Result
    BY <1>0, <1>3 DEF Forward, Request, Reply, Waiting, Failed, Hung, Result, BodyKinds
  <2>2. Finish(r, res) /\ VerType' /\ StoreType'
    BY <1>3 DEF Forward, VerType, StoreType
  <2> HIDE DEF res
  <2>3. QED
    BY <1>0, <2>1, <2>2, FinishType
<1>4. CASE TryFallback(r)
  BY <1>0, <1>4, NextOriginType DEF TryFallback, At, VerType, StoreType
<1>5. QED
  BY <1>1, <1>2, <1>3, <1>4 DEF ServiceStep

LEMMA OriginStepType ==
    ASSUME TypeOK, NEW r \in Reqs, OriginStep(r)
    PROVE  VerType' /\ StoreType' /\ ReqOK'
<1> USE DEF TypeOK, ReqOK
<1>0. /\ r \in DOMAIN req /\ req[r] \in Request /\ req[r].path \in Paths
      /\ req[r].pc = "fetch" /\ req[r].idx \in DOMAIN Route[req[r].path]
  BY DEF OriginStep, OriginOk, OriginErr, OriginHang, Answer, At, ReqType, Request, IdxInRoute
<1>1. VerType' /\ StoreType'
  BY DEF OriginStep, OriginOk, OriginErr, OriginHang, Answer, VerType, StoreType
<1>2. CurrentOrigin(r) \in Origins
  <2>1. Route[req[r].path] \in Seq(Origins)
    BY <1>0, ServiceAssumption
  <2>2. QED
    BY <1>0, <2>1 DEF CurrentOrigin
<1>3. ASSUME NEW reply \in Reply, Answer(r, reply)
      PROVE  ReqOK'
  <2> DEFINE entry == [origin |-> CurrentOrigin(r), ok |-> reply.status = "ok"]
             q == [req[r] EXCEPT !.reply = reply, !.log = Append(req[r].log, entry)]
  <2>1. entry \in [origin : Origins, ok : BOOLEAN]
    BY <1>2
  <2>2. req[r].log \in Seq([origin : Origins, ok : BOOLEAN])
    BY <1>0 DEF Request
  <2>3. req' = [req EXCEPT ![r] = q]
    BY <1>3 DEF Answer
  <2> HIDE DEF entry
  <2>4. Append(req[r].log, entry) \in Seq([origin : Origins, ok : BOOLEAN])
    BY <2>1, <2>2
  <2>5. q \in Request
    BY <1>0, <1>3, <2>4 DEF Request
  <2>6. q.idx = req[r].idx /\ q.path = req[r].path
    BY <1>0 DEF Request
  <2> HIDE DEF q
  <2>7. QED
    BY <1>0, <2>3, <2>5, <2>6, UpdateRequest
<1>4. CASE OriginOk(r)
  <2> DEFINE reply == [status |-> "ok",
                       body |-> ContentOf(CurrentOrigin(r), req[r].path, UpstreamMethod(r))]
  <2>1. reply \in Reply
    BY <1>0, <1>2, ContentType DEF Reply
  <2>2. Answer(r, reply)
    BY <1>4 DEF OriginOk
  <2> HIDE DEF reply
  <2>3. QED
    BY <1>1, <1>3, <2>1, <2>2
<1>5. CASE OriginErr(r)
  BY <1>1, <1>3, <1>5, ReplyTypes DEF OriginErr
<1>6. CASE OriginHang(r)
  <2> DEFINE q == [req[r] EXCEPT !.reply = Hung]
  <2>1. q \in Request
    BY <1>0, ReplyTypes DEF Request
  <2>2. req' = [req EXCEPT ![r] = q]
    BY <1>6 DEF OriginHang
  <2>3. q.idx = req[r].idx /\ q.path = req[r].path
    BY <1>0 DEF Request
  <2> HIDE DEF q
  <2>4. QED
    BY <1>0, <1>1, <2>1, <2>2, <2>3, UpdateRequest
<1>7. QED
  BY <1>4, <1>5, <1>6 DEF OriginStep

LEMMA DropRequestType ==
    ASSUME ReqOK, NEW r \in DOMAIN req, req' = Restrict(req, DOMAIN req \ {r})
    PROVE  ReqOK'
<1>1. DOMAIN req' = DOMAIN req \ {r} /\ \A s \in DOMAIN req' : req'[s] = req[s]
  BY DEF Restrict
<1>2. ReqType'
  BY DropFromTable DEF ReqOK, ReqType, Restrict
<1>3. IdxInRoute'
  BY <1>1 DEF ReqOK, IdxInRoute
<1>4. QED
  BY <1>2, <1>3 DEF ReqOK

LEMMA ClientStepType ==
    ASSUME TypeOK, NEW r \in Reqs, ClientStep(r)
    PROVE  VerType' /\ StoreType' /\ ReqOK'
<1> USE DEF TypeOK, ReqOK
<1>1. VerType' /\ StoreType'
  BY DEF ClientStep, Receive, ReadBody, RejectBody, Respond, Disconnect, VerType, StoreType
<1>2. ASSUME NEW m \in Methods, NEW p \in Paths, NEW t \in Tags, Receive(r, m, p, t)
      PROVE  ReqOK'
  <2> DEFINE q == [method |-> m, path |-> p, tag |-> t,
                   pc |-> IF m \in Reads THEN "lookup" ELSE "body",
                   idx |-> 0, reply |-> Waiting, log |-> <<>>,
                   result |-> NoResult]
  <2>1. q \in Request
    BY ReplyTypes, ServiceAssumption DEF Request
  <2>2. q.pc # "fetch"
    OBVIOUS
  <2>3. /\ r \notin DOMAIN req
        /\ req' = [x \in DOMAIN req \cup {r} |-> IF x # r THEN req[x] ELSE q]
    BY <1>2 DEF Receive
  <2> HIDE DEF q
  <2>4. ReqType'
    BY <2>1, <2>3 DEF ReqType
  <2>5. IdxInRoute'
    BY <2>2, <2>3 DEF IdxInRoute
  <2>6. QED
    BY <2>4, <2>5
<1>3. CASE ReadBody(r)
  BY <1>1, <1>3, BeginFetchType DEF ReadBody, At
<1>4. CASE RejectBody(r)
  BY <1>1, <1>4, FinishType, ReplyTypes DEF RejectBody, At
<1>5. CASE Respond(r) \/ Disconnect(r)
  BY <1>1, <1>5, DropRequestType DEF Respond, Disconnect, At
<1>6. QED
  BY <1>1, <1>2, <1>3, <1>4, <1>5 DEF ClientStep

LEMMA PurgeStepType ==
    ASSUME TypeOK, NEW a \in Admins, PurgeStep(a)
    PROVE  VerType' /\ StoreType' /\ AdmType'
<1> USE DEF TypeOK
<1>0. a \in DOMAIN adm /\ adm[a] \in Purge
  BY DEF PurgeStep, PurgePath, PurgeAll, PrefixDone, ScanKey, RemoveKey, Running, AdmType
<1>1. VerType'
  BY DEF PurgeStep, PurgePath, PurgeAll, PrefixDone, ScanKey, RemoveKey, VerType
<1>2. ASSUME NEW q \in Purge, adm' = [adm EXCEPT ![a] = q]
      PROVE  AdmType'
  BY <1>0, <1>2 DEF AdmType
<1>3. ASSUME ReplyOk(a)
      PROVE  AdmType'
  <2>1. [adm[a] EXCEPT !.replied = TRUE] \in Purge
    BY <1>0 DEF Purge
  <2>2. QED
    BY <1>2, <1>3, <2>1 DEF ReplyOk
<1>4. CASE PurgePath(a)
  BY <1>1, <1>3, <1>4, CacheRemoveType DEF PurgePath
<1>5. CASE PurgeAll(a)
  BY <1>1, <1>3, <1>5, CacheClearType DEF PurgeAll
<1>6. CASE PrefixDone(a)
  BY <1>1, <1>3, <1>6 DEF PrefixDone, StoreType
<1>7. ASSUME NEW k \in Paths, ScanKey(a, k)
      PROVE  StoreType' /\ AdmType'
  <2> DEFINE q == [adm[a] EXCEPT
                     !.visited = @ \cup {k},
                     !.keysToRemove = IF Cached(k) /\ k \in adm[a].target THEN @ \cup {k} ELSE @]
  <2>1. q \in Purge
    BY <1>0 DEF Purge
  <2>2. adm' = [adm EXCEPT ![a] = q]
    BY <1>7 DEF ScanKey
  <2> HIDE DEF q
  <2>3. QED
    BY <1>2, <1>7, <2>1, <2>2 DEF ScanKey, StoreType
<1>8. ASSUME NEW k \in Paths, RemoveKey(a, k)
      PROVE  StoreType' /\ AdmType'
  <2> DEFINE q == [adm[a] EXCEPT !.keysToRemove = @ \ {k}]
  <2>1. q \in Purge
    BY <1>0 DEF Purge
  <2>2. adm' = [adm EXCEPT ![a] = q]
    BY <1>8 DEF RemoveKey
  <2> HIDE DEF q
  <2>3. QED
    BY <1>2, <1>8, <2>1, <2>2, CacheRemoveType DEF RemoveKey
<1>9. QED
  BY <1>1, <1>4, <1>5, <1>6, <1>7, <1>8 DEF PurgeStep

LEMMA OperatorStepType ==
    ASSUME TypeOK, NEW a \in Admins, OperatorStep(a)
    PROVE  VerType' /\ StoreType' /\ AdmType'
<1> USE DEF TypeOK
<1>1. VerType'
  BY DEF OperatorStep, StartPurge, Close, VerType
<1>2. ASSUME NEW op \in {"purge", "prefix", "all"}, NEW T \in SUBSET Paths, StartPurge(a, op, T)
      PROVE  StoreType' /\ AdmType'
  <2> DEFINE q == [op |-> op, target |-> T, visited |-> {}, keysToRemove |-> {},
                   replied |-> FALSE, asOf |-> ver]
  <2>1. q \in Purge
    BY DEF Purge, VerType
  <2>2. adm' = [x \in DOMAIN adm \cup {a} |-> IF x # a THEN adm[x] ELSE q]
    BY <1>2 DEF StartPurge
  <2> HIDE DEF q
  <2>3. AdmType'
    BY <2>1, <2>2 DEF AdmType
  <2>4. QED
    BY <1>2, <2>3, MarkOlderType DEF StartPurge
<1>3. CASE Close(a)
  <2>1. AdmType'
    BY <1>3, DropFromTable DEF Close, AdmType, Restrict
  <2>2. QED
    BY <1>1, <1>3, <2>1, UnmarkType DEF Close
<1>4. QED
  BY <1>1, <1>2, <1>3, AdminAssumption DEF OperatorStep

\* Every reachable state is well-typed, and a request that waits for an origin
\* waits for one that its route has (the loops of cdn_service.rs never index
\* past the origins of the matched route).
THEOREM TypeCorrect == Spec => []TypeOK
<1>1. Init => TypeOK
  BY OriginAssumption DEF Init, TypeOK, VerType, StoreType, ReqType, AdmType, IdxInRoute
<1>2. TypeOK /\ [Next]_vars => TypeOK'
  <2> SUFFICES ASSUME TypeOK, [Next]_vars PROVE TypeOK'
    OBVIOUS
  <2>1. CASE RequestNext /\ UNCHANGED adm
    <3>1. AdmType'
      BY <2>1 DEF TypeOK, AdmType
    <3>2. QED
      BY <2>1, <3>1, ServiceStepType, OriginStepType, ClientStepType
      DEF RequestNext, TypeOK, ReqOK
  <2>2. CASE AdminNext /\ UNCHANGED req
    <3>1. ReqType' /\ IdxInRoute'
      BY <2>2 DEF TypeOK, ReqType, IdxInRoute
    <3>2. QED
      BY <2>2, <3>1, PurgeStepType, OperatorStepType DEF AdminNext, TypeOK
  <2>3. CASE CacheNext /\ UNCHANGED <<ver, req, adm>>
    <3>1. StoreType'
      BY <2>3, TickType, CacheRemoveType DEF TypeOK, CacheNext, Evict
    <3>2. QED
      BY <2>3, <3>1 DEF TypeOK, VerType, ReqType, IdxInRoute, AdmType
  <2>4. CASE DeployNext /\ UNCHANGED <<store, req, adm>>
    <3>1. VerType'
      BY <2>4, OriginAssumption DEF TypeOK, DeployNext, Deploy, VerType
    <3>2. QED
      BY <2>4, <3>1 DEF TypeOK, StoreType, ReqType, IdxInRoute, AdmType
  <2>5. CASE UNCHANGED vars
    BY <2>5 DEF vars, TypeOK, VerType, StoreType, ReqType, IdxInRoute, AdmType
  <2>6. QED
    BY <2>1, <2>2, <2>3, <2>4, <2>5 DEF Next
<1>3. QED
  BY <1>1, <1>2, PTL DEF Spec

-----------------------------------------------------------------------------
(* What a purge leaves behind.  PurgeLeavesNothingOlder alone is not        *)
(* inductive: it says nothing of a purge that is still running.             *)
(* PurgeProgress does, and every step keeps it: a step either takes entries *)
(* out of the cache, or puts in a new one with an empty before, or moves    *)
(* the purge itself on.                                                     *)

\* The cache of the next state has no entry that is older than it looks.
NothingOlderAppears ==
    \A k \in DOMAIN store' :
        \/ store'[k].before = {}
        \/ k \in DOMAIN store /\ store'[k].before = store[k].before

LEMMA StoreProgress ==
    ASSUME PurgeProgress, NothingOlderAppears, UNCHANGED adm
    PROVE  PurgeProgress'
  BY DEF PurgeProgress, NothingOlderAppears

LEMMA InsertAddsNothingOlder ==
    ASSUME NEW k, NEW b, NEW ttl, CacheInsert(k, b, ttl)
    PROVE  NothingOlderAppears
  BY DEF CacheInsert, NothingOlderAppears

LEMMA RestrictAddsNothingOlder ==
    ASSUME NEW S, S \subseteq DOMAIN store, store' = Restrict(store, S)
    PROVE  NothingOlderAppears
  BY DEF Restrict, NothingOlderAppears

LEMMA TickAddsNothingOlder ==
    ASSUME StoreType, Tick
    PROVE  NothingOlderAppears
<1>1. \A k \in DOMAIN store : [store[k] EXCEPT !.age = @ + 1].before = store[k].before
  BY DEF StoreType, Entry
<1>2. QED
  BY <1>1 DEF Tick, NothingOlderAppears

LEMMA RequestProgress ==
    ASSUME PurgeProgress, RequestNext, UNCHANGED adm
    PROVE  PurgeProgress'
<1>1. PICK r \in Reqs : ServiceStep(r) \/ OriginStep(r) \/ ClientStep(r)
  BY DEF RequestNext
<1>2. NothingOlderAppears
  <2>1. CASE UNCHANGED store
    BY <2>1 DEF NothingOlderAppears
  <2>2. CASE FillAndAnswer(r)
    BY <2>1, <2>2, InsertAddsNothingOlder DEF FillAndAnswer
  <2>3. UNCHANGED store \/ FillAndAnswer(r)
    BY <1>1 DEF ServiceStep, Lookup, Forward, TryFallback,
       OriginStep, OriginOk, OriginErr, OriginHang, Answer,
       ClientStep, Receive, ReadBody, RejectBody, Respond, Disconnect
  <2>4. QED
    BY <2>1, <2>2, <2>3
<1>3. QED
  BY <1>2, StoreProgress

\* The step of one purge: the entries it has to answer for are those of before.
LEMMA OnePurgeProgress ==
    ASSUME PurgeProgress, NothingOlderAppears,
           NEW a \in DOMAIN adm, NEW q, adm' = [adm EXCEPT ![a] = q],
           q.op = adm[a].op, q.target = adm[a].target,
           \A k \in DOMAIN store' :
              k \in q.target /\ a \in store'[k].before =>
                /\ ~q.replied
                /\ q.op = "prefix" => k \notin q.visited \/ k \in q.keysToRemove
    PROVE  PurgeProgress'
<1>1. DOMAIN adm' = DOMAIN adm
  OBVIOUS
<1>2. SUFFICES ASSUME NEW x \in DOMAIN adm
      PROVE  /\ adm'[x].op = "purge" => \E k \in Paths : adm'[x].target = {k}
             /\ \A k \in DOMAIN store' :
                  k \in adm'[x].target /\ x \in store'[k].before =>
                     /\ ~adm'[x].replied
                     /\ adm'[x].op = "prefix" =>
                          k \notin adm'[x].visited \/ k \in adm'[x].keysToRemove
  BY <1>1 DEF PurgeProgress
<1>3. CASE x = a
  <2>1. adm'[x] = q
    BY <1>3
  <2>2. q.op = "purge" => \E k \in Paths : q.target = {k}
    BY DEF PurgeProgress
  <2>3. QED
    BY <1>3, <2>1, <2>2
<1>4. CASE x # a
  <2>1. adm'[x] = adm[x]
    BY <1>4
  <2>2. QED
    BY <2>1 DEF PurgeProgress, NothingOlderAppears
<1>5. QED
  BY <1>3, <1>4

LEMMA PurgeStepProgress ==
    ASSUME TypeOK, PurgeProgress, NEW a \in Admins, PurgeStep(a)
    PROVE  PurgeProgress'
<1>0. a \in DOMAIN adm /\ adm[a] \in Purge
  BY DEF PurgeStep, PurgePath, PurgeAll, PrefixDone, ScanKey, RemoveKey, Running, TypeOK, AdmType
<1> DEFINE replied == [adm[a] EXCEPT !.replied = TRUE]
<1>1. /\ replied.op = adm[a].op /\ replied.target = adm[a].target
      /\ replied.visited = adm[a].visited /\ replied.keysToRemove = adm[a].keysToRemove
  BY <1>0 DEF Purge
<1>2. ReplyOk(a) => adm' = [adm EXCEPT ![a] = replied]
  BY DEF ReplyOk
<1> HIDE DEF replied
<1>3. CASE PurgePath(a)
  <2>1. PICK k \in adm[a].target : CacheRemove(k)
    BY <1>3 DEF PurgePath
  <2>2. adm[a].target = {k}
    BY <1>0, <1>3, <2>1 DEF PurgePath, Running, PurgeProgress
  <2>3. NothingOlderAppears /\ k \notin DOMAIN store'
    BY <2>1, RestrictAddsNothingOlder DEF CacheRemove, Restrict
  <2>4. \A j \in DOMAIN store' : j \notin replied.target
    BY <1>1, <2>2, <2>3
  <2>5. QED
    BY <1>0, <1>1, <1>2, <1>3, <2>3, <2>4, OnePurgeProgress DEF PurgePath
<1>4. CASE PurgeAll(a)
  <2>1. NothingOlderAppears /\ DOMAIN store' = {}
    BY <1>4, RestrictAddsNothingOlder DEF PurgeAll, CacheClear, Restrict
  <2>2. QED
    BY <1>0, <1>1, <1>2, <1>4, <2>1, OnePurgeProgress DEF PurgeAll
<1>5. CASE PrefixDone(a)
  <2>1. NothingOlderAppears /\ store' = store
    BY <1>5 DEF PrefixDone, NothingOlderAppears
  <2>2. \A k \in DOMAIN store : ~(k \in adm[a].target /\ a \in store[k].before)
    BY <1>0, <1>5 DEF PrefixDone, Running, PurgeProgress, TypeOK, StoreType
  <2>3. QED
    BY <1>0, <1>1, <1>2, <1>5, <2>1, <2>2, OnePurgeProgress DEF PrefixDone
<1>6. ASSUME NEW k \in Paths, ScanKey(a, k)
      PROVE  PurgeProgress'
  <2> DEFINE q == [adm[a] EXCEPT
                     !.visited = @ \cup {k},
                     !.keysToRemove = IF Cached(k) /\ k \in adm[a].target THEN @ \cup {k} ELSE @]
  <2>1. adm' = [adm EXCEPT ![a] = q]
    BY <1>6 DEF ScanKey
  <2>2. /\ q.op = adm[a].op /\ q.target = adm[a].target /\ q.replied = adm[a].replied
        /\ q.visited = adm[a].visited \cup {k}
        /\ q.keysToRemove = IF Cached(k) /\ k \in adm[a].target
                            THEN adm[a].keysToRemove \cup {k} ELSE adm[a].keysToRemove
    BY <1>0 DEF Purge
  <2> HIDE DEF q
  <2>3. NothingOlderAppears /\ store' = store
    BY <1>6 DEF ScanKey, NothingOlderAppears
  <2>4. ASSUME NEW j \in DOMAIN store, j \in q.target, a \in store[j].before
        PROVE  ~q.replied /\ (q.op = "prefix" => j \notin q.visited \/ j \in q.keysToRemove)
    BY <1>0, <2>2, <2>4 DEF PurgeProgress, Cached
  <2>5. QED
    BY <1>0, <2>1, <2>2, <2>3, <2>4, OnePurgeProgress
<1>7. ASSUME NEW k \in Paths, RemoveKey(a, k)
      PROVE  PurgeProgress'
  <2> DEFINE q == [adm[a] EXCEPT !.keysToRemove = @ \ {k}]
  <2>1. adm' = [adm EXCEPT ![a] = q]
    BY <1>7 DEF RemoveKey
  <2>2. /\ q.op = adm[a].op /\ q.target = adm[a].target /\ q.replied = adm[a].replied
        /\ q.visited = adm[a].visited /\ q.keysToRemove = adm[a].keysToRemove \ {k}
    BY <1>0 DEF Purge
  <2> HIDE DEF q
  <2>3. NothingOlderAppears
    BY <1>7, RestrictAddsNothingOlder DEF RemoveKey, CacheRemove
  <2>4. \A j \in DOMAIN store' : j # k /\ j \in DOMAIN store /\ store'[j] = store[j]
    BY <1>7 DEF RemoveKey, CacheRemove, Restrict
  <2>5. ASSUME NEW j \in DOMAIN store', j \in q.target, a \in store'[j].before
        PROVE  ~q.replied /\ (q.op = "prefix" => j \notin q.visited \/ j \in q.keysToRemove)
    BY <1>0, <2>2, <2>4, <2>5 DEF PurgeProgress
  <2>6. QED
    BY <1>0, <2>1, <2>2, <2>3, <2>5, OnePurgeProgress
<1>8. QED
  BY <1>3, <1>4, <1>5, <1>6, <1>7 DEF PurgeStep

LEMMA OperatorStepProgress ==
    ASSUME TypeOK, PurgeProgress, NEW a \in Admins, OperatorStep(a)
    PROVE  PurgeProgress'
<1>1. ASSUME NEW op \in {"purge", "prefix", "all"}, NEW T \in SUBSET Paths,
             op = "purge" => \E k \in Paths : T = {k}, StartPurge(a, op, T)
      PROVE  PurgeProgress'
  <2> DEFINE q == [op |-> op, target |-> T, visited |-> {}, keysToRemove |-> {},
                   replied |-> FALSE, asOf |-> ver]
  <2>1. /\ q.op = op /\ q.target = T /\ q.visited = {} /\ ~q.replied
    OBVIOUS
  <2>2. /\ a \notin DOMAIN adm
        /\ adm' = [x \in DOMAIN adm \cup {a} |-> IF x # a THEN adm[x] ELSE q]
    BY <1>1 DEF StartPurge
  <2> HIDE DEF q
  <2>3. \A k \in DOMAIN store :
           [store[k] EXCEPT !.before = @ \cup {a}].before = store[k].before \cup {a}
    BY DEF TypeOK, StoreType, Entry
  <2>4. /\ DOMAIN store' = DOMAIN store
        /\ \A k \in DOMAIN store : store'[k].before = store[k].before \cup {a}
    BY <1>1, <2>3 DEF StartPurge, MarkOlder
  <2>5. \A x \in DOMAIN adm : x # a /\ adm'[x] = adm[x]
    BY <2>2
  <2>6. adm'[a] = q /\ DOMAIN adm' = DOMAIN adm \cup {a}
    BY <2>2
  <2>7. QED
    BY <1>1, <2>1, <2>4, <2>5, <2>6 DEF PurgeProgress
<1>2. CASE Close(a)
  <2>1. \A k \in DOMAIN store :
           [store[k] EXCEPT !.before = @ \ {a}].before = store[k].before \ {a}
    BY DEF TypeOK, StoreType, Entry
  <2>2. /\ DOMAIN store' = DOMAIN store
        /\ \A k \in DOMAIN store : store'[k].before \subseteq store[k].before
    BY <1>2, <2>1 DEF Close, Unmark
  <2>3. \A x \in DOMAIN adm' : x \in DOMAIN adm /\ adm'[x] = adm[x]
    BY <1>2 DEF Close, Restrict
  <2>4. QED
    BY <2>2, <2>3 DEF PurgeProgress
<1>3. QED
  BY <1>1, <1>2, AdminAssumption DEF OperatorStep

\* The loops of purge, purge_prefix and purge_all never lose sight of an entry that
\* they have to remove, whatever requests and other purges do between their steps.
THEOREM ProgressCorrect == Spec => []PurgeProgress
<1>1. Init => PurgeProgress
  BY DEF Init, PurgeProgress
<1>2. TypeOK /\ PurgeProgress /\ [Next]_vars => PurgeProgress'
  <2> SUFFICES ASSUME TypeOK, PurgeProgress, [Next]_vars PROVE PurgeProgress'
    OBVIOUS
  <2>1. CASE RequestNext /\ UNCHANGED adm
    BY <2>1, RequestProgress
  <2>2. CASE AdminNext
    BY <2>2, PurgeStepProgress, OperatorStepProgress DEF AdminNext
  <2>3. CASE CacheNext /\ UNCHANGED <<ver, req, adm>>
    <3>1. NothingOlderAppears
      BY <2>3, TickAddsNothingOlder, RestrictAddsNothingOlder
      DEF CacheNext, Evict, CacheRemove, TypeOK
    <3>2. QED
      BY <2>3, <3>1, StoreProgress
  <2>4. CASE DeployNext /\ UNCHANGED <<store, req, adm>>
    BY <2>4 DEF PurgeProgress
  <2>5. CASE UNCHANGED vars
    BY <2>5 DEF vars, PurgeProgress
  <2>6. QED
    BY <2>1, <2>2, <2>3, <2>4, <2>5 DEF Next
<1>3. QED
  BY <1>1, <1>2, TypeCorrect, PTL DEF Spec

\* A purge that has reported success has left nothing in the cache that was
\* there when it began: for any number of requests, purges, paths, origins and
\* any time to live, and in every interleaving of their steps.
THEOREM PurgeCorrect == Spec => []PurgeLeavesNothingOlder
<1>1. PurgeProgress => PurgeLeavesNothingOlder
  BY DEF PurgeProgress, PurgeLeavesNothingOlder
<1>2. QED
  BY <1>1, ProgressCorrect, PTL
=============================================================================
