--------------------------- MODULE ContractProofs ---------------------------
(***************************************************************************)
(* FastCache implements CacheContract, and what its steps never do to the  *)
(* cache, for every value of the constants.                                *)
(***************************************************************************)
EXTENDS ContractRefinement, ServiceProofs

-----------------------------------------------------------------------------
(* The records of the contract, once they are done.                        *)

LEMMA PurgeDone ==
    ASSUME NEW x, NEW target, NEW done, x = [target |-> target, done |-> done]
    PROVE  [x EXCEPT !.done = TRUE] = [target |-> target, done |-> TRUE]
<1>1. PICK true : true = TRUE
  OBVIOUS
<1>2. [x EXCEPT !.done = true] = [target |-> target, done |-> true]
  OBVIOUS
<1>3. [x EXCEPT !.done = TRUE] = [x EXCEPT !.done = true]
  BY <1>1, Zenon
<1>4. [target |-> target, done |-> true] = [target |-> target, done |-> TRUE]
  BY <1>1
<1>5. QED
  BY <1>2, <1>3, <1>4, Zenon

LEMMA AskDone ==
    ASSUME NEW x, NEW path, NEW read, NEW got, NEW done,
           x = [path |-> path, read |-> read, got |-> got, done |-> done]
    PROVE  [x EXCEPT !.done = TRUE] =
              [path |-> path, read |-> read, got |-> got, done |-> TRUE]
<1>1. PICK true : true = TRUE
  OBVIOUS
<1>2. [x EXCEPT !.done = true] = [path |-> path, read |-> read, got |-> got, done |-> true]
  OBVIOUS
<1>3. [x EXCEPT !.done = TRUE] = [x EXCEPT !.done = true]
  BY <1>1, Zenon
<1>4. [path |-> path, read |-> read, got |-> got, done |-> true] =
         [path |-> path, read |-> read, got |-> got, done |-> TRUE]
  BY <1>1
<1>5. QED
  BY <1>2, <1>3, <1>4, Zenon

-----------------------------------------------------------------------------
(* What a change of the tables is under the refinement mapping.            *)

AbsAsk(q) ==
    [path |-> q.path, read |-> q.method \in Reads,
     got |-> Got(q), done |-> q.pc = "done"]

LEMMA AsksTable == AbsAsks = [r \in DOMAIN req |-> AbsAsk(req[r])]
  BY DEF AbsAsks, AbsAsk

LEMMA AsksUpdate ==
    ASSUME ReqType, NEW r \in DOMAIN req, NEW q, req' = [req EXCEPT ![r] = q]
    PROVE  AbsAsks' = [AbsAsks EXCEPT ![r] = AbsAsk(q)]
<1>1. DOMAIN req' = DOMAIN req /\ \A x \in DOMAIN req : req'[x] = IF x = r THEN q ELSE req[x]
  BY DEF ReqType
<1>2. AbsAsks' = [x \in DOMAIN req' |-> AbsAsk(req'[x])]
  BY DEF AbsAsks, AbsAsk, Got, AbsBody, Reads, BodyKinds
<1>3. QED
  BY <1>1, <1>2, AsksTable

\* A request that is on its way has obtained nothing, or holds a body.
LEMMA OpenAsk ==
    ASSUME TypeOK, RequestsFit, NEW r \in DOMAIN req, req[r].pc # "done"
    PROVE  /\ Contract!Open(r)
           /\ r \in DOMAIN AbsAsks /\ AbsAsks[r] = AbsAsk(req[r])
           /\ AbsAsks[r].path = req[r].path /\ AbsAsks[r].path \in Paths
           /\ AbsAsks[r].read <=> req[r].method \in Reads
           /\ req[r].reply.status # "ok" => AbsAsks[r].got = Contract!Nothing
           /\ req[r].reply.status = "ok" =>
                 /\ AbsAsks[r].got = AbsBody(req[r].reply.body)
                 /\ AbsAsks[r].got # Contract!Nothing
<1>1. req[r].result = NoResult /\ req[r].path \in Paths
  BY FitsOne DEF Underway
<1>2. r \in DOMAIN AbsAsks /\ AbsAsks[r] = AbsAsk(req[r])
  BY AsksTable
<1>3. /\ AbsAsk(req[r]).path = req[r].path
      /\ AbsAsk(req[r]).read = (req[r].method \in Reads)
      /\ AbsAsk(req[r]).got = Got(req[r])
      /\ ~AbsAsk(req[r]).done
  BY DEF AbsAsk
<1>4. Got(req[r]) = IF req[r].reply.status = "ok" THEN AbsBody(req[r].reply.body)
                                                   ELSE [held |-> FALSE]
  BY <1>1 DEF Got, NoResult, BodyKinds
<1>5. AbsBody(req[r].reply.body) # [held |-> FALSE]
  <2>1. AbsBody(req[r].reply.body).held = TRUE /\ [held |-> FALSE].held = FALSE
    BY DEF AbsBody
  <2>2. QED
    BY <2>1
<1>6. QED
  BY <1>1, <1>2, <1>3, <1>4, <1>5 DEF Contract!Open, Contract!Nothing

\* The end of a future: the request is done, with what its result stands for.
LEMMA FinishAsk ==
    ASSUME TypeOK, NEW r \in DOMAIN req, NEW res \in Result, Finish(r, res)
    PROVE  AbsAsks' = [AbsAsks EXCEPT ![r] =
              [path |-> req[r].path, read |-> req[r].method \in Reads,
               got |-> IF res.kind \in BodyKinds THEN AbsBody(res.body) ELSE [held |-> FALSE],
               done |-> TRUE]]
<1>1. req[r] \in Request
  BY DEF TypeOK, ReqType
<1>2. Finished(r, res) \in Request /\ req' = [req EXCEPT ![r] = Finished(r, res)]
  BY FinishUpdate DEF TypeOK
<1>3. LET f == Finished(r, res) IN
        /\ f.pc = "done" /\ f.result = res /\ f.reply = Waiting
        /\ f.path = req[r].path /\ f.method = req[r].method
  BY <1>1 DEF Finished, Request
<1>4. Got(Finished(r, res)) =
         IF res.kind \in BodyKinds THEN AbsBody(res.body) ELSE [held |-> FALSE]
  BY <1>3 DEF Got, Waiting
<1>5. AbsAsks' = [AbsAsks EXCEPT ![r] = AbsAsk(Finished(r, res))]
  BY <1>2, AsksUpdate DEF TypeOK
<1>6. QED
  BY <1>3, <1>4, <1>5 DEF AbsAsk

\* If that is what the request had obtained before, only done has changed.
LEMMA AskEnds ==
    ASSUME NEW r \in DOMAIN req, NEW got, AbsAsks[r].got = got,
           AbsAsks' = [AbsAsks EXCEPT ![r] =
              [path |-> req[r].path, read |-> req[r].method \in Reads,
               got |-> got, done |-> TRUE]]
    PROVE  AbsAsks' = [AbsAsks EXCEPT ![r].done = TRUE]
<1> DEFINE path == req[r].path
           read == req[r].method \in Reads
           done == req[r].pc = "done"
<1>1. AbsAsks[r] = [path |-> path, read |-> read, got |-> Got(req[r]), done |-> done]
  BY DEF AbsAsks
<1>2. AbsAsks' = [AbsAsks EXCEPT ![r] =
                    [path |-> path, read |-> read, got |-> got, done |-> TRUE]]
  OBVIOUS
<1> HIDE DEF path, read, done
<1>3. Got(req[r]) = got
  BY <1>1
<1>4. [AbsAsks[r] EXCEPT !.done = TRUE] =
         [path |-> path, read |-> read, got |-> got, done |-> TRUE]
  BY <1>1, <1>3, AskDone
<1>5. AbsAsks' = [AbsAsks EXCEPT ![r] = [AbsAsks[r] EXCEPT !.done = TRUE]]
  BY <1>2, <1>4, Zenon
<1>6. QED
  BY <1>5

LEMMA AskHits ==
    ASSUME NEW r \in DOMAIN req, NEW got,
           AbsAsks' = [AbsAsks EXCEPT ![r] =
              [path |-> req[r].path, read |-> req[r].method \in Reads,
               got |-> got, done |-> TRUE]]
    PROVE  AbsAsks' = [AbsAsks EXCEPT ![r].got = got, ![r].done = TRUE]
<1> DEFINE path == req[r].path
           read == req[r].method \in Reads
           done == req[r].pc = "done"
           x == [AbsAsks[r] EXCEPT !.got = got]
<1>1. AbsAsks[r] = [path |-> path, read |-> read, got |-> Got(req[r]), done |-> done]
  BY DEF AbsAsks
<1>2. AbsAsks' = [AbsAsks EXCEPT ![r] =
                    [path |-> path, read |-> read, got |-> got, done |-> TRUE]]
  OBVIOUS
<1> HIDE DEF path, read, done
<1>3. x = [path |-> path, read |-> read, got |-> got, done |-> done]
  BY <1>1
<1> HIDE DEF x
<1>4. [x EXCEPT !.done = TRUE] = [path |-> path, read |-> read, got |-> got, done |-> TRUE]
  BY <1>3, AskDone
<1>5. AbsAsks' = [AbsAsks EXCEPT ![r] = [x EXCEPT !.done = TRUE]]
  BY <1>2, <1>4, Zenon
<1>6. [AbsAsks EXCEPT ![r].got = got, ![r].done = TRUE] =
         [AbsAsks EXCEPT ![r] = [x EXCEPT !.done = TRUE]]
  BY DEF x, AbsAsks
<1>7. QED
  BY <1>5, <1>6, Zenon

LEMMA EntriesTable ==
    /\ DOMAIN AbsEntries = DOMAIN store
    /\ \A k \in DOMAIN store : /\ AbsEntries[k].body = AbsBody(store[k].body)
                               /\ AbsEntries[k].before = store[k].before
  BY DEF AbsEntries

LEMMA EntriesUnchanged ==
    ASSUME store' = store
    PROVE  AbsEntries' = AbsEntries
  BY DEF AbsEntries, AbsBody

LEMMA EntriesRestrict ==
    ASSUME NEW S \in SUBSET DOMAIN store, store' = Restrict(store, S)
    PROVE  AbsEntries' = Restrict(AbsEntries, S)
  BY DEF AbsEntries, AbsBody, Restrict

\* The auxiliary marks of a purge are the same on both sides.
LEMMA EntriesMark ==
    ASSUME StoreType, NEW a \in Admins, MarkOlder(a)
    PROVE  AbsEntries' = [p \in DOMAIN AbsEntries |->
              [AbsEntries[p] EXCEPT !.before = @ \cup {a}]]
<1>1. /\ DOMAIN store' = DOMAIN store
      /\ \A k \in DOMAIN store : /\ store'[k].body = store[k].body
                                 /\ store'[k].before = store[k].before \cup {a}
  BY DEF StoreType, Entry, MarkOlder
<1>2. AbsEntries' = [k \in DOMAIN store' |->
                       [body |-> AbsBody(store'[k].body), before |-> store'[k].before]]
  BY DEF AbsEntries, AbsBody
<1>3. \A k \in DOMAIN store :
         [AbsEntries[k] EXCEPT !.before = @ \cup {a}] =
            [body |-> AbsBody(store[k].body), before |-> store[k].before \cup {a}]
  BY DEF AbsEntries
<1>4. QED
  BY <1>1, <1>2, <1>3, EntriesTable

LEMMA EntriesUnmark ==
    ASSUME StoreType, NEW a \in Admins, Unmark(a)
    PROVE  AbsEntries' = [p \in DOMAIN AbsEntries |->
              [AbsEntries[p] EXCEPT !.before = @ \ {a}]]
<1>1. /\ DOMAIN store' = DOMAIN store
      /\ \A k \in DOMAIN store : /\ store'[k].body = store[k].body
                                 /\ store'[k].before = store[k].before \ {a}
  BY DEF StoreType, Entry, Unmark
<1>2. AbsEntries' = [k \in DOMAIN store' |->
                       [body |-> AbsBody(store'[k].body), before |-> store'[k].before]]
  BY DEF AbsEntries, AbsBody
<1>3. \A k \in DOMAIN store :
         [AbsEntries[k] EXCEPT !.before = @ \ {a}] =
            [body |-> AbsBody(store[k].body), before |-> store[k].before \ {a}]
  BY DEF AbsEntries
<1>4. QED
  BY <1>1, <1>2, <1>3, EntriesTable

AbsPurge(q) == [target |-> q.target, done |-> q.replied]

LEMMA PurgesUpdate ==
    ASSUME AdmType, NEW a \in DOMAIN adm, NEW q, adm' = [adm EXCEPT ![a] = q]
    PROVE  AbsPurges' = [AbsPurges EXCEPT ![a] = AbsPurge(q)]
<1>1. DOMAIN adm' = DOMAIN adm /\ \A x \in DOMAIN adm : adm'[x] = IF x = a THEN q ELSE adm[x]
  BY DEF AdmType
<1>2. QED
  BY <1>1 DEF AbsPurges, AbsPurge

LEMMA SamePurge ==
    ASSUME TypeOK, NEW a \in DOMAIN adm, NEW q, adm' = [adm EXCEPT ![a] = q],
           q.target = adm[a].target, q.replied = adm[a].replied
    PROVE  AbsPurges' = AbsPurges
<1>1. AbsPurges' = [AbsPurges EXCEPT ![a] = AbsPurge(q)]
  BY PurgesUpdate DEF TypeOK
<1>2. AbsPurge(q) = AbsPurges[a]
  BY DEF AbsPurge, AbsPurges
<1>3. QED
  BY <1>1, <1>2 DEF AbsPurges

LEMMA ReplyPurge ==
    ASSUME TypeOK, NEW a \in DOMAIN adm, ReplyOk(a)
    PROVE  AbsPurges' = [AbsPurges EXCEPT ![a].done = TRUE]
<1> DEFINE q == [adm[a] EXCEPT !.replied = TRUE]
<1>1. adm[a] \in Purge /\ adm' = [adm EXCEPT ![a] = q]
  BY DEF TypeOK, AdmType, ReplyOk
<1>2. q.target = adm[a].target /\ q.replied = TRUE
  BY <1>1 DEF Purge
<1> HIDE DEF q
<1>3. AbsPurges' = [AbsPurges EXCEPT ![a] = AbsPurge(q)]
  BY <1>1, PurgesUpdate DEF TypeOK
<1>4. AbsPurges[a] = [target |-> adm[a].target, done |-> adm[a].replied]
  BY DEF AbsPurges
<1>5. [AbsPurges[a] EXCEPT !.done = TRUE] = [target |-> adm[a].target, done |-> TRUE]
  BY <1>4, PurgeDone
<1>6. AbsPurge(q) = [target |-> adm[a].target, done |-> TRUE]
  BY <1>2 DEF AbsPurge
<1>7. AbsPurges' = [AbsPurges EXCEPT ![a] = [AbsPurges[a] EXCEPT !.done = TRUE]]
  BY <1>3, <1>5, <1>6, Zenon
<1>8. QED
  BY <1>7

-----------------------------------------------------------------------------
(* A purge keeps to its target: that of everything aims at every path, and *)
(* what one by prefix collects is part of its target.                      *)

OnTarget ==
    \A a \in DOMAIN adm :
        /\ adm[a].op = "all" => adm[a].target = Paths
        /\ adm[a].keysToRemove \subseteq adm[a].target

\* The steps of a purge change neither what it is nor its target.
Proceeds(q, p) ==
    /\ q.op = p.op /\ q.target = p.target
    /\ q.keysToRemove \subseteq p.keysToRemove \cup p.target

LEMMA PurgeStepKeeps ==
    ASSUME TypeOK, NEW a \in Admins, PurgeStep(a)
    PROVE  /\ a \in DOMAIN adm /\ DOMAIN adm' = DOMAIN adm
           /\ Proceeds(adm'[a], adm[a])
           /\ \A x \in DOMAIN adm : x # a => adm'[x] = adm[x]
<1>1. a \in DOMAIN adm /\ adm[a] \in Purge
  BY DEF PurgeStep, PurgePath, PurgeAll, PrefixDone, ScanKey, RemoveKey, Running, TypeOK, AdmType
<1>2. \E q : adm' = [adm EXCEPT ![a] = q] /\ Proceeds(q, adm[a])
  <2>1. CASE ReplyOk(a)
    <3>1. Proceeds([adm[a] EXCEPT !.replied = TRUE], adm[a])
      BY <1>1 DEF Purge, Proceeds
    <3>2. QED
      BY <2>1, <3>1 DEF ReplyOk
  <2>2. ASSUME NEW k, ScanKey(a, k)
        PROVE  \E q : adm' = [adm EXCEPT ![a] = q] /\ Proceeds(q, adm[a])
    <3> DEFINE q == [adm[a] EXCEPT
                       !.visited = @ \cup {k},
                       !.keysToRemove = IF Cached(k) /\ k \in adm[a].target THEN @ \cup {k} ELSE @]
    <3>1. Proceeds(q, adm[a])
      BY <1>1 DEF Purge, Proceeds
    <3>2. adm' = [adm EXCEPT ![a] = q]
      BY <2>2 DEF ScanKey
    <3> HIDE DEF q
    <3>3. QED
      BY <3>1, <3>2
  <2>3. ASSUME NEW k, RemoveKey(a, k)
        PROVE  \E q : adm' = [adm EXCEPT ![a] = q] /\ Proceeds(q, adm[a])
    <3> DEFINE q == [adm[a] EXCEPT !.keysToRemove = @ \ {k}]
    <3>1. Proceeds(q, adm[a])
      BY <1>1 DEF Purge, Proceeds
    <3>2. adm' = [adm EXCEPT ![a] = q]
      BY <2>3 DEF RemoveKey
    <3> HIDE DEF q
    <3>3. QED
      BY <3>1, <3>2
  <2>4. QED
    BY <2>1, <2>2, <2>3 DEF PurgeStep, PurgePath, PurgeAll, PrefixDone
<1>3. QED
  BY <1>1, <1>2 DEF TypeOK, AdmType

LEMMA OnTargetInv == Spec => []OnTarget
<1>1. Init => OnTarget
  BY DEF Init, OnTarget
<1>2. TypeOK /\ OnTarget /\ [Next]_vars => OnTarget'
  <2> SUFFICES ASSUME TypeOK, OnTarget, [Next]_vars PROVE OnTarget'
    OBVIOUS
  <2>1. ASSUME NEW a \in Admins, PurgeStep(a)
        PROVE  OnTarget'
    BY <2>1, PurgeStepKeeps DEF OnTarget, Proceeds
  <2>2. ASSUME NEW a \in Admins, NEW op, NEW T, op = "all" => T = Paths, StartPurge(a, op, T)
        PROVE  OnTarget'
    BY <2>2 DEF StartPurge, OnTarget
  <2>3. ASSUME NEW a \in Admins, Close(a)
        PROVE  OnTarget'
    BY <2>3 DEF Close, Restrict, OnTarget
  <2>4. CASE AdminNext
    BY <2>1, <2>2, <2>3, <2>4 DEF AdminNext, OperatorStep
  <2>5. CASE UNCHANGED adm
    BY <2>5 DEF OnTarget
  <2>6. QED
    BY <2>4, <2>5 DEF Next, vars
<1>3. QED
  BY <1>1, <1>2, TypeCorrect, PTL DEF Spec

\* Of an operator's step only StartPurge and Close are left: the one adds a
\* purge, the other drops one.
LEMMA OperatorStepKeeps ==
    ASSUME NEW a \in Admins, OperatorStep(a)
    PROVE  \A x \in DOMAIN adm : x \in DOMAIN adm' => adm'[x] = adm[x]
  BY DEF OperatorStep, StartPurge, Close, Restrict

\* One step of a purge leaves what is not its target as it is.
LEMMA PurgeStepScope ==
    ASSUME TypeOK, OnTarget, NEW a \in Admins, PurgeStep(a),
           NEW k \in DOMAIN store \ adm[a].target
    PROVE  k \in DOMAIN store' /\ store'[k] = store[k]
<1>1. CASE PurgePath(a)
  BY <1>1 DEF PurgePath, CacheRemove, Restrict
<1>2. CASE PurgeAll(a)
  BY <1>2 DEF PurgeAll, Running, OnTarget, TypeOK, StoreType
<1>3. ASSUME NEW j \in Paths, RemoveKey(a, j)
      PROVE  k \in DOMAIN store' /\ store'[k] = store[k]
  <2>1. j \in adm[a].target /\ store' = Restrict(store, DOMAIN store \ {j})
    BY <1>3 DEF RemoveKey, Running, OnTarget, CacheRemove
  <2>2. QED
    BY <2>1 DEF Restrict
<1>4. CASE UNCHANGED store
  BY <1>4
<1>5. QED
  BY <1>1, <1>2, <1>3, <1>4 DEF PurgeStep, PrefixDone, ScanKey

\* A step that takes a purge further removes nothing, and changes nothing, outside
\* the target the operator has given: what a purge by prefix has collected is of
\* its prefix, also when other purges and requests have used the cache meanwhile.
THEOREM PurgeScopeCorrect == Spec => PurgeScope
<1>1. TypeOK /\ OnTarget /\ [Next]_vars =>
         [\A a \in DOMAIN adm : a \in DOMAIN adm' /\ adm'[a] # adm[a] =>
            \A k \in DOMAIN store \ adm[a].target :
                k \in DOMAIN store' /\ store'[k].body = store[k].body]_vars
  <2> SUFFICES ASSUME TypeOK, OnTarget, Next,
                      NEW a \in DOMAIN adm, a \in DOMAIN adm', adm'[a] # adm[a],
                      NEW k \in DOMAIN store \ adm[a].target
               PROVE  k \in DOMAIN store' /\ store'[k] = store[k]
    BY DEF vars
  <2>1. AdminNext
    BY DEF Next
  <2>2. PICK x \in Admins : PurgeStep(x) \/ OperatorStep(x)
    BY <2>1 DEF AdminNext
  <2>3. PurgeStep(x)
    BY <2>2, OperatorStepKeeps
  <2>4. x = a
    BY <2>3, PurgeStepKeeps
  <2>5. QED
    BY <2>3, <2>4, PurgeStepScope
<1>2. QED
  BY <1>1, TypeCorrect, OnTargetInv, PTL DEF Spec, PurgeScope

\* Nothing but a GET or HEAD that an origin has answered fills the cache, under its
\* own path: no forwarded POST, PUT, PATCH or DELETE, no purge and no deployment.
THEOREM OnlyReadsFillCorrect == Spec => OnlyReadsFill
<1>1. TypeOK /\ [Next]_vars =>
         [\A k \in DOMAIN store' :
            k \notin DOMAIN store \/ store'[k].body # store[k].body =>
              \E r \in DOMAIN req :
                 /\ req[r].path = k /\ req[r].method \in Reads
                 /\ req[r].reply.status = "ok" /\ req'[r].pc = "done"]_vars
  <2> SUFFICES ASSUME TypeOK, Next, NEW k \in DOMAIN store',
                      k \notin DOMAIN store \/ store'[k].body # store[k].body
               PROVE  \E r \in DOMAIN req :
                         /\ req[r].path = k /\ req[r].method \in Reads
                         /\ req[r].reply.status = "ok" /\ req'[r].pc = "done"
    BY DEF vars
  <2>1. ~AdminNext
    <3>1. ASSUME NEW a \in Admins, PurgeStep(a) \/ OperatorStep(a)
          PROVE  FALSE
      <4>1. CASE UNCHANGED store
        BY <4>1
      <4>2. CASE \E S \in SUBSET DOMAIN store : store' = Restrict(store, S)
        BY <4>2 DEF Restrict
      <4>3. CASE MarkOlder(a) \/ Unmark(a)
        <5>1. \A j \in DOMAIN store :
                 /\ [store[j] EXCEPT !.before = @ \cup {a}].body = store[j].body
                 /\ [store[j] EXCEPT !.before = @ \ {a}].body = store[j].body
          BY DEF TypeOK, StoreType, Entry
        <5>2. QED
          BY <4>3, <5>1 DEF MarkOlder, Unmark
      <4>4. QED
        BY <3>1, <4>1, <4>2, <4>3 DEF PurgeStep, PurgePath, PurgeAll, PrefixDone, ScanKey,
           RemoveKey, OperatorStep, StartPurge, Close, CacheRemove, CacheClear
    <3>2. QED
      BY <3>1 DEF AdminNext
  <2>2. ~CacheNext
    <3>1. \A j \in DOMAIN store : [store[j] EXCEPT !.age = @ + 1].body = store[j].body
      BY DEF TypeOK, StoreType, Entry
    <3>2. ~Tick
      BY <3>1 DEF Tick
    <3>3. \A j \in Paths : ~Evict(j)
      BY DEF Evict, CacheRemove, Restrict
    <3>4. QED
      BY <3>2, <3>3 DEF CacheNext
  <2>3. PICK r \in Reqs : ServiceStep(r) \/ OriginStep(r) \/ ClientStep(r)
    BY <2>1, <2>2 DEF Next, RequestNext
  <2>4. FillAndAnswer(r)
    BY <2>3 DEF ServiceStep, Lookup, Forward, TryFallback,
       OriginStep, OriginOk, OriginErr, OriginHang, Answer,
       ClientStep, Receive, ReadBody, RejectBody, Respond, Disconnect
  <2>5. /\ r \in DOMAIN req /\ req[r].method \in Reads /\ req[r].reply.status = "ok"
        /\ k = req[r].path
    BY <2>4 DEF FillAndAnswer, At, CacheInsert
  <2>6. req'[r].pc = "done"
    <3>1. PICK res : Finish(r, res)
      BY <2>4 DEF FillAndAnswer
    <3>2. req[r] \in Request
      BY <2>5 DEF TypeOK, ReqType
    <3>3. QED
      BY <2>5, <3>1, <3>2 DEF Finish, TypeOK, ReqType, Request
  <2>7. QED
    BY <2>5, <2>6
<1>2. QED
  BY <1>1, TypeCorrect, PTL DEF Spec, OnlyReadsFill

-----------------------------------------------------------------------------
(* Each step of the server is a step of the contract, or none.             *)

AbsVars == <<ver, AbsEntries, AbsAsks, AbsPurges>>

Allowed == Contract!Next \/ UNCHANGED AbsVars

LEMMA NothingChanges ==
    ASSUME ver' = ver, store' = store, adm' = adm, AbsAsks' = AbsAsks
    PROVE  Allowed
<1>1. AbsPurges' = AbsPurges
  BY DEF AbsPurges
<1>2. QED
  BY <1>1, EntriesUnchanged DEF Allowed, AbsVars

\* A future that ends without a body.
LEMMA RefuseAllowed ==
    ASSUME TypeOK, RequestsFit, UNCHANGED <<ver, store, adm>>,
           NEW r \in DOMAIN req, req[r].pc # "done", req[r].reply.status # "ok",
           NEW res \in {NotFound, TooLarge}, Finish(r, res)
    PROVE  Allowed
<1>1. res \in Result /\ res.kind \notin BodyKinds
  BY ReplyTypes DEF NotFound, TooLarge, BodyKinds
<1>2. AbsAsks' = [AbsAsks EXCEPT ![r] =
            [path |-> req[r].path, read |-> req[r].method \in Reads,
             got |-> [held |-> FALSE], done |-> TRUE]]
  BY <1>1, FinishAsk
<1>3. /\ AbsAsks[r] = AbsAsk(req[r]) /\ AbsAsks[r].got = Contract!Nothing
      /\ Contract!Open(r)
  BY OpenAsk
<1>4. AbsAsks' = [AbsAsks EXCEPT ![r].done = TRUE]
  BY <1>2, <1>3, AskEnds DEF Contract!Nothing
<1>5. AbsEntries' = AbsEntries /\ AbsPurges' = AbsPurges
  BY EntriesUnchanged DEF AbsPurges
<1>6. Contract!Refuse(r)
  BY <1>3, <1>4, <1>5 DEF Contract!Refuse
<1>7. r \in Reqs
  BY DEF TypeOK, ReqType
<1>8. QED
  BY <1>6, <1>7 DEF Allowed, Contract!Next

\* A step of the loop over the origins that obtains nothing.
LEMMA LoopAllowed ==
    ASSUME TypeOK, UNCHANGED <<ver, store, adm>>,
           NEW r \in DOMAIN req, req[r].pc # "done", req[r].reply.status # "ok",
           req[r].result = NoResult,
           NEW q, req' = [req EXCEPT ![r] = q],
           q.path = req[r].path, q.method = req[r].method, q.pc # "done",
           q.reply.status # "ok", q.result = NoResult
    PROVE  Allowed
<1>1. Got(q) = [held |-> FALSE] /\ Got(req[r]) = [held |-> FALSE]
  BY DEF Got, NoResult, BodyKinds
<1>2. AbsAsk(q) = AbsAsk(req[r])
  BY <1>1 DEF AbsAsk
<1>3. AbsAsks' = [AbsAsks EXCEPT ![r] = AbsAsk(q)]
  BY AsksUpdate DEF TypeOK
<1>4. AbsAsks' = AbsAsks
  BY <1>2, <1>3, AsksTable
<1>5. QED
  BY <1>4, NothingChanges

LEMMA BeginFetchAllowed ==
    ASSUME TypeOK, RequestsFit, UNCHANGED <<ver, store, adm>>,
           NEW r \in DOMAIN req, req[r].pc \in {"body", "lookup"}, BeginFetch(r)
    PROVE  Allowed
<1>1. /\ req[r] \in Request /\ req[r].pc # "done"
      /\ req[r].reply = Waiting /\ req[r].result = NoResult
  BY FitsOne DEF Underway
<1>2. Waiting.status # "ok"
  BY DEF Waiting
<1>3. CASE Route[req[r].path] = <<>>
  BY <1>1, <1>2, <1>3, RefuseAllowed DEF BeginFetch
<1>4. CASE Route[req[r].path] # <<>>
  <2>1. req' = [req EXCEPT ![r] = Fetching(r)]
    BY <1>4 DEF BeginFetch, Fetching
  <2>2. /\ Fetching(r).path = req[r].path /\ Fetching(r).method = req[r].method
        /\ Fetching(r).pc = "fetch" /\ Fetching(r).reply = req[r].reply
        /\ Fetching(r).result = req[r].result
    BY <1>1 DEF Fetching, Request
  <2>3. QED
    BY <1>1, <1>2, <2>1, <2>2, LoopAllowed
<1>5. QED
  BY <1>3, <1>4

\* The client is answered from the cache.
LEMMA LookupAllowed ==
    ASSUME TypeOK, RequestsFit, UNCHANGED adm, NEW r \in Reqs, Lookup(r)
    PROVE  Allowed
<1>1. /\ r \in DOMAIN req /\ req[r].pc = "lookup" /\ UNCHANGED <<ver, store>>
  BY DEF Lookup, At
<1>2. /\ req[r].method \in Reads /\ req[r].reply = Waiting /\ req[r].path \in Paths
  BY <1>1, FitsOne DEF Underway
<1>3. CASE Cached(req[r].path)
  <2> DEFINE p == req[r].path
             b == store[p].body
             res == [kind |-> IF EtagMatches(req[r].tag, b) THEN "NotModified" ELSE "Cached",
                     body |-> b]
  <2>1. p \in DOMAIN store /\ b \in Body
    BY <1>3 DEF Cached, TypeOK, StoreType, Entry
  <2>2. res \in Result /\ res.kind \in BodyKinds /\ res.body = b
    BY <2>1 DEF Result, BodyKinds
  <2>3. Finish(r, res)
    BY <1>3, <1>1 DEF Lookup
  <2> HIDE DEF res
  <2>4. AbsAsks' = [AbsAsks EXCEPT ![r] =
              [path |-> p, read |-> req[r].method \in Reads,
               got |-> AbsBody(b), done |-> TRUE]]
    BY <1>1, <2>2, <2>3, FinishAsk
  <2>5. /\ Contract!Open(r) /\ AbsAsks[r].got = Contract!Nothing
        /\ AbsAsks[r].read /\ AbsAsks[r].path = p
    BY <1>1, <1>2, OpenAsk DEF Waiting
  <2>6. p \in DOMAIN AbsEntries /\ AbsEntries[p].body = AbsBody(b)
    BY <2>1, EntriesTable
  <2>7. AbsAsks' = [AbsAsks EXCEPT ![r].got = AbsEntries[AbsAsks[r].path].body,
                                   ![r].done = TRUE]
    <3>1. AbsAsks' = [AbsAsks EXCEPT ![r].got = AbsBody(b), ![r].done = TRUE]
      BY <1>1, <2>4, AskHits
    <3>2. AbsEntries[AbsAsks[r].path].body = AbsBody(b)
      BY <2>5, <2>6
    <3>3. QED
      BY <3>1, <3>2, Zenon
  <2>8. AbsEntries' = AbsEntries /\ AbsPurges' = AbsPurges
    BY <1>1, EntriesUnchanged DEF AbsPurges
  <2>9. Contract!Hit(r)
    BY <1>1, <2>5, <2>6, <2>7, <2>8 DEF Contract!Hit
  <2>10. QED
    BY <2>9 DEF Allowed, Contract!Next
<1>4. CASE ~Cached(req[r].path)
  BY <1>1, <1>4, BeginFetchAllowed DEF Lookup
<1>5. QED
  BY <1>3, <1>4

\* An origin has answered: what it said is what the client is given.
LEMMA DeliverAllowed ==
    ASSUME TypeOK, RequestsFit, UNCHANGED <<ver, adm>>,
           NEW r \in DOMAIN req, req[r].pc = "fetch", req[r].reply.status = "ok",
           NEW kind \in BodyKinds, Finish(r, [kind |-> kind, body |-> req[r].reply.body]),
           \/ UNCHANGED store
           \/ /\ req[r].method \in Reads
              /\ \E ttl : CacheInsert(req[r].path, req[r].reply.body, ttl)
    PROVE  Allowed
<1> DEFINE b == req[r].reply.body
           p == req[r].path
           res == [kind |-> kind, body |-> b]
<1>1. b \in Body /\ r \in Reqs
  BY AnsweredOk DEF TypeOK, ReqType
<1>2. res \in Result /\ res.kind \in BodyKinds /\ res.body = b /\ Finish(r, res)
  BY <1>1 DEF Result
<1> HIDE DEF res
<1>3. AbsAsks' = [AbsAsks EXCEPT ![r] =
            [path |-> p, read |-> req[r].method \in Reads,
             got |-> AbsBody(b), done |-> TRUE]]
  BY <1>2, FinishAsk
<1>4. /\ Contract!Open(r) /\ AbsAsks[r].got = AbsBody(b)
      /\ AbsAsks[r].got # Contract!Nothing /\ AbsAsks[r].path = p
      /\ AbsAsks[r].read <=> req[r].method \in Reads
  BY OpenAsk
<1>5. AbsAsks' = [AbsAsks EXCEPT ![r].done = TRUE]
  BY <1>3, <1>4, AskEnds
<1>6. ver' = ver /\ AbsPurges' = AbsPurges
  BY DEF AbsPurges
<1>7. CASE UNCHANGED store
  <2>1. AbsEntries' = AbsEntries
    BY <1>7, EntriesUnchanged
  <2>2. Contract!Deliver(r)
    BY <1>4, <1>5, <1>6, <2>1 DEF Contract!Deliver
  <2>3. QED
    BY <1>1, <2>2 DEF Allowed, Contract!Next
<1>8. ASSUME req[r].method \in Reads, NEW ttl, CacheInsert(p, b, ttl), store' # store
      PROVE  Allowed
  <2>1. /\ DOMAIN store' = DOMAIN store \cup {p}
        /\ store'[p].body = b /\ store'[p].before = {}
        /\ \A k \in DOMAIN store : k # p => store'[k] = store[k]
    BY <1>8 DEF CacheInsert
  <2>2. AbsEntries' = [k \in DOMAIN store' |->
                         [body |-> AbsBody(store'[k].body), before |-> store'[k].before]]
    BY DEF AbsEntries, AbsBody
  <2>3. AbsEntries' = [k \in DOMAIN AbsEntries \cup {p} |->
                         IF k = p THEN [body |-> AbsBody(b), before |-> {}]
                         ELSE AbsEntries[k]]
    BY <2>1, <2>2 DEF AbsEntries
  <2>4. AbsEntries' = [k \in DOMAIN AbsEntries \cup {AbsAsks[r].path} |->
                         IF k = AbsAsks[r].path
                         THEN [body |-> AbsAsks[r].got, before |-> {}]
                         ELSE AbsEntries[k]]
    BY <1>4, <2>3
  <2>5. Contract!Deliver(r)
    BY <1>4, <1>5, <1>6, <1>8, <2>4 DEF Contract!Deliver
  <2>6. QED
    BY <1>1, <2>5 DEF Allowed, Contract!Next
<1>9. QED
  BY <1>7, <1>8

LEMMA ServiceStepAllowed ==
    ASSUME TypeOK, RequestsFit, UNCHANGED adm, NEW r \in Reqs, ServiceStep(r)
    PROVE  Allowed
<1>1. CASE Lookup(r)
  BY <1>1, LookupAllowed
<1>2. CASE FillAndAnswer(r)
  <2> DEFINE b == req[r].reply.body
             kind == IF EtagMatches(req[r].tag, b) THEN "NotModified" ELSE "Fresh"
  <2>1. kind \in BodyKinds
    BY DEF BodyKinds
  <2>2. /\ r \in DOMAIN req /\ req[r].pc = "fetch" /\ req[r].reply.status = "ok"
        /\ req[r].method \in Reads /\ ver' = ver
        /\ Finish(r, [kind |-> kind, body |-> b])
        /\ UNCHANGED store \/ \E ttl : CacheInsert(req[r].path, b, ttl)
    BY <1>2 DEF FillAndAnswer, At
  <2> HIDE DEF kind
  <2>3. QED
    BY <2>1, <2>2, DeliverAllowed
<1>3. CASE Forward(r)
  <2>1. "Forwarded" \in BodyKinds
    BY DEF BodyKinds
  <2>2. QED
    BY <1>3, <2>1, DeliverAllowed DEF Forward, At
<1>4. CASE TryFallback(r)
  <2>1. /\ r \in DOMAIN req /\ req[r].pc = "fetch" /\ req[r].reply = Failed
        /\ UNCHANGED <<ver, store>> /\ NextOrigin(r)
    BY <1>4 DEF TryFallback, At
  <2>2. req[r] \in Request /\ req[r].result = NoResult
    BY <2>1, FitsOne DEF Underway
  <2>3. Failed.status # "ok" /\ Waiting.status # "ok"
    BY DEF Failed, Waiting
  <2>4. CASE req[r].idx < Len(Route[req[r].path])
    <3>1. req' = [req EXCEPT ![r] = NextTurn(r)]
      BY <2>1, <2>4 DEF NextOrigin, NextTurn
    <3>2. /\ NextTurn(r).path = req[r].path /\ NextTurn(r).method = req[r].method
          /\ NextTurn(r).pc = "fetch" /\ NextTurn(r).reply = Waiting
          /\ NextTurn(r).result = NoResult
      BY <2>1, <2>2 DEF NextTurn, Request
    <3>3. QED
      BY <2>1, <2>2, <2>3, <3>1, <3>2, LoopAllowed
  <2>5. CASE ~(req[r].idx < Len(Route[req[r].path]))
    BY <2>1, <2>3, <2>5, RefuseAllowed DEF NextOrigin
  <2>6. QED
    BY <2>4, <2>5
<1>5. QED
  BY <1>1, <1>2, <1>3, <1>4 DEF ServiceStep

\* An origin's answer changes what the request has obtained, and nothing else.
LEMMA AnswerAsk ==
    ASSUME TypeOK, RequestsFit, NEW r \in DOMAIN req, NEW reply \in Reply, Answer(r, reply)
    PROVE  \E q : /\ req' = [req EXCEPT ![r] = q]
                  /\ q.path = req[r].path /\ q.method = req[r].method
                  /\ q.pc = "fetch" /\ q.reply = reply /\ q.result = NoResult
<1> DEFINE log == Append(req[r].log, [origin |-> CurrentOrigin(r), ok |-> reply.status = "ok"])
           q == [req[r] EXCEPT !.reply = reply, !.log = log]
<1>1. req[r] \in Request /\ req[r].pc = "fetch" /\ req[r].result = NoResult
  BY FitsOne DEF Answer, At, Underway
<1>2. req' = [req EXCEPT ![r] = q]
  BY DEF Answer
<1> HIDE DEF log
<1>3. /\ q.path = req[r].path /\ q.method = req[r].method
      /\ q.pc = "fetch" /\ q.reply = reply /\ q.result = NoResult
  BY <1>1 DEF Request
<1> HIDE DEF q
<1>4. QED
  BY <1>2, <1>3

LEMMA OriginStepAllowed ==
    ASSUME TypeOK, RequestsFit, UNCHANGED adm, NEW r \in Reqs, OriginStep(r)
    PROVE  Allowed
<1>1. /\ r \in DOMAIN req /\ req[r].pc = "fetch" /\ req[r].reply = Waiting
      /\ UNCHANGED <<ver, store>>
  BY DEF OriginStep, OriginOk, OriginErr, OriginHang, Answer, At
<1>2. /\ req[r] \in Request /\ req[r].result = NoResult
      /\ req[r].path \in Paths /\ req[r].idx \in DOMAIN Route[req[r].path]
  BY <1>1, FitsOne DEF Underway, TypeOK, IdxInRoute
<1>3. Waiting.status # "ok" /\ Failed.status # "ok" /\ Hung.status # "ok"
  BY DEF Waiting, Failed, Hung
<1>4. CASE OriginOk(r)
  <2> DEFINE p == req[r].path
             o == CurrentOrigin(r)
             b == ContentOf(o, p, UpstreamMethod(r))
             reply == [status |-> "ok", body |-> b]
  <2>1. o \in Origins /\ o \in RouteSources[p]
    BY <1>2, ServiceAssumption DEF CurrentOrigin, RouteSources
  <2>2. b \in Body /\ reply \in Reply
    BY <1>2, <2>1, ContentType DEF Reply, TypeOK
  <2>3. AbsBody(b) = Contract!Held(o, p)
    BY DEF AbsBody, ContentOf, Contract!Held
  <2>4. Answer(r, reply)
    BY <1>4 DEF OriginOk
  <2>5. reply.status = "ok" /\ reply.body = b
    OBVIOUS
  <2> HIDE DEF b, reply
  <2>6. PICK q : /\ req' = [req EXCEPT ![r] = q]
                 /\ q.path = p /\ q.method = req[r].method
                 /\ q.pc = "fetch" /\ q.reply = reply /\ q.result = NoResult
    BY <1>1, <2>2, <2>4, AnswerAsk
  <2>7. AbsAsks' = [AbsAsks EXCEPT ![r] = AbsAsk(q)]
    BY <1>1, <2>6, AsksUpdate DEF TypeOK
  <2>8. Got(q) = Contract!Held(o, p)
    BY <2>3, <2>5, <2>6 DEF Got
  <2>9. AbsAsks' = [AbsAsks EXCEPT ![r].got = Contract!Held(o, p)]
    <3> DEFINE read == req[r].method \in Reads
               done == req[r].pc = "done"
    <3>1. AbsAsks[r] = [path |-> p, read |-> read, got |-> Got(req[r]), done |-> done]
      BY <1>1 DEF AbsAsks
    <3>2. AbsAsk(q) = [path |-> p, read |-> read, got |-> Contract!Held(o, p), done |-> done]
      BY <1>1, <2>6, <2>8 DEF AbsAsk
    <3> HIDE DEF read, done
    <3>3. AbsAsk(q) = [AbsAsks[r] EXCEPT !.got = Contract!Held(o, p)]
      BY <3>1, <3>2
    <3>4. AbsAsks' = [AbsAsks EXCEPT ![r] = [AbsAsks[r] EXCEPT !.got = Contract!Held(o, p)]]
      BY <2>7, <3>3, Zenon
    <3>5. QED
      BY <3>4
  <2>10. /\ Contract!Open(r) /\ AbsAsks[r].got = Contract!Nothing /\ AbsAsks[r].path = p
    BY <1>1, <1>3, OpenAsk
  <2>11. AbsEntries' = AbsEntries /\ AbsPurges' = AbsPurges
    BY <1>1, EntriesUnchanged DEF AbsPurges
  <2>12. Contract!Obtain(r)
    BY <1>1, <2>1, <2>9, <2>10, <2>11 DEF Contract!Obtain
  <2>13. QED
    BY <2>12 DEF Allowed, Contract!Next
<1>5. CASE OriginErr(r)
  <2>1. Failed \in Reply /\ Answer(r, Failed)
    BY <1>5, ReplyTypes DEF OriginErr
  <2>2. PICK q : /\ req' = [req EXCEPT ![r] = q]
                 /\ q.path = req[r].path /\ q.method = req[r].method
                 /\ q.pc = "fetch" /\ q.reply = Failed /\ q.result = NoResult
    BY <1>1, <2>1, AnswerAsk
  <2>3. QED
    BY <1>1, <1>2, <1>3, <2>2, LoopAllowed
<1>6. CASE OriginHang(r)
  <2> DEFINE q == [req[r] EXCEPT !.reply = Hung]
  <2>1. req' = [req EXCEPT ![r] = q]
    BY <1>6 DEF OriginHang
  <2>2. /\ q.path = req[r].path /\ q.method = req[r].method
        /\ q.pc = "fetch" /\ q.reply = Hung /\ q.result = NoResult
    BY <1>1, <1>2 DEF Request
  <2> HIDE DEF q
  <2>3. QED
    BY <1>1, <1>2, <1>3, <2>1, <2>2, LoopAllowed
<1>7. QED
  BY <1>4, <1>5, <1>6 DEF OriginStep

LEMMA ClientStepAllowed ==
    ASSUME TypeOK, RequestsFit, UNCHANGED adm, NEW r \in Reqs, ClientStep(r)
    PROVE  Allowed
<1>1. /\ UNCHANGED <<ver, store>>
      /\ ver' = ver /\ AbsEntries' = AbsEntries /\ AbsPurges' = AbsPurges
  BY EntriesUnchanged DEF ClientStep, Receive, ReadBody, RejectBody, Respond, Disconnect, AbsPurges
<1>2. ASSUME NEW m \in Methods, NEW p \in Paths, NEW t \in Tags, Receive(r, m, p, t)
      PROVE  Allowed
  <2> DEFINE q == [method |-> m, path |-> p, tag |-> t,
                   pc |-> IF m \in Reads THEN "lookup" ELSE "body",
                   idx |-> 0, reply |-> Waiting, log |-> <<>>,
                   result |-> NoResult]
             read == m \in Reads
  <2>1. /\ r \notin DOMAIN req
        /\ req' = [x \in DOMAIN req \cup {r} |-> IF x # r THEN req[x] ELSE q]
    BY <1>2 DEF Receive
  <2>2. /\ q.path = p /\ q.method = m /\ q.pc # "done"
        /\ q.reply = Waiting /\ q.result = NoResult
    OBVIOUS
  <2> HIDE DEF q
  <2>3. Got(q) = [held |-> FALSE]
    BY <2>2 DEF Got, Waiting, NoResult, BodyKinds
  <2>4. AbsAsk(q) = [path |-> p, read |-> read, got |-> Contract!Nothing, done |-> FALSE]
    BY <2>2, <2>3 DEF AbsAsk, Contract!Nothing
  <2>5. AbsAsks' = [x \in DOMAIN req' |-> AbsAsk(req'[x])]
    BY DEF AbsAsks, AbsAsk, Got, AbsBody, Reads, BodyKinds
  <2>6. AbsAsks' = [x \in DOMAIN AbsAsks \cup {r} |->
                      IF x # r THEN AbsAsks[x] ELSE AbsAsk(q)]
    BY <2>1, <2>5, AsksTable
  <2> HIDE DEF read
  <2>7. AbsAsks' = [x \in DOMAIN AbsAsks \cup {r} |->
                      IF x # r THEN AbsAsks[x] ELSE
                      [path |-> p, read |-> read, got |-> Contract!Nothing, done |-> FALSE]]
    BY <2>4, <2>6, Zenon
  <2>8. r \notin DOMAIN AbsAsks /\ read \in BOOLEAN
    BY <2>1, AsksTable DEF read
  <2>9. Contract!Ask(r, p, read)
    BY <1>1, <2>7, <2>8 DEF Contract!Ask
  <2>10. QED
    BY <2>8, <2>9 DEF Allowed, Contract!Next
<1>3. CASE ReadBody(r)
  BY <1>1, <1>3, BeginFetchAllowed DEF ReadBody, At
<1>4. CASE RejectBody(r)
  <2>1. r \in DOMAIN req /\ req[r].pc = "body" /\ Finish(r, TooLarge)
    BY <1>4 DEF RejectBody, At
  <2>2. req[r].reply.status # "ok"
    BY <2>1, FitsOne DEF Underway, Waiting
  <2>3. QED
    BY <1>1, <2>1, <2>2, RefuseAllowed
<1>5. CASE Respond(r) \/ Disconnect(r)
  <2>1. r \in DOMAIN req /\ req' = Restrict(req, DOMAIN req \ {r})
    BY <1>5 DEF Respond, Disconnect, At
  <2>2. DOMAIN req' = DOMAIN req \ {r} /\ \A x \in DOMAIN req' : req'[x] = req[x]
    BY <2>1 DEF Restrict
  <2>3. AbsAsks' = [x \in DOMAIN req' |-> AbsAsk(req'[x])]
    BY DEF AbsAsks, AbsAsk, Got, AbsBody, Reads, BodyKinds
  <2>4. r \in DOMAIN AbsAsks /\ AbsAsks' = Restrict(AbsAsks, DOMAIN AbsAsks \ {r})
    BY <2>1, <2>2, <2>3, AsksTable DEF Restrict
  <2>5. Contract!Leave(r)
    BY <1>1, <2>4 DEF Contract!Leave, Contract!Restrict, Restrict
  <2>6. QED
    BY <2>5 DEF Allowed, Contract!Next
<1>6. QED
  BY <1>2, <1>3, <1>4, <1>5 DEF ClientStep

\* A purge reports success: it has taken out some of its target, and nothing
\* older than itself is left of it.
LEMMA PurgeEndAllowed ==
    ASSUME TypeOK, UNCHANGED <<ver, req>>, NEW a \in DOMAIN adm,
           ~adm[a].replied, ReplyOk(a),
           NEW kept \in SUBSET DOMAIN store, store' = Restrict(store, kept),
           DOMAIN store \ adm[a].target \subseteq kept,
           \A k \in kept \cap adm[a].target : a \notin store[k].before
    PROVE  Allowed
<1>1. /\ ver' = ver /\ AbsAsks' = AbsAsks
      /\ AbsEntries' = Contract!Restrict(AbsEntries, kept)
      /\ AbsPurges' = [AbsPurges EXCEPT ![a].done = TRUE]
  BY EntriesRestrict, ReplyPurge DEF AbsAsks, Got, AbsBody, BodyKinds, Reads, Contract!Restrict, Restrict
<1>2. /\ a \in Admins /\ a \in DOMAIN AbsPurges
      /\ AbsPurges[a].target = adm[a].target /\ ~AbsPurges[a].done
  BY DEF TypeOK, AdmType, AbsPurges
<1>3. /\ kept \in SUBSET DOMAIN AbsEntries
      /\ DOMAIN AbsEntries \ AbsPurges[a].target \subseteq kept
      /\ \A p \in kept \cap AbsPurges[a].target : a \notin AbsEntries[p].before
  BY <1>2, EntriesTable
<1>4. Contract!PurgeEnd(a)
  BY <1>1, <1>2, <1>3 DEF Contract!PurgeEnd
<1>5. QED
  BY <1>2, <1>4 DEF Allowed, Contract!Next

LEMMA ForgetAllowed ==
    ASSUME UNCHANGED <<ver, req>>, AbsPurges' = AbsPurges,
           NEW kept \in SUBSET DOMAIN AbsEntries,
           AbsEntries' = Contract!Restrict(AbsEntries, kept)
    PROVE  Allowed
<1>1. ver' = ver /\ AbsAsks' = AbsAsks
  BY DEF AbsAsks, Got, AbsBody, BodyKinds, Reads
<1>2. Contract!Forget
  BY <1>1 DEF Contract!Forget
<1>3. QED
  BY <1>2 DEF Allowed, Contract!Next

LEMMA PurgeStepAllowed ==
    ASSUME TypeOK, PurgeProgress, OnTarget, UNCHANGED req, NEW a \in Admins, PurgeStep(a)
    PROVE  Allowed
<1>1. /\ a \in DOMAIN adm /\ adm[a] \in Purge /\ ver' = ver /\ ~adm[a].replied
  BY DEF PurgeStep, PurgePath, PurgeAll, PrefixDone, ScanKey, RemoveKey, Running, TypeOK, AdmType
<1>3. CASE PurgePath(a)
  <2>1. PICK k \in adm[a].target : store' = Restrict(store, DOMAIN store \ {k})
    BY <1>3 DEF PurgePath, CacheRemove
  <2>2. adm[a].target = {k}
    BY <1>1, <1>3, <2>1 DEF PurgePath, Running, PurgeProgress
  <2>3. QED
    BY <1>1, <1>3, <2>1, <2>2, PurgeEndAllowed DEF PurgePath
<1>4. CASE PurgeAll(a)
  <2>1. store' = Restrict(store, {}) /\ {} \in SUBSET DOMAIN store
    BY <1>4 DEF PurgeAll, CacheClear
  <2>2. DOMAIN store \subseteq adm[a].target
    BY <1>1, <1>4 DEF PurgeAll, Running, TypeOK, StoreType, OnTarget
  <2>3. QED
    BY <1>1, <1>4, <2>1, <2>2, PurgeEndAllowed DEF PurgeAll
<1>5. CASE PrefixDone(a)
  <2>1. store' = Restrict(store, DOMAIN store)
    BY <1>5 DEF PrefixDone, Restrict, TypeOK, StoreType
  <2>2. \A k \in DOMAIN store : k \in adm[a].target => a \notin store[k].before
    BY <1>1, <1>5 DEF PrefixDone, Running, PurgeProgress, TypeOK, StoreType
  <2>3. QED
    BY <1>1, <1>5, <2>1, <2>2, PurgeEndAllowed DEF PrefixDone
<1>6. ASSUME NEW k \in Paths, ScanKey(a, k)
      PROVE  Allowed
  <2> DEFINE q == [adm[a] EXCEPT
                     !.visited = @ \cup {k},
                     !.keysToRemove = IF Cached(k) /\ k \in adm[a].target THEN @ \cup {k} ELSE @]
  <2>1. adm' = [adm EXCEPT ![a] = q]
    BY <1>6 DEF ScanKey
  <2>2. q.target = adm[a].target /\ q.replied = adm[a].replied
    BY <1>1 DEF Purge
  <2> HIDE DEF q
  <2>3. AbsPurges' = AbsPurges
    BY <1>1, <2>1, <2>2, SamePurge
  <2>4. AbsEntries' = AbsEntries /\ AbsAsks' = AbsAsks
    BY <1>6, EntriesUnchanged DEF ScanKey, AbsAsks, Got, AbsBody, BodyKinds, Reads
  <2>5. QED
    BY <1>1, <2>3, <2>4 DEF Allowed, AbsVars
<1>7. ASSUME NEW k \in Paths, RemoveKey(a, k)
      PROVE  Allowed
  <2> DEFINE q == [adm[a] EXCEPT !.keysToRemove = @ \ {k}]
             kept == DOMAIN store \ {k}
  <2>1. adm' = [adm EXCEPT ![a] = q] /\ store' = Restrict(store, kept)
    BY <1>7 DEF RemoveKey, CacheRemove
  <2>2. q.target = adm[a].target /\ q.replied = adm[a].replied
    BY <1>1 DEF Purge
  <2> HIDE DEF q
  <2>3. AbsPurges' = AbsPurges
    BY <1>1, <2>1, <2>2, SamePurge
  <2>4. AbsEntries' = Contract!Restrict(AbsEntries, kept) /\ kept \in SUBSET DOMAIN AbsEntries
    BY <2>1, EntriesRestrict, EntriesTable DEF Restrict, Contract!Restrict
  <2>5. QED
    BY <1>1, <2>3, <2>4, ForgetAllowed
<1>8. QED
  BY <1>3, <1>4, <1>5, <1>6, <1>7 DEF PurgeStep

LEMMA OperatorStepAllowed ==
    ASSUME TypeOK, UNCHANGED req, NEW a \in Admins, OperatorStep(a)
    PROVE  Allowed
<1>1. ver' = ver /\ AbsAsks' = AbsAsks
  BY DEF OperatorStep, StartPurge, Close, AbsAsks, Got, AbsBody, BodyKinds, Reads
<1>2. ASSUME NEW op, NEW T \in SUBSET Paths, StartPurge(a, op, T)
      PROVE  Allowed
  <2> DEFINE q == [op |-> op, target |-> T, visited |-> {}, keysToRemove |-> {},
                   replied |-> FALSE, asOf |-> ver]
  <2>1. /\ a \notin DOMAIN adm
        /\ adm' = [x \in DOMAIN adm \cup {a} |-> IF x # a THEN adm[x] ELSE q]
    BY <1>2 DEF StartPurge
  <2>2. q.target = T /\ q.replied = FALSE
    OBVIOUS
  <2> HIDE DEF q
  <2>3. /\ a \notin DOMAIN AbsPurges
        /\ AbsPurges' = [x \in DOMAIN AbsPurges \cup {a} |->
                           IF x # a THEN AbsPurges[x] ELSE [target |-> T, done |-> FALSE]]
    BY <2>1, <2>2 DEF AbsPurges
  <2>4. AbsEntries' = [p \in DOMAIN AbsEntries |->
                         [AbsEntries[p] EXCEPT !.before = @ \cup {a}]]
    <3>1. MarkOlder(a)
      BY <1>2 DEF StartPurge
    <3>2. QED
      BY <3>1, EntriesMark DEF TypeOK
  <2>5. Contract!PurgeBegin(a, T)
    BY <1>1, <2>3, <2>4 DEF Contract!PurgeBegin
  <2>6. QED
    BY <2>5 DEF Allowed, Contract!Next
<1>3. CASE Close(a)
  <2>1. a \in DOMAIN adm /\ adm[a].replied /\ Unmark(a)
        /\ adm' = Restrict(adm, DOMAIN adm \ {a})
    BY <1>3 DEF Close
  <2>2. /\ a \in DOMAIN AbsPurges /\ AbsPurges[a].done
        /\ AbsPurges' = Contract!Restrict(AbsPurges, DOMAIN AbsPurges \ {a})
    BY <2>1 DEF AbsPurges, Restrict, Contract!Restrict
  <2>3. AbsEntries' = [p \in DOMAIN AbsEntries |->
                         [AbsEntries[p] EXCEPT !.before = @ \ {a}]]
    BY <2>1, EntriesUnmark DEF TypeOK
  <2>4. Contract!PurgeClose(a)
    BY <1>1, <2>2, <2>3 DEF Contract!PurgeClose
  <2>5. QED
    BY <2>4 DEF Allowed, Contract!Next
<1>4. QED
  BY <1>2, <1>3, AdminAssumption DEF OperatorStep

LEMMA CacheNextAllowed ==
    ASSUME TypeOK, UNCHANGED <<ver, req, adm>>, CacheNext
    PROVE  Allowed
<1>1. AbsPurges' = AbsPurges
  BY DEF AbsPurges
<1>2. CASE Tick
  <2> DEFINE alive == {k \in DOMAIN store : store[k].age + 1 < DefaultTtl}
  <2>1. \A k \in DOMAIN store :
           /\ [store[k] EXCEPT !.age = @ + 1].body = store[k].body
           /\ [store[k] EXCEPT !.age = @ + 1].before = store[k].before
    BY DEF TypeOK, StoreType, Entry
  <2>2. store' = [k \in alive |-> [store[k] EXCEPT !.age = @ + 1]]
    BY <1>2 DEF Tick
  <2>3. /\ alive \subseteq DOMAIN store /\ DOMAIN store' = alive
        /\ \A k \in alive : /\ store'[k].body = store[k].body
                             /\ store'[k].before = store[k].before
    BY <2>1, <2>2
  <2> HIDE DEF alive
  <2>4. AbsEntries' = [k \in DOMAIN store' |->
                         [body |-> AbsBody(store'[k].body), before |-> store'[k].before]]
    BY DEF AbsEntries, AbsBody
  <2>5. AbsEntries' = Contract!Restrict(AbsEntries, alive) /\ alive \in SUBSET DOMAIN AbsEntries
    BY <2>3, <2>4 DEF AbsEntries, Contract!Restrict
  <2>6. QED
    BY <1>1, <2>5, ForgetAllowed
<1>3. ASSUME NEW k \in Paths, Evict(k)
      PROVE  Allowed
  <2> DEFINE kept == DOMAIN store \ {k}
  <2>1. store' = Restrict(store, kept)
    BY <1>3 DEF Evict, CacheRemove
  <2>2. AbsEntries' = Contract!Restrict(AbsEntries, kept) /\ kept \in SUBSET DOMAIN AbsEntries
    BY <2>1, EntriesRestrict, EntriesTable DEF Restrict, Contract!Restrict
  <2>3. QED
    BY <1>1, <2>2, ForgetAllowed
<1>4. QED
  BY <1>2, <1>3 DEF CacheNext

LEMMA DeployAllowed ==
    ASSUME UNCHANGED <<store, req, adm>>, DeployNext
    PROVE  Allowed
<1>1. /\ AbsEntries' = AbsEntries /\ AbsPurges' = AbsPurges /\ AbsAsks' = AbsAsks
  BY EntriesUnchanged DEF AbsPurges, AbsAsks, Got, AbsBody, BodyKinds, Reads
<1>2. PICK o \in Origins : ver' = [ver EXCEPT ![o] = @ + 1]
  BY DEF DeployNext, Deploy
<1>3. Contract!Change(o)
  BY <1>1, <1>2 DEF Contract!Change
<1>4. QED
  BY <1>3 DEF Allowed, Contract!Next

\* The server is a correct implementation of what it promises: with all its loops
\* over the origins, its expiry, scans, suspended and dropped futures, it does
\* nothing that the contract does not allow, for any number of requests, purges,
\* paths and origins.  In particular an answer is what the entry or an origin of
\* its path held at one moment while the request was open.
THEOREM ContractCorrect == Spec => ContractHolds
<1>1. Init => Contract!Init
  BY DEF Init, Contract!Init, AbsEntries, AbsAsks, AbsPurges
<1>2. TypeOK /\ RequestsFit /\ PurgeProgress /\ OnTarget /\ [Next]_vars
         => [Contract!Next]_(Contract!vars)
  <2> SUFFICES ASSUME TypeOK, RequestsFit, PurgeProgress, OnTarget, [Next]_vars
               PROVE  Allowed
    BY DEF Allowed, AbsVars, Contract!vars
  <2>1. CASE RequestNext /\ UNCHANGED adm
    BY <2>1, ServiceStepAllowed, OriginStepAllowed, ClientStepAllowed DEF RequestNext
  <2>2. CASE AdminNext /\ UNCHANGED req
    BY <2>2, PurgeStepAllowed, OperatorStepAllowed DEF AdminNext
  <2>3. CASE CacheNext /\ UNCHANGED <<ver, req, adm>>
    BY <2>3, CacheNextAllowed
  <2>4. CASE DeployNext /\ UNCHANGED <<store, req, adm>>
    BY <2>4, DeployAllowed
  <2>5. CASE UNCHANGED vars
    <3>1. AbsAsks' = AbsAsks
      BY <2>5 DEF vars, AbsAsks, Got, AbsBody, BodyKinds, Reads
    <3>2. QED
      BY <2>5, <3>1, NothingChanges DEF vars
  <2>6. QED
    BY <2>1, <2>2, <2>3, <2>4, <2>5 DEF Next
<1>3. QED
  BY <1>1, <1>2, TypeCorrect, ServiceCorrect, ProgressCorrect, OnTargetInv, PTL
  DEF Spec, ContractHolds, Contract!Spec, RequestsFit
=============================================================================
