----------------------------- MODULE CdnService -----------------------------
(***************************************************************************)
(* One HTTP request from the handler to its answer:                        *)
(* presentation/http/handler.rs and application/cdn_service.rs.            *)
(*                                                                         *)
(* Every request is a future of its own; the requests interleave at their  *)
(* await points, which are the steps below: reading the request body, the  *)
(* cache lookup, and each origin's fetch.  What the code does between two  *)
(* of them is one action.  req is a function whose domain is the set of    *)
(* requests in flight; a finished or dropped future leaves it.             *)
(*                                                                         *)
(* The field log of a request is auxiliary: what the origins answered to   *)
(* this request, in the order in which they answered.                      *)
(***************************************************************************)
EXTENDS CdnCache, Sequences

CONSTANTS
    Reqs,           \* identities of the concurrent requests
    Methods,        \* the HTTP methods the clients use
    Tags,           \* the If-None-Match headers they use, each a set of at most one body
    Route,          \* Route[p]: the origins of the route that matches p, in fallback order
    CacheTtl        \* CacheTtl[o]: origins[..].cache_ttl

ASSUME ServiceAssumption ==
    /\ Tags \subseteq SUBSET Body
    /\ Route \in [Paths -> Seq(Origins)]
    /\ CacheTtl \in [Origins -> Nat]

VARIABLE req        \* a function from the requests in flight to their state

Waiting == [status |-> "none"]
Failed == [status |-> "err"]
Hung == [status |-> "hung"]
Reply == [status : {"ok"}, body : Body] \cup {Waiting, Failed, Hung}

\* FetchResult, and the handler's own early return for an oversized body.
\* The body of a NotModified is auxiliary: the answer it stands for.
NoResult == [kind |-> "None"]
NotFound == [kind |-> "NotFound"]
TooLarge == [kind |-> "TooLarge"]
BodyKinds == {"Cached", "Fresh", "NotModified", "Forwarded"}
Result == [kind : BodyKinds, body : Body] \cup {NoResult, NotFound, TooLarge}

Request ==
    [method : Methods, path : Paths, tag : SUBSET Body,
     pc : {"body", "lookup", "fetch", "done"},
     idx : Nat, reply : Reply,
     log : Seq([origin : Origins, ok : BOOLEAN]),
     result : Result]

ReqType == DOMAIN req \subseteq Reqs /\ req \in [DOMAIN req -> Request]

IdxInRoute ==
    \A r \in DOMAIN req : req[r].pc = "fetch" => req[r].idx \in DOMAIN Route[req[r].path]

At(r, pc) == r \in DOMAIN req /\ req[r].pc = pc

\* Mutant: every If-None-Match matches.
AnyTagMatches(tag, b) == tag # {}

\* etag_matches: no header never matches.
EtagMatches(tag, b) == b \in tag

Finish(r, res) ==
    req' = [req EXCEPT ![r].pc = "done", ![r].reply = Waiting, ![r].result = res]

\* match_route, then the first turn of the loop over the origins.
BeginFetch(r) ==
    IF Route[req[r].path] = <<>>
    THEN Finish(r, NotFound)
    ELSE req' = [req EXCEPT ![r].pc = "fetch", ![r].idx = 1]

\* Mutant: one turn too many.
NextOriginPastEnd(r) ==
    IF req[r].idx <= Len(Route[req[r].path])
    THEN req' = [req EXCEPT ![r].idx = @ + 1, ![r].reply = Waiting]
    ELSE Finish(r, NotFound)

\* Mutant: one turn too few.
NextOriginTooFew(r) ==
    IF req[r].idx + 1 < Len(Route[req[r].path])
    THEN req' = [req EXCEPT ![r].idx = @ + 1, ![r].reply = Waiting]
    ELSE Finish(r, NotFound)

\* Mutant: the error of the last origin is taken for that of the next.
NextOriginStale(r) ==
    IF req[r].idx < Len(Route[req[r].path])
    THEN req' = [req EXCEPT ![r].idx = @ + 1]
    ELSE Finish(r, NotFound)

\* Mutant: nothing after the loop.
NextOriginNoEnd(r) ==
    IF req[r].idx < Len(Route[req[r].path])
    THEN req' = [req EXCEPT ![r].idx = @ + 1, ![r].reply = Waiting]
    ELSE UNCHANGED req

\* The Err arm of the loop: the next origin, or the end of the loop.
NextOrigin(r) ==
    IF req[r].idx < Len(Route[req[r].path])
    THEN req' = [req EXCEPT ![r].idx = @ + 1, ![r].reply = Waiting]
    ELSE Finish(r, NotFound)

CurrentOrigin(r) == Route[req[r].path][req[r].idx]

\* Mutant: the client's method goes to the origin, HEAD too.
UpstreamMethodOfClient(r) == req[r].method

\* fetch_content_cached always asks its origins with OriginRequest::get;
\* forward_to_origin passes the client's method on.
UpstreamMethod(r) == IF req[r].method \in Reads THEN "GET" ELSE req[r].method

-----------------------------------------------------------------------------
(* The handler.                                                            *)

\* A client's validator is the tag of a body that some origin has produced.
Receive(r, m, p, t) ==
    /\ r \notin DOMAIN req
    /\ \A b \in t : b.ver <= ver[b.origin]
    /\ req' = [x \in DOMAIN req \cup {r} |->
                 IF x # r THEN req[x] ELSE
                 [method |-> m, path |-> p, tag |-> t,
                  pc |-> IF m \in Reads THEN "lookup" ELSE "body",
                  idx |-> 0, reply |-> Waiting, log |-> <<>>,
                  result |-> NoResult]]
    /\ UNCHANGED <<ver, store>>

ReadBody(r) ==
    /\ At(r, "body")
    /\ BeginFetch(r)
    /\ UNCHANGED <<ver, store>>

\* Longer than max_body_size, or the upload broke off: both are a 413.
RejectBody(r) ==
    /\ At(r, "body")
    /\ Finish(r, TooLarge)
    /\ UNCHANGED <<ver, store>>

\* The answer is written and the future ends.
Respond(r) ==
    /\ At(r, "done")
    /\ req' = Restrict(req, DOMAIN req \ {r})
    /\ UNCHANGED <<ver, store>>

\* The client disconnects: the server drops the future at its await point.
Disconnect(r) ==
    /\ r \in DOMAIN req /\ ~At(r, "done")
    /\ req' = Restrict(req, DOMAIN req \ {r})
    /\ UNCHANGED <<ver, store>>

-----------------------------------------------------------------------------
(* fetch_content_cached and forward_to_origin.                             *)

\* Mutant: a hit starts the time to live anew.
LookupTouching(r) ==
    /\ At(r, "lookup")
    /\ LET p == req[r].path IN
       IF Cached(p)
       THEN /\ Finish(r, [kind |-> "Cached", body |-> store[p].body])
            /\ store' = [store EXCEPT ![p].age = 0]
       ELSE BeginFetch(r) /\ UNCHANGED store
    /\ UNCHANGED ver

Lookup(r) ==
    /\ At(r, "lookup")
    /\ LET p == req[r].path IN
       IF Cached(p)
       THEN LET b == store[p].body IN
            Finish(r, [kind |-> IF EtagMatches(req[r].tag, b)
                                THEN "NotModified" ELSE "Cached",
                       body |-> b])
       ELSE BeginFetch(r)
    /\ UNCHANGED <<ver, store>>

\* Origin::fetch answers.  A supported request may fail for any reason
\* (missing file, refused connection, status other than 2xx, broken body).
Answer(r, reply) ==
    /\ At(r, "fetch") /\ req[r].reply = Waiting
    /\ req' = [req EXCEPT ![r].reply = reply,
                          ![r].log = Append(@, [origin |-> CurrentOrigin(r),
                                                ok |-> reply.status = "ok"])]
    /\ UNCHANGED <<ver, store>>

OriginOk(r) ==
    /\ At(r, "fetch")
    /\ LET o == CurrentOrigin(r)
           m == UpstreamMethod(r)
       IN /\ Supports(o, m)
          /\ Answer(r, [status |-> "ok", body |-> ContentOf(o, req[r].path, m)])

OriginErr(r) == Answer(r, Failed)

\* The HTTP client has no timeout: a remote origin may never answer.
OriginHang(r) ==
    /\ At(r, "fetch") /\ req[r].reply = Waiting
    /\ CurrentOrigin(r) \notin LocalOrigins
    /\ Supports(CurrentOrigin(r), UpstreamMethod(r))
    /\ req' = [req EXCEPT ![r].reply = Hung]
    /\ UNCHANGED <<ver, store>>

\* fetch_content_cached goes on with a successful answer.
FillAndAnswer(r) ==
    /\ At(r, "fetch") /\ req[r].reply.status = "ok" /\ req[r].method \in Reads
    /\ LET b == req[r].reply.body
           p == req[r].path
           ttl == CacheTtl[CurrentOrigin(r)]
       IN /\ IF ttl > 0 THEN CacheInsert(p, b, ttl) ELSE UNCHANGED store
          /\ Finish(r, [kind |-> IF EtagMatches(req[r].tag, b)
                                 THEN "NotModified" ELSE "Fresh",
                        body |-> b])
    /\ UNCHANGED ver

\* Mutant: a forwarded answer is cached too.
ForwardCaching(r) ==
    /\ At(r, "fetch") /\ req[r].reply.status = "ok" /\ req[r].method \notin Reads
    /\ CacheInsert(req[r].path, req[r].reply.body, CacheTtl[CurrentOrigin(r)])
    /\ Finish(r, [kind |-> "Forwarded", body |-> req[r].reply.body])
    /\ UNCHANGED ver

\* forward_to_origin goes on with a successful answer.
Forward(r) ==
    /\ At(r, "fetch") /\ req[r].reply.status = "ok" /\ req[r].method \notin Reads
    /\ Finish(r, [kind |-> "Forwarded", body |-> req[r].reply.body])
    /\ UNCHANGED <<ver, store>>

\* Either of them goes on with an error.
TryFallback(r) ==
    /\ At(r, "fetch") /\ req[r].reply = Failed
    /\ NextOrigin(r)
    /\ UNCHANGED <<ver, store>>

-----------------------------------------------------------------------------
(* What the client sees of a result.                                       *)

Status(res) ==
    CASE res.kind \in {"Cached", "Fresh", "Forwarded"} -> 200
      [] res.kind = "NotModified" -> 304
      [] res.kind = "NotFound" -> 404
      [] res.kind = "TooLarge" -> 413

XCache(res) ==
    CASE res.kind = "Cached" -> "HIT"
      [] res.kind = "Fresh" -> "MISS"
      [] OTHER -> "absent"
=============================================================================
