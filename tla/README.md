# A TLA+ model of fastcache

fastcache is a caching HTTP proxy in Rust: requests are answered from an in-memory
cache or by the first of a route's origins that succeeds, and an operator purges the
cache over a Unix socket. This directory holds its TLA+ specification, the TLC
configurations that check it on small instances, and machine-checked proofs (TLAPS) of
the properties that matter most for instances of every size. Source lines are quoted
relative to the repository's `src/`, e.g. `application/cdn_service.rs:76`;
`README.md:52` is the repository's README.

## 1. The system

| Component | State | Operations | Interacts with |
|---|---|---|---|
| Origins: `domain/origin.rs`, `infrastructure/origin/{local,remote}.rs` | none of its own: the files below `root`, the server behind `url` | `fetch` | called by CdnService, may fail, be slow, or never answer |
| CdnCache: `domain/cache.rs` | one moka cache, shared by clones | `get`, `insert`, `remove`, `purge_by_prefix`, `clear`, `entry_count`; expiry and eviction by moka | all requests and all admin connections share it |
| CdnService and handler: `application/cdn_service.rs`, `presentation/http/handler.rs` | one future per request | GET/HEAD through the cache; other methods forwarded; fallback over the origins | Router, CdnCache, Origins |
| CacheService and admin requests: `application/cache_service.rs`, `presentation/admin/socket_server.rs` | one task per connection | `Purge`, `PurgePrefix`, `PurgeAll`, `Stats` | CdnCache |
| Router: `domain/route.rs`, `build_router` in `presentation/http/server.rs` | the route table, read-only once built | build, sort, `match_route` | built from the configuration, used by CdnService |
| Server lifecycle and admin socket: `run`, `run_servers` in `server.rs`, `socket_server.rs`, `socket_client.rs` | listening sockets, the socket file | start, bind, take over the file, accept; connect, send, read | processes on one host share ports and file |
| Command line: `main.rs`, `presentation/cli.rs` | none | serve, purge, stats | the socket client |
| Rate limiter: tower_governor, configured in `server.rs:92-107` | a time per client address | admit or 429 | in front of everything else |
| Access log: `presentation/http/middleware.rs` | none | one line per answered request, if `RUST_LOG` enables its target | around the handler |
| Configuration: `infrastructure/config.rs` | the file, read once at the start | `load`, defaults | everything `run` sets up |
| Health endpoint, TLS, compression | none | | |

What is hard here, and what makes each component correct:

* **Requests suspend** at every await: reading the body, the cache lookup, each origin's
  fetch. Between a miss and the insert, the content, the cache and the purges of the
  operator move on. A cached entry has to be content of its own path's route, an
  answer has to be about what was asked, fallback has to follow the list.
* **Purges are tasks too**, and the one by prefix is a scan followed by one removal at a
  time, against inserts and other purges. It must remove everything older than
  itself, nothing outside its prefix, and it must end.
* **The cache forgets by itself**: by age counted from the insert, and by size. It has to
  forget outdated content however often this is read.
* **Origins fail in three ways**: with an error, with an answer that is not 2xx (the same
  to the caller), or never, since the HTTP client has no timeout.
* **Processes die** and leave the socket file behind; their successors must start and be
  reachable. Processes may also start side by side, and with configurations that turn out to be
  unusable before or after they have taken something from another process.
* **Files change between the system calls** with which LocalOrigin looks at them, a link that leads to
  the current release may be turned, and a path may come to lead out of the root.
* **Clients share the rate limiter**, which must refuse none of them for what another one does, nor before it
  has used what it is allowed.
* **The route table** depends on the order of the list for equal paths only.

`PROJECT.json` lists every hazard at its line, with the properties aimed at it.

## 2. The modules

    Origin <- CdnCache <- CdnService <-+
                  ^                    +- FastCache <- ContractRefinement <- MCFastCache   (TLC)
                  +---- CacheAdmin <---+      ^           ^  |
                                              |           |  +- INSTANCE CacheContract
                                              |           +---- ContractProofs             (TLAPS)
                                              |                      |
                                              +- FastCacheProofs <- ServiceProofs          (TLAPS)
    Router <- MCRouter, RouterProofs
    Config <- AdminSocket <- MCAdminSocket, AdminSocketProofs
    LocalFile <- LocalFileProofs
    RateLimit <- MCRateLimit, RateLimitProofs

(`A <- B`: B extends A; ContractProofs extends ContractRefinement and ServiceProofs.)

**Origin** An origin entry holds a version number that only the outside world advances
(`Deploy`). A body is the record of its origin, path, version and whether it is complete;
the SHA-256 tag (cut to 8 bytes in `cdn_service.rs:161`) is taken to be injective, so a
body stands for its own tag. `Supports` is the method check of each kind of origin.

**CdnCache** `store` is the function from the cached paths to what `get` can still return.
`CacheInsert` is `insert` with its early return at ttl 0 and the otherwise unused ttl;
`Tick` (expiry) and `Evict` (size) are moka's and may happen whenever they are enabled;
an entry's age counts in ticks from its insert. `before` is auxiliary: the purges that
began while this entry was already cached.

**CdnService** `req` is a function whose domain is the set of requests in flight. The steps
of a request are its awaits: `ReadBody`/`RejectBody`, `Lookup`, one `OriginOk`, `OriginErr`
or `OriginHang` per origin asked, then `FillAndAnswer` (insert, compare the tag, answer),
`Forward`, or `TryFallback` (next turn of the loop, or 404). `Disconnect` drops the
future at any of them. What an origin answers is read at the moment it answers and
used in a later step: that gap is where purges and deployments come in. A future dropped
inside the insert is `FillAndAnswer` followed by `Respond`. `log` is auxiliary.

**CacheAdmin** `adm` is a function from the busy connections to their purge. `PurgePath` and
`PurgeAll` are one moka call each; the purge by prefix is `ScanKey` per key in any order
(that moka's iterator comes to every key cached all along, and sees a key as it is at
that moment, is an assumption about moka), `RemoveKey` per collected key in any order, `PrefixDone`. The client is told of success by
`replied`; `Close` ends the connection. `asOf` is auxiliary.

**FastCache** composes them and holds the properties of the whole server.

**Router** builds the table entry by entry from every configuration (`AddOrigin`), sorts it
(`SortRoutes`: the stable permutation), and answers (`MatchRoute`). Paths are sequences of
characters, compared as in the code; an origin is its number in the list. FastCache
takes the result as its CONSTANT `Route`, one sequence of origins per path.

**CacheContract** is what the server promises, without saying how: a request obtains the content of one
moment, from the cached entry of its path or from an origin of its path, or is refused; only what a read has
obtained becomes an entry; entries are forgotten at any time; a purge that reports success has left nothing of
its target from before it began. There is no fallback loop, entity tag, clock or scan in it.
**ContractRefinement** maps the state of FastCache to it: an entry loses its age, a request its place in the
loop and its tag, a purge its scan. `ContractHolds` is `CacheContract`'s specification under this mapping.

**Config** is the configuration as a function from keys to values: which keys a file must have to
load (`Required`), what the others default to (`DefaultConfig`, `Load`), that a file that does not load is replaced as a whole
(`ConfigOf`), and what must hold for `run` to get as far as its servers (`Usable`: no zero rate or burst, hosts that parse).

**AdminSocket** has the server processes of one host and the commands. A process reads its
configuration once (`Start`); the file may hold something else every time. `exists`, `remove_file` and `bind` are separate
steps between which other processes run; the two TCP ports and the socket are bound in any order, as `select!`
polls its branches; between the three file operations of one process nothing else of that
process runs, as there is no await between them. The first error, also a certificate that does not load, ends the process. A
dead process leaves its file; the kernel closes its sockets (`End`). Another process may then be started in its
place, any number of times. A command connects, sends, and reads one line
with no timeout; one that is interrupted before it has sent anything leaves an empty line, which does not parse (`RejectLine`).
`alone` is auxiliary: no other process has been up since this one was started.

**LocalFile** is one `fetch` of a local file as its system calls: `Canonicalize` and `CheckRoot` (the path and the root, one after the
other), `Stat`, `FindIndex`, `Read`, `Date`. Between any two of them files are written,
removed, turned into a directory with or without an `index.html` or into a link that leads out of the root, or the root is led to another release
(`Switch`), also back to one that it has led to before, and one that it has left is removed. It justifies the single step that Origin
makes of a local fetch. Of the deployments it assumes, since nothing in the code guards against the contrary: a file is put in place by
renaming a finished one over it; its date is that moment (no mtimes are preserved or set back); and a release is not written
while the root leads elsewhere after it has led there. An `index.html` is a file of its own: `local.rs:50-52` does not
resolve it, so one that is itself a link to somewhere else is served, and `index` stands for both. I/O errors without a cause in the files (no more descriptors)
are left out.

**RateLimit** is the limiter in front of everything else (`server.rs:104-106`). This program's own are the configuration (`Interval`: the *seconds* between two
tokens, `server.rs:94-98`), the key (`Bucket`: the address of the connection, the default that `server.rs:94` leaves) and the place of the layer. The algorithm is external: `Arrival`,
`HasToken` and `Admit` are those of governor 0.6.3, the version in `Cargo.lock`, whose source is not in the repository. It keeps one time per address, that of a new address one token ahead of the clock.

Operators whose comment begins with *Mutant* are plausible bugs put in the place of the
definition they stand before; each must make its property fail.

## 3. The runs

| Run | Checks | Shows |
|---|---|---|
| `purges` | `PurgeProgress`, `PurgeLeavesNothingOlder`, `PurgeScope`, `ContractHolds` | two purges of any kind against requests that refill: nothing older is left, they do not rely on each other, they do not exceed their targets |
| `fallback` | `TypeOK`, `RequestInv`, `CachedFromOwnRoute`, `FallbackOrder`, `AnswerIsHonest`, `OnlyReadsFill`, `ContractHolds` | two requests of four methods over routes of two origins, in both orders, and over none |
| `liveness` | `RequestAnswered`, `PurgeAnswered`, `EventuallyFresh` | every request whose origins answer, and every purge, ends; outdated content leaves the cache although older answers may be stored over newer ones |
| `router` | `RouterInv`, `LongestPrefixWins`, `FallbackInListOrder` | all 259 lists of up to three entries over six nested paths |
| `local_file` | `AnswerWasLive`, `FailsForCause`, `AnswersWhatIsServed`, `DateCoversBody` | a fetch among deployments answers as if in one step; only a turned link or a path of another kind can cost the answer, or give one that is not to be served |
| `rate_limit` | `RefusedOverLimit` | nobody is refused for what another address did, nor before it has used a burst |
| `servers` | `TypeOK`, `ServingIsReachable`, `RestartSucceeds`, `OkMeansDone`, `StartEnds`, `CommandEnds` | servers started, killed and started again, also side by side, with usable and unusable configurations, and a command whose answer has to be of its own kind and about what was done |
| `cache_ttl`, `purge_in_flight`, `upstream_url`, `second_server`, `rate_unit` | one property each, violated | section 4 |

**Bounds.** One change of content (`MaxVer = 1`) is enough to tell outdated content from
current content; entries live for one to three ticks, so each of fresh, ageing and
expired occurs. Two requests make one stale fetch and one newer one; two purges meet on the same
keys, in the prefix that covers both paths and in the one that covers one of them. An identity of a request or a connection is used
again once it has ended, so there may be any number of them one after the other. Two origins
exercise success, fallback and exhaustion; `o1` is local and has cache_ttl 0 in `fallback`,
so what is not supported and what is not cached occur. `liveness` has GET only, to keep two requests and a purge
in one run with its four fairness conditions. Of the six router prefixes one is empty, one
is the root, and four are nested in or beside each other, with and without a slash at the end; three
entries allow an equal pair around a third. Two places for server processes, each used again and again, allow every
predecessor, every pair side by side, and any debris they leave to a third; of the five files two can be served, on different ports and
sockets, and one each fails before anything is bound, on its own port, and on its certificate. The command asks for the statistics, which a purge's kind of answer
would leave unprinted; commands share nothing but the socket file, so one is enough. Two releases and three writes let a fetch see
each release change, be left, be removed and be returned to. Five requests of one address over seven seconds, with a burst of
two and two seconds between tokens, use up the burst of a new client, wait for all of its tokens, and use up what there is then; a second address looks on. Requests and connections are interchangeable,
so `SYMMETRY` is used where no liveness is checked. Deadlock is checked except in `AdminSocket`, `LocalFile` and `RateLimit`, where
everything may have ended: all processes dead and all commands done, all fetches done, the time of the run used up.

**Fairness.** `FairSpec` assumes weak fairness of what the runtime does with a future whose
await is over (`ServiceStep`), of an origin's answer (which may be `OriginHang`, after
which nothing is assumed), of the steps of a purge, and of the clock. tokio polls every woken
task, and no task of this program holds a lock across an await or blocks for longer than a file
operation (`local.rs:35-42`). Nothing is assumed of
clients, operators, eviction and deployments; in particular `ReadBody` is not fair, because the server waits for
the client's body without a limit. In `AdminSocket` the steps of a live server, of its
connections and of a command are fair; starting, killing and interrupting are not. `LocalFile` and `RateLimit` have safety properties only.

## 4. Where the documentation and the code disagree

* `cache_ttl`: `HonoursCacheTtl`. README.md:124 calls an origin's `cache_ttl` the time an answer
  stays cached, and README.md:107 sets it to a day beside a `default_ttl` of an hour;
  `domain/cache.rs:34-41` looks only at whether it is zero. Entries live for `default_ttl`.
* `purge_in_flight`: `PurgeDefeatsStale`. README.md:52-53 says `purge` deletes the cache of a path
  and the tests of CacheService expect `None` after it (`application/cache_service.rs:91`); a
  request that fetched before the purge and inserts after it brings the older content back for a
  full time to live. What does hold is `PurgeLeavesNothingOlder`: no *entry* survives.
* `upstream_url`: `UpstreamBelowUrl`. README.md:145-148 promises `https://cdn.example.com/foo.txt` for
  `/static/foo.txt`. With the path `/static/` (the form README.md:56 uses for a purge) the origin is asked
  for `https://cdn.example.comfoo.txt`, as `remote.rs:19` trims the slash of the url and
  `remote.rs:32` adds none; the same happens to `/staticfoo` below the path `/static`.
* `second_server`: `FailedStartIsHarmless`. README.md:49: the commands work while the server runs. A
  second `serve` removes the socket file of the first (`socket_server.rs:13-15`), binds its own, and may do both before it
  fails on the taken port (`select!`, `server.rs:64-68`); the first then serves on, unreachable. The property speaks of starts that
  have failed, so a second server that is killed in between is no counterexample to it.
* `rate_unit`: `HonoursRate`. README.md:94 (and `config.yaml:13`) configures `requests_per_second: 100`; `server.rs:95` hands
  it to tower_governor's `per_second`, which takes the seconds between two tokens. After its burst a client gets one
  request in 100 seconds; the larger the value, the fewer.

What the models show beside, where no document says otherwise: a configuration file that does not load is
replaced as a whole by the defaults (`server.rs:73-80`), so a server may come up on other ports and with other origins than
its file's; a root that is a link turned between `local.rs:36` and `local.rs:41` makes a fetch of a file that is there all the time fail
(`FailsForCause` names this as one of the two causes); `Last-Modified` may be later than the version it comes with
(`DateCoversBody` is the half that holds); governor 0.6.3 lets a client that has been idle have one request more than
`burst_size`, so no bound is stated on what is let through.

## 5. The proofs

| Theorem | Module | States |
|---|---|---|
| `TypeCorrect` | FastCacheProofs | `Spec => []TypeOK` |
| `ProgressCorrect`, `PurgeCorrect` | FastCacheProofs | `Spec => []PurgeProgress`, `Spec => []PurgeLeavesNothingOlder` |
| `ServiceCorrect` | ServiceProofs | `Spec => [](CachedFromOwnRoute /\ RequestInv /\ FallbackOrder /\ AnswerIsHonest)` |
| `RequestCorrect`, `FallbackCorrect`, `CacheContentCorrect` | ServiceProofs | its parts `Spec => []RequestInv`, `Spec => []FallbackOrder`, `Spec => []CachedFromOwnRoute` |
| `ContractCorrect` | ContractProofs | `Spec => ContractHolds`: FastCache implements CacheContract |
| `PurgeScopeCorrect`, `OnlyReadsFillCorrect` | ContractProofs | `Spec => PurgeScope`, `Spec => OnlyReadsFill` |
| `TypeCorrect` | RouterProofs | `Spec => []TypeOK` |
| `RouterCorrect` | RouterProofs | `Spec => [](RouterInv /\ LongestPrefixWins /\ FallbackInListOrder)` |
| `TableCorrect`, `ListOrderCorrect` | RouterProofs | its parts `Spec => []RouterInv`, `Spec => []FallbackInListOrder` |
| `TypeCorrect` | AdminSocketProofs | `Spec => []TypeOK` |
| `ReachableCorrect`, `RestartCorrect`, `OkMeansDoneCorrect` | AdminSocketProofs | `Spec => []ServingIsReachable`, `Spec => []RestartSucceeds`, `Spec => []OkMeansDone` |
| `AnswerCorrect`, `DateCorrect` | LocalFileProofs | `Spec => []AnswerWasLive`, `Spec => []DateCoversBody` |
| `FailureCorrect`, `ServedCorrect` | LocalFileProofs | `Spec => []FailsForCause`, `Spec => []AnswersWhatIsServed` |
| `RefusedCorrect` | RateLimitProofs | `Spec => []RefusedOverLimit` |

They hold for any paths, origins, requests, methods, connections, configurations, processes, releases,
addresses and any values of the bounds, from the named assumptions on the constants alone (`OriginAssumption`,
`CacheAssumption`, `ServiceAssumption`, `AdminAssumption`, `RouterAssumption`, `SocketAssumption`, `FileAssumption`,
`RateAssumption`), which give the constants their types, keep the values that stand for "none" apart from the others, and
take from the code that a rate and a burst are not zero. None of the sets is assumed to be finite.

* **Types.** The tables `store`, `req` and `adm` have changing domains. The lemmas `PutInTable` and
  `DropFromTable` say what adding to and restricting such a table does to its type; one lemma per
  helper (`FinishType`, `CacheInsertType`, ...) and per group of actions follows. `IdxInRoute` is
  part of `TypeOK` because `CurrentOrigin` is typed only under it.
* **Purges.** `PurgeLeavesNothingOlder` is not inductive: that the last step of a purge by
  prefix leaves nothing depends on what it collected. `PurgeProgress` says so: an old entry of its target
  is either not yet scanned or collected. Its key fact is `NothingOlderAppears`: no step but the start of a
  purge adds to an entry's `before`, since an insert makes a *new* entry. Requests, expiry, eviction and other
  purges then cannot break it.
* **Service.** `RequestInv` is the loop invariant: the origins up to the current one have been asked in
  order and have failed. `FallbackOrder` and `AnswerIsHonest` follow in the steps that
  finish a request; `CachedFromOwnRoute` needs the part of `RequestInv` about the reply that is held, and
  that versions never decrease.
* **The contract.** Step by step under `RequestInv`, `PurgeProgress` and `OnTarget` (what a purge by prefix has
  collected is part of its target; one of everything aims at all paths). An error, a timeout and the next turn of the loop are stutters: the
  request holds nothing before and after. An origin's answer is the contract's fetch, since `RequestInv` has it come from
  the route of the requested path. An insert before an answer, or without one, is its fill. Each removal of
  the prefix scan is a `Forget`; its end is a `PurgeEnd`, the guard of which (nothing older is left) is `PurgeProgress`.
  The lemmas `EntriesTable`, `AsksTable` and those after them say what a change of the tables is under the mapping, so that each action needs
  one lemma. `PurgeScope` needs `OnTarget`; `OnlyReadsFill` only the types.
* **Router.** `TableInv` (unique paths, complete and ordered origins) is inductive through the building and
  the sort, which is a permutation; `OrderInv` adds what the sort establishes.
* **Admin socket.** `ServingIsReachable` speaks of the end of a start; `AloneInv` of all of it: while a server is up that has
  been alone since its start no other one is up, and what it has seen of the socket file (`exists`, `absent`, `listening`) is
  still true, because nobody else is there to change it. Any other start ends `alone`. So its `remove_file` and `bind` cannot fail, and
  a port that it finds taken is its own (`PortOfOneself`): `RestartSucceeds`. `SocketOf` is known to be one
  of the paths only by `ConfigInv`. For the commands `CommandInv` relates the two ends of a connection: nothing has been
  processed before the request, once afterwards, and what was printed had been replied.
* **Local files.** `AnswerWasLive` needs to look ahead: `Tracks` says that what a fetch would read at its release *now* is among the
  versions that were live since it began. This is inductive because a release that has been left changes only by being removed,
  and a write to the one that is served is itself a new live version. `Dates` says the same of the time: whatever has replaced what was read is newer. `Proceeds`
  says that an undisturbed fetch is still at the root and finds the kind of path that it has found before; `Withheld`, that one
  which must not be answered has got no further than the check that is to refuse it.
* **Rate limiter.** `RefusedOverLimit` compares a count over an interval with a rate and a burst that are not known, and is not
  inductive. `Accounted` is: for each address there was a moment `s` at which its time was at most `x` ahead of the clock,
  and its time now is that one and a token for each request let through since (`Busy`). `Ahead` tells an address that has been met from
  one that has not. `BurstOfCore` is the refusal: if `s` is long ago, the requests since the time of one burst before now
  account for what its time is ahead beyond that moment's own bound, hence for a whole burst (`CountSplit`). That the counted
  sets are finite is part of the invariant. The theorem is about the limiter with this program's key and configuration; that governor works as modelled is assumed.

Only model-checked: the liveness properties (`RequestAnswered`, `PurgeAnswered`, `EventuallyFresh`, `CommandEnds`,
`StartEnds`), as liveness under fairness and `ENABLED` are out of the prover's reach. Every invariant and action property of the
passing runs is stated by a theorem. The violated properties of section 4 have counterexamples instead.

## 6. Not modelled

The health answer, TLS and compression (no logic of this code; a certificate that does not load is a failed
start in `AdminSocket`); the syntax of the configuration and of the command line (serde's and clap's); the access log, which has no state and is written
only if `RUST_LOG` enables the target `access_log` (`main.rs:17-23` enables `app=info`; the Makefile sets it, the Dockerfile does not); `stats`' number, an estimate that moka updates in the background; headers other than the validators and
`Last-Modified`; the bytes of bodies and tags. A file that is written in place, rather than renamed, may be read half-written;
`LocalFile` takes deployments not to do that, as nothing in the code guards against it. The limiter's time is in whole
seconds. A failed upload and an oversized one are the same `RejectBody`, as they are in the code.

Router and CdnService are not composed into one specification: CdnService takes the route of each path as its CONSTANT `Route`,
which is what the route table is once `serving` holds, when no action changes it.

## 7. Plan

Done, in this order: Origin, CdnCache, CdnService, CacheAdmin, FastCache with its proofs of types and purges; the
proofs of the service; Router with its proofs; AdminSocket; CacheContract and the refinement; Config; RateLimit; LocalFile; the proofs of the
refinement and of the action properties, of AdminSocket, LocalFile and RateLimit.

Next, proofs:

1. What the contract promises by itself: invariants of `CacheContract!Spec`, which the refinement then carries over to the server.
2. The steps behind the liveness properties that are safety: that a purge's scan and removals, and a request's turns of the loop,
   each bring a measure down that no other step brings up.
3. That a fetch of `LocalFile` implements the one step which `Origin` makes of it, as a refinement.
