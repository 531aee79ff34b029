------------------------------- MODULE Router -------------------------------
(***************************************************************************)
(* Which origins answer a request, and with which path they are asked:     *)
(* build_router in presentation/http/server.rs, domain/route.rs, and the   *)
(* path handling of application/cdn_service.rs.                            *)
(*                                                                         *)
(* A path is a sequence of characters, of which only "/" is special.  An   *)
(* entry of the configuration is the number of its place in the list, and  *)
(* stands for its origin.  The route table is built entry by entry when    *)
(* the server starts and is read-only afterwards.                          *)
(***************************************************************************)
EXTENDS Naturals, SequencesExt

CONSTANTS
    Char,           \* the characters of a path
    Configs,        \* the configurations: config[i] is the path of origins[i]
    Targets         \* the paths the clients ask for

ASSUME RouterAssumption ==
    /\ "/" \in Char
    /\ Configs \subseteq Seq(Seq(Char))
    /\ Targets \subseteq Seq(Char)

VARIABLES
    config,         \* the configuration of this server
    entries,        \* how many of its entries build_router has been through
    routes,         \* Router::routes
    serving,        \* FALSE while the table is being built
    answer          \* what the last request was told

vars == <<config, entries, routes, serving, answer>>

Root == <<"/">>

Route == [path_prefix : Seq(Char), origins : Seq(Nat)]

NoAnswer == [path |-> <<>>, found |-> FALSE]

Init ==
    /\ config \in Configs
    /\ entries = 0 /\ routes = <<>> /\ serving = FALSE
    /\ answer = NoAnswer

\* Mutant: every entry opens a route.
AddOriginUngrouped ==
    /\ ~serving /\ entries < Len(config)
    /\ entries' = entries + 1
    /\ routes' = Append(routes, [path_prefix |-> config[entries'], origins |-> <<entries'>>])
    /\ UNCHANGED <<config, serving, answer>>

\* Mutant: a fallback goes before the origins it is a fallback of.
AddOriginFront ==
    /\ ~serving /\ entries < Len(config)
    /\ entries' = entries + 1
    /\ LET path == config[entries']
           known == {i \in DOMAIN routes : routes[i].path_prefix = path}
       IN routes' =
            IF known = {}
            THEN Append(routes, [path_prefix |-> path, origins |-> <<entries'>>])
            ELSE [i \in DOMAIN routes |->
                    IF i \in known
                    THEN [routes[i] EXCEPT !.origins = <<entries'>> \o @]
                    ELSE routes[i]]
    /\ UNCHANGED <<config, serving, answer>>

\* One turn of build_router's loop: the first entry with a path opens a route,
\* the later ones with the same path are its fallbacks.
AddOrigin ==
    /\ ~serving /\ entries < Len(config)
    /\ entries' = entries + 1
    /\ LET path == config[entries']
           known == {i \in DOMAIN routes : routes[i].path_prefix = path}
       IN routes' =
            IF known = {}
            THEN Append(routes, [path_prefix |-> path, origins |-> <<entries'>>])
            ELSE [i \in DOMAIN routes |->
                    IF i \in known
                    THEN [routes[i] EXCEPT !.origins = Append(@, entries')]
                    ELSE routes[i]]
    /\ UNCHANGED <<config, serving, answer>>

PrefixLen(i) == Len(routes[i].path_prefix)

\* Mutant: the routes stay in the order of the list.
Unsorted(perm) == \A i \in DOMAIN routes : perm[i] = i

\* The places that sort_by, which is stable, gives to the routes.
SortedBy(perm) ==
    \A i, j \in DOMAIN routes : i < j =>
        \/ PrefixLen(perm[i]) > PrefixLen(perm[j])
        \/ PrefixLen(perm[i]) = PrefixLen(perm[j]) /\ perm[i] < perm[j]

\* Router::new, and the server opens its port.
SortRoutes ==
    /\ ~serving /\ entries = Len(config)
    /\ \E perm \in Bijection(DOMAIN routes, DOMAIN routes) :
          /\ SortedBy(perm)
          /\ routes' = [i \in DOMAIN routes |-> routes[perm[i]]]
    /\ serving' = TRUE
    /\ UNCHANGED <<config, entries, answer>>

\* Prefixes are compared byte by byte: "/a" also matches "/ab".
Matches(prefix, path) == IsPrefix(prefix, path) \/ prefix = Root

RelativePath(prefix, path) ==
    IF prefix = Root THEN path ELSE SubSeq(path, Len(prefix) + 1, Len(path))

\* cdn_service.rs asks the origin for "/" when nothing is left of the path.
OriginPath(relative) == IF relative = <<>> THEN Root ELSE relative

FirstMatch(i, path) ==
    /\ Matches(routes[i].path_prefix, path)
    /\ \A j \in 1..(i - 1) : ~Matches(routes[j].path_prefix, path)

\* match_route, and the path the origins of the route are asked for.
MatchRoute(path) ==
    /\ serving
    /\ \/ \E i \in DOMAIN routes :
            /\ FirstMatch(i, path)
            /\ answer' = [path |-> path, found |-> TRUE,
                          prefix |-> routes[i].path_prefix,
                          origins |-> routes[i].origins,
                          upstream |-> OriginPath(RelativePath(routes[i].path_prefix, path))]
       \/ /\ \A i \in DOMAIN routes : ~Matches(routes[i].path_prefix, path)
          /\ answer' = [path |-> path, found |-> FALSE]
    /\ UNCHANGED <<config, entries, routes, serving>>

Next == AddOrigin \/ SortRoutes \/ \E path \in Targets : MatchRoute(path)

Spec == Init /\ [][Next]_vars

-----------------------------------------------------------------------------
(* Invariants.                                                             *)

\* Every variable has its type, and the routes name existing entries.
TypeOK ==
    /\ config \in Configs
    /\ entries \in 0..Len(config)
    /\ routes \in Seq(Route)
    /\ serving \in BOOLEAN

\* The table while it is built and afterwards: no two routes have the same
\* path, and a route has the entries with its path, in the order of the list.
TableInv ==
    /\ \A i, j \in DOMAIN routes :
          routes[i].path_prefix = routes[j].path_prefix => i = j
    /\ \A n \in 1..entries :
          \E i \in DOMAIN routes : routes[i].path_prefix = config[n]
    /\ \A i \in DOMAIN routes :
          LET origins == routes[i].origins IN
          /\ origins # <<>>
          /\ \A m, n \in DOMAIN origins : m < n => origins[m] < origins[n]
          /\ \A n \in 1..entries :
                config[n] = routes[i].path_prefix <=> \E m \in DOMAIN origins : origins[m] = n
          /\ \A m \in DOMAIN origins : origins[m] \in 1..entries

\* Once the server serves, the table is complete, and longer paths come first;
\* before that, nobody has been given an answer.
OrderInv ==
    /\ serving => /\ entries = Len(config)
                  /\ \A i, j \in DOMAIN routes : i < j => PrefixLen(i) >= PrefixLen(j)
    /\ ~serving => answer = NoAnswer

\* What the table owes to its construction.
RouterInv == TypeOK /\ TableInv /\ OrderInv

\* README: the longest matching path of the configuration wins, whatever the
\* order of the list, and a request is without a route only if none matches.
LongestPrefixWins ==
    LET matching == {n \in DOMAIN config : Matches(config[n], answer.path)} IN
    serving /\ answer # NoAnswer =>
        /\ answer.found <=> matching # {}
        /\ answer.found =>
             /\ \E n \in matching : config[n] = answer.prefix
             /\ \A n \in matching : Len(config[n]) <= Len(answer.prefix)

\* README: the origins of a path are tried in the order of the list: every one
\* with exactly this path, none twice, and none of another path.
FallbackInListOrder ==
    answer.found =>
        LET origins == answer.origins IN
        /\ \A m, n \in DOMAIN origins : m < n => origins[m] < origins[n]
        /\ {origins[m] : m \in DOMAIN origins} =
             {n \in DOMAIN config : config[n] = answer.prefix}

-----------------------------------------------------------------------------
(* What the documentation says and the code does not do (see README.md).   *)

\* README: a request below the path of a remote origin is fetched from below
\* its url.  remote.rs appends the path to a base_url without a trailing "/",
\* so the path has to start with one.
UpstreamBelowUrl == answer.found => answer.upstream[1] = "/"
=============================================================================
