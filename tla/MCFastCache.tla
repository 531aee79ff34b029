----------------------------- MODULE MCFastCache -----------------------------
(* Small instances of FastCache for TLC. *)
EXTENDS ContractRefinement, TLC

CONSTANTS p1, p2, o1, o2

\* Two paths below one route with one remote origin.
OneOriginRoute == [p \in Paths |-> <<o1>>]
OneOriginTtl == [o \in Origins |-> 3]

\* The purges by prefix: one that covers every path, one that covers some.
BothPrefixes == {{p1, p2}, {p1}}

\* No client revalidates.
NoTags == {{}}

\* p1 is below a route with two origins, a local one and its remote fallback,
\* p2 below the same two in the opposite order; any other path has no route.
FallbackRoute ==
    [p \in Paths |-> IF p = p1 THEN <<o1, o2>> ELSE IF p = p2 THEN <<o2, o1>> ELSE <<>>]

\* The first origin has cache_ttl 0 (its content is not cached), the second not.
SecondCached == [o \in Origins |-> IF o = o1 THEN 0 ELSE 5]

\* Clients come without a tag, or with that of the fallback's first content.
FallbackTags ==
    {{}, {[origin |-> o2, path |-> p1, ver |-> 0, full |-> TRUE]}}

ShortTtl == [o \in Origins |-> 1]

RequestSymmetry == Permutations(Reqs)

ActorSymmetry == Permutations(Reqs) \cup Permutations(Admins)
=============================================================================
