------------------------------ MODULE MCRouter ------------------------------
(* A small instance of Router for TLC. *)
EXTENDS Router

MCChar == {"/", "a", "*"}

\* "", "/", "/a", "/a/", "/aa" and "/a/a".
NestedPrefixes ==
    {<<>>, <<"/">>, <<"/", "a">>, <<"/", "a", "/">>, <<"/", "a", "a">>,
     <<"/", "a", "/", "a">>}

\* Every list of up to three entries, with and without repeated paths.
MCConfigs == UNION {[1..n -> NestedPrefixes] : n \in 0..3}

\* Below each prefix, at it, beside it, and the "*" of an OPTIONS request.
MCTargets ==
    (NestedPrefixes \ {<<>>}) \cup
    {<<"*">>, <<"/", "a", "a", "a">>, <<"/", "a", "/", "a", "/">>, <<"/", "*">>}

\* One prefix: as in the README's example of a fallback, without a "/" at its
\* end, or with one, as in its example of a purge.
OnePrefix == {<<<<"/", "a">>>>, <<<<"/", "a", "/">>>>}
=============================================================================
