---------------------------- MODULE RouterProofs ----------------------------
(***************************************************************************)
(* Theorems about Router, for every configuration and every path.          *)
(***************************************************************************)
EXTENDS Router, TLAPS

LEMMA AddOriginType ==
    ASSUME TypeOK, AddOrigin
    PROVE  TypeOK'
<1>1. config \in Seq(Seq(Char)) /\ entries \in Nat /\ routes \in Seq(Route)
  BY RouterAssumption DEF TypeOK
<1>2. entries' = entries + 1 /\ entries' \in 0..Len(config) /\ config[entries'] \in Seq(Char)
  BY <1>1 DEF AddOrigin, TypeOK
<1> DEFINE path == config[entries']
           known == {i \in DOMAIN routes : routes[i].path_prefix = path}
<1>3. routes' \in Seq(Route)
  <2>1. CASE known = {}
    <3>1. [path_prefix |-> path, origins |-> <<entries'>>] \in Route
      BY <1>1, <1>2 DEF Route
    <3>2. routes' = Append(routes, [path_prefix |-> path, origins |-> <<entries'>>])
      BY <2>1 DEF AddOrigin
    <3>3. QED
      BY <1>1, <3>1, <3>2
  <2>2. CASE known # {}
    <3> DEFINE longer(i) == [routes[i] EXCEPT !.origins = Append(@, entries')]
    <3>1. \A i \in DOMAIN routes : routes[i] \in Route
      BY <1>1
    <3>2. ASSUME NEW i \in DOMAIN routes
          PROVE  longer(i) \in Route
      <4>1. routes[i] \in Route /\ routes[i].origins \in Seq(Nat) /\ entries' \in Nat
        BY <1>1, <1>2, <3>1 DEF Route
      <4>2. Append(routes[i].origins, entries') \in Seq(Nat)
        BY <4>1
      <4>3. QED
        BY <4>1, <4>2 DEF Route
    <3>3. routes' = [i \in DOMAIN routes |-> IF i \in known THEN longer(i) ELSE routes[i]]
      BY <2>2 DEF AddOrigin
    <3> HIDE DEF longer, known
    <3>4. routes' \in [1..Len(routes) -> Route]
      BY <1>1, <3>1, <3>2, <3>3
    <3>5. QED
      BY <1>1, <3>4
  <2>3. QED
    BY <2>1, <2>2
<1>4. QED
  BY <1>2, <1>3 DEF AddOrigin, TypeOK

LEMMA SortRoutesType ==
    ASSUME TypeOK, SortRoutes
    PROVE  TypeOK'
<1>1. PICK perm \in Bijection(DOMAIN routes, DOMAIN routes) :
         routes' = [i \in DOMAIN routes |-> routes[perm[i]]]
  BY DEF SortRoutes
<1>2. perm \in [DOMAIN routes -> DOMAIN routes]
  BY DEF Bijection, Injection
<1>3. routes \in Seq(Route)
  BY DEF TypeOK
<1>4. routes' \in [1..Len(routes) -> Route]
  BY <1>1, <1>2, <1>3
<1>5. routes' \in Seq(Route)
  BY <1>3, <1>4
<1>6. QED
  BY <1>5 DEF SortRoutes, TypeOK

\* Every variable has its type.
THEOREM TypeCorrect == Spec => []TypeOK
<1>1. Init => TypeOK
  <2> SUFFICES ASSUME Init PROVE TypeOK
    OBVIOUS
  <2>1. config \in Seq(Seq(Char))
    BY RouterAssumption DEF Init
  <2>2. 0 \in 0..Len(config) /\ <<>> \in Seq(Route)
    BY <2>1
  <2>3. QED
    BY <2>2 DEF Init, TypeOK
<1>2. TypeOK /\ [Next]_vars => TypeOK'
  <2> SUFFICES ASSUME TypeOK, [Next]_vars PROVE TypeOK'
    OBVIOUS
  <2>1. ASSUME NEW path, MatchRoute(path) PROVE TypeOK'
    BY <2>1 DEF TypeOK, MatchRoute
  <2>2. CASE UNCHANGED vars
    BY <2>2 DEF vars, TypeOK
  <2>3. QED
    BY <2>1, <2>2, AddOriginType, SortRoutesType DEF Next
<1>3. QED
  BY <1>1, <1>2, PTL DEF Spec

-----------------------------------------------------------------------------
(* The route table.                                                        *)

\* What TableInv says of one route, once the first n entries are in the table.
Lists(route, n) ==
    /\ route.origins # <<>>
    /\ \A l, m \in DOMAIN route.origins : l < m => route.origins[l] < route.origins[m]
    /\ \A k \in 1..n :
          config[k] = route.path_prefix <=> \E m \in DOMAIN route.origins : route.origins[m] = k
    /\ \A m \in DOMAIN route.origins : route.origins[m] \in 1..n

LEMMA TableInvParts ==
    TableInv <=>
        /\ \A i, j \in DOMAIN routes :
              routes[i].path_prefix = routes[j].path_prefix => i = j
        /\ \A n \in 1..entries :
              \E i \in DOMAIN routes : routes[i].path_prefix = config[n]
        /\ \A i \in DOMAIN routes : Lists(routes[i], entries)
  BY DEF TableInv, Lists

LEMMA NewRouteLists ==
    ASSUME TypeOK, TableInv, entries < Len(config),
           \A i \in DOMAIN routes : routes[i].path_prefix # config[entries + 1]
    PROVE  Lists([path_prefix |-> config[entries + 1], origins |-> <<entries + 1>>], entries + 1)
<1>1. entries \in Nat
  BY DEF TypeOK
<1>2. \A k \in 1..entries : config[k] # config[entries + 1]
  BY TableInvParts
<1>3. QED
  BY <1>1, <1>2 DEF Lists

LEMMA FallbackLists ==
    ASSUME TypeOK, NEW route \in Route, Lists(route, entries),
           route.path_prefix = config[entries + 1]
    PROVE  Lists([route EXCEPT !.origins = Append(@, entries + 1)], entries + 1)
<1> DEFINE origins == Append(route.origins, entries + 1)
           longer == [route EXCEPT !.origins = origins]
<1>1. entries \in Nat /\ route.origins \in Seq(Nat)
  BY DEF TypeOK, Route
<1>2. longer.origins = origins /\ longer.path_prefix = route.path_prefix
  BY DEF Route
<1>3. /\ DOMAIN origins = 1..(Len(route.origins) + 1)
      /\ DOMAIN route.origins = 1..Len(route.origins) /\ Len(route.origins) \in Nat
      /\ origins[Len(route.origins) + 1] = entries + 1
      /\ \A m \in DOMAIN route.origins : origins[m] = route.origins[m]
  BY <1>1
<1> HIDE DEF origins
<1>4. \A m \in DOMAIN origins : origins[m] \in 1..(entries + 1)
  <2>1. \A m \in DOMAIN route.origins : origins[m] \in 1..entries
    BY <1>3 DEF Lists
  <2>2. \A m \in DOMAIN origins : m \in DOMAIN route.origins \/ m = Len(route.origins) + 1
    BY <1>3
  <2>3. QED
    BY <1>1, <1>3, <2>1, <2>2
<1>5. \A l, m \in DOMAIN origins : l < m => origins[l] < origins[m]
  <2> SUFFICES ASSUME NEW l \in DOMAIN origins, NEW m \in DOMAIN origins, l < m
               PROVE  origins[l] < origins[m]
    OBVIOUS
  <2>1. l \in DOMAIN route.origins /\ origins[l] = route.origins[l] /\ origins[l] \in 1..entries
    BY <1>3 DEF Lists
  <2>2. CASE m \in DOMAIN route.origins
    BY <1>3, <2>1, <2>2 DEF Lists
  <2>3. CASE m = Len(route.origins) + 1
    BY <1>1, <1>3, <2>1, <2>3
  <2>4. QED
    BY <1>3, <2>2, <2>3
<1>6. \A k \in 1..(entries + 1) :
         config[k] = route.path_prefix <=> \E m \in DOMAIN origins : origins[m] = k
  <2> SUFFICES ASSUME NEW k \in 1..(entries + 1)
               PROVE  config[k] = route.path_prefix <=> \E m \in DOMAIN origins : origins[m] = k
    OBVIOUS
  <2>1. CASE k = entries + 1
    BY <1>1, <1>3, <2>1
  <2>2. CASE k \in 1..entries
    <3>1. config[k] = route.path_prefix <=> \E m \in DOMAIN route.origins : route.origins[m] = k
      BY <2>2 DEF Lists
    <3>2. (\E m \in DOMAIN route.origins : route.origins[m] = k)
             <=> \E m \in DOMAIN origins : origins[m] = k
      <4>1. k # entries + 1
        BY <1>1, <2>2
      <4>2. \A m \in DOMAIN origins : origins[m] = k => m \in DOMAIN route.origins
        BY <1>3, <4>1
      <4>3. \A m \in DOMAIN route.origins : m \in DOMAIN origins
        BY <1>3
      <4>4. QED
        BY <1>3, <4>2, <4>3
    <3>3. QED
      BY <3>1, <3>2
  <2>3. QED
    BY <1>1, <2>1, <2>2
<1>7. Lists(longer, entries + 1)
  <2>1. origins # <<>>
    BY <1>3, Len(route.origins) + 1 \in DOMAIN origins
  <2>2. QED
    BY <1>2, <1>4, <1>5, <1>6, <2>1 DEF Lists
<1>8. QED
  BY <1>7 DEF origins

LEMMA OtherLists ==
    ASSUME TypeOK, NEW route \in Route, Lists(route, entries),
           route.path_prefix # config[entries + 1]
    PROVE  Lists(route, entries + 1)
<1>1. entries \in Nat /\ route.origins \in Seq(Nat)
  BY DEF TypeOK, Route
<1>2. QED
  BY <1>1 DEF Lists

LEMMA AddOriginTable ==
    ASSUME TypeOK, TableInv, AddOrigin
    PROVE  TableInv'
<1> DEFINE path == config[entries + 1]
           known == {i \in DOMAIN routes : routes[i].path_prefix = path}
           longer(i) == [routes[i] EXCEPT !.origins = Append(@, entries + 1)]
<1>1. entries \in Nat /\ routes \in Seq(Route) /\ entries < Len(config)
  BY DEF TypeOK, AddOrigin
<1>2. config' = config /\ entries' = entries + 1
  BY DEF AddOrigin
<1>3. \A i \in DOMAIN routes : routes[i] \in Route /\ Lists(routes[i], entries)
  BY <1>1, TableInvParts
<1>4. /\ \A i, j \in DOMAIN routes : routes[i].path_prefix = routes[j].path_prefix => i = j
      /\ \A n \in 1..entries : \E i \in DOMAIN routes : routes[i].path_prefix = config[n]
  BY TableInvParts
<1>5. SUFFICES
        /\ \A i, j \in DOMAIN routes' :
              routes'[i].path_prefix = routes'[j].path_prefix => i = j
        /\ \A n \in 1..(entries + 1) :
              \E i \in DOMAIN routes' : routes'[i].path_prefix = config[n]
        /\ \A i \in DOMAIN routes' : Lists(routes'[i], entries + 1)
  <2>1. TableInv' <=>
          /\ \A i, j \in DOMAIN routes' :
                routes'[i].path_prefix = routes'[j].path_prefix => i = j
          /\ \A n \in 1..(entries + 1) :
                \E i \in DOMAIN routes' : routes'[i].path_prefix = config[n]
          /\ \A i \in DOMAIN routes' : Lists(routes'[i], entries + 1)
    BY <1>2 DEF TableInv, Lists
  <2>2. QED
    BY <2>1
<1>6. CASE known = {}
  <2> DEFINE new == [path_prefix |-> path, origins |-> <<entries + 1>>]
  <2>1. routes' = Append(routes, new)
    BY <1>2, <1>6 DEF AddOrigin
  <2>2. \A i \in DOMAIN routes : routes[i].path_prefix # path
    BY <1>6
  <2>3. Lists(new, entries + 1) /\ new.path_prefix = path
    BY <1>1, <2>2, NewRouteLists
  <2>4. \A i \in DOMAIN routes : Lists(routes[i], entries + 1)
    BY <1>3, <2>2, OtherLists
  <2> HIDE DEF new, known
  <2>5. /\ DOMAIN routes' = 1..(Len(routes) + 1) /\ DOMAIN routes = 1..Len(routes)
        /\ Len(routes) \in Nat
        /\ routes'[Len(routes) + 1] = new
        /\ \A i \in DOMAIN routes : routes'[i] = routes[i]
    BY <1>1, <2>1
  <2>6. \A i \in DOMAIN routes' : i \in DOMAIN routes \/ i = Len(routes) + 1
    BY <2>5
  <2>7. \A i, j \in DOMAIN routes' : routes'[i].path_prefix = routes'[j].path_prefix => i = j
    BY <1>4, <2>2, <2>3, <2>5, <2>6
  <2>8. \A n \in 1..(entries + 1) : \E i \in DOMAIN routes' : routes'[i].path_prefix = config[n]
    <3> SUFFICES ASSUME NEW n \in 1..(entries + 1)
                 PROVE  \E i \in DOMAIN routes' : routes'[i].path_prefix = config[n]
      OBVIOUS
    <3>1. CASE n = entries + 1
      BY <2>3, <2>5, <3>1
    <3>2. CASE n \in 1..entries
      <4>1. PICK i \in DOMAIN routes : routes[i].path_prefix = config[n]
        BY <1>4, <3>2
      <4>2. i \in DOMAIN routes' /\ routes'[i] = routes[i]
        BY <2>5
      <4>3. QED
        BY <4>1, <4>2
    <3>3. QED
      BY <1>1, <3>1, <3>2
  <2>9. \A i \in DOMAIN routes' : Lists(routes'[i], entries + 1)
    BY <2>3, <2>4, <2>5, <2>6
  <2>10. QED
    BY <2>7, <2>8, <2>9
<1>7. CASE known # {}
  <2>1. routes' = [i \in DOMAIN routes |-> IF i \in known THEN longer(i) ELSE routes[i]]
    BY <1>2, <1>7 DEF AddOrigin
  <2>2. \A i \in DOMAIN routes : longer(i).path_prefix = routes[i].path_prefix
    BY <1>3 DEF Route
  <2>3. \A i \in known : Lists(longer(i), entries + 1)
    BY <1>3, FallbackLists
  <2>4. \A i \in DOMAIN routes \ known : Lists(routes[i], entries + 1)
    BY <1>3, OtherLists
  <2>5. PICK k \in DOMAIN routes : routes[k].path_prefix = path
    BY <1>7
  <2> HIDE DEF known, longer
  <2>6. /\ DOMAIN routes' = DOMAIN routes
        /\ \A i \in DOMAIN routes : routes'[i].path_prefix = routes[i].path_prefix
    BY <2>1, <2>2
  <2>7. \A n \in 1..(entries + 1) : \E i \in DOMAIN routes : routes[i].path_prefix = config[n]
    BY <1>1, <1>4, <2>5
  <2>8. \A i \in DOMAIN routes : Lists(routes'[i], entries + 1)
    BY <2>1, <2>3, <2>4
  <2>9. QED
    BY <1>4, <2>6, <2>7, <2>8
<1>8. QED
  BY <1>6, <1>7

LEMMA SortRoutesTable ==
    ASSUME TypeOK, TableInv, SortRoutes
    PROVE  TableInv'
<1>1. PICK perm \in Bijection(DOMAIN routes, DOMAIN routes) :
         routes' = [i \in DOMAIN routes |-> routes[perm[i]]]
  BY DEF SortRoutes
<1>2. /\ perm \in [DOMAIN routes -> DOMAIN routes]
      /\ \A i, j \in DOMAIN routes : perm[i] = perm[j] => i = j
      /\ \A j \in DOMAIN routes : \E i \in DOMAIN routes : perm[i] = j
  BY DEF Bijection, Injection, Surjection, IsInjective
<1>3. UNCHANGED <<config, entries>>
  BY DEF SortRoutes
<1>4. DOMAIN routes' = DOMAIN routes /\ \A i \in DOMAIN routes : routes'[i] = routes[perm[i]]
  BY <1>1
<1>5. TableInv' <=>
        /\ \A i, j \in DOMAIN routes' :
              routes'[i].path_prefix = routes'[j].path_prefix => i = j
        /\ \A n \in 1..entries :
              \E i \in DOMAIN routes' : routes'[i].path_prefix = config[n]
        /\ \A i \in DOMAIN routes' : Lists(routes'[i], entries)
  BY <1>3 DEF TableInv, Lists
<1>6. \A n \in 1..entries : \E i \in DOMAIN routes' : routes'[i].path_prefix = config[n]
  <2> SUFFICES ASSUME NEW n \in 1..entries
               PROVE  \E i \in DOMAIN routes' : routes'[i].path_prefix = config[n]
    OBVIOUS
  <2>1. PICK j \in DOMAIN routes : routes[j].path_prefix = config[n]
    BY TableInvParts
  <2>2. PICK i \in DOMAIN routes : perm[i] = j
    BY <1>2
  <2>3. QED
    BY <1>4, <2>1, <2>2
<1>7. QED
  BY <1>2, <1>4, <1>5, <1>6, TableInvParts

-----------------------------------------------------------------------------
(* The answers.                                                            *)

LEMMA SortRoutesOrder ==
    ASSUME TypeOK, OrderInv, SortRoutes
    PROVE  OrderInv'
<1>1. PICK perm \in Bijection(DOMAIN routes, DOMAIN routes) :
         SortedBy(perm) /\ routes' = [i \in DOMAIN routes |-> routes[perm[i]]]
  BY DEF SortRoutes
<1>2. perm \in [DOMAIN routes -> DOMAIN routes]
  BY DEF Bijection, Injection
<1>3. \A i \in DOMAIN routes : PrefixLen(i) \in Nat
  BY DEF TypeOK, PrefixLen, Route
<1>4. DOMAIN routes' = DOMAIN routes /\ \A i \in DOMAIN routes : routes'[i] = routes[perm[i]]
  BY <1>1
<1>5. \A i \in DOMAIN routes : PrefixLen(i)' = PrefixLen(perm[i]) /\ perm[i] \in DOMAIN routes
  BY <1>2, <1>4 DEF PrefixLen
<1>6. ASSUME NEW i \in DOMAIN routes, NEW j \in DOMAIN routes, i < j
      PROVE  PrefixLen(perm[i]) >= PrefixLen(perm[j])
  BY <1>1, <1>3, <1>5, <1>6 DEF SortedBy
<1>7. \A i, j \in DOMAIN routes' : i < j => PrefixLen(i)' >= PrefixLen(j)'
  BY <1>4, <1>5, <1>6
<1>8. QED
  BY <1>7 DEF SortRoutes, OrderInv

LEMMA MatchRouteAnswer ==
    ASSUME TypeOK, TableInv, OrderInv, NEW path, MatchRoute(path)
    PROVE  (LongestPrefixWins /\ FallbackInListOrder)'
<1>1. /\ serving /\ entries = Len(config) /\ UNCHANGED <<config, entries, routes, serving>>
      /\ config \in Seq(Seq(Char)) /\ DOMAIN config = 1..Len(config)
  BY RouterAssumption DEF MatchRoute, OrderInv, TypeOK
<1>2. /\ routes \in Seq(Route) /\ DOMAIN routes = 1..Len(routes) /\ Len(routes) \in Nat
      /\ \A i \in DOMAIN routes : PrefixLen(i) \in Nat
  BY DEF TypeOK, PrefixLen, Route
<1>3. \A n \in DOMAIN config : \E j \in DOMAIN routes : routes[j].path_prefix = config[n]
  BY <1>1, TableInvParts
<1>4. \A i \in DOMAIN routes : Lists(routes[i], Len(config)) /\ routes[i].origins \in Seq(Nat)
  <2>1. \A i \in DOMAIN routes : routes[i] \in Route
    BY <1>2
  <2>2. QED
    BY <1>1, <2>1, TableInvParts DEF Route
<1> DEFINE matching == {n \in DOMAIN config : Matches(config[n], path)}
<1>5. CASE \A i \in DOMAIN routes : ~Matches(routes[i].path_prefix, path)
  <2>1. answer' = [path |-> path, found |-> FALSE]
    BY <1>5 DEF MatchRoute, FirstMatch
  <2>2. matching = {}
    BY <1>3, <1>5
  <2>3. answer'.path = path /\ ~answer'.found
    BY <2>1
  <2>4. QED
    BY <1>1, <2>2, <2>3 DEF LongestPrefixWins, FallbackInListOrder
<1>6. ASSUME NEW i \in DOMAIN routes, FirstMatch(i, path),
             answer' = [path |-> path, found |-> TRUE,
                        prefix |-> routes[i].path_prefix,
                        origins |-> routes[i].origins,
                        upstream |-> OriginPath(RelativePath(routes[i].path_prefix, path))]
      PROVE  (LongestPrefixWins /\ FallbackInListOrder)'
  <2>1. /\ answer'.path = path /\ answer'.found
        /\ answer'.prefix = routes[i].path_prefix /\ answer'.origins = routes[i].origins
    BY <1>6
  <2>2. \A m \in DOMAIN routes[i].origins :
           /\ routes[i].origins[m] \in DOMAIN config
           /\ config[routes[i].origins[m]] = routes[i].path_prefix
    BY <1>1, <1>4 DEF Lists
  <2>3. \E n \in matching : config[n] = routes[i].path_prefix
    <3>1. 1 \in DOMAIN routes[i].origins
      BY <1>4 DEF Lists
    <3>2. QED
      BY <1>6, <2>2, <3>1 DEF FirstMatch
  <2>4. ASSUME NEW n \in matching
        PROVE  Len(config[n]) <= Len(routes[i].path_prefix)
    <3>1. PICK j \in DOMAIN routes : routes[j].path_prefix = config[n]
      BY <1>3
    <3>2. i \in Nat /\ j \in Nat /\ ~(j < i)
      BY <1>2, <1>6, <3>1 DEF FirstMatch
    <3>3. PrefixLen(i) >= PrefixLen(j)
      BY <1>1, <1>2, <3>2 DEF OrderInv
    <3>4. QED
      BY <1>2, <3>1, <3>3 DEF PrefixLen
  <2>5. LongestPrefixWins'
    BY <1>1, <2>1, <2>3, <2>4 DEF LongestPrefixWins
  <2>6. {routes[i].origins[m] : m \in DOMAIN routes[i].origins} =
          {n \in DOMAIN config : config[n] = routes[i].path_prefix}
    BY <1>1, <1>4, <2>2 DEF Lists
  <2>7. FallbackInListOrder'
    BY <1>1, <1>4, <2>1, <2>6 DEF FallbackInListOrder, Lists
  <2>8. QED
    BY <2>5, <2>7
<1>7. QED
  BY <1>5, <1>6 DEF MatchRoute

\* The inductive invariant.
IInv == RouterInv /\ LongestPrefixWins /\ FallbackInListOrder

\* For every list of origins and every request path, the route with the longest
\* matching path is chosen, whatever the order of the list, and its origins are
\* exactly those with this path, in the order of the list.
THEOREM RouterCorrect == Spec => [](RouterInv /\ LongestPrefixWins /\ FallbackInListOrder)
<1>1. TypeOK /\ Init => IInv
  <2> SUFFICES ASSUME TypeOK, Init PROVE IInv
    OBVIOUS
  <2>1. TableInv /\ OrderInv
    BY DEF Init, TableInv, OrderInv
  <2>2. ~answer.found /\ ~serving
    BY DEF Init, NoAnswer
  <2>3. QED
    BY <2>1, <2>2 DEF IInv, RouterInv, LongestPrefixWins, FallbackInListOrder
<1>2. TypeOK' /\ IInv /\ [Next]_vars => IInv'
  <2> SUFFICES ASSUME TypeOK', IInv, [Next]_vars PROVE IInv'
    OBVIOUS
  <2> USE DEF IInv, RouterInv
  <2>1. CASE AddOrigin
    <3>1. ~serving' /\ answer' = NoAnswer /\ ~answer'.found
      BY <2>1 DEF AddOrigin, OrderInv, NoAnswer
    <3>2. QED
      BY <2>1, <3>1, AddOriginTable DEF OrderInv, LongestPrefixWins, FallbackInListOrder
  <2>2. CASE SortRoutes
    <3>1. answer' = NoAnswer /\ ~answer'.found
      BY <2>2 DEF SortRoutes, OrderInv, NoAnswer
    <3>2. NoAnswer' = NoAnswer
      BY DEF NoAnswer
    <3>3. QED
      BY <2>2, <3>1, <3>2, SortRoutesTable, SortRoutesOrder
      DEF LongestPrefixWins, FallbackInListOrder
  <2>3. ASSUME NEW path, MatchRoute(path) PROVE IInv'
    <3>1. TableInv' /\ OrderInv'
      BY <2>3 DEF MatchRoute, TableInv, OrderInv, PrefixLen
    <3>2. QED
      BY <2>3, <3>1, MatchRouteAnswer
  <2>4. CASE UNCHANGED vars
    BY <2>4 DEF vars, TableInv, OrderInv, PrefixLen, LongestPrefixWins, FallbackInListOrder
  <2>5. QED
    BY <2>1, <2>2, <2>3, <2>4 DEF Next
<1>3. QED
  BY <1>1, <1>2, TypeCorrect, PTL DEF Spec, IInv, RouterInv

\* build_router and sort_routes: for every list, each path has one route with all the
\* entries of this path in order, and the table that is served is complete and sorted.
THEOREM TableCorrect == Spec => []RouterInv
BY RouterCorrect, PTL

\* The origins of an answer are those of its path, in the order of the list,
\* although grouping and sorting have moved their routes.
THEOREM ListOrderCorrect == Spec => []FallbackInListOrder
BY RouterCorrect, PTL
=============================================================================
