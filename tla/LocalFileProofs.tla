--------------------------- MODULE LocalFileProofs ---------------------------
(***************************************************************************)
(* Theorems about LocalFile, for any number of fetches, releases and       *)
(* versions.                                                               *)
(***************************************************************************)
EXTENDS LocalFile, TLAPS

-----------------------------------------------------------------------------
(* Types.                                                                  *)

Body == [release : Releases \cup {NoRelease}, version : Nat]

Fetch ==
    [pc : {"idle", "found", "found outside", "below", "file", "directory", "index",
           "file read", "index read", "done", "failed"},
     at : Releases \cup {NoRelease}, body : Body, date : SUBSET Nat,
     live : SUBSET Body, quiet : BOOLEAN, servable : BOOLEAN]

Node == [kind : Kinds, version : Nat]

FilesType ==
    /\ root \in Releases /\ left \subseteq Releases /\ root \notin left
    /\ node \in [Releases -> Node] /\ clock \in Nat

FetchType == fetch \in [Fetches -> Fetch]

LEMMA VersionType ==
    ASSUME NEW d \in Releases, NEW n \in [Releases -> Node]
    PROVE  /\ Version(d, n) \in Body /\ Version(d, n).version = n[d].version
           /\ LiveVersions(d, n) \subseteq Body
<1>1. Version(d, n) \in Body /\ Version(d, n).version = n[d].version
  BY DEF Version, Body, Node
<1>2. QED
  BY <1>1 DEF LiveVersions

LEMMA IdleType == Idle \in Fetch /\ Idle.pc = "idle" /\ Idle.quiet
<1> DEFINE true == TRUE
           false == FALSE
<1>1. true \in BOOLEAN /\ false \in BOOLEAN /\ true
  OBVIOUS
<1>2. Idle = [pc |-> "idle", at |-> NoRelease,
              body |-> [release |-> NoRelease, version |-> 0], date |-> {},
              live |-> {}, quiet |-> true, servable |-> false]
  BY DEF Idle
<1> HIDE DEF true, false
<1>3. Idle \in Fetch /\ Idle.pc = "idle" /\ Idle.quiet = true
  BY <1>1, <1>2 DEF Fetch, Body
<1>4. QED
  BY <1>1, <1>3

\* What a change of the files does to the fetches, in its parts.
LEMMA ObserveEffect ==
    ASSUME FetchType, NEW d, NEW n, NEW disturbing, Observe(d, n, disturbing),
           LiveVersions(d, n) \subseteq Body
    PROVE  /\ FetchType'
           /\ \A f \in Fetches :
                 /\ fetch'[f].pc = fetch[f].pc /\ fetch'[f].at = fetch[f].at
                 /\ fetch'[f].body = fetch[f].body /\ fetch'[f].date = fetch[f].date
                 /\ fetch'[f].servable = fetch[f].servable
                 /\ fetch'[f].live = fetch[f].live \cup LiveVersions(d, n)
                 /\ fetch'[f].quiet => fetch[f].quiet /\ ~disturbing
<1> DEFINE still(f) == fetch[f].quiet /\ ~disturbing
           more == LiveVersions(d, n)
           new(f) == [fetch[f] EXCEPT !.live = fetch[f].live \cup more, !.quiet = still(f)]
<1>1. fetch' = [f \in Fetches |-> new(f)]
  BY DEF Observe
<1>2. \A f \in Fetches : still(f) \in BOOLEAN /\ (still(f) => fetch[f].quiet /\ ~disturbing)
  OBVIOUS
<1>3. more \subseteq Body
  OBVIOUS
<1> HIDE DEF still, more
<1>4. \A f \in Fetches : fetch[f].live \cup more \in SUBSET Body
  BY <1>3 DEF FetchType, Fetch
<1>5. \A f \in Fetches :
         /\ new(f) \in Fetch
         /\ new(f).pc = fetch[f].pc /\ new(f).at = fetch[f].at
         /\ new(f).body = fetch[f].body /\ new(f).date = fetch[f].date
         /\ new(f).servable = fetch[f].servable
         /\ new(f).live = fetch[f].live \cup more /\ new(f).quiet = still(f)
  BY <1>2, <1>4 DEF FetchType, Fetch
<1> HIDE DEF new
<1>6. FetchType' /\ \A f \in Fetches : fetch'[f] = new(f)
  BY <1>1, <1>5 DEF FetchType
<1>7. QED
  BY <1>2, <1>5, <1>6 DEF more

\* One fetch has changed.
LEMMA UpdateFetch ==
    ASSUME FetchType, NEW f \in Fetches, NEW n \in Fetch, fetch' = [fetch EXCEPT ![f] = n]
    PROVE  FetchType' /\ fetch'[f] = n /\ \A g \in Fetches \ {f} : fetch'[g] = fetch[g]
  BY DEF FetchType

-----------------------------------------------------------------------------
(* The inductive invariant.  r is a fetch.                                 *)

\* The fetch has resolved the path and has not read the file yet; it has read it
\* and has not dated it yet.
Resolving == {"found", "found outside", "below", "file", "directory", "index"}
Reading == {"file read", "index read"}

\* What the fetch would read has been live since it began: its release is the one
\* served or one that is no longer written.
Tracks(r) ==
    r.pc \in Resolving \cup Reading =>
        r.at \in left \cup {root} /\ LiveVersions(r.at, node) \subseteq r.live

HasRead(r) == r.pc \in Reading \cup {"done"} => r.body \in r.live

\* What is there now, if anything is, is as new as what the fetch has read.
Dates(r) ==
    /\ r.pc \in Reading =>
          /\ r.body.version <= clock
          /\ node[r.at].kind = "none" \/ r.body.version <= node[r.at].version
    /\ r.pc = "done" => \A t \in r.date : r.body.version <= t

\* A fetch of what can be served, undisturbed so far, still finds it as it was.
Proceeds(r) ==
    r.servable /\ r.quiet =>
        /\ r.pc \notin {"failed", "found outside"}
        /\ r.pc \in Resolving => r.at = root /\ Servable(node[root])
        /\ r.pc = "file" => node[root].kind = "file"
        /\ r.pc \in {"directory", "index"} => node[root].kind = "index"

\* One of what cannot be, undisturbed so far, has nothing to read.
Withheld(r) ==
    ~r.servable /\ r.quiet =>
        /\ r.pc \in {"idle", "failed", "found", "found outside", "below", "directory"}
        /\ r.pc \in {"found", "below", "directory"} => r.at = root /\ node[root].kind = "bare"

FetchInv(r) == Tracks(r) /\ HasRead(r) /\ Dates(r) /\ Proceeds(r) /\ Withheld(r)

ClockInv == \A d \in Releases : node[d].version <= clock

IInv == FilesType /\ FetchType /\ ClockInv /\ \A f \in Fetches : FetchInv(fetch[f])

LEMMA InitInv == Init => IInv
<1> SUFFICES ASSUME Init PROVE IInv
  OBVIOUS
<1>1. FilesType /\ ClockInv
  BY DEF Init, FilesType, ClockInv, Node
<1>2. FetchType /\ \A f \in Fetches : fetch[f].pc = "idle"
  BY IdleType DEF Init, FetchType
<1>3. ASSUME NEW f \in Fetches PROVE FetchInv(fetch[f])
  BY <1>2 DEF FetchInv, Tracks, HasRead, Dates, Proceeds, Withheld, Resolving, Reading
<1>4. QED
  BY <1>1, <1>2, <1>3 DEF IInv

-----------------------------------------------------------------------------
(* The deployments preserve it.                                            *)

LEMMA WriteInv ==
    ASSUME IInv, NEW d \in Releases, NEW kind \in Kinds, Write(d, kind)
    PROVE  IInv'
<1> DEFINE n == [kind |-> kind, version |-> clock + 1]
<1>1. FilesType /\ FetchType /\ ClockInv /\ d \notin left
  BY DEF IInv, Write
<1>2. n \in Node /\ n.kind = kind /\ n.version = clock + 1
  BY <1>1 DEF FilesType, Node
<1>3. node' = [node EXCEPT ![d] = n] /\ clock' = clock + 1 /\ UNCHANGED <<root, left>>
  BY DEF Write
<1> HIDE DEF n
<1>4. node'[d] = n /\ \A e \in Releases \ {d} : node'[e] = node[e]
  BY <1>1, <1>3 DEF FilesType
<1>5. FilesType'
  BY <1>1, <1>2, <1>3 DEF FilesType
<1>6. ClockInv'
  BY <1>1, <1>2, <1>3, <1>4 DEF ClockInv, FilesType, Node
<1>7. LiveVersions(root, node') \subseteq Body
  BY <1>3, <1>5, VersionType DEF FilesType
<1>8. Observe(root, node', d = root /\ kind # node[d].kind)
  BY DEF Write
<1>9. /\ FetchType'
      /\ \A f \in Fetches :
            /\ fetch'[f].pc = fetch[f].pc /\ fetch'[f].at = fetch[f].at
            /\ fetch'[f].body = fetch[f].body /\ fetch'[f].date = fetch[f].date
            /\ fetch'[f].servable = fetch[f].servable
            /\ fetch'[f].live = fetch[f].live \cup LiveVersions(root, node')
            /\ fetch'[f].quiet => fetch[f].quiet /\ ~(d = root /\ kind # node[d].kind)
  BY <1>1, <1>7, <1>8, ObserveEffect
<1>10. ASSUME NEW f \in Fetches PROVE FetchInv(fetch[f])'
  <2>1. FetchInv(fetch[f]) /\ fetch[f] \in Fetch
    BY <1>1 DEF IInv, FetchType
  <2>2. Tracks(fetch[f])'
    <3>1. SUFFICES ASSUME fetch[f].pc \in Resolving \cup Reading
                   PROVE  LiveVersions(fetch[f].at, node') \subseteq fetch'[f].live
      BY <1>3, <1>9, <2>1 DEF Tracks, FetchInv
    <3>2. CASE fetch[f].at = root
      BY <1>9, <3>2
    <3>3. CASE fetch[f].at \in left
      <4>1. LiveVersions(fetch[f].at, node') = LiveVersions(fetch[f].at, node)
        BY <1>1, <1>4, <3>3 DEF LiveVersions, Version, FilesType
      <4>2. QED
        BY <1>9, <2>1, <3>1, <4>1 DEF FetchInv, Tracks
    <3>4. QED
      BY <2>1, <3>1, <3>2, <3>3 DEF FetchInv, Tracks
  <2>3. HasRead(fetch[f])'
    BY <1>9, <2>1 DEF FetchInv, HasRead
  <2>4. Dates(fetch[f])'
    <3>1. CASE fetch[f].pc \in Reading
      <4>1. /\ fetch[f].at \in Releases /\ fetch[f].body.version \in Nat
            /\ fetch[f].body.version <= clock /\ clock \in Nat
        BY <1>1, <2>1, <3>1 DEF FetchInv, Tracks, Dates, FilesType, Fetch, Body
      <4>2. \/ node'[fetch[f].at].kind = "none"
            \/ fetch[f].body.version <= node'[fetch[f].at].version
        BY <1>2, <1>4, <2>1, <3>1, <4>1 DEF FetchInv, Dates
      <4>3. fetch[f].pc # "done"
        BY <3>1 DEF Reading
      <4>4. fetch[f].body.version <= clock'
        BY <1>3, <4>1
      <4>5. QED
        BY <1>9, <4>2, <4>3, <4>4 DEF Dates
    <3>2. CASE fetch[f].pc \notin Reading
      BY <1>9, <2>1, <3>2 DEF FetchInv, Dates
    <3>3. QED
      BY <3>1, <3>2
  <2>5. Proceeds(fetch[f])'
    <3>1. SUFFICES ASSUME fetch'[f].quiet, fetch'[f].servable PROVE Proceeds(fetch[f])'
      BY DEF Proceeds
    <3>2. node'[root].kind = node[root].kind
      BY <1>1, <1>2, <1>4, <1>9, <3>1 DEF FilesType
    <3>3. QED
      BY <1>3, <1>9, <2>1, <3>1, <3>2 DEF FetchInv, Proceeds, Servable
  <2>6. Withheld(fetch[f])'
    <3>1. SUFFICES ASSUME fetch'[f].quiet, ~fetch'[f].servable PROVE Withheld(fetch[f])'
      BY DEF Withheld
    <3>2. node'[root].kind = node[root].kind
      BY <1>1, <1>2, <1>4, <1>9, <3>1 DEF FilesType
    <3>3. QED
      BY <1>3, <1>9, <2>1, <3>1, <3>2 DEF FetchInv, Withheld
  <2>7. QED
    BY <2>2, <2>3, <2>4, <2>5, <2>6 DEF FetchInv
<1>11. QED
  BY <1>5, <1>6, <1>9, <1>10 DEF IInv

LEMMA SwitchInv ==
    ASSUME IInv, NEW d \in Releases, Switch(d)
    PROVE  IInv'
<1>1. FilesType /\ FetchType /\ ClockInv
  BY DEF IInv
<1>2. /\ d # root /\ root' = d /\ left' = (left \cup {root}) \ {d}
      /\ UNCHANGED <<node, clock>>
  BY DEF Switch
<1> DEFINE true == TRUE
<1>3. true /\ Observe(d, node, true)
  BY DEF Switch
<1> HIDE DEF true
<1>4. FilesType' /\ ClockInv'
  BY <1>1, <1>2 DEF FilesType, ClockInv
<1>5. LiveVersions(d, node) \subseteq Body
  BY <1>1, VersionType DEF FilesType
<1>6. /\ FetchType'
      /\ \A f \in Fetches :
            /\ fetch'[f].pc = fetch[f].pc /\ fetch'[f].at = fetch[f].at
            /\ fetch'[f].body = fetch[f].body /\ fetch'[f].date = fetch[f].date
            /\ fetch'[f].servable = fetch[f].servable
            /\ fetch'[f].live = fetch[f].live \cup LiveVersions(d, node)
            /\ ~fetch'[f].quiet
  BY <1>1, <1>5, <1>3, ObserveEffect
<1>7. ASSUME NEW f \in Fetches PROVE FetchInv(fetch[f])'
  <2>1. FetchInv(fetch[f])
    BY DEF IInv
  <2>2. Tracks(fetch[f])'
    BY <1>2, <1>6, <2>1 DEF FetchInv, Tracks, LiveVersions, Version
  <2>3. HasRead(fetch[f])' /\ Dates(fetch[f])'
    BY <1>2, <1>6, <2>1 DEF FetchInv, HasRead, Dates
  <2>4. Proceeds(fetch[f])' /\ Withheld(fetch[f])'
    BY <1>6 DEF Proceeds, Withheld
  <2>5. QED
    BY <2>2, <2>3, <2>4 DEF FetchInv
<1>8. QED
  BY <1>4, <1>6, <1>7 DEF IInv

LEMMA RemoveInv ==
    ASSUME IInv, NEW d \in Releases, Remove(d)
    PROVE  IInv'
<1>1. FilesType /\ FetchType /\ ClockInv
  BY DEF IInv
<1>2. /\ d \in left /\ node' = [node EXCEPT ![d] = NoNode]
      /\ UNCHANGED <<root, left, clock, fetch>>
  BY DEF Remove
<1>3. NoNode \in Node /\ NoNode.kind = "none" /\ NoNode.version = 0
  BY DEF NoNode, Node, Kinds
<1>4. node'[d] = NoNode /\ \A e \in Releases \ {d} : node'[e] = node[e]
  BY <1>1, <1>2 DEF FilesType
<1>5. FilesType' /\ FetchType'
  BY <1>1, <1>2, <1>3 DEF FilesType, FetchType
<1>6. ClockInv'
  BY <1>1, <1>2, <1>3, <1>4 DEF ClockInv, FilesType
<1>7. ASSUME NEW f \in Fetches PROVE FetchInv(fetch[f])'
  <2>1. FetchInv(fetch[f]) /\ fetch'[f] = fetch[f]
    BY <1>2 DEF IInv
  <2>2. \A e \in Releases : LiveVersions(e, node') \subseteq LiveVersions(e, node)
    BY <1>3, <1>4 DEF LiveVersions, Version, Readable
  <2>3. ASSUME fetch[f].pc \in Resolving \cup Reading
        PROVE  fetch[f].at \in Releases
    BY <1>1, <2>1, <2>3 DEF FetchInv, Tracks, FilesType
  <2>4. Tracks(fetch[f])'
    BY <1>2, <2>1, <2>2, <2>3 DEF FetchInv, Tracks
  <2>5. Dates(fetch[f])'
    BY <1>2, <1>3, <1>4, <2>1, <2>3 DEF FetchInv, Dates
  <2>6. HasRead(fetch[f])'
    BY <2>1 DEF FetchInv, HasRead
  <2>7. Proceeds(fetch[f])' /\ Withheld(fetch[f])'
    BY <1>1, <1>2, <1>4, <2>1 DEF FetchInv, Proceeds, Withheld, FilesType
  <2>8. QED
    BY <2>4, <2>5, <2>6, <2>7 DEF FetchInv
<1>8. QED
  BY <1>5, <1>6, <1>7 DEF IInv

-----------------------------------------------------------------------------
(* The steps of a fetch preserve it.                                       *)

\* One fetch has made a step to n.
LEMMA FetchUpdate ==
    ASSUME IInv, NEW f \in Fetches, NEW n \in Fetch, FetchInv(n),
           fetch' = [fetch EXCEPT ![f] = n], UNCHANGED Files
    PROVE  IInv'
<1>1. FetchType' /\ fetch'[f] = n /\ \A g \in Fetches \ {f} : fetch'[g] = fetch[g]
  BY UpdateFetch DEF IInv
<1>2. FilesType' /\ ClockInv'
  BY DEF Files, IInv, FilesType, ClockInv
<1>3. ASSUME NEW g \in Fetches PROVE FetchInv(fetch[g])'
  <2>1. FetchInv(fetch'[g])
    BY <1>1 DEF IInv
  <2>2. UNCHANGED <<root, left, node, clock>>
    BY DEF Files
  <2>3. QED
    BY <2>1, <2>2
       DEF FetchInv, Tracks, HasRead, Dates, Proceeds, Withheld, LiveVersions, Version
<1>4. QED
  BY <1>1, <1>2, <1>3 DEF IInv

\* One that only goes on to pc.
LEMMA GoToInv ==
    ASSUME IInv, NEW f \in Fetches, NEW pc \in Resolving \cup {"failed"}, GoTo(f, pc),
           fetch[f].pc \in Resolving,
           fetch[f].servable /\ fetch[f].quiet =>
               /\ pc \notin {"failed", "found outside"}
               /\ pc = "file" => node[root].kind = "file"
               /\ pc \in {"directory", "index"} => node[root].kind = "index",
           ~fetch[f].servable /\ fetch[f].quiet =>
               \/ pc = "failed"
               \/ pc \in {"below", "directory"} /\ fetch[f].pc \in {"found", "below"}
    PROVE  IInv'
<1> DEFINE n == [fetch[f] EXCEPT !.pc = pc]
<1>1. fetch[f] \in Fetch /\ FetchInv(fetch[f])
  BY DEF IInv, FetchType
<1>2. /\ n \in Fetch /\ n.pc = pc /\ n.at = fetch[f].at /\ n.live = fetch[f].live
      /\ n.servable = fetch[f].servable /\ n.quiet = fetch[f].quiet
  BY <1>1 DEF Fetch, Resolving
<1>3. fetch' = [fetch EXCEPT ![f] = n] /\ UNCHANGED Files
  BY DEF GoTo
<1> HIDE DEF n
<1>4. Tracks(n) /\ Proceeds(n) /\ Withheld(n)
  BY <1>1, <1>2 DEF FetchInv, Tracks, Proceeds, Withheld
<1>5. pc \notin Reading \cup {"done"}
  BY DEF Resolving, Reading
<1>6. HasRead(n) /\ Dates(n)
  BY <1>2, <1>5 DEF HasRead, Dates
<1>7. QED
  BY <1>2, <1>3, <1>4, <1>6, FetchUpdate DEF FetchInv

LEMMA CanonicalizeInv ==
    ASSUME IInv, NEW f \in Fetches, Canonicalize(f)
    PROVE  IInv'
<1> DEFINE pc == CASE node[root].kind = "none" -> "failed"
                   [] node[root].kind = "outside" -> "found outside"
                   [] OTHER -> "found"
           live == LiveVersions(root, node)
           servable == Servable(node[root])
           n == [Idle EXCEPT !.pc = pc, !.at = root, !.live = live, !.servable = servable]
<1>1. fetch' = [fetch EXCEPT ![f] = n] /\ UNCHANGED Files
  BY DEF Canonicalize, Resolved
<1>2. /\ pc \in {"failed", "found", "found outside"}
      /\ pc \in {"failed", "found outside"} => ~servable
      /\ pc = "found" /\ ~servable => node[root].kind = "bare"
      /\ servable \in BOOLEAN
  BY DEF Servable, Kinds, IInv, FilesType, Node
<1>3. root \in Releases /\ live \in SUBSET Body
  BY VersionType DEF IInv, FilesType
<1>4. servable => Servable(node[root])
  OBVIOUS
<1> HIDE DEF pc, live, servable
<1>5. /\ n \in Fetch /\ n.pc = pc /\ n.at = root /\ n.live = live
      /\ n.servable = servable
  BY <1>2, <1>3, IdleType DEF Fetch
<1> HIDE DEF n
<1>6. Tracks(n) /\ Proceeds(n) /\ Withheld(n)
  BY <1>2, <1>4, <1>5 DEF Tracks, Proceeds, Withheld, live
<1>7. HasRead(n) /\ Dates(n)
  BY <1>2, <1>5 DEF HasRead, Dates, Reading
<1>8. QED
  BY <1>1, <1>5, <1>6, <1>7, FetchUpdate DEF FetchInv

LEMMA ResolveInv ==
    ASSUME IInv, NEW f \in Fetches, CheckRoot(f) \/ Stat(f) \/ FindIndex(f)
    PROVE  IInv'
<1>1. FetchInv(fetch[f]) /\ fetch[f].pc \in Resolving
  BY DEF IInv, CheckRoot, Stat, FindIndex, Resolving
<1>2. /\ fetch[f].servable /\ fetch[f].quiet => fetch[f].at = root /\ Servable(node[root])
      /\ fetch[f].servable /\ fetch[f].quiet => fetch[f].pc # "found outside"
      /\ ~fetch[f].servable /\ fetch[f].quiet /\ fetch[f].pc # "found outside" =>
             fetch[f].at = root /\ node[root].kind = "bare"
  BY <1>1 DEF FetchInv, Proceeds, Withheld, Resolving
<1>3. CASE CheckRoot(f)
  <2> DEFINE pc == IF fetch[f].pc = "found" /\ Resolved = fetch[f].at THEN "below" ELSE "failed"
  <2>1. GoTo(f, pc) /\ fetch[f].pc \in {"found", "found outside"}
    BY <1>3 DEF CheckRoot
  <2>2. pc \in {"below", "failed"} /\ (pc = "below" => fetch[f].pc = "found")
    OBVIOUS
  <2>3. fetch[f].servable /\ fetch[f].quiet => pc = "below"
    BY <1>2, <2>1 DEF Resolved
  <2> HIDE DEF pc
  <2>4. pc \in Resolving \cup {"failed"}
    BY <2>2 DEF Resolving
  <2>5. QED
    BY <1>1, <2>1, <2>2, <2>3, <2>4, GoToInv
<1>4. CASE Stat(f)
  <2> DEFINE pc == CASE Here(f).kind = "none" -> "failed"
                     [] Here(f).kind \in AsFile -> "file"
                     [] OTHER -> "directory"
  <2>1. GoTo(f, pc) /\ fetch[f].pc = "below"
    BY <1>4 DEF Stat
  <2>2. pc \in Resolving \cup {"failed"}
    BY DEF Resolving
  <2>3. /\ fetch[f].servable /\ fetch[f].quiet =>
               /\ pc \notin {"failed", "found outside"}
               /\ pc = "file" => node[root].kind = "file"
               /\ pc \in {"directory", "index"} => node[root].kind = "index"
        /\ ~fetch[f].servable /\ fetch[f].quiet => pc = "directory"
    BY <1>2, <2>1 DEF Here, Servable, AsFile
  <2> HIDE DEF pc
  <2>4. QED
    BY <1>1, <2>1, <2>2, <2>3, GoToInv
<1>5. CASE FindIndex(f)
  <2>1. /\ fetch[f].servable /\ fetch[f].quiet => Here(f).kind = "index" /\ node[root].kind = "index"
        /\ ~fetch[f].servable /\ fetch[f].quiet => Here(f).kind # "index"
    BY <1>1, <1>2, <1>5 DEF FindIndex, FetchInv, Proceeds, Here
  <2>2. QED
    BY <1>1, <1>5, <2>1, GoToInv DEF FindIndex, Resolving
<1>6. QED
  BY <1>3, <1>4, <1>5

LEMMA ReadInv ==
    ASSUME IInv, NEW f \in Fetches, Read(f)
    PROVE  IInv'
<1>1. /\ fetch[f] \in Fetch /\ FetchInv(fetch[f])
      /\ fetch[f].pc \in {"file", "index"} /\ fetch[f].pc \in Resolving
  BY DEF IInv, FetchType, Read, Resolving
<1> DEFINE there == IF fetch[f].pc = "file" THEN AsFile ELSE {"index"}
<1>0. fetch[f].servable \/ ~fetch[f].quiet
  BY <1>1 DEF FetchInv, Withheld
<1>2. CASE Here(f).kind \notin there
  <2>1. GoTo(f, "failed")
    BY <1>2 DEF Read
  <2>2. ~(fetch[f].servable /\ fetch[f].quiet)
    BY <1>1, <1>2 DEF Here, FetchInv, Proceeds, AsFile
  <2>3. QED
    BY <1>0, <1>1, <2>1, <2>2, GoToInv
<1>3. CASE Here(f).kind \in there
  <2> DEFINE pc == IF fetch[f].pc = "file" THEN "file read" ELSE "index read"
             body == Version(fetch[f].at, node)
             n == [fetch[f] EXCEPT !.pc = pc, !.body = body]
  <2>1. fetch' = [fetch EXCEPT ![f] = n] /\ UNCHANGED Files
    BY <1>3 DEF Read
  <2>2. fetch[f].at \in Releases
    BY <1>1 DEF IInv, FilesType, FetchInv, Tracks
  <2>3. body \in Body /\ body.version = node[fetch[f].at].version
    BY <2>2, VersionType DEF IInv, FilesType
  <2>4. body \in fetch[f].live
    BY <1>1, <1>3 DEF FetchInv, Tracks, LiveVersions, Readable, AsFile, Here
  <2>5. body.version <= clock /\ body.version <= node[fetch[f].at].version
    BY <2>2, <2>3 DEF IInv, ClockInv, FilesType, Node
  <2>6. pc \in Reading /\ pc \in {"file read", "index read"}
    BY DEF Reading
  <2> HIDE DEF pc, body
  <2>7. /\ n \in Fetch /\ n.pc = pc /\ n.at = fetch[f].at /\ n.live = fetch[f].live
        /\ n.body = body /\ n.servable = fetch[f].servable /\ n.quiet = fetch[f].quiet
    BY <1>1, <2>3, <2>6 DEF Fetch
  <2> HIDE DEF n
  <2>8. Tracks(n) /\ HasRead(n)
    BY <1>1, <2>4, <2>7 DEF FetchInv, Tracks, HasRead
  <2>9. Dates(n) /\ Proceeds(n) /\ Withheld(n)
    BY <1>0, <2>5, <2>6, <2>7 DEF Dates, Proceeds, Withheld, Resolving
  <2>10. QED
    BY <2>1, <2>7, <2>8, <2>9, FetchUpdate DEF FetchInv
<1>4. QED
  BY <1>2, <1>3

LEMMA DateInv ==
    ASSUME IInv, NEW f \in Fetches, Date(f)
    PROVE  IInv'
<1> DEFINE there == IF fetch[f].pc = "file read" THEN Kinds \ {"none"} ELSE {"index"}
           date == IF Here(f).kind \in there THEN {Here(f).version} ELSE {}
           n == [fetch[f] EXCEPT !.pc = "done", !.date = date]
<1>1. /\ fetch[f] \in Fetch /\ FetchInv(fetch[f]) /\ fetch[f].pc \in Reading
      /\ fetch[f].servable \/ ~fetch[f].quiet
  BY DEF IInv, FetchType, FetchInv, Withheld, Date, Reading
<1>2. fetch' = [fetch EXCEPT ![f] = n] /\ UNCHANGED Files
  BY DEF Date
<1>3. fetch[f].at \in Releases
  BY <1>1 DEF IInv, FilesType, FetchInv, Tracks
<1>4. date \in SUBSET Nat
  BY <1>3 DEF Here, IInv, FilesType, Node
<1>5. \A t \in date : fetch[f].body.version <= t
  BY <1>1 DEF FetchInv, Dates, Here
<1> HIDE DEF date
<1>6. /\ n \in Fetch /\ n.pc = "done" /\ n.body = fetch[f].body /\ n.live = fetch[f].live
      /\ n.date = date /\ n.servable = fetch[f].servable /\ n.quiet = fetch[f].quiet
  BY <1>1, <1>4 DEF Fetch
<1> HIDE DEF n
<1>7. HasRead(n)
  BY <1>1, <1>6 DEF FetchInv, HasRead
<1>8. Dates(n) /\ Tracks(n) /\ Proceeds(n) /\ Withheld(n)
  BY <1>1, <1>5, <1>6 DEF Dates, Tracks, Proceeds, Withheld, Resolving, Reading
<1>9. QED
  BY <1>2, <1>6, <1>7, <1>8, FetchUpdate DEF FetchInv

-----------------------------------------------------------------------------
(* The theorems.                                                           *)

LEMMA StepInv == IInv /\ [Next]_vars => IInv'
<1> SUFFICES ASSUME IInv, [Next]_vars PROVE IInv'
  OBVIOUS
<1>1. CASE Deployment
  BY <1>1, WriteInv, SwitchInv, RemoveInv DEF Deployment
<1>2. ASSUME NEW f \in Fetches, FetchStep(f) PROVE IInv'
  BY <1>2, CanonicalizeInv, ResolveInv, ReadInv, DateInv DEF FetchStep
<1>3. CASE UNCHANGED vars
  <2>1. \A f \in Fetches : FetchInv(fetch[f])'
    BY <1>3
       DEF vars, IInv, FetchInv, Tracks, HasRead, Dates, Proceeds, Withheld, LiveVersions, Version
  <2>2. QED
    BY <1>3, <2>1 DEF vars, IInv, FilesType, FetchType, ClockInv
<1>4. QED
  BY <1>1, <1>2, <1>3 DEF Next

LEMMA InvCorrect == Spec => []IInv
  BY InitInv, StepInv, PTL DEF Spec

\* The file operations of LocalOrigin::fetch amount to one read at some moment of
\* the fetch, however the releases are deployed in between.
THEOREM AnswerCorrect == Spec => []AnswerWasLive
<1>1. IInv => AnswerWasLive
  BY DEF IInv, FetchInv, HasRead, AnswerWasLive
<1>2. QED
  BY <1>1, InvCorrect, PTL

\* LocalOrigin::fetch answers NotFound or an error for a path that could be served
\* only if a deployment came between that was more than a new version of the file.
THEOREM FailureCorrect == Spec => []FailsForCause
<1>1. IInv => FailsForCause
  BY DEF IInv, FetchInv, Proceeds, FailsForCause
<1>2. QED
  BY <1>1, InvCorrect, PTL

\* LocalOrigin::fetch answers a path that leads out of the root, or to a directory
\* without an index.html, only if a deployment has made it another kind of thing, or
\* turned the root, meanwhile.
THEOREM ServedCorrect == Spec => []AnswersWhatIsServed
<1>1. IInv => AnswersWhatIsServed
  BY DEF IInv, FetchInv, Withheld, AnswersWhatIsServed
<1>2. QED
  BY <1>1, InvCorrect, PTL

\* The Last-Modified of read_file, which it takes after the content, is never older
\* than the content.
THEOREM DateCorrect == Spec => []DateCoversBody
<1>1. ASSUME IInv, NEW f \in Fetches, fetch[f].pc = "done", NEW t \in fetch[f].date
      PROVE  t >= fetch[f].body.version
  <2>1. fetch[f].body.version <= t
    BY <1>1 DEF IInv, FetchInv, Dates
  <2>2. t \in Nat /\ fetch[f].body.version \in Nat
    BY <1>1 DEF IInv, FetchType, Fetch, Body
  <2>3. QED
    BY <2>1, <2>2
<1>2. IInv => DateCoversBody
  BY <1>1 DEF DateCoversBody
<1>3. QED
  BY <1>2, InvCorrect, PTL

=============================================================================
