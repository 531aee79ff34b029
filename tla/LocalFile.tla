----------------------------- MODULE LocalFile -----------------------------
(***************************************************************************)
(* LocalOrigin::fetch and read_file of infrastructure/origin/local.rs,     *)
(* system call by system call, while the files are being deployed.         *)
(*                                                                         *)
(* The root may be a symbolic link to the release to be served; the model  *)
(* follows one request path below it.  A version is the time at which it   *)
(* was written.  Of the deployments the model assumes                      *)
(*   - that a file is put in place by renaming a finished one over it, so  *)
(*     that a read sees one version of it;                                 *)
(*   - that what is put in place is dated then: no mtime is preserved;     *)
(*   - that a release is not written while the root leads elsewhere after  *)
(*     it has led there.  The root may be led back to it.                  *)
(*                                                                         *)
(* The fields live, quiet and servable of a fetch are auxiliary: the       *)
(* versions the path has led to since it began, whether the link stood     *)
(* still and the path kept its kind, and whether the path could be served  *)
(* when it began.                                                          *)
(***************************************************************************)
EXTENDS Naturals

CONSTANTS
    Fetches,        \* the fetches of the path, each for one request
    Releases,       \* the releases the root can lead to
    NoRelease,      \* stands for none
    MaxVersion      \* bound: how often anything is written

ASSUME FileAssumption == NoRelease \notin Releases /\ MaxVersion \in Nat

VARIABLES
    root,           \* the release that the root leads to
    left,           \* the releases that it has led to, the present one apart
    node,           \* node[d]: what the path is in release d
    clock,          \* the version written last
    fetch           \* the fetches

vars == <<root, left, node, clock, fetch>>

\* Nothing, a file, a directory with an index.html (the version is of this one) or
\* without, or a link to a file that is not below the root.
Kinds == {"none", "file", "index", "bare", "outside"}
NoNode == [kind |-> "none", version |-> 0]

Version(d, n) == [release |-> d, version |-> n[d].version]

\* The kinds of path that can be opened and read, links followed, and the kinds
\* that an answer is to be made of.
Readable(n) == n.kind \in {"file", "index", "outside"}
Servable(n) == n.kind \in {"file", "index"}

Idle == [pc |-> "idle", at |-> NoRelease,
         body |-> [release |-> NoRelease, version |-> 0], date |-> {},
         live |-> {}, quiet |-> TRUE, servable |-> FALSE]

Init ==
    /\ root \in Releases
    /\ left = {}
    /\ node \in [Releases -> {[kind |-> k, version |-> 0] : k \in Kinds}]
    /\ clock = 0
    /\ fetch = [f \in Fetches |-> Idle]

-----------------------------------------------------------------------------
(* The deployments.                                                        *)

\* What can be read, when the root leads to d and n is there.
LiveVersions(d, n) == IF Readable(n[d]) THEN {Version(d, n)} ELSE {}

\* What a change of the files means for the fetches on their way.
Observe(d, n, disturbing) ==
    fetch' = [f \in Fetches |->
                [fetch[f] EXCEPT !.live = @ \cup LiveVersions(d, n),
                                 !.quiet = @ /\ ~disturbing]]

\* A version of some kind is put in place, or the path is removed.
Write(d, kind) ==
    /\ d \notin left /\ clock < MaxVersion
    /\ clock' = clock + 1
    /\ node' = [node EXCEPT ![d] = [kind |-> kind, version |-> clock + 1]]
    /\ Observe(root, node', d = root /\ kind # node[d].kind)
    /\ UNCHANGED <<root, left>>

\* The link is turned to another release, or back to one.
Switch(d) ==
    /\ d # root
    /\ root' = d /\ left' = (left \cup {root}) \ {d}
    /\ Observe(d, node, TRUE)
    /\ UNCHANGED <<node, clock>>

\* A release that has been left is removed.
Remove(d) ==
    /\ d \in left /\ node[d] # NoNode
    /\ node' = [node EXCEPT ![d] = NoNode]
    /\ UNCHANGED <<root, left, clock, fetch>>

-----------------------------------------------------------------------------
(* fetch and read_file.                                                    *)

Files == <<root, left, node, clock>>

GoTo(f, pc) == fetch' = [fetch EXCEPT ![f].pc = pc] /\ UNCHANGED Files

Here(f) == node[fetch[f].at]

\* Mutant: the root is resolved once, when the server starts.
ResolvedOnce == IF left = {} THEN root ELSE CHOOSE d \in left : TRUE

\* Where canonicalize() ends up below the root, at this moment.
Resolved == root

\* file_path.canonicalize()
Canonicalize(f) ==
    /\ fetch[f].pc = "idle"
    /\ LET pc == CASE node[Resolved].kind = "none" -> "failed"
                   [] node[Resolved].kind = "outside" -> "found outside"
                   [] OTHER -> "found"
       IN fetch' = [fetch EXCEPT ![f] =
                      [Idle EXCEPT !.pc = pc, !.at = Resolved,
                                   !.live = LiveVersions(root, node),
                                   !.servable = Servable(node[root])]]
    /\ UNCHANGED Files

\* Mutant: it is enough that the root is still where it was.
CheckRootOnly(f) ==
    /\ fetch[f].pc \in {"found", "found outside"}
    /\ GoTo(f, IF Resolved = fetch[f].at THEN "below" ELSE "failed")

\* root.canonicalize(), and starts_with: where a link leads to is not below the root.
CheckRoot(f) ==
    /\ fetch[f].pc \in {"found", "found outside"}
    /\ GoTo(f, IF fetch[f].pc = "found" /\ Resolved = fetch[f].at THEN "below" ELSE "failed")

\* What opens as a file, the path being a link by now or not.
AsFile == {"file", "outside"}

\* metadata(canonical), is_dir()
Stat(f) ==
    /\ fetch[f].pc = "below"
    /\ GoTo(f, CASE Here(f).kind = "none" -> "failed"
                 [] Here(f).kind \in AsFile -> "file"
                 [] OTHER -> "directory")

\* Mutant: a directory is refused before its index.html is looked for.
NoIndex(f) == fetch[f].pc = "directory" /\ GoTo(f, "failed")

\* index_path.exists()
FindIndex(f) ==
    /\ fetch[f].pc = "directory"
    /\ GoTo(f, IF Here(f).kind = "index" THEN "index" ELSE "failed")

\* Mutant: the metadata are asked for before the content.
ReadLast(f) ==
    \/ /\ fetch[f].pc \in {"file", "index"}
       /\ fetch' = [fetch EXCEPT ![f].pc = "dated", ![f].date = {Here(f).version}]
       /\ UNCHANGED Files
    \/ /\ fetch[f].pc = "dated" /\ Readable(Here(f))
       /\ fetch' = [fetch EXCEPT ![f].pc = "done", ![f].body = Version(fetch[f].at, node)]
       /\ UNCHANGED Files

\* read(path)
Read(f) ==
    /\ fetch[f].pc \in {"file", "index"}
    /\ IF Here(f).kind \notin (IF fetch[f].pc = "file" THEN AsFile ELSE {"index"})
       THEN GoTo(f, "failed")
       ELSE /\ fetch' = [fetch EXCEPT ![f].pc = IF @ = "file" THEN "file read" ELSE "index read",
                                      ![f].body = Version(fetch[f].at, node)]
            /\ UNCHANGED Files

\* metadata(path), modified(): without them there is no Last-Modified.  The path
\* of a file may be a directory by now.
Date(f) ==
    /\ fetch[f].pc \in {"file read", "index read"}
    /\ LET there == IF fetch[f].pc = "file read" THEN Kinds \ {"none"} ELSE {"index"}
           date == IF Here(f).kind \in there THEN {Here(f).version} ELSE {}
       IN fetch' = [fetch EXCEPT ![f].pc = "done", ![f].date = date]
    /\ UNCHANGED Files

-----------------------------------------------------------------------------
Deployment ==
    \/ \E d \in Releases : Switch(d) \/ Remove(d)
    \/ \E d \in Releases, kind \in Kinds : Write(d, kind)

FetchStep(f) ==
    \/ Canonicalize(f) \/ CheckRoot(f) \/ Stat(f) \/ FindIndex(f)
    \/ Read(f) \/ Date(f)

Next == Deployment \/ \E f \in Fetches : FetchStep(f)

Spec == Init /\ [][Next]_vars

-----------------------------------------------------------------------------
\* A fetch answers with a version that was what the path led to at some moment
\* between its beginning and its end, whatever was deployed between its system
\* calls: it is as if it had read the file in one step.
AnswerWasLive ==
    \A f \in Fetches : fetch[f].pc = "done" => fetch[f].body \in fetch[f].live

\* A fetch of what can be served fails only if, while it was on its way, the root
\* was led to another release or the path became another kind of thing: a file
\* that is merely replaced never costs an answer.
FailsForCause ==
    \A f \in Fetches :
        fetch[f].pc = "failed" => ~fetch[f].servable \/ ~fetch[f].quiet

\* And a fetch answers only what is to be served, unless something of the kind has
\* happened while it was on its way: a path that leads out of the root, or to a
\* directory without an index.html, is not answered.
AnswersWhatIsServed ==
    \A f \in Fetches :
        fetch[f].pc = "done" => fetch[f].servable \/ ~fetch[f].quiet

\* Last-Modified is never earlier than the version it comes with: a cache that
\* asks whether there is anything newer is not told so for ever.
DateCoversBody ==
    \A f \in Fetches : fetch[f].pc = "done" => \A t \in fetch[f].date : t >= fetch[f].body.version
=============================================================================
