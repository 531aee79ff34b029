\* A fetch of a path while it is written and the root is led from one release to
\* another and back; the one it has left may be removed.
SPECIFICATION Spec
CONSTANTS
    Fetches = {f1}
    Releases = {d1, d2}
    NoRelease = NoRelease
    MaxVersion = 3
INVARIANTS AnswerWasLive FailsForCause AnswersWhatIsServed DateCoversBody
\* The fetches are done and nothing more is deployed.
CHECK_DEADLOCK FALSE
