\* Two calls and a release: one active, one queued, one on its way.
SPECIFICATION ExecSpec
CONSTANTS
    Submitter = {s1, s2, r1}
    Release = {r1}
    Typed = {s1}
    None = None
INVARIANTS
    ExecTypeOK
    ReleasedAtMostOnce
    CallAnswersAreTrue
    NoResultAfterItsCall
    NoJobOutlivesItsSubmitter
PROPERTY
    SubmitterReturns
\* The executor never restarts: after it stopped nothing happens any more.
CHECK_DEADLOCK FALSE
