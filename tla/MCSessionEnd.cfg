SPECIFICATION Spec
CONSTANTS
    q1 = q1
    q2 = q2
    Queries = {q1}
    Situations <- AllSituations
    Enders = {"owner", "expiry"}
    Closers = {"web", "hook"}
    Faults = {"exception", "timeout", "crash", "lost_push", "command"}
INVARIANTS
    TypeOK
    ExecutionFollowsQuery
    ClosedSessionNeverRuns
    CancelledEarlyNeverRuns
CHECK_DEADLOCK FALSE
