SPECIFICATION FairSpec
CONSTANTS
    alice = alice
    rita = rita
    root = root
    r1 = r1
    r2 = r2
    w1 = w1
    w2 = w2
    Requests = {r1}
    Users = {alice, rita, root}
    Requesters = {alice}
    Admins = {root}
    Reviewers = {rita}
    Workers = {w1, w2}
    None = None
    DeadWorker = DeadWorker
    Policies <- OpenOnly
    Schedules = {"none"}
    Faults = {"exception", "timeout", "crash", "lost_push"}
    MaxRevision = 1
    MaxStatements = 2
    MaxJobs = 2
INVARIANTS
    OneExecutorPerBatch
    CancellationStopsBatch
PROPERTIES
    WritesStartOnce
    RunningBatchesEnd
CHECK_DEADLOCK FALSE
