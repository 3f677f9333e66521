SPECIFICATION Spec
CONSTANTS
    alice = alice
    rita = rita
    root = root
    r1 = r1
    r2 = r2
    w1 = w1
    w2 = w2
    Requests = {r1, r2}
    Users = {alice, rita, root}
    Requesters = {alice}
    Admins = {root}
    Reviewers = {rita}
    Workers = {w1}
    None = None
    DeadWorker = DeadWorker
    Policies <- ApprovalPolicies
    Schedules = {"none"}
    Faults = {}
    MaxRevision = 1
    MaxStatements = 1
    MaxJobs = 1
INVARIANTS
    OnlyEndorsedWorkRuns
CHECK_DEADLOCK FALSE
