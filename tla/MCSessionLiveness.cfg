SPECIFICATION SchedulerSpec
CONSTANTS
    q1 = q1
    q2 = q2
    Queries = {q1}
    Situations <- OpenOnly
    Enders = {"owner", "expiry"}
    Closers = {"scheduler"}
    Faults = {"crash"}
PROPERTIES
    QueriesSettle
    ExpiredAccessEnds
CHECK_DEADLOCK FALSE
