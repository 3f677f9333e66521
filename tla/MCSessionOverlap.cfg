SPECIFICATION Spec
CONSTANTS
    q1 = q1
    q2 = q2
    Queries = {q1, q2}
    Situations <- OpenOnly
    Enders = {}
    Closers = {"scheduler"}
    Faults = {}
SYMMETRY Symmetry
INVARIANTS
    OneActiveQuery
PROPERTIES
    ClosedStaysClosed
CHECK_DEADLOCK FALSE
