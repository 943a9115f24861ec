SPECIFICATION Spec
CONSTANTS
    Key = {k1}
    Op = {o1, o2}
    None = None
    Absent = Absent
    MaxEvents = 1
    SocketBound = {"absent", "live", "stale"}
PROPERTIES
    CaseTwoNeverHappens
CHECK_DEADLOCK FALSE
