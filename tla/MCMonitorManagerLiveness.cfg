\* One class, three operations, no symmetry: the properties are temporal.
SPECIFICATION FairSpec
CONSTANTS
    Key = {k1}
    Op = {o1, o2, o3}
    None = None
    Absent = Absent
    MaxEvents = 1
    SocketBound = {"absent", "live", "stale"}
PROPERTIES
    EveryRequestCompletes
    ExitIsRegistered
    ShutdownReturns
CHECK_DEADLOCK FALSE
