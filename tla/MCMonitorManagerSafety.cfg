\* Two classes, three operations: an add, a relaunch of its class, and a stop or a shutdown.
SPECIFICATION Spec
CONSTANTS
    Key = {k1, k2}
    Op = {o1, o2, o3}
    None = None
    Absent = Absent
    MaxEvents = 2
    SocketBound = {"absent", "live", "stale"}
SYMMETRY Symmetry
INVARIANTS
    TypeOK
    HasProcessOrEndpoint
    LiveProcessRegistered
    DropNeedsSuccessor
    EndpointBacked
    AddingIsTimed
    PendingAddHasTimer
PROPERTIES
    ShutdownLeavesNoOrphan
    ImplementsSupervisor
CHECK_DEADLOCK FALSE
