\* One class, two requests; no socket comes or goes, so that only timers, exits
\* and answers race.
SPECIFICATION FairJointSpec
CONSTANTS
    Request = {r1, r2}
    Class = {c1}
    Key <- JointKey
    Op <- JointOp
    None = None
    Absent = Absent
    MaxEvents = 0
    SocketBound = {"absent"}
PROPERTIES
    JointCompletes
CHECK_DEADLOCK FALSE
