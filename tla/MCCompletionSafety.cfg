\* One class, hence one monitor and one scraper; two requests, joint or plain; a
\* socket whose listener is gone is left to the runs of MonitorManager.
SPECIFICATION JointSpec
CONSTANTS
    Request = {r1, r2}
    Class = {c1}
    Key <- JointKey
    Op <- JointOp
    None = None
    Absent = Absent
    MaxEvents = 1
    SocketBound = {"absent", "live"}
SYMMETRY Symmetry
INVARIANTS
    StatusInOrder
    OkMeansBothCarriedOut
    JointIsDriven
PROPERTIES
    ImplementsCommonAnswer
CHECK_DEADLOCK FALSE
