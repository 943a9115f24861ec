\* Two connections, so that a dangling timeout may hit the other one.  No symmetry:
\* two of the properties are temporal.
SPECIFICATION FairSpec
CONSTANTS
    Conn = {c1, c2}
CHECK_DEADLOCK FALSE
INVARIANTS
    OnlyLateTimeoutsDisturb
PROPERTIES
    EveryConnectionIsReleased
    EveryClientIsTold
    ImplementsExchange
