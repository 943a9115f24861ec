\* Two release builds and a debug build, in any order, in sequence or at once; three
\* commands, enough for two shutdowns of a daemon, or for two adds of a class and a
\* shutdown between them.  No symmetry: one property is temporal.
SPECIFICATION FairSpec
CONSTANTS
    Daemon = {d1, d2, d3}
    Client = {c1, c2, c3}
    Class = {k}
    None = None
    Debug = {d3}
CHECK_DEADLOCK FALSE
INVARIANTS
    ListeningIsReachable
    OnlyCrashesLeaveFiles
    SecondInstanceNeedsCrash
PROPERTY
    WaitingIsServed
