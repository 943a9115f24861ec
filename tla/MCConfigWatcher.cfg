\* One directory, one file, five changes of the directory by other programs: enough
\* to create, change, replace, remove and create again.  No symmetry: two of the
\* properties are temporal.
SPECIFICATION FairSpec
CONSTANTS
    Root = root
    Dir = {common}
    Name = {webhooks}
    None = None
    MaxWd = 8
    MaxChanges = 5
    MonitorDir = {common}
    ScraperDir = {}
    Class = {A}
    common = common
    webhooks = webhooks
    configs = configs
    A = A
CHECK_DEADLOCK FALSE
INVARIANTS
    MapsAgree
    MarksAgree
    ClosedIsQuiet
    DanglingChangesNoWatch
    ReadIsCurrent
    DiesOnlyOfRemovals
PROPERTIES
    CreationIsKept
    CreatedIsMonitored
    SendsEnd
