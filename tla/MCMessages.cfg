\* An int of four bits: both ends of an int and of a code are within MaxInteger.
SPECIFICATION Spec
CONSTANTS
    LastCommand = 5
    LastError = 4
    UNRECOGNIZED_COMMAND = 3
    MM_STOP_MONITOR_MANAGER = 2
    Handled = {1, 2, 4}
    Stop = {4}
    IntBound = 8
    Payload = {"short", "long"}
    TooLong = {"long"}
    MaxInteger = 17
CHECK_DEADLOCK FALSE
INVARIANTS
    HandledAsSent
    RunsWhatWasAsked
    ErrorIsNotShownAsOk
    DiesOnlyOfStrangers
