SPECIFICATION LiveSpec
CONSTANTS
    MaxRequests = 2
INVARIANTS
    FailedLoginLogsOut
    AccusesRightly
    MissesAreCovered
PROPERTIES
    FlowEnds
CHECK_DEADLOCK FALSE
