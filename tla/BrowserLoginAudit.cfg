SPECIFICATION Spec
CONSTANTS
    MaxRequests = 2
INVARIANTS
    AuditRejectsBypass
CHECK_DEADLOCK FALSE
