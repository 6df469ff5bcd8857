SPECIFICATION FairIngressSpec
CONSTANTS
    SessionOperations = SessionOperations
    ApiRequests = ApiRequests
    Policy = {SessionOperations, ApiRequests}
    Families <- PathFamilies
    PolicyOrder <- Order
    Interval <- Paces
    Refill <- Allowances
    MaxRefill = 4
    Burst = 1
    PathClass <- Limited
    Outsiders = TRUE
    Target <- Paths
    Caller = {C1, C2}
    Unpaced = Unpaced
    Nobody = Nobody
    MaxHandover = 1
INVARIANTS
    LimitedOnlyByOutsiders
PROPERTIES
    SlotsAreSpaced
    EveryRequestDispatched
