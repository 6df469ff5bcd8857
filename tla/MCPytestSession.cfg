SPECIFICATION Spec
CONSTANTS
    S1 = S1
    Same1 = Same1
    S2 = S2
    S3 = S3
    U1 = U1
    U2 = U2
    U3 = U3
    Nothing = Nothing
    Unreadable = Unreadable
    Sessions = {S1, Same1, S2, S3}
    Subjects = {U1, U2, U3}
    SubjectOf <- MCSubjectOf
    Files <- MCFiles
    Suites <- MCSuites
    Supplies <- MCSupplies
    Standings <- MCStandings
    MaxChanges = 1
CONSTRAINT Interesting
INVARIANTS
    PytestTypeOK
    ProductionIsReadOnly
    AcquiredOnRequest
    AcquiredOnce
    RanWithItsUsers
    GreenSkipsLittle
    PromotionStopsFirst
