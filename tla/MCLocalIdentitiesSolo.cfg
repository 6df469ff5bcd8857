SPECIFICATION FairSpec
CONSTANTS
    Primary = Primary
    Secondary = Secondary
    S1 = S1
    S2 = S2
    Unset = Unset
    Role <- TwoSlots
    Supplied = {S1, S2}
    Fresh = {F1, F2, F3}
    Proc = {P1}
    InitialFiles <- OperatorFiles
    Environments <- OperatorEnvironments
    InitialAccounts <- OneAccount
INVARIANTS
    NoOrphanAccount
    CompleteHasAccount
PROPERTIES
    SavedValuesPreserved
    SlotsStayUsable
    ImplementsLedger
    PendingCompletes
