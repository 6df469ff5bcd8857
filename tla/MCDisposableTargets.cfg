SPECIFICATION Spec
CONSTANTS
    Normal = Normal
    Admin = Admin
    F1 = F1
    F2 = F2
    Unset = Unset
    Proc = {P1}
    Run = {R1, R2}
    Reusable = {Normal, Admin}
    Fresh = {F1, F2}
    Directories <- Resolutions
    MaxEdits = 1
SYMMETRY Executions
INVARIANTS
    RequestsAreOnRecord
    TargetsSaved
    OwnTargetOnly
    PassedMeansRevoked
PROPERTIES
    RecordsPreserved
CHECK_DEADLOCK FALSE
