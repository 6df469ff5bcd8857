SPECIFICATION FairSpec
CONSTANTS
    R1 = R1
    R2 = R2
    A = A
    B = B
    C = C
    U1 = U1
    U2 = U2
    Proc = {P1}
    Revision = {R1, R2}
    Package = {A, B, Project}
    Locked <- Selections
    Project = Project
    Uv = {U1, U2}
    UvPin <- ToolPins
    NoMarker = NoMarker
    MaxChanges = 1
PROPERTIES
    RunsRecover
