SPECIFICATION Spec
CONSTANTS
    Httpx = Httpx
    Pytest = Pytest
    V1 = V1
    V2 = V2
    Absent = Absent
    None = None
    Run = {R1, R2}
    Name = {Httpx, Pytest}
    Version = {V1, V2}
    Graphs <- Selections
    MaxChanges = 1
INVARIANTS
    ValidatedMeansParity
    SuccessIsValidated
    FailureIsReported
CHECK_DEADLOCK FALSE
