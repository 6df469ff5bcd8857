SPECIFICATION Spec
CONSTANTS
    A = A
    B = B
    C = C
    Logout = Logout
    User = User
    RA = RA
    RB = RB
    RC = RC
    ROdd = ROdd
    RTwice = RTwice
    RLogout = RLogout
    RUser = RUser
    RInternal = RInternal
    C1 = C1
    C2 = C2
    C3 = C3
    C4 = C4
    Z = Z
    X = X
    Y = Y
    NoId = NoId
    BlankId = BlankId
    Unreadable = Unreadable
    LogoutId = Logout
    LogoutRoute = RLogout
    OddRoutes = {ROdd}
    Placeholders <- MCPlaceholders
    Documents <- MCDocuments
    Repos <- MCRepos
    Kinds = {"full", "partial", "redirected", "offline", "online"}
    MaxRuns = 2
    MaxDeploys = 2
CONSTRAINT Interesting
INVARIANTS
    StartIsReviewed
    PassIsReviewed
    ArtifactsExplainExit
    PublishedTogether
CHECK_DEADLOCK FALSE
