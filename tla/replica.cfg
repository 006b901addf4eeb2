SPECIFICATION Spec
CONSTANTS
    Handler = {h1, h2}
    FetchTimeout <- MCFetchTimeout
    CallTimeout = 1
    Margin = 3
    MaxLife = 5
    MinAge = 2
    MaxAge = 3
    DefaultAge = 2
    ClockSkew = 1
    Answers <- MCAnswers
    AssertionLife = 1
    MaxRotations = 1
    MaxTime = 5
    Environments <- MCEnvironments
    RequestLife = 1
    EvidenceLife = 2
    Skew = 0
    None = None
CHECK_DEADLOCK FALSE
INVARIANTS CredentialsTypeOK TokenOutlivesCall WaitBounded WiredSafely
PROPERTIES VerifiedInTime KnownKeyIsFound EveryAskEnds
