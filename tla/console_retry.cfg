SPECIFICATION Spec
CONSTANTS
    Tab = {t}
    Script = {s}
    Person <- MCPerson
    InitialRole <- MCRole
    UserOf <- MCUserOf
    InitialSnapshot <- MCSnapshot
    Intents <- MCIntents
    Evidence <- MCEvidence
    Repositories <- MCRepositories
    Replica = {1, 2}
    Catalog <- MCCatalog
    RequestID = {"i1", "i2"}
    Call = {k1}
    Mover = {2}
    Moves = {1, 3}
    RequestLife = 1
    EvidenceLife = 2
    Skew = 0
    MaxTime = 1
    MaxFetches = 2
    None = None
PROPERTIES PendingIsResumed
