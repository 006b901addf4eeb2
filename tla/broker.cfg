SPECIFICATION FairSpec
CONSTANTS
    Caller = {c1, c2}
    Sha = {s1, s2}
    RequestSha = s1
    PerPage = 2
    Unreadable = {{1, 3}}
    Steady = "eventually"
    MaxOthers = 2
    None = None
    Unsendable = Unsendable
INVARIANTS
    BrokerTypeOK
    AcceptedIsOwn
    ReferenceIsNew
PROPERTIES
    ImplementsProvider
    ShownIsFound
