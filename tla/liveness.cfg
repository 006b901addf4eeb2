SPECIFICATION FairSpec
CONSTANTS
    Intent <- MCOne
    Handler = {h1, h2}
    Nonce = {n1, n2}
    ReceiptID = {c1, c2}
    None = None
    Unsendable = Unsendable
    RequestID <- MCRequestID
    Binding <- MCBinding
    Approval <- MCApproval
    Target <- MCTarget
    RequestIDOf <- MCRequestIDOf
    BindingOf <- MCBindingOf
    ApprovalOf <- MCApprovalOf
    TargetOf <- MCTargetOf
    StoredAs <- MCStoredAs
    OperationOf <- MCOperationOf
    ExpiresAt <- MCExpiresAt
    DayOf <- MCDayOf
    Window = 2
    MaxTime = 0
    MaxEpoch = 1
    SlowCalls = TRUE
    Calm = "eventually"
PROPERTIES
    CallsReturn
    ResultReachesReceipt
    ObservedIsConcluded
