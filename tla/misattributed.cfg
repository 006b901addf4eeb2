SPECIFICATION Spec
CONSTANTS
    Intent <- MCTwo
    Handler = {h1}
    Nonce = {n1, n2, n3}
    ReceiptID = {c1, c2, c3}
    None = None
    Unsendable = Unsendable
    RequestID <- MCRequestID
    Binding <- MCBinding
    Approval <- MCApproval
    Target <- MCTarget
    RequestIDOf <- MCRequestIDOf
    BindingOf <- MCBindingOf
    ApprovalOf <- MCApprovalOf
    TargetOf <- MCTargetOf
    StoredAs <- MCStoredAs
    OperationOf <- MCOperationOf
    ExpiresAt <- MCExpiresAt
    DayOf <- MCDayOf
    Window = 2
    MaxTime = 0
    MaxEpoch = 0
    SlowCalls = TRUE
    Calm = "never"
SYMMETRY Symmetry
INVARIANTS
    AcceptedIsApplied
