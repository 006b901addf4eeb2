SPECIFICATION Spec
CONSTANTS
    Intent <- MCRefresh
    Handler = {h1, h2, h3}
    Nonce = {n1, n2}
    ReceiptID = {c1, c2}
    None = None
    Unsendable = Unsendable
    RequestID <- MCRequestID
    Binding <- MCBinding
    Approval <- MCApproval
    Target <- MCTarget
    RequestIDOf <- MCRequestIDOf
    BindingOf <- MCBindingOf
    ApprovalOf <- MCApprovalOf
    TargetOf <- MCTargetOf
    StoredAs <- MCStoredAs
    OperationOf <- MCOperationOf
    ExpiresAt <- MCExpiresAt
    DayOf <- MCDayOf
    Window = 2
    MaxTime = 1
    MaxEpoch = 2
    SlowCalls = TRUE
    Calm = "never"
SYMMETRY Symmetry
INVARIANTS
    NoFalseRejection
    AcceptedIsObserved
    OneReceipt
PROPERTIES
    AnswerIsDurable
    PendingHasOutbox
