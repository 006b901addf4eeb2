------------------------------ MODULE Contract ------------------------------
(***************************************************************************)
(* The rules of internal/contract and of the operation catalog on which    *)
(* the admission of an operation rests.  A digest is the record it covers, *)
(* a signature is left out, the text of a field is valid.                  *)
(*                                                                         *)
(* Times are numbers.  People are numbers too, in the order of their       *)
(* addresses, which are compared without regard to case.                   *)
(***************************************************************************)
EXTENDS Integers, Sequences

CONSTANTS
    RequestLife,     \* the ten minutes of models.go:464
    EvidenceLife,    \* the 24 hours of models.go:249 and 253
    Skew             \* the 30 seconds of models.go:249 and 254

ASSUME LifetimeAssumption ==
    /\ RequestLife \in Nat \ {0} /\ EvidenceLife \in Nat \ {0} /\ Skew \in Nat

Operation == {"refresh", "rerun", "cancel"}

Ascending(people) ==
    \A i, j \in DOMAIN people : i < j => people[i] < people[j]

\* WorkflowEvidence.Validate without a time: what Seal demands, and what
\* GetEvidence demands of a stored object.
EvidenceValid(e) ==
    /\ e.conclusion = "success" /\ e.decision = "approved"
    /\ e.workflow > 0 /\ e.run >= 0
    /\ e.operation \in Operation
    /\ e.approvedAt \in (e.observedAt - EvidenceLife)..(e.observedAt + Skew)
    /\ e.expiresAt \in (e.observedAt + 1)..(e.observedAt + EvidenceLife)
    /\ Len(e.approvers) \in 1..10
    /\ Ascending(e.approvers)

\* WorkflowEvidence.Validate at a time.
EvidenceCurrent(e, now) ==
    /\ EvidenceValid(e)
    /\ e.observedAt <= now + Skew
    /\ now < e.expiresAt

\* OperationRequest.Validate without a time: what SealRequest demands, and
\* what reading the request back demands.
RequestValid(r) ==
    /\ r.operation \in Operation
    /\ r.workflow > 0
    /\ r.expiresAt \in (r.issuedAt + 1)..(r.issuedAt + RequestLife)
    /\ IF r.operation = "refresh" THEN r.run = 0 ELSE r.run > 0

\* What operationBindingDigest covers: the operation without its identity.
Binding(r) ==
    [operation |-> r.operation, repository |-> r.repository,
     workflow |-> r.workflow, run |-> r.run, main |-> r.main, plan |-> r.plan,
     evidence |-> r.evidence, reason |-> r.reason,
     requestedBy |-> r.requestedBy]

\* requestMatchesIntent
RequestMatches(r, intent, requester) ==
    /\ r.requestedBy = requester
    /\ \A field \in DOMAIN intent : r[field] = intent[field]

-----------------------------------------------------------------------------
(* Catalog documents: a version, whether the estate is connected, the      *)
(* workflow of each declared operation of each repository, and, in version *)
(* 2, which of them are enabled.                                           *)

\* NewCatalog accepts the document.
DocumentValid(d) ==
    \A repository \in DOMAIN d.workflows :
        LET workflow == d.workflows[repository]
        IN  IF d.version = 1
            THEN /\ DOMAIN workflow = Operation
                 /\ \A op \in Operation :
                        workflow[op] >= (IF d.connected THEN 1 ELSE 0)
            ELSE \A op \in DOMAIN workflow :
                    /\ op \in Operation
                    /\ workflow[op] > 0
                    /\ op \in d.enabled[repository] => d.connected

Catalogued(d, repository, op) ==
    repository \in DOMAIN d.workflows /\ op \in DOMAIN d.workflows[repository]

\* Version 1 has no switch of its own: connecting enables everything.
Enabled(d, repository, op) ==
    /\ Catalogued(d, repository, op)
    /\ IF d.version = 1 THEN d.connected ELSE op \in d.enabled[repository]

\* Catalog.Authorize
Authorize(d, intent) ==
    IF ~d.connected \/ intent.repository \notin DOMAIN d.workflows
    THEN "unavailable"
    ELSE IF ~Catalogued(d, intent.repository, intent.operation)
    THEN "notCatalogued"
    ELSE IF ~Enabled(d, intent.repository, intent.operation)
    THEN "disabled"
    ELSE IF intent.workflow # d.workflows[intent.repository][intent.operation]
    THEN "unavailable"
    ELSE "authorized"
=============================================================================
