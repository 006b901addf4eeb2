----------------------------- MODULE Submission -----------------------------
(***************************************************************************)
(* How an operation is submitted and admitted: the form of the console     *)
(* (web/components/estate-console.tsx), the request handler of the API     *)
(* (internal/api/server.go) and the checks of Service.Create up to the     *)
(* reservation, while evidence is filed, snapshots are published, people   *)
(* change roles and time passes.                                           *)
(*                                                                         *)
(* What follows the reservation is OperationService: here it is one of two *)
(* answers, a receipt or an outcome that is still pending.                 *)
(***************************************************************************)
EXTENDS Contract, SequencesExt

CONSTANTS
    Tab,           \* open consoles
    Script,        \* other clients of the API
    UserOf,        \* [Client -> Person]
    Person,        \* addresses
    InitialRole,   \* [Person -> Role]
    InitialSnapshot,
    Intents,       \* what scripts submit
    Evidence,      \* what may be filed
    Repositories,  \* the repositories of a snapshot, in its order
    Replica,       \* API servers
    Catalog,       \* [Replica -> catalog document]
    RequestID,     \* the UUIDs a console draws; scripts bring their own
    Call,          \* requests to the API that may be under way
    Mover,         \* bound: those whose role changes
    Moves,         \* bound: the roles they change to
    MaxTime,       \* bound: when the clock stops
    MaxFetches,    \* bound: requests for evidence a console waits for
    None

Client == Tab \cup Script
Repository == Range(Repositories)
Time == 0..MaxTime

\* none, viewer, operator, approver, admin
Role == 0..4
Viewer == 1
Operator == 2
Approver == 3

\* OperationIntent
IntentField == {"id", "operation", "repository", "workflow", "run", "main",
                "plan", "evidence", "reason", "expiresAt"}

\* What a form says of its last submission.
Outcome == {"receipt", "pending", "replayed", "problem"}

\* The operation form of a console that is loaded: what the load was answered,
\* then the state of Operations.
Form == [health : [Repository -> Evidence], options : Replica,
         enabled : {Catalog[k].connected : k \in Replica}, role : Role,
         repository : Repository, operation : Operation,
         reason : {e.reason : e \in Evidence} \cup {""},
         selected : Evidence \cup {None}, submitting : Call \cup {None},
         message : Outcome \cup {""}]
Fetch == [repository : Repository, evidence : Evidence]

ASSUME DocumentAssumption == \A k \in Replica : DocumentValid(Catalog[k])
ASSUME SnapshotAssumption ==
    /\ Len(Repositories) > 0 /\ Repositories \in Seq(Repository)
    /\ InitialSnapshot \in [Repository -> Evidence]
    /\ \A r \in Repository : InitialSnapshot[r].repository = r
ASSUME PeopleAssumption ==
    /\ UserOf \in [Client -> Person] /\ InitialRole \in [Person -> Role]
    /\ Mover \subseteq Person /\ Moves \subseteq Role
    /\ \A e \in Evidence : e.approvers \in Seq(Person)
ASSUME ClientAssumption ==
    /\ Tab \cap Script = {}
    /\ \A intent \in Intents : DOMAIN intent = IntentField
ASSUME NoneAssumption == None \notin Client /\ None \notin Form
ASSUME TimeAssumption == MaxTime \in Nat

VARIABLES
    clock,
    role,         \* what RoleFor answers
    operatorAt,   \* when each person was last seen to be an operator
    approverAt,   \* when each person was last seen to be an approver
    filed,        \* evidence in the audit bucket
    snapshot,     \* the evidence the latest snapshot cites, by repository
    admitted,     \* signed requests
    pc,           \* where each call is
    call,         \* its locals
    form,         \* the operation form of each console
    fetches       \* requests for evidence it is waiting for

worldVars == <<clock, role, operatorAt, approverAt, filed, snapshot>>
callVars == <<pc, call>>
tabVars == <<form, fetches>>
vars == <<worldVars, admitted, callVars, tabVars>>

Free == [client |-> None, intent |-> None, begun |-> 0, now |-> 0, asking |-> 0]

\* What SubmitOperation hands to the API, from whatever client.
Arrive(k, client, intent) ==
    /\ pc[k] = "free"
    /\ pc' = [pc EXCEPT ![k] = "authenticate"]
    /\ call' = [call EXCEPT ![k] =
            [Free EXCEPT !.client = client, !.intent = intent, !.begun = clock]]
    /\ UNCHANGED <<worldVars, admitted>>

-----------------------------------------------------------------------------
(* The console.  Its form exists while the console is loaded and shows the *)
(* operations.  A new form drops what arrives for the old one.             *)

\* target.operations[operation], as the options route answered it
Supported(f, operation) == Catalogued(Catalog[f.options], f.repository, operation)

\* The operation that is shown: the chosen one, else the first supported.
SelectedOperation(f) ==
    IF Supported(f, f.operation) THEN f.operation
    ELSE LET supported == SelectSeq(<<"refresh", "rerun", "cancel">>,
                                    LAMBDA op : Supported(f, op))
         IN  IF supported = <<>> THEN None ELSE supported[1]

\* The effect that runs when the repository or the snapshot changes.
FetchOf(f) == [repository |-> f.repository, evidence |-> f.health[f.repository]]

\* The state that Operations begins with.
NewForm(f) ==
    [f EXCEPT !.repository = Repositories[1], !.operation = "rerun",
              !.reason = "", !.selected = None, !.submitting = None,
              !.message = ""]

Show(t, f) ==
    /\ form' = [form EXCEPT ![t] = NewForm(f)]
    /\ fetches' = [fetches EXCEPT ![t] = <<FetchOf(NewForm(f))>>]
    /\ UNCHANGED <<worldVars, admitted, callVars>>

\* Promise.all of session, estate, history, operations and options; any
\* replica answers each of them.
Load(t) ==
    /\ form[t] = None
    /\ role[UserOf[t]] >= Viewer
    /\ \E options, session \in Replica :
        Show(t, [health |-> snapshot, options |-> options,
                 enabled |-> Catalog[session].connected,
                 role |-> role[UserOf[t]], repository |-> None,
                 operation |-> None, reason |-> None, selected |-> None,
                 submitting |-> None, message |-> None])

\* Another view of the console and back: what was loaded is still there.
Reopen(t) == form[t] # None /\ Show(t, form[t])

\* Variant: answers for a form that is gone are still applied.
UnloadKeeping(t) ==
    /\ form[t] # None
    /\ form' = [form EXCEPT ![t] = None]
    /\ UNCHANGED <<worldVars, admitted, callVars, fetches>>

\* Reload, or loading fails.
Unload(t) ==
    /\ form[t] # None
    /\ form' = [form EXCEPT ![t] = None]
    /\ fetches' = [fetches EXCEPT ![t] = <<>>]
    /\ UNCHANGED <<worldVars, admitted, callVars>>

SelectRepository(t) ==
    /\ form[t] # None
    /\ Len(fetches[t]) < MaxFetches
    /\ \E r \in Repository \ {form[t].repository} :
        LET f == [form[t] EXCEPT !.repository = r]
        IN  /\ form' = [form EXCEPT ![t] = f]
            /\ fetches' = [fetches EXCEPT ![t] = Append(@, FetchOf(f))]
    /\ UNCHANGED <<worldVars, admitted, callVars>>

\* The form as the answer to a fetch leaves it.  The target is the one of
\* the repository that was selected when the fetch was sent.
WithEvidence(f, fetch) ==
    [f EXCEPT !.selected = fetch.evidence,
              !.reason = fetch.evidence.reason,
              !.operation =
                    IF Supported([f EXCEPT !.repository = fetch.repository],
                                 fetch.evidence.operation)
                    THEN fetch.evidence.operation ELSE @]

\* Answers arrive in any order, late ones too.
EvidenceAnswer(t) ==
    /\ \E i \in DOMAIN fetches[t] :
        LET fetch == fetches[t][i]
        IN  /\ fetches' = [fetches EXCEPT ![t] = RemoveAt(@, i)]
            /\ \/ /\ fetch.evidence \in filed /\ EvidenceValid(fetch.evidence)
                  /\ form' = [form EXCEPT ![t] = WithEvidence(@, fetch)]
               \/ form' = [form EXCEPT ![t].message = "problem"]
    /\ UNCHANGED <<worldVars, admitted, callVars>>

\* The user changes the operation or the reason.
Edit(t) ==
    /\ form[t] # None
    /\ \/ \E op \in Operation :
            /\ Supported(form[t], op)
            /\ form' = [form EXCEPT ![t].operation = op]
       \/ \E e \in Evidence : form' = [form EXCEPT ![t].reason = e.reason]
    /\ UNCHANGED <<worldVars, admitted, callVars, fetches>>

\* Variant: the evidence is not compared with the repository that is shown.
ApprovalMatchesAnywhere(t, f) ==
    /\ f.selected.operation = SelectedOperation(f)
    /\ f.selected.requestedBy = UserOf[t]
    /\ f.selected.reason = f.reason

ApprovalMatches(t, f) ==
    LET operation == SelectedOperation(f)
        e         == f.selected
    IN  /\ e.operation = operation
        /\ e.requestedBy = UserOf[t]
        /\ e.reason = f.reason
        /\ e.repository = f.repository
        /\ Supported(f, operation)
        /\ e.workflow = Catalog[f.options].workflows[f.repository][operation]

CanOperate(t, f) ==
    /\ f.enabled /\ f.role >= Operator
    /\ f.selected # None
    /\ Enabled(Catalog[f.options], f.repository, SelectedOperation(f))
    /\ ApprovalMatches(t, f)
    /\ f.reason # ""

\* The body that submit sends.
IntentOf(f, id) ==
    LET operation == SelectedOperation(f)
        e         == f.selected
    IN  [id |-> id, operation |-> operation, repository |-> f.repository,
         workflow |-> Catalog[f.options].workflows[f.repository][operation],
         run |-> IF operation = "refresh" THEN 0 ELSE e.run,
         main |-> e.main, plan |-> e.plan, evidence |-> e,
         reason |-> f.reason, expiresAt |-> e.expiresAt]

\* Every press of the button draws another identity.
FreshIDs == RequestID \ ({r.id : r \in admitted} \cup
    {call[k].intent.id : k \in {j \in Call : pc[j] # "free"}})

Submit(t, k) ==
    /\ form[t] # None /\ form[t].submitting = None
    /\ CanOperate(t, form[t])
    /\ \E id \in FreshIDs : Arrive(k, t, IntentOf(form[t], id))
    /\ form' = [form EXCEPT ![t].submitting = k, ![t].message = ""]
    /\ UNCHANGED fetches

\* Another client posts a body of its own.
Post(c, k) ==
    /\ \E intent \in Intents : Arrive(k, c, intent)
    /\ UNCHANGED tabVars

-----------------------------------------------------------------------------
(* The API.                                                                *)

Goto(k, label, locals) ==
    /\ pc' = [pc EXCEPT ![k] = label]
    /\ call' = [call EXCEPT ![k] = locals]
    /\ UNCHANGED tabVars

\* The answer reaches the client; the form that waited for it, if it is
\* still there, is open again, and empties its reason after a receipt.
\* All problems but a replay and a pending outcome are alike to it.
Answer(k, outcome) ==
    LET c == call[k].client
    IN  /\ pc' = [pc EXCEPT ![k] = "free"]
        /\ call' = [call EXCEPT ![k] = Free]
        /\ form' = [t \in Tab |->
                IF form[t] # None /\ t = c /\ form[t].submitting = k
                THEN [form[t] EXCEPT !.submitting = None,
                          !.message = IF outcome \in Outcome THEN outcome
                                      ELSE "problem",
                          !.reason = IF outcome = "receipt" THEN "" ELSE @]
                ELSE form[t]]
        /\ UNCHANGED fetches

\* Server.authenticate, Server.createOperation and Service.Create up to the
\* first read of the bucket.  CSRF, content type and schema are left out.
Authenticate(k) ==
    LET held == role[UserOf[call[k].client]]
    IN  /\ pc[k] = "authenticate"
        /\ \/ Answer(k, "roleResolutionFailed")
           \/ held < Viewer /\ Answer(k, "roleDenied")
           \/ held = Viewer /\ Answer(k, "operatorRequired")
           \/ \E replica \in Replica :
                LET outcome == Authorize(Catalog[replica], call[k].intent)
                IN  /\ held >= Operator
                    /\ \/ outcome # "authorized" /\ Answer(k, outcome)
                       \/ outcome = "authorized" /\ Goto(k, "lookup", call[k])
        /\ UNCHANGED <<worldVars, admitted>>

\* A request with this identity: resumed if it is the same, else refused.
Resume(k, r) ==
    \/ /\ RequestMatches(r, call[k].intent, UserOf[call[k].client])
       /\ \E outcome \in {"receipt", "pending"} : Answer(k, outcome)
    \/ /\ ~RequestMatches(r, call[k].intent, UserOf[call[k].client])
       /\ Answer(k, "replayed")

LookupRequest(k) ==
    LET intent == call[k].intent
        found  == {r \in admitted : r.id = intent.id}
    IN  /\ pc[k] = "lookup"
        /\ \/ Answer(k, "invalid")
           \/ \E r \in found : Resume(k, r)
           \/ /\ found = {}
              /\ intent.expiresAt \notin (clock + 1)..(clock + RequestLife)
              /\ Answer(k, "invalid")
           \/ /\ found = {}
              /\ intent.expiresAt \in (clock + 1)..(clock + RequestLife)
              /\ Goto(k, "evidence", [call[k] EXCEPT !.now = clock])
        /\ UNCHANGED <<worldVars, admitted>>

\* validateEvidence but for the approvers
Binds(e, intent, requester) ==
    /\ e.repository = intent.repository /\ e.workflow = intent.workflow
    /\ e.main = intent.main /\ e.plan = intent.plan
    /\ e.operation = intent.operation /\ e.requestedBy = requester
    /\ e.reason = intent.reason
    /\ intent.run = IF intent.operation = "refresh" THEN 0 ELSE e.run

\* Variant: what the evidence approves is not compared with the request.
GetEvidenceUnbound(k) ==
    LET e == call[k].intent.evidence
    IN  /\ pc[k] = "evidence"
        /\ e \in filed /\ EvidenceCurrent(e, call[k].now)
        /\ Goto(k, "approvers", [call[k] EXCEPT !.asking = 1])
        /\ UNCHANGED <<worldVars, admitted>>

GetEvidence(k) ==
    LET intent   == call[k].intent
        e        == intent.evidence
        accepted ==
            /\ EvidenceCurrent(e, call[k].now)
            /\ Binds(e, intent, UserOf[call[k].client])
            /\ intent.operation = "cancel" => e.superseded
    IN  /\ pc[k] = "evidence"
        /\ \/ Answer(k, "invalid")
           \/ e \in filed /\ EvidenceValid(e) /\ ~accepted /\ Answer(k, "denied")
           \/ /\ e \in filed /\ accepted
              /\ Goto(k, "approvers", [call[k] EXCEPT !.asking = 1])
        /\ UNCHANGED <<worldVars, admitted>>

\* Variant: whoever approved counts, the requester too.
AskApproverOfAny(k) ==
    LET approvers == call[k].intent.evidence.approvers
        asking    == call[k].asking
    IN  /\ pc[k] = "approvers"
        /\ asking \in DOMAIN approvers
        /\ role[approvers[asking]] >= Approver
        /\ Goto(k, "reserve", call[k])
        /\ UNCHANGED <<worldVars, admitted>>

\* One turn of the loop over the approvers, in their order.  The requester
\* is passed over; a lookup that fails denies the request whoever is left.
AskApprover(k) ==
    LET approvers == call[k].intent.evidence.approvers
        asking    == call[k].asking
        next      == [call[k] EXCEPT !.asking = asking + 1]
        distinct  == approvers[asking] # UserOf[call[k].client]
    IN  /\ pc[k] = "approvers"
        /\ \/ asking \notin DOMAIN approvers /\ Answer(k, "denied")
           \/ asking \in DOMAIN approvers /\ distinct /\ Answer(k, "denied")
           \/ /\ asking \in DOMAIN approvers
              /\ distinct => role[approvers[asking]] < Approver
              /\ Goto(k, "approvers", next)
           \/ /\ asking \in DOMAIN approvers
              /\ distinct /\ role[approvers[asking]] >= Approver
              /\ Goto(k, "reserve", call[k])
        /\ UNCHANGED <<worldVars, admitted>>

\* The request that Create signs.
RequestOf(k) ==
    [field \in DOMAIN call[k].intent \cup {"requestedBy", "issuedAt"} |->
        IF field = "requestedBy" THEN UserOf[call[k].client]
        ELSE IF field = "issuedAt" THEN call[k].now
        ELSE call[k].intent[field]]

\* An identity, a binding and an approval count once.
Conflicts(r) ==
    {q \in admitted : \/ q.id = r.id
                      \/ Binding(q) = Binding(r)
                      \/ q.evidence.approval = r.evidence.approval}

\* Sealing, the three replay objects and the request itself, as one step.
Reserve(k) ==
    LET r    == RequestOf(k)
        same == {q \in admitted : q.id = r.id}
    IN  /\ pc[k] = "reserve"
        /\ \/ ~RequestValid(r) /\ Answer(k, "invalid") /\ UNCHANGED admitted
           \/ RequestValid(r) /\ Answer(k, "invalid") /\ UNCHANGED admitted
           \/ /\ RequestValid(r) /\ Conflicts(r) # {} /\ same = {}
              /\ Answer(k, "replayed") /\ UNCHANGED admitted
           \/ /\ RequestValid(r) /\ \E q \in same : Resume(k, q)
              /\ UNCHANGED admitted
           \/ /\ RequestValid(r) /\ Conflicts(r) = {}
              /\ admitted' = admitted \cup {r}
              /\ \E outcome \in {"receipt", "pending"} : Answer(k, outcome)
        /\ UNCHANGED worldVars

-----------------------------------------------------------------------------
(* What happens around them.                                               *)

Seen(level, at) ==
    [p \in Person |-> IF role[p] >= level \/ role'[p] >= level
                      THEN clock' ELSE at[p]]

\* What RoleFor answers changes.
RoleChange(p) ==
    /\ \E new \in Moves \ {role[p]} : role' = [role EXCEPT ![p] = new]
    /\ UNCHANGED clock
    /\ operatorAt' = Seen(Operator, operatorAt)
    /\ approverAt' = Seen(Approver, approverAt)
    /\ UNCHANGED <<filed, snapshot, admitted, callVars, tabVars>>

Tick ==
    /\ clock < MaxTime
    /\ clock' = clock + 1
    /\ UNCHANGED role
    /\ operatorAt' = Seen(Operator, operatorAt)
    /\ approverAt' = Seen(Approver, approverAt)
    /\ UNCHANGED <<filed, snapshot, admitted, callVars, tabVars>>

\* The collector files evidence, once, and publishes a snapshot that cites it.
Publish(e) ==
    /\ e \notin filed
    /\ filed' = filed \cup {e}
    /\ snapshot' = [snapshot EXCEPT ![e.repository] = e]
    /\ UNCHANGED <<clock, role, operatorAt, approverAt>>
    /\ UNCHANGED <<admitted, callVars, tabVars>>

-----------------------------------------------------------------------------

Init ==
    /\ clock = 0
    /\ role = InitialRole
    /\ operatorAt = [p \in Person |-> IF role[p] >= Operator THEN 0 ELSE -1]
    /\ approverAt = [p \in Person |-> IF role[p] >= Approver THEN 0 ELSE -1]
    /\ snapshot = InitialSnapshot
    /\ filed = Range(snapshot)
    /\ admitted = {}
    /\ pc = [k \in Call |-> "free"]
    /\ call = [k \in Call |-> Free]
    /\ form = [t \in Tab |-> None]
    /\ fetches = [t \in Tab |-> <<>>]

Next ==
    \/ \E t \in Tab : \/ Load(t) \/ Reopen(t) \/ Unload(t)
                      \/ SelectRepository(t) \/ EvidenceAnswer(t) \/ Edit(t)
    \/ \E k \in Call : \/ \E t \in Tab : Submit(t, k)
                       \/ \E c \in Script : Post(c, k)
                       \/ Authenticate(k) \/ LookupRequest(k) \/ GetEvidence(k)
                       \/ AskApprover(k) \/ Reserve(k)
    \/ \E p \in Mover : RoleChange(p)
    \/ \E e \in Evidence : Publish(e)
    \/ Tick

Spec == Init /\ [][Next]_vars

-----------------------------------------------------------------------------
(* Properties.                                                             *)

\* Every variable has its type; what is signed is a request that can be
\* verified when it is read back.
SubmissionTypeOK ==
    /\ clock \in Time
    /\ role \in [Person -> Role]
    /\ operatorAt \in [Person -> Time \cup {-1}]
    /\ approverAt \in [Person -> Time \cup {-1}]
    /\ filed \subseteq Evidence
    /\ snapshot \in [Repository -> Evidence]
    /\ \A r \in admitted : RequestValid(r) /\ r.evidence \in Evidence
    /\ pc \in [Call -> {"free", "authenticate", "lookup", "evidence",
                        "approvers", "reserve"}]
    /\ \A k \in Call : (pc[k] = "free") <=> (call[k] = Free)
    /\ form \in [Tab -> Form \cup {None}]
    /\ fetches \in [Tab -> Seq(Fetch)]
    /\ \A t \in Tab : form[t] = None => fetches[t] = <<>>

\* A request is admitted only on the word of two people: its requester was
\* an operator, and somebody else whom the evidence names was an approver,
\* both while the call was being served (server.go:284, service.go:284-302).
AuthorisedByTwo ==
    [][\A r \in admitted' \ admitted :
        \E k \in Call :
            /\ pc[k] = "reserve" /\ pc'[k] = "free"
            /\ r = RequestOf(k)
            /\ operatorAt'[r.requestedBy] >= call[k].begun
            /\ \E a \in Range(r.evidence.approvers) \ {r.requestedBy} :
                approverAt'[a] >= r.issuedAt]_vars

\* What is admitted is what the evidence approved, which was on file and had
\* not expired when the request was issued; only runs that are superseded
\* are cancelled, and a catalog enables the operation (service.go:262-283).
ApprovedExactly ==
    \A r \in admitted :
        LET e == r.evidence
        IN  /\ e \in filed
            /\ EvidenceCurrent(e, r.issuedAt)
            /\ Binding(r) = [Binding(r) EXCEPT
                    !.operation = e.operation, !.repository = e.repository,
                    !.workflow = e.workflow, !.main = e.main, !.plan = e.plan,
                    !.reason = e.reason, !.requestedBy = e.requestedBy,
                    !.run = IF e.operation = "refresh" THEN 0 ELSE e.run]
            /\ e.operation = "cancel" => e.superseded
            /\ \E replica \in Replica :
                Enabled(Catalog[replica], r.repository, r.operation)

\* In whatever order its answers arrive, the console never submits what the
\* evidence it cites does not approve: the two sides agree on what matches
\* (estate-console.tsx:298-300, service.go:266-280).
ConsoleBinds ==
    \A k \in Call : call[k].client \in Tab =>
        LET intent == call[k].intent
        IN  Binds(intent.evidence, intent, UserOf[call[k].client])

\* server.go:311 tells the user of a request that is pending to retry it
\* without changing its identity: who presses the button of the same form
\* again is not answered that the request is a replay.
PendingIsResumed ==
    [][\A t \in Tab :
        (/\ form[t] # None /\ form[t].message = "" /\ form'[t] # None
         /\ form'[t].message = "replayed")
        => \A r \in admitted :
            /\ r.requestedBy = UserOf[t]
            => r.evidence # call[form[t].submitting].intent.evidence]_vars
=============================================================================
