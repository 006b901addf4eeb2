-------------------------- MODULE OperationService --------------------------
(***************************************************************************)
(* The operation service of estate-ci (src/internal/operations/service.go) *)
(* over the create-only audit bucket (src/internal/storage/gcs.go) and the *)
(* GitHub broker it calls (src/internal/githubapp/client.go).              *)
(*                                                                         *)
(* A Handler is one goroutine of one API replica that serves               *)
(* POST /api/v1/operations: it runs Service.Create for one intent, answers *)
(* and may then serve another.  Every call to the bucket or to GitHub is   *)
(* one step, so handlers interleave between any two of them; the local     *)
(* computation that leads to a call is part of the step that makes it.     *)
(* A call may fail, with or without having taken effect, and a handler may *)
(* be cut off between any two steps (context cancelled, process killed).   *)
(***************************************************************************)
EXTENDS Integers, FiniteSets

CONSTANTS
    Handler,       \* concurrent calls of Service.Create, over all replicas
    Intent,        \* the distinct submissions: body and caller identity
    RequestID,     \* intent.RequestID
    Binding,       \* operationBindingDigest values
    Approval,      \* evidence.Approval.ApprovalID values
    Target,        \* what a mutation changes: a workflow run, a workflow
    Nonce,         \* contract.NewNonce values
    ReceiptID,     \* newUUIDv4 values
    RequestIDOf,   \* [Intent -> RequestID]
    BindingOf,     \* [Intent -> Binding]
    ApprovalOf,    \* [Intent -> Approval], through the evidence it cites
    TargetOf,      \* [Intent -> Target]
    StoredAs,      \* [Intent -> Intent], the text a stored request matches
    OperationOf,   \* [Intent -> Operation]
    ExpiresAt,     \* [Intent -> Nat]
    Window,        \* the 10 minutes of service.go:84, in clock units
    DayOf,         \* [Time -> Nat], the date part of a timestamp
    MaxTime,       \* bound: the clock stops there
    MaxEpoch,      \* bound: changes others make stop there
    SlowCalls,     \* whether time may pass while a call is being served
    Calm,          \* when calls stop failing: never, eventually, always
    None,          \* an absent object or local
    Unsendable     \* the recovery token of rejectedPreparation

Time == 0..MaxTime

\* refresh_estate_health, rerun_failed_required_workflow and
\* cancel_superseded_workflow_run.
Operation == {"refresh", "rerun", "cancel"}

ASSUME IntentAssumption ==
    /\ RequestIDOf \in [Intent -> RequestID]
    /\ BindingOf \in [Intent -> Binding]
    /\ ApprovalOf \in [Intent -> Approval]
    /\ TargetOf \in [Intent -> Target]
    /\ ExpiresAt \in [Intent -> Nat]
    /\ OperationOf \in [Intent -> Operation]

\* The stored request repeats the submission but for the text of expires_at,
\* which is rewritten in the one form that contract.Timestamp produces.
ASSUME StoredAsAssumption ==
    /\ StoredAs \in [Intent -> Intent]
    /\ \A i \in Intent :
        /\ StoredAs[StoredAs[i]] = StoredAs[i]
        /\ RequestIDOf[StoredAs[i]] = RequestIDOf[i]
        /\ BindingOf[StoredAs[i]] = BindingOf[i]
        /\ ApprovalOf[StoredAs[i]] = ApprovalOf[i]
        /\ TargetOf[StoredAs[i]] = TargetOf[i]
        /\ ExpiresAt[StoredAs[i]] = ExpiresAt[i]
        /\ OperationOf[StoredAs[i]] = OperationOf[i]

ASSUME BoundAssumption ==
    /\ MaxTime \in Nat
    /\ MaxEpoch \in Nat
    /\ Window \in Nat
    /\ DayOf \in [Time -> Nat]
    /\ SlowCalls \in BOOLEAN
    /\ Calm \in {"never", "eventually", "always"}

\* Sealed records: the digest of a record stands for its whole content, so a
\* record that cites a request digest cites the request itself.
Request  == [intent : Intent, nonce : Nonce]
Token    == Nat \cup {Unsendable}
Dispatch == [request : Request, receiptID : ReceiptID, token : Token]
Status   == {"accepted", "rejected"}
Result   == [request : Request, receiptID : ReceiptID, status : Status,
             recordedAt : Time]
\* A receipt repeats its result and is stored by date and receipt identity.
AuditObject == {DayOf[t] : t \in Time} \X ReceiptID

ASSUME NoneAssumption ==
    /\ None \notin Request \cup Dispatch \cup Result \cup Intent
    /\ None \notin Token \cup Status
    /\ Unsendable \notin Nat

VARIABLES
    replayRequests,   \* audit/replay/requests/:  RequestID -> Request
    replayBindings,   \* audit/replay/bindings/:  Binding -> Request
    replayApprovals,  \* audit/replay/approvals/: Approval -> Request
    requests,         \* audit/requests/:         RequestID -> Request
    dispatches,       \* audit/outbox/*/dispatch: RequestID -> Dispatch
    results,          \* audit/outbox/*/result:   RequestID -> Result
    receipts,         \* audit/operations/:       AuditObject -> Result
    pc, call,         \* where each handler is, and its local variables
    sent,             \* mutations GitHub was sent, for each request
    applied,          \* of these, those it took on
    refused,          \* of these, those it turned down
    shown,            \* of those taken on, those whose effect can be seen
    epoch,            \* what has been seen to happen to a target: how many
                      \* run attempts, new runs or cancellations
    clock,
    stable            \* no call fails and no handler is cut off any more

replayVars   == <<replayRequests, replayBindings, replayApprovals>>
outboxVars   == <<dispatches, results, receipts>>
storeVars    == <<replayVars, requests, outboxVars>>
handlerVars  == <<pc, call>>
providerVars == <<sent, applied, refused, shown, epoch>>
timeVars     == <<clock, stable>>
vars == <<storeVars, handlerVars, providerVars, timeVars>>

-----------------------------------------------------------------------------
(* What the handlers share: the bucket and the flow of control.            *)

\* Variant: the receipt is named by the date on which it is written.
ReceiptObjectByToday(result) == <<DayOf[clock], result.receiptID>>

\* storage.ReceiptObject names it by the date of RecordedAt.
ReceiptObject(result) == <<DayOf[result.recordedAt], result.receiptID>>

\* Where a handler is when it serves no call.  The label keeps what the last
\* call answered, for the answers the properties speak of: "idle" stands for
\* a call cut off and for every other error answer.
Returned == {"idle", "replayed", "pending", "answered"}

Serving == {"lookup", "evidence", "reserveRequest", "reserveBinding",
            "reserveApproval", "reread", "putRequest", "prepare",
            "putDispatch", "dispatch", "response", "getDispatch",
            "getResult", "recover", "putResult", "readResult",
            "putReceipt", "readReceipt"}

Blank == [intent |-> None, request |-> None, token |-> None,
          dispatch |-> None, status |-> None, result |-> None]

Goto(h, label, locals) ==
    /\ pc' = [pc EXCEPT ![h] = label]
    /\ call' = [call EXCEPT ![h] = locals]

Return(h, answer) == Goto(h, answer, Blank)

\* Variant: the upload without its precondition.
CreateOverwriting(store, storeNext, name, object, answer) ==
    /\ storeNext = [store EXCEPT ![name] = object]
    /\ answer = "created"

\* GCSObjectStore.Create with ifGenerationMatch=0: the object is written only
\* if there is none of that name.  An error says nothing about which.
Create(store, storeNext, name, object, answer) ==
    \/ /\ answer = "created"
       /\ store[name] = None
       /\ storeNext = [store EXCEPT ![name] = object]
    \/ /\ answer = "conflict"
       /\ store[name] # None
       /\ storeNext = store
    \/ /\ answer = "error"
       /\ ~stable
       /\ \/ storeNext = store
          \/ /\ store[name] = None
             /\ storeNext = [store EXCEPT ![name] = object]

Answers == {"created", "conflict", "error"}

RequestOf(h) == RequestIDOf[call[h].intent]

\* requestMatchesIntent: field by field, expires_at as text.
Matches(request, i) == request.intent = i

\* service.go:82-86, the expiry must lie in (now, now + 10 minutes].
InWindow(i) == clock < ExpiresAt[i] /\ ExpiresAt[i] <= clock + Window

-----------------------------------------------------------------------------
(* Service.Create                                                          *)

Submit(h, i) ==
    /\ pc[h] \in Returned
    /\ Goto(h, "lookup", [Blank EXCEPT !.intent = i])
    /\ UNCHANGED <<storeVars, providerVars, timeVars>>

\* A stored request is resumed whatever the time; only a new one is held to
\* its window.
LookupRequest(h) ==
    LET i == call[h].intent
        existing == requests[RequestOf(h)]
    IN  /\ pc[h] = "lookup"
        /\ \/ /\ existing # None
              /\ Matches(existing, i)
              /\ Goto(h, "getDispatch", [call[h] EXCEPT !.request = existing])
           \/ /\ existing # None
              /\ ~Matches(existing, i)
              /\ Return(h, "replayed")
           \/ /\ existing = None
              /\ InWindow(i)
              /\ Goto(h, "evidence", call[h])
           \/ /\ existing = None /\ ~InWindow(i)
              /\ Return(h, "idle")
           \/ /\ ~stable
              /\ Return(h, "idle")
        /\ UNCHANGED <<storeVars, providerVars, timeVars>>

\* GetEvidence and validateEvidence: what they read (evidence object, roles)
\* is not part of this module, so either outcome is possible.
CheckEvidence(h) ==
    /\ pc[h] = "evidence"
    /\ \/ Goto(h, "reserveRequest", call[h])
       \/ Return(h, "idle")
    /\ UNCHANGED <<storeVars, providerVars, timeVars>>

FreshNonces ==
    {n \in Nonce : \A r \in RequestID :
        replayRequests[r] # None => replayRequests[r].nonce # n}

\* The first of the three objects of GCSRepository.ReserveRequest, with the
\* sealing of the request whose nonce it records.
ReserveRequestID(h) ==
    /\ pc[h] = "reserveRequest"
    /\ \E n \in FreshNonces, answer \in Answers :
        LET request == [intent |-> StoredAs[call[h].intent], nonce |-> n]
        IN  /\ Create(replayRequests, replayRequests', RequestOf(h),
                      request, answer)
            /\ \/ /\ answer = "created"
                  /\ Goto(h, "reserveBinding",
                          [call[h] EXCEPT !.request = request])
               \/ answer = "conflict" /\ Goto(h, "reread", call[h])
               \/ answer = "error" /\ Return(h, "idle")
    /\ UNCHANGED <<replayBindings, replayApprovals, requests, outboxVars,
                   providerVars, timeVars>>

\* The second and the third: a failure leaves the earlier ones in place.
ReserveBinding(h) ==
    /\ pc[h] = "reserveBinding"
    /\ \E answer \in Answers :
        /\ Create(replayBindings, replayBindings',
                  BindingOf[call[h].intent], call[h].request, answer)
        /\ \/ answer = "created" /\ Goto(h, "reserveApproval", call[h])
           \/ /\ answer = "conflict"
              /\ Goto(h, "reread", [call[h] EXCEPT !.request = None])
           \/ answer = "error" /\ Return(h, "idle")
    /\ UNCHANGED <<replayRequests, replayApprovals, requests, outboxVars,
                   providerVars, timeVars>>

\* Variant: an approval that is reserved already is taken for one's own.
ReserveApprovalAgain(h) ==
    /\ pc[h] = "reserveApproval"
    /\ \E answer \in Answers :
        /\ Create(replayApprovals, replayApprovals',
                  ApprovalOf[call[h].intent], call[h].request, answer)
        /\ \/ answer # "error" /\ Goto(h, "putRequest", call[h])
           \/ answer = "error" /\ Return(h, "idle")
    /\ UNCHANGED <<replayRequests, replayBindings, requests, outboxVars,
                   providerVars, timeVars>>

ReserveApproval(h) ==
    /\ pc[h] = "reserveApproval"
    /\ \E answer \in Answers :
        /\ Create(replayApprovals, replayApprovals',
                  ApprovalOf[call[h].intent], call[h].request, answer)
        /\ \/ answer = "created" /\ Goto(h, "putRequest", call[h])
           \/ /\ answer = "conflict"
              /\ Goto(h, "reread", [call[h] EXCEPT !.request = None])
           \/ answer = "error" /\ Return(h, "idle")
    /\ UNCHANGED <<replayRequests, replayBindings, requests, outboxVars,
                   providerVars, timeVars>>

\* Variant: reserve again for as long as no identical request is found.
RereadAndReserve(h) ==
    LET existing == requests[RequestOf(h)]
    IN  /\ pc[h] = "reread"
        /\ \/ /\ existing # None
              /\ Matches(existing, call[h].intent)
              /\ Goto(h, "getDispatch", [call[h] EXCEPT !.request = existing])
           \/ /\ existing # None => ~Matches(existing, call[h].intent)
              /\ Goto(h, "reserveRequest", call[h])
        /\ UNCHANGED <<storeVars, providerVars, timeVars>>

\* After a conflict: an identical request stored meanwhile is resumed,
\* anything else (also a read that fails) is answered ErrReplay.
RereadRequest(h) ==
    LET existing == requests[RequestOf(h)]
    IN  /\ pc[h] = "reread"
        /\ \/ /\ existing # None
              /\ Matches(existing, call[h].intent)
              /\ Goto(h, "getDispatch", [call[h] EXCEPT !.request = existing])
           \/ /\ existing # None => ~Matches(existing, call[h].intent)
              /\ Return(h, "replayed")
           \/ /\ ~stable
              /\ Return(h, "replayed")
        /\ UNCHANGED <<storeVars, providerVars, timeVars>>

PutRequest(h) ==
    /\ pc[h] = "putRequest"
    /\ \E answer \in Answers :
        /\ Create(requests, requests', RequestOf(h), call[h].request, answer)
        /\ \/ answer = "created" /\ Goto(h, "prepare", call[h])
           \/ /\ answer = "conflict"
              /\ Goto(h, "reread", [call[h] EXCEPT !.request = None])
           \/ answer = "error" /\ Return(h, "idle")
    /\ UNCHANGED <<replayVars, outboxVars, providerVars, timeVars>>

-----------------------------------------------------------------------------
(* Service.prepare                                                         *)

\* Broker.Prepare observes the target.  Its preconditions (protected main,
\* run binding, run state) hold or not; the token keeps what was observed.
Prepare(h) ==
    /\ pc[h] = "prepare"
    /\ \E token \in {epoch[TargetOf[call[h].request.intent]], Unsendable} :
        Goto(h, "putDispatch", [call[h] EXCEPT !.token = token])
    /\ UNCHANGED <<storeVars, providerVars, timeVars>>

FreshReceiptIDs ==
    {id \in ReceiptID : \A r \in RequestID :
        dispatches[r] # None => dispatches[r].receiptID # id}

\* What prepare does with the answer to its PutDispatch, but for an error.
AfterPutDispatch(h, dispatch, answer) ==
    LET held == [call[h] EXCEPT !.dispatch = dispatch, !.token = None]
    IN  \/ /\ answer = "created"
           /\ dispatch.token = Unsendable
           /\ Goto(h, "putResult", [held EXCEPT !.status = "rejected"])
        \/ /\ answer = "created"
           /\ dispatch.token # Unsendable
           /\ Goto(h, "dispatch", held)
        \/ /\ answer = "conflict"
           /\ Goto(h, "getDispatch", [call[h] EXCEPT !.token = None])

NewDispatch(h, id) ==
    [request |-> call[h].request, receiptID |-> id, token |-> call[h].token]

\* Variant: the mutation is sent although its record may not be stored.
PutDispatchUnchecked(h) ==
    /\ pc[h] = "putDispatch"
    /\ \E id \in FreshReceiptIDs, answer \in Answers :
        /\ Create(dispatches, dispatches', RequestOf(h), NewDispatch(h, id), answer)
        /\ \/ AfterPutDispatch(h, NewDispatch(h, id), answer)
           \/ /\ answer = "error"
              /\ Goto(h, "dispatch",
                      [call[h] EXCEPT !.dispatch = NewDispatch(h, id), !.token = None])
    /\ UNCHANGED <<replayVars, requests, results, receipts, providerVars,
                   timeVars>>

\* Variant: the error is answered as pending.
PutDispatchPending(h) ==
    /\ pc[h] = "putDispatch"
    /\ \E id \in FreshReceiptIDs, answer \in Answers :
        /\ Create(dispatches, dispatches', RequestOf(h), NewDispatch(h, id), answer)
        /\ \/ AfterPutDispatch(h, NewDispatch(h, id), answer)
           \/ answer = "error" /\ Return(h, "pending")
    /\ UNCHANGED <<replayVars, requests, results, receipts, providerVars,
                   timeVars>>

\* A rejected preparation is recorded like any other, then completed as
\* final without calling the provider.
PutDispatch(h) ==
    /\ pc[h] = "putDispatch"
    /\ \E id \in FreshReceiptIDs, answer \in Answers :
        /\ Create(dispatches, dispatches', RequestOf(h), NewDispatch(h, id), answer)
        /\ \/ AfterPutDispatch(h, NewDispatch(h, id), answer)
           \/ answer = "error" /\ Return(h, "idle")
    /\ UNCHANGED <<replayVars, requests, results, receipts, providerVars,
                   timeVars>>

\* Broker.Dispatch sends the mutation, unless the installation token cannot
\* be had: nothing was sent then, and the outcome is still pending.
SendMutation(h) ==
    /\ pc[h] = "dispatch"
    /\ \/ /\ sent' = [sent EXCEPT ![RequestOf(h)] = @ + 1]
          /\ Goto(h, "response", call[h])
       \/ /\ ~stable
          /\ sent' = sent
          /\ Return(h, "pending")
    /\ UNCHANGED <<storeVars, applied, refused, shown, epoch, timeVars>>

\* Variant: a timeout or a 5xx counts as a rejection.
ReceiveNoResponse(h) ==
    /\ pc[h] = "response"
    /\ \/ /\ applied[RequestOf(h)] > 0
          /\ Goto(h, "putResult", [call[h] EXCEPT !.status = "accepted"])
       \/ Goto(h, "putResult", [call[h] EXCEPT !.status = "rejected"])
    /\ UNCHANGED <<storeVars, providerVars, timeVars>>

\* The expected status is final and accepted, a lower one than 500 final and
\* rejected; a 5xx, a timeout and a lost answer leave the outcome open.
ReceiveResponse(h) ==
    /\ pc[h] = "response"
    /\ \/ /\ applied[RequestOf(h)] > 0
          /\ Goto(h, "putResult", [call[h] EXCEPT !.status = "accepted"])
       \/ /\ refused[RequestOf(h)] > 0
          /\ Goto(h, "putResult", [call[h] EXCEPT !.status = "rejected"])
       \/ /\ ~stable
          /\ Return(h, "pending")
    /\ UNCHANGED <<storeVars, providerVars, timeVars>>

-----------------------------------------------------------------------------
(* Service.resume                                                          *)

\* Variant: a record that is not there is taken for one that is.
GetDispatchUnchecked(h) ==
    /\ pc[h] = "getDispatch"
    /\ Goto(h, "getResult", [call[h] EXCEPT !.dispatch = dispatches[RequestOf(h)]])
    /\ UNCHANGED <<storeVars, providerVars, timeVars>>

GetDispatch(h) ==
    LET stored == dispatches[RequestOf(h)]
    IN  /\ pc[h] = "getDispatch"
        /\ \/ stored = None /\ Goto(h, "prepare", call[h])
           \/ /\ stored # None
              /\ IF stored.request = call[h].request
                 THEN Goto(h, "getResult", [call[h] EXCEPT !.dispatch = stored])
                 ELSE Return(h, "idle")
           \/ ~stable /\ Return(h, "idle")
        /\ UNCHANGED <<storeVars, providerVars, timeVars>>

\* Variant: a stored result is answered as it is, without its receipt.
GetDispatchResultOnly(h) ==
    LET stored == results[RequestOf(h)]
    IN  /\ pc[h] = "getResult"
        /\ \/ stored # None /\ Return(h, "answered")
           \/ stored = None /\ Goto(h, "recover", call[h])
        /\ UNCHANGED <<storeVars, providerVars, timeVars>>

GetDispatchResult(h) ==
    LET stored == results[RequestOf(h)]
    IN  /\ pc[h] = "getResult"
        /\ \/ /\ stored # None
              /\ Goto(h, "putReceipt", [call[h] EXCEPT !.result = stored])
           \/ stored = None /\ Goto(h, "recover", call[h])
           \/ ~stable /\ Return(h, "idle")
        /\ UNCHANGED <<storeVars, providerVars, timeVars>>

\* Variants: the baseline itself counts; one change after it does not.
ObservedFromBaseline(i, baseline) == epoch[TargetOf[i]] >= baseline
ObservedLater(i, baseline) == epoch[TargetOf[i]] > baseline + 1

\* Broker.Recover: a refresh is recovered by exactly one newer run, a rerun
\* by a higher run attempt, a cancellation by a run that is cancelled and
\* was not when it was prepared.
Observed(i, baseline) ==
    IF OperationOf[i] = "refresh"
    THEN epoch[TargetOf[i]] = baseline + 1
    ELSE epoch[TargetOf[i]] > baseline

\* Variants: what cannot be observed is sent again, or is rejected.
RecoverBySending(h) ==
    /\ pc[h] = "recover"
    /\ call[h].dispatch.token # Unsendable
    /\ Goto(h, "dispatch", call[h])
    /\ UNCHANGED <<storeVars, providerVars, timeVars>>

RecoverByRejecting(h) ==
    /\ pc[h] = "recover"
    /\ Goto(h, "putResult", [call[h] EXCEPT !.status =
            IF /\ call[h].dispatch.token # Unsendable
               /\ Observed(call[h].request.intent, call[h].dispatch.token)
            THEN "accepted" ELSE "rejected"])
    /\ UNCHANGED <<storeVars, providerVars, timeVars>>

\* A cancelled run that was rerun since is not seen to be cancelled.
Recover(h) ==
    LET token == call[h].dispatch.token
        i     == call[h].request.intent
        seen  == Observed(i, token)
    IN  /\ pc[h] = "recover"
        /\ \/ /\ token = Unsendable
              /\ Goto(h, "putResult", [call[h] EXCEPT !.status = "rejected"])
           \/ /\ token # Unsendable
              /\ seen
              /\ Goto(h, "putResult", [call[h] EXCEPT !.status = "accepted"])
           \/ /\ token # Unsendable
              /\ ~stable \/ ~seen \/ OperationOf[i] = "cancel"
              /\ Return(h, "pending")
        /\ UNCHANGED <<storeVars, providerVars, timeVars>>

-----------------------------------------------------------------------------
(* Service.complete and Service.finalize                                   *)

\* Variant: the handler that comes second keeps the result it could not store.
PutDispatchResultKeeping(h) ==
    LET result == [request |-> call[h].request,
                   receiptID |-> call[h].dispatch.receiptID,
                   status |-> call[h].status, recordedAt |-> clock]
    IN  /\ pc[h] = "putResult"
        /\ \E answer \in Answers :
            /\ Create(results, results', RequestOf(h), result, answer)
            /\ \/ /\ answer # "error"
                  /\ Goto(h, "putReceipt", [call[h] EXCEPT !.result = result])
               \/ answer = "error" /\ Return(h, "pending")
        /\ UNCHANGED <<replayVars, requests, dispatches, receipts,
                       providerVars, timeVars>>

PutDispatchResult(h) ==
    LET result == [request |-> call[h].request,
                   receiptID |-> call[h].dispatch.receiptID,
                   status |-> call[h].status, recordedAt |-> clock]
    IN  /\ pc[h] = "putResult"
        /\ \E answer \in Answers :
            /\ Create(results, results', RequestOf(h), result, answer)
            /\ \/ /\ answer = "created"
                  /\ Goto(h, "putReceipt", [call[h] EXCEPT !.result = result])
               \/ answer = "conflict" /\ Goto(h, "readResult", call[h])
               \/ answer = "error" /\ Return(h, "pending")
        /\ UNCHANGED <<replayVars, requests, dispatches, receipts,
                       providerVars, timeVars>>

\* The handler that comes second adopts the result stored first.
ReadConflictingResult(h) ==
    /\ pc[h] = "readResult"
    /\ \/ Goto(h, "putReceipt",
               [call[h] EXCEPT !.result = results[RequestOf(h)]])
       \/ ~stable /\ Return(h, "pending")
    /\ UNCHANGED <<storeVars, providerVars, timeVars>>

PutReceipt(h) ==
    LET result == call[h].result
        bound  == /\ result.request = call[h].request
                  /\ result.receiptID = call[h].dispatch.receiptID
    IN  /\ pc[h] = "putReceipt"
        /\ IF ~bound
           THEN Return(h, "idle") /\ UNCHANGED receipts
           ELSE \E answer \in Answers :
                /\ Create(receipts, receipts', ReceiptObject(result), result,
                          answer)
                /\ \/ answer = "created" /\ Return(h, "answered")
                   \/ answer = "conflict" /\ Goto(h, "readReceipt", call[h])
                   \/ answer = "error" /\ Return(h, "pending")
        /\ UNCHANGED <<replayVars, requests, dispatches, results,
                       providerVars, timeVars>>

ReadConflictingReceipt(h) ==
    LET stored == receipts[ReceiptObject(call[h].result)]
    IN  /\ pc[h] = "readReceipt"
        /\ \/ IF /\ stored.request = call[h].request
                 /\ stored.receiptID = call[h].result.receiptID
              THEN Return(h, "answered")
              ELSE Return(h, "pending")
           \/ ~stable /\ Return(h, "pending")
        /\ UNCHANGED <<storeVars, providerVars, timeVars>>

-----------------------------------------------------------------------------
(* GitHub, other actors, failures and time                                 *)

\* GitHub takes on a mutation it was sent, or turns it down, at any later
\* time: also when the handler that sent it has long answered.
ApplyMutation(r) ==
    /\ applied[r] + refused[r] < sent[r]
    /\ applied' = [applied EXCEPT ![r] = @ + 1]
    /\ UNCHANGED <<storeVars, handlerVars, sent, refused, shown, epoch, timeVars>>

\* The attempt starts, the run is created or ends as cancelled: later than
\* the answer, or never.
ShowEffect(r) ==
    /\ shown[r] < applied[r]
    /\ shown' = [shown EXCEPT ![r] = @ + 1]
    /\ epoch' = [epoch EXCEPT ![TargetOf[requests[r].intent]] = @ + 1]
    /\ UNCHANGED <<storeVars, handlerVars, sent, applied, refused, timeVars>>

RefuseMutation(r) ==
    /\ applied[r] + refused[r] < sent[r]
    /\ refused' = [refused EXCEPT ![r] = @ + 1]
    /\ UNCHANGED <<storeVars, handlerVars, sent, applied, shown, epoch, timeVars>>

\* A person, or a workflow, reruns, cancels or dispatches the same target.
ForeignChange(t) ==
    /\ epoch[t] < MaxEpoch
    /\ epoch' = [epoch EXCEPT ![t] = @ + 1]
    /\ UNCHANGED <<storeVars, handlerVars, sent, applied, refused, shown, timeVars>>

\* The request context is cancelled, the replica is stopped or it dies.
CutOff(h) ==
    /\ ~stable
    /\ pc[h] \in Serving
    /\ Return(h, "idle")
    /\ UNCHANGED <<storeVars, providerVars, timeVars>>

Tick ==
    /\ clock < MaxTime
    /\ SlowCalls \/ \A h \in Handler : pc[h] \in Returned
    /\ clock' = clock + 1
    /\ UNCHANGED <<storeVars, handlerVars, providerVars, stable>>

Stabilise ==
    /\ Calm = "eventually"
    /\ ~stable
    /\ stable' = TRUE
    /\ UNCHANGED <<storeVars, handlerVars, providerVars, clock>>

-----------------------------------------------------------------------------
Init ==
    /\ replayRequests  = [r \in RequestID |-> None]
    /\ replayBindings  = [b \in Binding |-> None]
    /\ replayApprovals = [a \in Approval |-> None]
    /\ requests   = [r \in RequestID |-> None]
    /\ dispatches = [r \in RequestID |-> None]
    /\ results    = [r \in RequestID |-> None]
    /\ receipts   = [o \in AuditObject |-> None]
    /\ pc   = [h \in Handler |-> "idle"]
    /\ call = [h \in Handler |-> Blank]
    /\ sent    = [r \in RequestID |-> 0]
    /\ applied = [r \in RequestID |-> 0]
    /\ refused = [r \in RequestID |-> 0]
    /\ shown   = [r \in RequestID |-> 0]
    /\ epoch   = [t \in Target |-> 0]
    /\ clock = 0
    /\ stable = (Calm = "always")

CreateSteps(h) ==
    \/ LookupRequest(h)   \/ CheckEvidence(h)   \/ ReserveRequestID(h)
    \/ ReserveBinding(h)  \/ ReserveApproval(h) \/ RereadRequest(h)
    \/ PutRequest(h)

PrepareSteps(h) ==
    Prepare(h) \/ PutDispatch(h) \/ SendMutation(h) \/ ReceiveResponse(h)

ResumeSteps(h) == GetDispatch(h) \/ GetDispatchResult(h) \/ Recover(h)

CompleteSteps(h) ==
    \/ PutDispatchResult(h) \/ ReadConflictingResult(h)
    \/ PutReceipt(h)        \/ ReadConflictingReceipt(h)

Serve(h) == CreateSteps(h) \/ PrepareSteps(h) \/ ResumeSteps(h) \/ CompleteSteps(h)

GitHub(r) == ApplyMutation(r) \/ RefuseMutation(r)

Next ==
    \/ \E h \in Handler :
        \/ \E i \in Intent : Submit(h, i)
        \/ Serve(h)
        \/ CutOff(h)
    \/ \E r \in RequestID : GitHub(r) \/ ShowEffect(r)
    \/ \E t \in Target : ForeignChange(t)
    \/ Tick
    \/ Stabilise

Spec == Init /\ [][Next]_vars

\* Goroutines are scheduled, GitHub decides on what it was sent, failures do
\* not last for ever, and a client submits again for as long as it has to
\* (README, "Retry an ambiguous or interrupted submission").
Fairness ==
    /\ \A h \in Handler : WF_vars(Serve(h))
    /\ \A r \in RequestID : WF_vars(GitHub(r))
    /\ \A i \in Intent : SF_vars(\E h \in Handler : Submit(h, i))
    /\ WF_vars(Stabilise)

FairSpec == Spec /\ Fairness

-----------------------------------------------------------------------------
(* Properties                                                              *)

\* Which locals a handler holds at each place, as the code after it assumes.
HasRequest == {"reserveBinding", "reserveApproval", "putRequest", "prepare",
               "putDispatch", "dispatch", "response", "getDispatch",
               "getResult", "recover", "putResult", "readResult",
               "putReceipt", "readReceipt"}
HasDispatch == {"dispatch", "response", "getResult", "recover", "putResult",
                "readResult", "putReceipt", "readReceipt"}
HasStatus == {"putResult", "readResult"}
HasResult == {"putReceipt", "readReceipt"}

Local == [intent : Intent \cup {None}, request : Request \cup {None},
          token : Token \cup {None}, dispatch : Dispatch \cup {None},
          status : Status \cup {None}, result : Result \cup {None}]

WellFormed(label, locals) ==
    /\ label \in Serving => locals.intent # None
    /\ label \in HasRequest => locals.request # None
    /\ label = "putDispatch" => locals.token # None
    /\ label \in HasDispatch => locals.dispatch # None
    /\ label \in HasStatus => locals.status # None
    /\ label \in HasResult => locals.result # None

\* The stored objects have the types the code unmarshals them into, and a
\* handler has, wherever it is, every local that its next step reads.
TypeOK ==
    /\ replayRequests \in [RequestID -> Request \cup {None}]
    /\ replayBindings \in [Binding -> Request \cup {None}]
    /\ replayApprovals \in [Approval -> Request \cup {None}]
    /\ requests \in [RequestID -> Request \cup {None}]
    /\ dispatches \in [RequestID -> Dispatch \cup {None}]
    /\ results \in [RequestID -> Result \cup {None}]
    /\ receipts \in [AuditObject -> Result \cup {None}]
    /\ pc \in [Handler -> Returned \cup Serving]
    /\ call \in [Handler -> Local]
    /\ \A h \in Handler : WellFormed(pc[h], call[h])
    /\ sent \in [RequestID -> Nat]
    /\ applied \in [RequestID -> Nat]
    /\ refused \in [RequestID -> Nat]
    /\ shown \in [RequestID -> Nat]
    /\ epoch \in [Target -> Nat]
    /\ clock \in Time
    /\ stable \in BOOLEAN

\* No interleaving of submissions, retries and failures makes the service
\* send the mutation of one request twice (README, "never ... a blind second
\* mutation"): prepare, resume and the create-only dispatch record.
AtMostOneMutation == \A r \in RequestID : sent[r] <= 1

\* Two stored requests share neither a binding nor an approval, although
\* their reservation is three separate writes (README, "the evidence digest
\* is consumed once", "changing only the UUID cannot repeat an operation").
SingleUse ==
    \A r, s \in RequestID :
        (r # s /\ requests[r] # None /\ requests[s] # None) =>
            /\ BindingOf[requests[r].intent] # BindingOf[requests[s].intent]
            /\ ApprovalOf[requests[r].intent] # ApprovalOf[requests[s].intent]

\* GitHub is sent a mutation only for a request whose dispatch record is
\* stored, allows it, and whose three replay objects are its own.
AnnouncedBeforeSent ==
    \A r \in RequestID : sent[r] > 0 =>
        /\ requests[r] # None
        /\ dispatches[r] # None
        /\ dispatches[r].token # Unsendable
        /\ replayRequests[r] = requests[r]
        /\ replayBindings[BindingOf[requests[r].intent]] = requests[r]
        /\ replayApprovals[ApprovalOf[requests[r].intent]] = requests[r]

\* Request, dispatch, result and receipt of one operation always cite each
\* other, so the mismatch errors of resume and finalize cannot happen.
OutboxConsistent ==
    /\ \A r \in RequestID :
        /\ dispatches[r] # None => dispatches[r].request = requests[r]
        /\ results[r] # None =>
            /\ dispatches[r] # None
            /\ results[r].request = requests[r]
            /\ results[r].receiptID = dispatches[r].receiptID
    /\ \A h \in Handler : pc[h] = "putReceipt" =>
        /\ call[h].result.request = call[h].request
        /\ call[h].result.receiptID = call[h].dispatch.receiptID

\* A rejecting result means that GitHub did not carry out the mutation and
\* has none under way, whatever answers were lost (README, "never converted
\* into a false rejection").
NoFalseRejection ==
    \A r \in RequestID :
        (results[r] # None /\ results[r].status = "rejected") =>
            applied[r] = 0 /\ refused[r] = sent[r]

\* An accepting result rests on GitHub having taken the mutation on, or on a
\* change of the target after the observation that the dispatch record keeps.
AcceptedIsObserved ==
    \A r \in RequestID :
        (results[r] # None /\ results[r].status = "accepted") =>
            /\ dispatches[r].token # Unsendable
            /\ \/ applied[r] > 0
               \/ epoch[TargetOf[requests[r].intent]] > dispatches[r].token

\* A request has one receipt, also when its result is recorded before
\* midnight and a retry writes the receipt after; it repeats the result.
OneReceipt ==
    \A o \in AuditObject : receipts[o] # None =>
        /\ receipts[o] = results[RequestIDOf[receipts[o].request.intent]]
        /\ \A p \in AuditObject :
            (receipts[p] # None /\ receipts[p].request = receipts[o].request)
                => p = o

\* A call answers with a receipt only when the durable receipt and the
\* durable result agree on it, whichever handler wrote them.
AnswerIsDurable ==
    [][\A h \in Handler :
        (pc[h] # "answered" /\ pc'[h] = "answered") =>
            LET result == results'[RequestOf(h)]
            IN  /\ result # None
                /\ result.request = call[h].request
                /\ receipts'[ReceiptObject(result)] = result]_vars

\* OPERATION_PENDING_RECONCILIATION is answered only when the durable outbox
\* exists (README): a retry then finds the dispatch record.
PendingHasOutbox ==
    [][\A h \in Handler :
        (pc[h] # "pending" /\ pc'[h] = "pending") =>
            dispatches'[RequestOf(h)] # None]_vars

\* Every call is answered: prepare and resume, which call each other, do not
\* go round for ever.
CallsReturn ==
    \A h \in Handler : pc[h] \in Serving ~> pc[h] \in Returned

\* Once a result is stored, retries end with its receipt stored.
ResultReachesReceipt ==
    \A r \in RequestID :
        results[r] # None ~> \E o \in AuditObject :
            receipts[o] # None /\ receipts[o] = results[r]

Conclusive(r) ==
    /\ dispatches[r] # None
    /\ \/ dispatches[r].token = Unsendable
       \/ /\ OperationOf[requests[r].intent] = "rerun"
          /\ epoch[TargetOf[requests[r].intent]] > dispatches[r].token

\* Once the effect of a rerun can be observed, or a preparation was rejected,
\* retries end with the result stored.
ObservedIsConcluded ==
    \A r \in RequestID : Conclusive(r) ~> results[r] # None

-----------------------------------------------------------------------------
(* The service implements the ledger.                                      *)

MutationOf(r) ==
    CASE sent[r] = 0 -> "none"
      [] applied[r] > 0 -> "applied"
      [] refused[r] > 0 -> "refused"
      [] OTHER -> "sent"

ReceiptsOf(r) ==
    {receipts[o] : o \in {p \in AuditObject :
        receipts[p] # None /\ RequestIDOf[receipts[p].request.intent] = r}}

Ledger == INSTANCE OperationLedger WITH
    granted <- {requests[r].intent : r \in {s \in RequestID : requests[s] # None}},
    mutation <- [r \in RequestID |-> MutationOf(r)],
    verdict <- [r \in RequestID |->
        IF results[r] = None THEN "none" ELSE results[r].status],
    published <- [r \in RequestID |->
        IF ReceiptsOf(r) = {} THEN "none"
        ELSE (CHOOSE receipt \in ReceiptsOf(r) : TRUE).status]

\* Every step of the service is a step of the ledger or leaves it as it is.
ImplementsLedger == Ledger!LedgerSpec

-----------------------------------------------------------------------------
(* What the documents say and the code does not keep.                      *)

\* README, "Retry an ambiguous or interrupted submission with the exact same
\* request body and request ID": then ErrReplay is for those who come with a
\* key that another submission holds.
ReplayedOnlyByAnother ==
    [][\A h \in Handler :
        (pc[h] # "replayed" /\ pc'[h] = "replayed") =>
            LET i == call[h].intent
            IN  \E held \in {replayRequests[RequestIDOf[i]],
                             replayBindings[BindingOf[i]],
                             replayApprovals[ApprovalOf[i]]} :
                    held # None /\ held.intent # StoredAs[i]]_vars

\* README, "Signed operation requests expire within ten minutes": then the
\* mutation is sent before its request expires.
SentBeforeExpiry ==
    [][\A r \in RequestID : sent'[r] > sent[r] =>
        clock < ExpiresAt[requests[r].intent]]_vars

\* README, "ambiguous provider responses remain pending until observation
\* proves the outcome": then an accepted operation was carried out.
AcceptedIsApplied ==
    \A r \in RequestID :
        (results[r] # None /\ results[r].status = "accepted") => applied[r] > 0
=============================================================================
