----------------------- MODULE OperationServiceProofs -----------------------
(***************************************************************************)
(* The inductive invariant of OperationService and the theorems it gives.  *)
(*                                                                         *)
(* None of the properties is inductive alone.  That a mutation is sent     *)
(* once, for instance, needs: who is about to send it created the dispatch *)
(* record; nobody else did; nothing was sent before there was one.         *)
(***************************************************************************)
EXTENDS OperationService, TLAPS

\* A stored request holds its three replay objects.
RequestsInv ==
    \A r \in RequestID : requests[r] # None =>
        /\ RequestIDOf[requests[r].intent] = r
        /\ replayRequests[r] = requests[r]
        /\ replayBindings[BindingOf[requests[r].intent]] = requests[r]
        /\ replayApprovals[ApprovalOf[requests[r].intent]] = requests[r]

\* Dispatch, result and receipt each rest on the object before it.
DispatchesInv ==
    \A r \in RequestID : dispatches[r] # None =>
        /\ requests[r] # None
        /\ dispatches[r].request = requests[r]

ResultsInv ==
    \A r \in RequestID : results[r] # None =>
        /\ dispatches[r] # None
        /\ results[r].request = requests[r]
        /\ results[r].receiptID = dispatches[r].receiptID

ReceiptsInv ==
    \A o \in AuditObject : receipts[o] # None =>
        /\ receipts[o] = results[RequestIDOf[receipts[o].request.intent]]
        /\ o = ReceiptObject(receipts[o])

\* Nothing is sent without a dispatch record that allows it, nor twice.
ProviderInv ==
    \A r \in RequestID :
        /\ applied[r] + refused[r] <= sent[r]
        /\ sent[r] <= 1
        /\ sent[r] > 0 =>
            /\ dispatches[r] # None
            /\ dispatches[r].token # Unsendable

\* Why a verdict is right, in terms that no later step undoes.
Justified(r, status) ==
    IF status = "rejected"
    THEN dispatches[r].token = Unsendable \/ refused[r] > 0
    ELSE /\ dispatches[r].token # Unsendable
         /\ applied[r] > 0 \/ epoch[TargetOf[requests[r].intent]] > dispatches[r].token

VerdictsInv ==
    \A r \in RequestID : results[r] # None => Justified(r, results[r].status)

Reserving == {"reserveBinding", "reserveApproval", "putRequest"}

\* What a handler holds is what is stored.
HoldsReservation(h) ==
    /\ pc[h] \in Reserving =>
        /\ call[h].request.intent = StoredAs[call[h].intent]
        /\ replayRequests[RequestOf(h)] = call[h].request
    /\ pc[h] \in {"reserveApproval", "putRequest"} =>
        replayBindings[BindingOf[call[h].intent]] = call[h].request
    /\ pc[h] = "putRequest" =>
        replayApprovals[ApprovalOf[call[h].intent]] = call[h].request

HoldsOutbox(h) ==
    /\ pc[h] \in HasRequest \ Reserving => call[h].request = requests[RequestOf(h)]
    /\ pc[h] \in HasDispatch => call[h].dispatch = dispatches[RequestOf(h)]
    /\ pc[h] \in HasResult => call[h].result = results[RequestOf(h)]
    /\ pc[h] \in HasStatus => Justified(RequestOf(h), call[h].status)
    /\ pc[h] = "readResult" => results[RequestOf(h)] # None
    /\ pc[h] = "readReceipt" => receipts[ReceiptObject(call[h].result)] # None
    /\ pc[h] = "dispatch" =>
        /\ sent[RequestOf(h)] = 0
        /\ call[h].dispatch.token # Unsendable

\* The creator of the dispatch record is the only one that sends.
OneSender ==
    \A h, k \in Handler :
        (pc[h] = "dispatch" /\ pc[k] = "dispatch" /\ RequestOf(h) = RequestOf(k))
            => h = k

Holds(h) == HoldsReservation(h) /\ HoldsOutbox(h)

IInv ==
    /\ TypeOK
    /\ RequestsInv /\ DispatchesInv /\ ResultsInv /\ ReceiptsInv
    /\ ProviderInv
    /\ VerdictsInv
    /\ \A h \in Handler : Holds(h)
    /\ OneSender

-----------------------------------------------------------------------------
(* Type correctness                                                        *)

HandlersTyped ==
    /\ pc \in [Handler -> Returned \cup Serving]
    /\ call \in [Handler -> Local]
    /\ \A h \in Handler : WellFormed(pc[h], call[h])

LEMMA BlankLocal == Blank \in Local
  BY NoneAssumption DEF Blank, Local

\* A step of one handler keeps the types if what it goes to is well formed.
LEMMA GotoType ==
  ASSUME NEW h \in Handler, NEW label \in Returned \cup Serving,
         NEW locals \in Local, WellFormed(label, locals),
         HandlersTyped, Goto(h, label, locals)
  PROVE  HandlersTyped'
  <1>1. pc' \in [Handler -> Returned \cup Serving] /\ call' \in [Handler -> Local]
    BY DEF HandlersTyped, Goto
  <1>2. ASSUME NEW k \in Handler PROVE WellFormed(pc'[k], call'[k])
    <2>1. CASE k = h
      <3>1. pc'[k] = label /\ call'[k] = locals
        BY <2>1 DEF HandlersTyped, Goto
      <3>2. QED BY <3>1
    <2>2. CASE k # h
      <3>1. pc'[k] = pc[k] /\ call'[k] = call[k]
        BY <2>2 DEF HandlersTyped, Goto
      <3>2. WellFormed(pc[k], call[k])
        BY DEF HandlersTyped
      <3>3. QED BY <3>1, <3>2
    <2>3. QED BY <2>1, <2>2
  <1>3. QED BY <1>1, <1>2 DEF HandlersTyped

\* A handler that returns holds nothing.
LEMMA ReturnType ==
  ASSUME NEW h \in Handler, NEW answer \in Returned, HandlersTyped,
         Return(h, answer)
  PROVE  HandlersTyped'
  <1>1. WellFormed(answer, Blank)
    BY DEF WellFormed, Returned, Serving, HasRequest, HasDispatch, HasStatus,
           HasResult
  <1>2. Goto(h, answer, Blank)
    BY DEF Return
  <1>3. QED BY <1>1, <1>2, BlankLocal, GotoType

\* What a handler's locals are when it serves, and when it holds more.
LEMMA LocalsTyped ==
  ASSUME HandlersTyped, NEW h \in Handler, pc[h] \in Serving
  PROVE  /\ call[h] \in Local
         /\ call[h].intent \in Intent
         /\ pc[h] \in HasRequest => call[h].request \in Request
         /\ pc[h] = "putDispatch" => call[h].token \in Token
         /\ pc[h] \in HasDispatch => call[h].dispatch \in Dispatch
         /\ pc[h] \in HasStatus => call[h].status \in Status
         /\ pc[h] \in HasResult => call[h].result \in Result
  <1>1. call[h] \in Local /\ WellFormed(pc[h], call[h])
    BY DEF HandlersTyped
  <1>2. QED BY <1>1 DEF Local, WellFormed

\* The part of the types that is about handlers.
LEMMA TypeOfHandlers == TypeOK => HandlersTyped
  BY DEF TypeOK, HandlersTyped

\* The initial states have the types.
LEMMA TypeInit == Init => TypeOK
  <1> SUFFICES ASSUME Init PROVE TypeOK
    OBVIOUS
  <1>1. \A h \in Handler : WellFormed(pc[h], call[h])
    BY DEF Init, WellFormed, Serving, HasRequest, HasDispatch, HasStatus,
           HasResult
  <1>2. pc \in [Handler -> Returned \cup Serving] /\ call \in [Handler -> Local]
    BY BlankLocal DEF Init, Returned
  <1>3. clock \in Time
    BY BoundAssumption DEF Init, Time
  <1>4. QED
    BY <1>1, <1>2, <1>3 DEF Init, TypeOK

\* Moving on with the locals as they are, or with one of them replaced.
LEMMA MoveType ==
  ASSUME HandlersTyped, NEW h \in Handler, pc[h] \in Serving,
         NEW label \in Serving, NEW locals \in Local,
         Goto(h, label, locals),
         locals.intent = call[h].intent,
         label \in HasRequest => locals.request # None,
         label = "putDispatch" => locals.token # None,
         label \in HasDispatch => locals.dispatch # None,
         label \in HasStatus => locals.status # None,
         label \in HasResult => locals.result # None
  PROVE  HandlersTyped'
  <1>1. call[h].intent # None
    BY DEF HandlersTyped, WellFormed
  <1>2. WellFormed(label, locals)
    BY <1>1 DEF WellFormed
  <1>3. QED BY <1>2, GotoType

\* Service.Create keeps the types of the handlers.
LEMMA CreateStepTypes ==
  ASSUME TypeOK, NEW h \in Handler, CreateSteps(h)
  PROVE  HandlersTyped'
  <1> USE NoneAssumption, TypeOfHandlers DEF Serving, HasRequest, HasDispatch, HasStatus, HasResult, Returned
  <1>1. CASE LookupRequest(h)
    <2> DEFINE existing == requests[RequestOf(h)]
    <2>1. pc[h] = "lookup"
      BY <1>1 DEF LookupRequest
    <2>2. call[h] \in Local /\ call[h].intent \in Intent
      BY <2>1, LocalsTyped
    <2>3. existing \in Request \cup {None}
      BY <2>2, IntentAssumption DEF TypeOK, RequestOf
    <2>4. existing # None => [call[h] EXCEPT !.request = existing] \in Local
      BY <2>2, <2>3 DEF Local
    <2>5. QED
      BY <1>1, <2>1, <2>2, <2>4, MoveType, ReturnType DEF LookupRequest, Local
  <1>2. CASE CheckEvidence(h)
    <2>1. pc[h] = "evidence"
      BY <1>2 DEF CheckEvidence
    <2>2. call[h] \in Local
      BY <2>1, LocalsTyped
    <2>3. QED
      BY <1>2, <2>1, <2>2, MoveType, ReturnType DEF CheckEvidence
  <1>3. CASE ReserveRequestID(h)
    <2>1. pc[h] = "reserveRequest"
      BY <1>3 DEF ReserveRequestID
    <2>2. call[h] \in Local /\ call[h].intent \in Intent
      BY <2>1, LocalsTyped
    <2>3. \A n \in FreshNonces :
            LET request == [intent |-> StoredAs[call[h].intent], nonce |-> n]
            IN  request # None /\ [call[h] EXCEPT !.request = request] \in Local
      BY <2>2, StoredAsAssumption DEF Local, FreshNonces, Request
    <2>4. QED
      BY <1>3, <2>1, <2>2, <2>3, MoveType, ReturnType DEF ReserveRequestID, Local
  <1>4. CASE ReserveBinding(h) \/ ReserveApproval(h)
    <2>1. pc[h] \in {"reserveBinding", "reserveApproval"}
      BY <1>4 DEF ReserveBinding, ReserveApproval
    <2>2. call[h] \in Local /\ call[h].request # None
      BY <2>1, LocalsTyped
    <2>3. [call[h] EXCEPT !.request = None] \in Local
      BY <2>2 DEF Local
    <2>4. QED
      BY <1>4, <2>1, <2>2, <2>3, MoveType, ReturnType
      DEF ReserveBinding, ReserveApproval, Local
  <1>5. CASE RereadRequest(h)
    <2> DEFINE existing == requests[RequestOf(h)]
    <2>1. pc[h] = "reread"
      BY <1>5 DEF RereadRequest
    <2>2. call[h] \in Local /\ call[h].intent \in Intent
      BY <2>1, LocalsTyped
    <2>3. existing \in Request \cup {None}
      BY <2>2, IntentAssumption DEF TypeOK, RequestOf
    <2>4. existing # None => [call[h] EXCEPT !.request = existing] \in Local
      BY <2>2, <2>3 DEF Local
    <2>5. QED
      BY <1>5, <2>1, <2>2, <2>4, MoveType, ReturnType DEF RereadRequest, Local
  <1>6. CASE PutRequest(h)
    <2>1. pc[h] = "putRequest"
      BY <1>6 DEF PutRequest
    <2>2. call[h] \in Local /\ call[h].request # None
      BY <2>1, LocalsTyped
    <2>3. [call[h] EXCEPT !.request = None] \in Local
      BY <2>2 DEF Local
    <2>4. QED
      BY <1>6, <2>1, <2>2, <2>3, MoveType, ReturnType DEF PutRequest, Local
  <1>7. QED
    BY <1>1, <1>2, <1>3, <1>4, <1>5, <1>6 DEF CreateSteps

\* Service.prepare keeps the types of the handlers.
LEMMA PrepareStepTypes ==
  ASSUME TypeOK, NEW h \in Handler, PrepareSteps(h)
  PROVE  HandlersTyped'
  <1> USE NoneAssumption, TypeOfHandlers DEF Serving, HasRequest, HasDispatch, HasStatus, HasResult, Returned
  <1>1. CASE Prepare(h)
    <2>1. pc[h] = "prepare"
      BY <1>1 DEF Prepare
    <2>2. call[h] \in Local /\ call[h].request \in Request
      BY <2>1, LocalsTyped
    <2>3. epoch[TargetOf[call[h].request.intent]] \in Nat
      BY <2>2, IntentAssumption DEF Request, TypeOK
    <2>4. \A token \in {epoch[TargetOf[call[h].request.intent]], Unsendable} :
            token # None /\ [call[h] EXCEPT !.token = token] \in Local
      BY <2>2, <2>3 DEF Local, Token
    <2>5. QED
      BY <1>1, <2>1, <2>2, <2>4, MoveType DEF Prepare, Local
  <1>2. CASE PutDispatch(h)
    <2>1. pc[h] = "putDispatch"
      BY <1>2 DEF PutDispatch
    <2>2. /\ call[h] \in Local
          /\ call[h].request \in Request
          /\ call[h].token \in Token
      BY <2>1, LocalsTyped
    <2>3. PICK id \in FreshReceiptIDs, answer \in Answers :
            LET dispatch == [request |-> call[h].request, receiptID |-> id,
                             token |-> call[h].token]
                held == [call[h] EXCEPT !.dispatch = dispatch, !.token = None]
            IN  \/ Goto(h, "putResult", [held EXCEPT !.status = "rejected"])
                \/ Goto(h, "dispatch", held)
                \/ Goto(h, "getDispatch", [call[h] EXCEPT !.token = None])
                \/ Return(h, "idle")
      BY <1>2 DEF PutDispatch, AfterPutDispatch, NewDispatch
    <2> DEFINE dispatch == [request |-> call[h].request, receiptID |-> id,
                            token |-> call[h].token]
               held == [call[h] EXCEPT !.dispatch = dispatch, !.token = None]
    <2>4. dispatch \in Dispatch
      BY <2>2 DEF Dispatch, FreshReceiptIDs
    <2> HIDE DEF dispatch
    <2>5. /\ held \in Local
          /\ held.intent = call[h].intent
          /\ held.request = call[h].request
          /\ held.dispatch # None
      BY <2>2, <2>4 DEF Local
    <2> HIDE DEF held
    <2> DEFINE decided == [held EXCEPT !.status = "rejected"]
    <2>6. /\ decided \in Local
          /\ decided.intent = held.intent
          /\ decided.request = held.request
          /\ decided.dispatch = held.dispatch
          /\ decided.status # None
      BY <2>5 DEF Local, Status
    <2> HIDE DEF decided
    <2>7. [call[h] EXCEPT !.token = None] \in Local
      BY <2>2 DEF Local
    <2>8. CASE Goto(h, "putResult", decided)
      BY <2>1, <2>2, <2>5, <2>6, <2>8, MoveType
    <2>9. CASE Goto(h, "dispatch", held)
      BY <2>1, <2>2, <2>5, <2>9, MoveType
    <2>10. CASE Goto(h, "getDispatch", [call[h] EXCEPT !.token = None])
      BY <2>1, <2>2, <2>7, <2>10, MoveType DEF Local
    <2>11. QED
      BY <2>3, <2>8, <2>9, <2>10, ReturnType DEF dispatch, held, decided
  <1>3. CASE SendMutation(h)
    <2>1. pc[h] = "dispatch"
      BY <1>3 DEF SendMutation
    <2>2. call[h] \in Local /\ call[h].request # None /\ call[h].dispatch # None
      BY <2>1, LocalsTyped
    <2>3. QED
      BY <1>3, <2>1, <2>2, MoveType, ReturnType DEF SendMutation
  <1>4. CASE ReceiveResponse(h)
    <2>1. pc[h] = "response"
      BY <1>4 DEF ReceiveResponse
    <2>2. call[h] \in Local /\ call[h].request # None /\ call[h].dispatch # None
      BY <2>1, LocalsTyped
    <2>3. \A s \in Status : [call[h] EXCEPT !.status = s] \in Local
      BY <2>2 DEF Local
    <2>4. QED
      BY <1>4, <2>1, <2>2, <2>3, MoveType, ReturnType
      DEF ReceiveResponse, Local, Status
  <1>5. QED
    BY <1>1, <1>2, <1>3, <1>4 DEF PrepareSteps

\* Service.resume keeps the types of the handlers.
LEMMA ResumeStepTypes ==
  ASSUME TypeOK, NEW h \in Handler, ResumeSteps(h)
  PROVE  HandlersTyped'
  <1> USE NoneAssumption, TypeOfHandlers DEF Serving, HasRequest, HasDispatch, HasStatus, HasResult, Returned
  <1>1. CASE GetDispatch(h)
    <2> DEFINE stored == dispatches[RequestOf(h)]
    <2>1. pc[h] = "getDispatch"
      BY <1>1 DEF GetDispatch
    <2>2. call[h] \in Local /\ call[h].intent \in Intent /\ call[h].request # None
      BY <2>1, LocalsTyped
    <2>3. stored \in Dispatch \cup {None}
      BY <2>2, IntentAssumption DEF TypeOK, RequestOf
    <2>4. stored # None => [call[h] EXCEPT !.dispatch = stored] \in Local
      BY <2>2, <2>3 DEF Local
    <2>5. QED
      BY <1>1, <2>1, <2>2, <2>4, MoveType, ReturnType DEF GetDispatch, Local
  <1>2. CASE GetDispatchResult(h)
    <2> DEFINE stored == results[RequestOf(h)]
    <2>1. pc[h] = "getResult"
      BY <1>2 DEF GetDispatchResult
    <2>2. /\ call[h] \in Local /\ call[h].intent \in Intent
          /\ call[h].request # None /\ call[h].dispatch # None
      BY <2>1, LocalsTyped
    <2>3. stored \in Result \cup {None}
      BY <2>2, IntentAssumption DEF TypeOK, RequestOf
    <2>4. stored # None => [call[h] EXCEPT !.result = stored] \in Local
      BY <2>2, <2>3 DEF Local
    <2>5. QED
      BY <1>2, <2>1, <2>2, <2>4, MoveType, ReturnType DEF GetDispatchResult, Local
  <1>3. CASE Recover(h)
    <2>1. pc[h] = "recover"
      BY <1>3 DEF Recover
    <2>2. call[h] \in Local /\ call[h].request # None /\ call[h].dispatch # None
      BY <2>1, LocalsTyped
    <2>3. \A s \in Status : [call[h] EXCEPT !.status = s] \in Local
      BY <2>2 DEF Local
    <2>4. QED
      BY <1>3, <2>1, <2>2, <2>3, MoveType, ReturnType DEF Recover, Local, Status
  <1>4. QED
    BY <1>1, <1>2, <1>3 DEF ResumeSteps

\* Service.complete and finalize keep the types of the handlers.
LEMMA CompleteStepTypes ==
  ASSUME TypeOK, NEW h \in Handler, CompleteSteps(h),
         pc[h] = "readResult" => results[RequestOf(h)] # None
  PROVE  HandlersTyped'
  <1> USE NoneAssumption, TypeOfHandlers DEF Serving, HasRequest, HasDispatch, HasStatus, HasResult, Returned
  <1>1. CASE PutDispatchResult(h)
    <2> DEFINE result == [request |-> call[h].request,
                          receiptID |-> call[h].dispatch.receiptID,
                          status |-> call[h].status, recordedAt |-> clock]
    <2>1. pc[h] = "putResult"
      BY <1>1 DEF PutDispatchResult
    <2>2. /\ call[h] \in Local
          /\ call[h].request \in Request /\ call[h].dispatch \in Dispatch
          /\ call[h].status \in Status
      BY <2>1, LocalsTyped
    <2>3. result \in Result
      BY <2>2 DEF Result, Dispatch, TypeOK
    <2>4. [call[h] EXCEPT !.result = result] \in Local
      BY <2>2, <2>3 DEF Local
    <2>5. QED
      BY <1>1, <2>1, <2>2, <2>3, <2>4, MoveType, ReturnType
      DEF PutDispatchResult, Local
  <1>2. CASE ReadConflictingResult(h)
    <2> DEFINE stored == results[RequestOf(h)]
    <2>1. pc[h] = "readResult"
      BY <1>2 DEF ReadConflictingResult
    <2>2. /\ call[h] \in Local /\ call[h].intent \in Intent
          /\ call[h].request # None /\ call[h].dispatch # None
      BY <2>1, LocalsTyped
    <2>3. stored \in Result
      BY <2>1, <2>2, IntentAssumption DEF TypeOK, RequestOf
    <2>4. [call[h] EXCEPT !.result = stored] \in Local
      BY <2>2, <2>3 DEF Local
    <2>5. QED
      BY <1>2, <2>1, <2>2, <2>3, <2>4, MoveType, ReturnType
      DEF ReadConflictingResult, Local
  <1>3. CASE PutReceipt(h) \/ ReadConflictingReceipt(h)
    <2>1. pc[h] \in {"putReceipt", "readReceipt"}
      BY <1>3 DEF PutReceipt, ReadConflictingReceipt
    <2>2. /\ call[h] \in Local /\ call[h].request # None
          /\ call[h].dispatch # None /\ call[h].result # None
      BY <2>1, LocalsTyped
    <2>3. QED
      BY <1>3, <2>1, <2>2, MoveType, ReturnType
      DEF PutReceipt, ReadConflictingReceipt
  <1>4. QED
    BY <1>1, <1>2, <1>3 DEF CompleteSteps

\* The bucket, GitHub and the clock: what the steps write has its type.
LEMMA TypeNext ==
  ASSUME TypeOK, [Next]_vars,
         \A h \in Handler : pc[h] = "readResult" => results[RequestOf(h)] # None
  PROVE  TypeOK'
  <1> USE TypeOfHandlers
  <1> DEFINE Stores == /\ replayRequests' = replayRequests
                       /\ replayBindings' = replayBindings
                       /\ replayApprovals' = replayApprovals
                       /\ requests' = requests
                       /\ dispatches' = dispatches
                       /\ results' = results
                       /\ receipts' = receipts
             Provider == /\ sent' = sent
                         /\ applied' = applied
                         /\ refused' = refused
                         /\ shown' = shown
                         /\ epoch' = epoch
             Timers == clock' = clock /\ stable' = stable
  <1>1. ASSUME HandlersTyped', Stores, Provider, Timers PROVE TypeOK'
    BY <1>1 DEF TypeOK, HandlersTyped
  <1>2. ASSUME NEW h \in Handler, NEW i \in Intent, Submit(h, i) PROVE TypeOK'
    <2>1. [Blank EXCEPT !.intent = i] \in Local
      BY NoneAssumption DEF Blank, Local
    <2>2. WellFormed("lookup", [Blank EXCEPT !.intent = i])
      BY NoneAssumption DEF WellFormed, Blank, HasRequest, HasDispatch, HasStatus, HasResult
    <2>3. HandlersTyped'
      BY <1>2, <2>1, <2>2, GotoType DEF Submit, Serving
    <2>4. QED
      BY <1>1, <1>2, <2>3 DEF Submit, storeVars, replayVars, outboxVars, providerVars, timeVars
  <1>3. ASSUME NEW h \in Handler, CutOff(h) PROVE TypeOK'
    <2>1. HandlersTyped'
      BY <1>3, ReturnType DEF CutOff, Returned
    <2>2. QED
      BY <1>1, <1>3, <2>1 DEF CutOff, storeVars, replayVars, outboxVars, providerVars, timeVars
  <1> USE DEF storeVars, replayVars, outboxVars, providerVars, timeVars
  <1>4. ASSUME NEW h \in Handler, CreateSteps(h) PROVE TypeOK'
    <2>1. HandlersTyped'
      BY <1>4, CreateStepTypes
    <2>2. CASE LookupRequest(h) \/ CheckEvidence(h) \/ RereadRequest(h)
      BY <1>1, <2>1, <2>2 DEF LookupRequest, CheckEvidence, RereadRequest
    <2>3. CASE ReserveRequestID(h)
      <3>1. pc[h] = "reserveRequest" /\ pc[h] \in Serving
        BY <2>3 DEF ReserveRequestID, Serving
      <3>2. call[h].intent \in Intent /\ RequestOf(h) \in RequestID
        BY <3>1, LocalsTyped, IntentAssumption DEF RequestOf
      <3>3. PICK n \in FreshNonces, answer \in Answers :
              Create(replayRequests, replayRequests', RequestOf(h),
                     [intent |-> StoredAs[call[h].intent], nonce |-> n], answer)
        BY <2>3 DEF ReserveRequestID
      <3>4. [intent |-> StoredAs[call[h].intent], nonce |-> n] \in Request
        BY <3>2, StoredAsAssumption DEF Request, FreshNonces
      <3>5. replayRequests' \in [RequestID -> Request \cup {None}]
        BY <3>2, <3>3, <3>4 DEF TypeOK, Create
      <3>6. QED
        BY <2>1, <2>3, <3>5 DEF ReserveRequestID, TypeOK, HandlersTyped
    <2>4. CASE ReserveBinding(h)
      <3>1. pc[h] \in HasRequest /\ pc[h] \in Serving
        BY <2>4 DEF ReserveBinding, Serving, HasRequest
      <3>2. call[h].request \in Request /\ BindingOf[call[h].intent] \in Binding
        BY <3>1, LocalsTyped, IntentAssumption
      <3>3. replayBindings' \in [Binding -> Request \cup {None}]
        BY <2>4, <3>2 DEF ReserveBinding, TypeOK, Create
      <3>4. QED
        BY <2>1, <2>4, <3>3 DEF ReserveBinding, TypeOK, HandlersTyped
    <2>5. CASE ReserveApproval(h)
      <3>1. pc[h] \in HasRequest /\ pc[h] \in Serving
        BY <2>5 DEF ReserveApproval, Serving, HasRequest
      <3>2. call[h].request \in Request /\ ApprovalOf[call[h].intent] \in Approval
        BY <3>1, LocalsTyped, IntentAssumption
      <3>3. replayApprovals' \in [Approval -> Request \cup {None}]
        BY <2>5, <3>2 DEF ReserveApproval, TypeOK, Create
      <3>4. QED
        BY <2>1, <2>5, <3>3 DEF ReserveApproval, TypeOK, HandlersTyped
    <2>6. CASE PutRequest(h)
      <3>1. pc[h] \in HasRequest /\ pc[h] \in Serving
        BY <2>6 DEF PutRequest, Serving, HasRequest
      <3>2. call[h].request \in Request /\ RequestOf(h) \in RequestID
        BY <3>1, LocalsTyped, IntentAssumption DEF RequestOf
      <3>3. requests' \in [RequestID -> Request \cup {None}]
        BY <2>6, <3>2 DEF PutRequest, TypeOK, Create
      <3>4. QED
        BY <2>1, <2>6, <3>3 DEF PutRequest, TypeOK, HandlersTyped
    <2>7. QED
      BY <1>4, <2>2, <2>3, <2>4, <2>5, <2>6 DEF CreateSteps
  <1>5. ASSUME NEW h \in Handler, PrepareSteps(h) PROVE TypeOK'
    <2>1. HandlersTyped'
      BY <1>5, PrepareStepTypes
    <2>2. CASE Prepare(h) \/ ReceiveResponse(h)
      BY <1>1, <2>1, <2>2 DEF Prepare, ReceiveResponse
    <2>3. CASE PutDispatch(h)
      <3>1. pc[h] = "putDispatch" /\ pc[h] \in Serving /\ pc[h] \in HasRequest
        BY <2>3 DEF PutDispatch, Serving, HasRequest
      <3>2. /\ call[h].request \in Request /\ call[h].token \in Token
            /\ RequestOf(h) \in RequestID
        BY <3>1, LocalsTyped, IntentAssumption DEF RequestOf
      <3>3. PICK id \in FreshReceiptIDs, answer \in Answers :
              Create(dispatches, dispatches', RequestOf(h),
                     [request |-> call[h].request, receiptID |-> id,
                      token |-> call[h].token], answer)
        BY <2>3 DEF PutDispatch, AfterPutDispatch, NewDispatch
      <3>4. [request |-> call[h].request, receiptID |-> id,
             token |-> call[h].token] \in Dispatch
        BY <3>2 DEF Dispatch, FreshReceiptIDs
      <3>5. dispatches' \in [RequestID -> Dispatch \cup {None}]
        BY <3>2, <3>3, <3>4 DEF TypeOK, Create
      <3>6. QED
        BY <2>1, <2>3, <3>5 DEF PutDispatch, TypeOK, HandlersTyped
    <2>4. CASE SendMutation(h)
      <3>1. sent' \in [RequestID -> Nat]
        BY <2>4 DEF SendMutation, TypeOK
      <3>2. QED
        BY <2>1, <2>4, <3>1 DEF SendMutation, TypeOK, HandlersTyped
    <2>5. QED
      BY <1>5, <2>2, <2>3, <2>4 DEF PrepareSteps
  <1>6. ASSUME NEW h \in Handler, ResumeSteps(h) PROVE TypeOK'
    BY <1>1, <1>6, ResumeStepTypes
    DEF ResumeSteps, GetDispatch, GetDispatchResult, Recover
  <1>7. ASSUME NEW h \in Handler, CompleteSteps(h) PROVE TypeOK'
    <2>1. HandlersTyped'
      BY <1>7, CompleteStepTypes
    <2>2. CASE ReadConflictingResult(h) \/ ReadConflictingReceipt(h)
      BY <1>1, <2>1, <2>2 DEF ReadConflictingResult, ReadConflictingReceipt
    <2>3. CASE PutDispatchResult(h)
      <3> DEFINE result == [request |-> call[h].request,
                            receiptID |-> call[h].dispatch.receiptID,
                            status |-> call[h].status, recordedAt |-> clock]
      <3>1. /\ pc[h] \in Serving /\ pc[h] \in HasRequest
            /\ pc[h] \in HasDispatch /\ pc[h] \in HasStatus
        BY <2>3 DEF PutDispatchResult, Serving, HasRequest, HasDispatch, HasStatus
      <3>2. /\ call[h].request \in Request /\ call[h].dispatch \in Dispatch
            /\ call[h].status \in Status /\ RequestOf(h) \in RequestID
        BY <3>1, LocalsTyped, IntentAssumption DEF RequestOf
      <3>3. result \in Result
        BY <3>2 DEF Result, Dispatch, TypeOK
      <3>4. results' \in [RequestID -> Result \cup {None}]
        BY <2>3, <3>2, <3>3 DEF PutDispatchResult, TypeOK, Create
      <3>5. QED
        BY <2>1, <2>3, <3>4 DEF PutDispatchResult, TypeOK, HandlersTyped
    <2>4. CASE PutReceipt(h)
      <3>1. pc[h] \in Serving /\ pc[h] \in HasResult
        BY <2>4 DEF PutReceipt, Serving, HasResult
      <3>2. call[h].result \in Result
        BY <3>1, LocalsTyped
      <3>3. ReceiptObject(call[h].result) \in AuditObject
        BY <3>2 DEF ReceiptObject, AuditObject, Result
      <3>4. receipts' \in [AuditObject -> Result \cup {None}]
        BY <2>4, <3>2, <3>3 DEF PutReceipt, TypeOK, Create
      <3>5. QED
        BY <2>1, <2>4, <3>4 DEF PutReceipt, TypeOK, HandlersTyped
    <2>5. QED
      BY <1>7, <2>2, <2>3, <2>4 DEF CompleteSteps
  <1>8. ASSUME NEW r \in RequestID, GitHub(r) PROVE TypeOK'
    <2>1. applied' \in [RequestID -> Nat] /\ refused' \in [RequestID -> Nat]
      BY <1>8 DEF GitHub, ApplyMutation, RefuseMutation, TypeOK
    <2>2. QED
      BY <1>8, <2>1 DEF GitHub, ApplyMutation, RefuseMutation, TypeOK, handlerVars
  <1>9. ASSUME NEW r \in RequestID, ShowEffect(r) PROVE TypeOK'
    <2> DEFINE t == TargetOf[requests[r].intent]
    <2>1. shown' \in [RequestID -> Nat]
      BY <1>9 DEF ShowEffect, TypeOK
    <2>2. epoch' = [epoch EXCEPT ![t] = @ + 1] /\ epoch \in [Target -> Nat]
      BY <1>9 DEF ShowEffect, TypeOK
    <2>3. epoch' \in [Target -> Nat]
      <3> HIDE DEF t
      <3>1. CASE t \in Target
        BY <2>2, <3>1
      <3>2. CASE t \notin Target
        BY <2>2, <3>2
      <3>3. QED
        BY <3>1, <3>2
    <2>4. QED
      BY <1>9, <2>1, <2>3 DEF ShowEffect, TypeOK, handlerVars
  <1>10. ASSUME NEW t \in Target, ForeignChange(t) PROVE TypeOK'
    BY <1>10 DEF ForeignChange, TypeOK, handlerVars
  <1>11. CASE Tick
    <2>1. clock' \in Time
      BY <1>11, BoundAssumption DEF Tick, TypeOK, Time
    <2>2. QED
      BY <1>11, <2>1 DEF Tick, TypeOK, handlerVars
  <1>12. CASE Stabilise
    BY <1>12 DEF Stabilise, TypeOK, handlerVars
  <1>13. CASE UNCHANGED vars
    BY <1>13 DEF vars, TypeOK, handlerVars
  <1>14. QED
    BY <1>2, <1>3, <1>4, <1>5, <1>6, <1>7, <1>8, <1>9, <1>10, <1>11, <1>12, <1>13
    DEF Next, Serve

-----------------------------------------------------------------------------
(* Nothing stored is changed, nothing counted goes down.                   *)

Grows ==
    /\ \A r \in RequestID :
        /\ replayRequests[r] # None => replayRequests'[r] = replayRequests[r]
        /\ requests[r] # None => requests'[r] = requests[r]
        /\ dispatches[r] # None => dispatches'[r] = dispatches[r]
        /\ results[r] # None => results'[r] = results[r]
        /\ sent'[r] >= sent[r]
        /\ applied'[r] >= applied[r]
        /\ refused'[r] >= refused[r]
    /\ \A b \in Binding : replayBindings[b] # None => replayBindings'[b] = replayBindings[b]
    /\ \A a \in Approval : replayApprovals[a] # None => replayApprovals'[a] = replayApprovals[a]
    /\ \A o \in AuditObject : receipts[o] # None => receipts'[o] = receipts[o]
    /\ \A t \in Target : epoch'[t] >= epoch[t]

\* No step of a handler takes back what is stored or was sent.
LEMMA ServeGrows ==
  ASSUME TypeOK, NEW h \in Handler, Serve(h)
  PROVE  Grows
  <1> USE DEF Grows, TypeOK, storeVars, replayVars, outboxVars, providerVars, timeVars
  <1>1. CASE CreateSteps(h)
    <2>1. CASE LookupRequest(h) \/ CheckEvidence(h) \/ RereadRequest(h)
      BY <2>1 DEF LookupRequest, CheckEvidence, RereadRequest
    <2>2. CASE ReserveRequestID(h)
      BY <2>2 DEF ReserveRequestID, Create
    <2>3. CASE ReserveBinding(h)
      BY <2>3 DEF ReserveBinding, Create
    <2>4. CASE ReserveApproval(h)
      BY <2>4 DEF ReserveApproval, Create
    <2>5. CASE PutRequest(h)
      BY <2>5 DEF PutRequest, Create
    <2>6. QED BY <1>1, <2>1, <2>2, <2>3, <2>4, <2>5 DEF CreateSteps
  <1>2. CASE PrepareSteps(h)
    <2>1. CASE Prepare(h) \/ ReceiveResponse(h)
      BY <2>1 DEF Prepare, ReceiveResponse
    <2>2. CASE PutDispatch(h)
      BY <2>2 DEF PutDispatch, Create
    <2>3. CASE SendMutation(h)
      BY <2>3 DEF SendMutation
    <2>4. QED BY <1>2, <2>1, <2>2, <2>3 DEF PrepareSteps
  <1>3. CASE ResumeSteps(h)
    BY <1>3 DEF ResumeSteps, GetDispatch, GetDispatchResult, Recover
  <1>4. CASE CompleteSteps(h)
    <2>1. CASE ReadConflictingResult(h) \/ ReadConflictingReceipt(h)
      BY <2>1 DEF ReadConflictingResult, ReadConflictingReceipt
    <2>2. CASE PutDispatchResult(h)
      BY <2>2 DEF PutDispatchResult, Create
    <2>3. CASE PutReceipt(h)
      BY <2>3 DEF PutReceipt, Create
    <2>4. QED BY <1>4, <2>1, <2>2, <2>3 DEF CompleteSteps
  <1>5. QED BY <1>1, <1>2, <1>3, <1>4 DEF Serve

\* No step at all does.
LEMMA NextGrows ==
  ASSUME TypeOK, [Next]_vars
  PROVE  Grows
  <1> USE DEF storeVars, replayVars, outboxVars, providerVars, timeVars, handlerVars
  <1>1. ASSUME NEW h \in Handler, Serve(h) PROVE Grows
    BY <1>1, ServeGrows
  <1>2. ASSUME NEW r \in RequestID, GitHub(r) PROVE Grows
    BY <1>2 DEF GitHub, ApplyMutation, RefuseMutation, Grows, TypeOK
  <1>3. ASSUME NEW t \in Target, ForeignChange(t) PROVE Grows
    BY <1>3 DEF ForeignChange, Grows, TypeOK
  <1>4. ASSUME NEW h \in Handler, NEW i \in Intent, Submit(h, i) PROVE Grows
    BY <1>4 DEF Submit, Grows, TypeOK
  <1>5. ASSUME NEW h \in Handler, CutOff(h) PROVE Grows
    BY <1>5 DEF CutOff, Grows, TypeOK
  <1>6. CASE Tick \/ Stabilise \/ UNCHANGED vars
    BY <1>6 DEF Tick, Stabilise, vars, Grows, TypeOK
  <1>7. ASSUME NEW r \in RequestID, ShowEffect(r) PROVE Grows
    <2>1. \A t \in Target : epoch'[t] >= epoch[t]
      BY <1>7 DEF ShowEffect, TypeOK
    <2>2. QED
      BY <1>7, <2>1 DEF ShowEffect, Grows, TypeOK
  <1>8. QED
    BY <1>1, <1>2, <1>3, <1>4, <1>5, <1>6, <1>7 DEF Next

-----------------------------------------------------------------------------
(* What holds goes on holding where a step changes nothing.                *)

LEMMA GotoValues ==
  ASSUME HandlersTyped, NEW h \in Handler, NEW label, NEW locals,
         Goto(h, label, locals)
  PROVE  /\ pc'[h] = label
         /\ call'[h] = locals
         /\ \A k \in Handler \ {h} : pc'[k] = pc[k] /\ call'[k] = call[k]
  BY DEF HandlersTyped, Goto

\* The intent, the request and the target that a stored dispatch is about.
LEMMA StoredTyped ==
  ASSUME TypeOK, RequestsInv, DispatchesInv, NEW r \in RequestID,
         requests[r] # None
  PROVE  /\ requests[r] \in Request
         /\ requests[r].intent \in Intent
         /\ BindingOf[requests[r].intent] \in Binding
         /\ ApprovalOf[requests[r].intent] \in Approval
         /\ TargetOf[requests[r].intent] \in Target
         /\ epoch[TargetOf[requests[r].intent]] \in Nat
         /\ dispatches[r] # None => dispatches[r].token \in Nat \cup {Unsendable}
  BY IntentAssumption DEF TypeOK, Request, Dispatch, Token

\* What holds of the stored requests is not disturbed while they are not written.
LEMMA RequestsKept ==
  ASSUME IInv, Grows, UNCHANGED requests
  PROVE  RequestsInv'
  <1> SUFFICES ASSUME NEW r \in RequestID, requests[r] # None
               PROVE  /\ RequestIDOf[requests[r].intent] = r
                      /\ replayRequests'[r] = requests[r]
                      /\ replayBindings'[BindingOf[requests[r].intent]] = requests[r]
                      /\ replayApprovals'[ApprovalOf[requests[r].intent]] = requests[r]
    BY DEF RequestsInv
  <1>1. BindingOf[requests[r].intent] \in Binding /\ ApprovalOf[requests[r].intent] \in Approval
    BY StoredTyped DEF IInv
  <1>2. QED
    BY <1>1 DEF IInv, RequestsInv, Grows

\* The same for the dispatch records.
LEMMA DispatchesKept ==
  ASSUME IInv, Grows, UNCHANGED dispatches
  PROVE  DispatchesInv'
  BY DEF IInv, DispatchesInv, Grows

\* The same for the results.
LEMMA ResultsKept ==
  ASSUME IInv, Grows, UNCHANGED results
  PROVE  ResultsInv'
  BY DEF IInv, ResultsInv, DispatchesInv, Grows

\* The same for the receipts.
LEMMA ReceiptsKept ==
  ASSUME IInv, Grows, UNCHANGED receipts
  PROVE  ReceiptsInv'
  <1> SUFFICES ASSUME NEW o \in AuditObject, receipts[o] # None
               PROVE  /\ receipts[o] = results'[RequestIDOf[receipts[o].request.intent]]
                      /\ o = ReceiptObject(receipts[o])
    BY DEF ReceiptsInv, ReceiptObject
  <1>1. receipts[o] \in Result
    BY DEF IInv, TypeOK
  <1>2. RequestIDOf[receipts[o].request.intent] \in RequestID
    BY <1>1, IntentAssumption DEF Result, Request
  <1>3. QED
    BY <1>2 DEF IInv, ReceiptsInv, Grows

\* A reason for a verdict is not undone.
LEMMA JustifiedKept ==
  ASSUME IInv, Grows, NEW r \in RequestID, NEW status, Justified(r, status),
         dispatches[r] # None, TypeOK'
  PROVE  Justified(r, status)'
  <1>1. requests[r] # None /\ requests'[r] = requests[r] /\ dispatches'[r] = dispatches[r]
    BY DEF IInv, DispatchesInv, Grows
  <1>2. /\ TargetOf[requests[r].intent] \in Target
        /\ dispatches[r].token \in Nat \cup {Unsendable}
    BY <1>1, StoredTyped DEF IInv
  <1>3. /\ refused[r] \in Nat /\ refused'[r] \in Nat /\ refused'[r] >= refused[r]
        /\ applied[r] \in Nat /\ applied'[r] \in Nat /\ applied'[r] >= applied[r]
        /\ epoch[TargetOf[requests[r].intent]] \in Nat
        /\ epoch'[TargetOf[requests[r].intent]] \in Nat
        /\ epoch'[TargetOf[requests[r].intent]] >= epoch[TargetOf[requests[r].intent]]
    BY <1>2 DEF IInv, TypeOK, Grows
  <1>4. QED
    BY <1>1, <1>2, <1>3, NoneAssumption DEF Justified

\* The same for what the results conclude of the provider.
LEMMA VerdictsKept ==
  ASSUME IInv, Grows, TypeOK', UNCHANGED results
  PROVE  VerdictsInv'
  <1> SUFFICES ASSUME NEW r \in RequestID, results[r] # None
               PROVE  Justified(r, results[r].status)'
    BY DEF VerdictsInv
  <1>1. dispatches[r] # None /\ Justified(r, results[r].status)
    BY DEF IInv, ResultsInv, VerdictsInv
  <1>2. QED
    BY <1>1, JustifiedKept

\* The same for what was sent, carried out and refused.
LEMMA ProviderKept ==
  ASSUME IInv, Grows, UNCHANGED <<dispatches, sent, applied, refused>>
  PROVE  ProviderInv'
  BY DEF IInv, ProviderInv

\* What a handler holds, another one's step does not take away.
LEMMA OthersHold ==
  ASSUME IInv, Grows, TypeOK', NEW k \in Handler,
         pc'[k] = pc[k], call'[k] = call[k],
         pc[k] = "dispatch" => sent'[RequestOf(k)] = sent[RequestOf(k)]
  PROVE  Holds(k)'
  <1>1. CASE pc[k] \notin HasRequest
    BY <1>1 DEF Holds, HoldsReservation, HoldsOutbox, Reserving, HasRequest,
                HasDispatch, HasStatus, HasResult
  <1>2. CASE pc[k] \in HasRequest
    <2> DEFINE r == RequestOf(k)
    <2>1. pc[k] \in Serving /\ Holds(k) /\ r' = r
      BY <1>2 DEF IInv, Serving, HasRequest, RequestOf
    <2>2. /\ call[k].intent \in Intent /\ call[k].request \in Request
          /\ pc[k] = "putDispatch" => call[k].token \in Token
          /\ pc[k] \in HasDispatch => call[k].dispatch \in Dispatch
          /\ pc[k] \in HasStatus => call[k].status \in Status
          /\ pc[k] \in HasResult => call[k].result \in Result
      BY <1>2, <2>1, LocalsTyped, TypeOfHandlers DEF IInv
    <2>3. /\ r \in RequestID /\ BindingOf[call[k].intent] \in Binding
          /\ ApprovalOf[call[k].intent] \in Approval
      BY <2>2, IntentAssumption DEF RequestOf
    <2>4. HoldsReservation(k)'
      BY <2>1, <2>2, <2>3, NoneAssumption DEF Holds, HoldsReservation, Grows, RequestOf
    <2>5. pc[k] \in HasRequest \ Reserving => call[k].request = requests'[r]
      BY <2>1, <2>2, <2>3, NoneAssumption DEF Holds, HoldsOutbox, Grows
    <2>7. pc[k] \in HasDispatch => call[k].dispatch = dispatches'[r] /\ dispatches[r] # None
      BY <2>1, <2>2, <2>3, NoneAssumption DEF Holds, HoldsOutbox, Grows
    <2>8. pc[k] \in HasResult => call[k].result = results'[r]
      BY <2>1, <2>2, <2>3, NoneAssumption DEF Holds, HoldsOutbox, Grows
    <2>9. pc[k] \in HasStatus => Justified(r, call[k].status)'
      <3>1. SUFFICES ASSUME pc[k] \in HasStatus PROVE Justified(r, call[k].status)'
        OBVIOUS
      <3>2. Justified(r, call[k].status) /\ dispatches[r] # None
        BY <2>1, <2>7, <3>1 DEF Holds, HoldsOutbox, HasStatus, HasDispatch
      <3>3. QED
        BY <2>3, <3>2, JustifiedKept, <2>1
    <2>10. /\ pc[k] = "readResult" => results'[r] # None
           /\ pc[k] = "readReceipt" => receipts'[ReceiptObject(call[k].result)] # None
      <3>1. pc[k] = "readReceipt" => ReceiptObject(call[k].result) \in AuditObject
        BY <2>2 DEF ReceiptObject, AuditObject, Result, HasResult
      <3>2. QED
        BY <2>1, <2>3, <3>1 DEF Holds, HoldsOutbox, Grows
    <2>11. pc[k] = "dispatch" => sent'[r] = 0 /\ call[k].dispatch.token # Unsendable
      BY <2>1 DEF Holds, HoldsOutbox
    <2>12. HoldsOutbox(k)'
      BY <2>1, <2>5, <2>7, <2>8, <2>9, <2>10, <2>11 DEF HoldsOutbox, ReceiptObject
    <2>13. QED
      BY <2>4, <2>12 DEF Holds
  <1>3. QED BY <1>1, <1>2

-----------------------------------------------------------------------------
(* A step of one handler.                                                  *)

StoresInv ==
    /\ RequestsInv /\ DispatchesInv /\ ResultsInv /\ ReceiptsInv
    /\ ProviderInv
    /\ VerdictsInv

\* A step that writes none of them disturbs nothing of what is stored.
LEMMA StoresKept ==
  ASSUME IInv, Grows, TypeOK',
         UNCHANGED <<requests, dispatches, results, receipts, sent, applied, refused>>
  PROVE  StoresInv'
  BY RequestsKept, DispatchesKept, ResultsKept, ReceiptsKept, ProviderKept,
     VerdictsKept DEF StoresInv

\* The rest of the invariant follows from what the handler then holds and
\* from its being the only one about to send.
LEMMA HandlerStep ==
  ASSUME IInv, Grows, TypeOK', StoresInv',
         NEW h \in Handler, NEW label, NEW locals, Goto(h, label, locals),
         label \in HasRequest => Holds(h)',
         label = "dispatch" => \A k \in Handler : pc[k] = "dispatch" =>
            RequestOf(k) # RequestIDOf[locals.intent],
         \A k \in Handler \ {h} : pc[k] = "dispatch" =>
            sent'[RequestOf(k)] = sent[RequestOf(k)]
  PROVE  IInv'
  <1>1. /\ pc'[h] = label /\ call'[h] = locals
        /\ \A k \in Handler \ {h} : pc'[k] = pc[k] /\ call'[k] = call[k]
    BY GotoValues, TypeOfHandlers DEF IInv
  <1>2. Holds(h)'
    BY <1>1 DEF Holds, HoldsReservation, HoldsOutbox, Reserving, HasRequest,
                HasDispatch, HasStatus, HasResult
  <1>3. \A k \in Handler : Holds(k)'
    BY <1>1, <1>2, OthersHold
  <1>4. OneSender'
    BY <1>1 DEF IInv, OneSender, RequestOf
  <1>5. QED
    BY <1>3, <1>4 DEF IInv, StoresInv

\* Answering, or going on without a request, leaves nothing to show.
LEMMA BareStep ==
  ASSUME IInv, Grows, TypeOK', StoresInv', UNCHANGED sent,
         NEW h \in Handler, NEW label, NEW locals,
         Goto(h, label, locals), label \notin HasRequest
  PROVE  IInv'
  BY HandlerStep DEF HasRequest

\* A call that returns preserves the invariant.
LEMMA ReturnStep ==
  ASSUME IInv, Grows, TypeOK', StoresInv', UNCHANGED sent,
         NEW h \in Handler, NEW answer \in Returned, Return(h, answer)
  PROVE  IInv'
  BY BareStep DEF Return, Returned, HasRequest

-----------------------------------------------------------------------------
(* Service.Create preserves the invariant.                                 *)

LEMMA LookupInv ==
  ASSUME IInv, Grows, TypeOK', NEW h \in Handler,
         LookupRequest(h) \/ RereadRequest(h)
  PROVE  IInv'
  <1> DEFINE found == [call[h] EXCEPT !.request = requests[RequestOf(h)]]
  <1>1. /\ pc[h] \in Serving
        /\ UNCHANGED <<requests, dispatches, results, receipts, sent, applied, refused>>
    BY DEF LookupRequest, RereadRequest, Serving, storeVars, outboxVars, providerVars
  <1>2. StoresInv'
    BY <1>1, StoresKept
  <1>3. call[h] \in Local
    BY <1>1, LocalsTyped, TypeOfHandlers DEF IInv
  <1>4. CASE Goto(h, "getDispatch", found)
    <2>1. pc'[h] = "getDispatch" /\ call'[h] = found
      BY <1>4, GotoValues, TypeOfHandlers DEF IInv
    <2>2. call'[h].request = requests'[RequestOf(h)']
      BY <1>1, <1>3, <2>1 DEF Local, RequestOf
    <2>3. Holds(h)'
      BY <2>1, <2>2 DEF Holds, HoldsReservation, HoldsOutbox, Reserving,
                        HasRequest, HasDispatch, HasStatus, HasResult
    <2>4. QED
      BY <1>1, <1>2, <1>4, <2>3, HandlerStep
  <1>5. CASE \/ Goto(h, "evidence", call[h])
             \/ Return(h, "idle") \/ Return(h, "replayed")
    BY <1>1, <1>2, <1>5, BareStep, ReturnStep DEF HasRequest, Returned
  <1>6. QED
    BY <1>4, <1>5 DEF LookupRequest, RereadRequest

\* The validation of the evidence preserves the invariant.
LEMMA EvidenceInv ==
  ASSUME IInv, Grows, TypeOK', NEW h \in Handler, CheckEvidence(h)
  PROVE  IInv'
  <1>1. UNCHANGED <<requests, dispatches, results, receipts, sent, applied, refused>>
    BY DEF CheckEvidence, storeVars, outboxVars, providerVars
  <1>2. StoresInv'
    BY <1>1, StoresKept
  <1>3. QED
    BY <1>1, <1>2, BareStep, ReturnStep DEF CheckEvidence, HasRequest, Returned

\* The first object of a reservation.
LEMMA ReserveRequestIDInv ==
  ASSUME IInv, Grows, TypeOK', NEW h \in Handler, ReserveRequestID(h)
  PROVE  IInv'
  <1>1. /\ pc[h] \in Serving
        /\ UNCHANGED <<requests, dispatches, results, receipts, sent, applied, refused>>
    BY DEF ReserveRequestID, Serving, outboxVars, providerVars
  <1>2. StoresInv'
    BY <1>1, StoresKept
  <1>3. call[h] \in Local /\ call[h].intent \in Intent /\ RequestOf(h) \in RequestID
    BY <1>1, LocalsTyped, TypeOfHandlers, IntentAssumption DEF IInv, RequestOf
  <1>4. PICK n \in FreshNonces, answer \in Answers :
          LET request == [intent |-> StoredAs[call[h].intent], nonce |-> n]
          IN  /\ Create(replayRequests, replayRequests', RequestOf(h),
                        request, answer)
              /\ \/ /\ answer = "created"
                    /\ Goto(h, "reserveBinding",
                            [call[h] EXCEPT !.request = request])
                 \/ answer = "conflict" /\ Goto(h, "reread", call[h])
                 \/ answer = "error" /\ Return(h, "idle")
    BY DEF ReserveRequestID
  <1> DEFINE request == [intent |-> StoredAs[call[h].intent], nonce |-> n]
             held == [call[h] EXCEPT !.request = request]
  <1>5. CASE answer = "created" /\ Goto(h, "reserveBinding", held)
    <2>1. pc'[h] = "reserveBinding" /\ call'[h] = held
      BY <1>5, GotoValues, TypeOfHandlers DEF IInv
    <2>2. replayRequests'[RequestOf(h)] = request
      BY <1>3, <1>4, <1>5 DEF Create, IInv, TypeOK
    <2>3. held.intent = call[h].intent /\ held.request = request
      BY <1>3 DEF Local
    <2>4. Holds(h)'
      BY <2>1, <2>2, <2>3 DEF Holds, HoldsReservation, HoldsOutbox, Reserving,
         HasRequest, HasDispatch, HasStatus, HasResult, RequestOf
    <2>5. QED
      BY <1>1, <1>2, <1>5, <2>4, HandlerStep
  <1>6. CASE Goto(h, "reread", call[h]) \/ Return(h, "idle")
    BY <1>1, <1>2, <1>6, BareStep, ReturnStep DEF HasRequest, Returned
  <1>7. QED
    BY <1>4, <1>5, <1>6

\* The second object of a reservation.
LEMMA ReserveBindingInv ==
  ASSUME IInv, Grows, TypeOK', NEW h \in Handler, ReserveBinding(h)
  PROVE  IInv'
  <1>1. /\ pc[h] = "reserveBinding"
        /\ UNCHANGED <<requests, dispatches, results, receipts, sent, applied, refused>>
    BY DEF ReserveBinding, outboxVars, providerVars
  <1>2. StoresInv'
    BY <1>1, StoresKept
  <1>3. /\ call[h] \in Local /\ call[h].intent \in Intent
        /\ call[h].request \in Request
        /\ RequestOf(h) \in RequestID /\ BindingOf[call[h].intent] \in Binding
    BY <1>1, LocalsTyped, TypeOfHandlers, IntentAssumption
    DEF IInv, RequestOf, Serving, HasRequest
  <1>4. PICK answer \in Answers :
          /\ Create(replayBindings, replayBindings',
                    BindingOf[call[h].intent], call[h].request, answer)
          /\ \/ answer = "created" /\ Goto(h, "reserveApproval", call[h])
             \/ /\ answer = "conflict"
                /\ Goto(h, "reread", [call[h] EXCEPT !.request = None])
             \/ answer = "error" /\ Return(h, "idle")
    BY DEF ReserveBinding
  <1>5. CASE answer = "created" /\ Goto(h, "reserveApproval", call[h])
    <2>1. pc'[h] = "reserveApproval" /\ call'[h] = call[h]
      BY <1>5, GotoValues, TypeOfHandlers DEF IInv
    <2>2. replayBindings'[BindingOf[call[h].intent]] = call[h].request
      BY <1>3, <1>4, <1>5 DEF Create, IInv, TypeOK
    <2>3. /\ call[h].request.intent = StoredAs[call[h].intent]
          /\ replayRequests'[RequestOf(h)] = call[h].request
      BY <1>1, <1>3, NoneAssumption DEF IInv, Holds, HoldsReservation, Reserving, Grows
    <2>4. Holds(h)'
      BY <2>1, <2>2, <2>3 DEF Holds, HoldsReservation, HoldsOutbox, Reserving,
         HasRequest, HasDispatch, HasStatus, HasResult, RequestOf
    <2>5. QED
      BY <1>1, <1>2, <1>5, <2>4, HandlerStep
  <1>6. CASE \/ Goto(h, "reread", [call[h] EXCEPT !.request = None])
             \/ Return(h, "idle")
    BY <1>1, <1>2, <1>6, BareStep, ReturnStep DEF HasRequest, Returned
  <1>7. QED
    BY <1>4, <1>5, <1>6

\* The third object of a reservation.
LEMMA ReserveApprovalInv ==
  ASSUME IInv, Grows, TypeOK', NEW h \in Handler, ReserveApproval(h)
  PROVE  IInv'
  <1>1. /\ pc[h] = "reserveApproval"
        /\ UNCHANGED <<requests, dispatches, results, receipts, sent, applied, refused>>
    BY DEF ReserveApproval, outboxVars, providerVars
  <1>2. StoresInv'
    BY <1>1, StoresKept
  <1>3. /\ call[h] \in Local /\ call[h].intent \in Intent
        /\ call[h].request \in Request
        /\ RequestOf(h) \in RequestID /\ BindingOf[call[h].intent] \in Binding
        /\ ApprovalOf[call[h].intent] \in Approval
    BY <1>1, LocalsTyped, TypeOfHandlers, IntentAssumption
    DEF IInv, RequestOf, Serving, HasRequest
  <1>4. PICK answer \in Answers :
          /\ Create(replayApprovals, replayApprovals',
                    ApprovalOf[call[h].intent], call[h].request, answer)
          /\ \/ answer = "created" /\ Goto(h, "putRequest", call[h])
             \/ /\ answer = "conflict"
                /\ Goto(h, "reread", [call[h] EXCEPT !.request = None])
             \/ answer = "error" /\ Return(h, "idle")
    BY DEF ReserveApproval
  <1>5. CASE answer = "created" /\ Goto(h, "putRequest", call[h])
    <2>1. pc'[h] = "putRequest" /\ call'[h] = call[h]
      BY <1>5, GotoValues, TypeOfHandlers DEF IInv
    <2>2. replayApprovals'[ApprovalOf[call[h].intent]] = call[h].request
      BY <1>3, <1>4, <1>5 DEF Create, IInv, TypeOK
    <2>3. /\ call[h].request.intent = StoredAs[call[h].intent]
          /\ replayRequests'[RequestOf(h)] = call[h].request
          /\ replayBindings'[BindingOf[call[h].intent]] = call[h].request
      BY <1>1, <1>3, NoneAssumption DEF IInv, Holds, HoldsReservation, Reserving, Grows
    <2>4. Holds(h)'
      BY <2>1, <2>2, <2>3 DEF Holds, HoldsReservation, HoldsOutbox, Reserving,
         HasRequest, HasDispatch, HasStatus, HasResult, RequestOf
    <2>5. QED
      BY <1>1, <1>2, <1>5, <2>4, HandlerStep
  <1>6. CASE \/ Goto(h, "reread", [call[h] EXCEPT !.request = None])
             \/ Return(h, "idle")
    BY <1>1, <1>2, <1>6, BareStep, ReturnStep DEF HasRequest, Returned
  <1>7. QED
    BY <1>4, <1>5, <1>6

\* The request is stored once its three reservations are.
LEMMA PutRequestInv ==
  ASSUME IInv, Grows, TypeOK', NEW h \in Handler, PutRequest(h)
  PROVE  IInv'
  <1> DEFINE r == RequestOf(h)
  <1>1. /\ pc[h] = "putRequest"
        /\ UNCHANGED <<replayRequests, replayBindings, replayApprovals,
                       dispatches, results, receipts, sent, applied, refused>>
    BY DEF PutRequest, replayVars, outboxVars, providerVars
  <1>2. /\ call[h] \in Local /\ call[h].intent \in Intent
        /\ call[h].request \in Request /\ r \in RequestID
    BY <1>1, LocalsTyped, TypeOfHandlers, IntentAssumption
    DEF IInv, RequestOf, Serving, HasRequest
  <1>3. PICK answer \in Answers :
          /\ Create(requests, requests', r, call[h].request, answer)
          /\ \/ answer = "created" /\ Goto(h, "prepare", call[h])
             \/ /\ answer = "conflict"
                /\ Goto(h, "reread", [call[h] EXCEPT !.request = None])
             \/ answer = "error" /\ Return(h, "idle")
    BY DEF PutRequest
  <1>4. \A s \in RequestID : requests'[s] = requests[s]
                             \/ (s = r /\ requests'[s] = call[h].request)
    BY <1>2, <1>3 DEF Create, IInv, TypeOK
  <1>5. RequestsInv'
    <2> SUFFICES ASSUME NEW s \in RequestID, requests'[s] # None
                 PROVE  /\ RequestIDOf[requests'[s].intent] = s
                        /\ replayRequests[s] = requests'[s]
                        /\ replayBindings[BindingOf[requests'[s].intent]] = requests'[s]
                        /\ replayApprovals[ApprovalOf[requests'[s].intent]] = requests'[s]
      BY <1>1 DEF RequestsInv
    <2>1. CASE requests'[s] = requests[s]
      BY <2>1 DEF IInv, RequestsInv
    <2>2. CASE s = r /\ requests'[s] = call[h].request
      <3>1. /\ call[h].request.intent = StoredAs[call[h].intent]
            /\ replayRequests[r] = call[h].request
            /\ replayBindings[BindingOf[call[h].intent]] = call[h].request
            /\ replayApprovals[ApprovalOf[call[h].intent]] = call[h].request
        BY <1>1 DEF IInv, Holds, HoldsReservation, Reserving
      <3>2. QED
        BY <1>2, <2>2, <3>1, StoredAsAssumption DEF RequestOf
    <2>3. QED
      BY <1>4, <2>1, <2>2
  <1>6. StoresInv'
    BY <1>1, <1>5, DispatchesKept, ResultsKept, ReceiptsKept, ProviderKept,
       VerdictsKept DEF StoresInv
  <1>7. CASE answer = "created" /\ Goto(h, "prepare", call[h])
    <2>1. pc'[h] = "prepare" /\ call'[h] = call[h]
      BY <1>7, GotoValues, TypeOfHandlers DEF IInv
    <2>2. requests'[r] = call[h].request
      BY <1>2, <1>3, <1>7 DEF Create, IInv, TypeOK
    <2>3. Holds(h)'
      BY <2>1, <2>2 DEF Holds, HoldsReservation, HoldsOutbox, Reserving,
         HasRequest, HasDispatch, HasStatus, HasResult, RequestOf
    <2>4. QED
      BY <1>1, <1>6, <1>7, <2>3, HandlerStep
  <1>8. CASE \/ Goto(h, "reread", [call[h] EXCEPT !.request = None])
             \/ Return(h, "idle")
    BY <1>1, <1>6, <1>8, BareStep, ReturnStep DEF HasRequest, Returned
  <1>9. QED
    BY <1>3, <1>7, <1>8

-----------------------------------------------------------------------------
(* Service.prepare preserves the invariant.                                *)

LEMMA PrepareInv ==
  ASSUME IInv, Grows, TypeOK', NEW h \in Handler, Prepare(h)
  PROVE  IInv'
  <1>1. /\ pc[h] = "prepare" /\ pc[h] \in Serving /\ pc[h] \in HasRequest
        /\ UNCHANGED <<requests, dispatches, results, receipts, sent, applied,
                       refused, epoch>>
    BY DEF Prepare, Serving, HasRequest, storeVars, outboxVars, providerVars
  <1>2. StoresInv'
    BY <1>1, StoresKept
  <1>3. /\ call[h] \in Local /\ call[h].intent \in Intent
        /\ call[h].request \in Request
    BY <1>1, LocalsTyped, TypeOfHandlers DEF IInv
  <1>4. PICK token \in {epoch[TargetOf[call[h].request.intent]], Unsendable} :
          Goto(h, "putDispatch", [call[h] EXCEPT !.token = token])
    BY DEF Prepare
  <1> DEFINE held == [call[h] EXCEPT !.token = token]
  <1>5. held.intent = call[h].intent /\ held.request = call[h].request /\ held.token = token
    BY <1>3 DEF Local
  <1>6. pc'[h] = "putDispatch" /\ call'[h] = held
    BY <1>4, GotoValues, TypeOfHandlers DEF IInv
  <1>7. call[h].request = requests[RequestOf(h)]
    BY <1>1 DEF IInv, Holds, HoldsOutbox, Reserving
  <1>8. Holds(h)'
    BY <1>1, <1>4, <1>5, <1>6, <1>7 DEF Holds, HoldsReservation,
       HoldsOutbox, Reserving, HasRequest, HasDispatch, HasStatus, HasResult, RequestOf
  <1>9. QED
    BY <1>1, <1>2, <1>4, <1>8, HandlerStep

\* The dispatch record, which only one of two handlers creates.
LEMMA PutDispatchInv ==
  ASSUME IInv, Grows, TypeOK', NEW h \in Handler, PutDispatch(h)
  PROVE  IInv'
  <1> DEFINE r == RequestOf(h)
  <1>1. /\ pc[h] = "putDispatch" /\ pc[h] \in Serving /\ pc[h] \in HasRequest
        /\ UNCHANGED <<requests, results, receipts, sent, applied, refused, epoch>>
    BY DEF PutDispatch, Serving, HasRequest, providerVars
  <1>2. /\ call[h] \in Local /\ call[h].intent \in Intent
        /\ call[h].request \in Request /\ call[h].token \in Token
        /\ r \in RequestID
    BY <1>1, LocalsTyped, TypeOfHandlers, IntentAssumption DEF IInv, RequestOf
  <1>3. PICK id \in FreshReceiptIDs, answer \in Answers :
          LET dispatch == [request |-> call[h].request, receiptID |-> id,
                           token |-> call[h].token]
              held == [call[h] EXCEPT !.dispatch = dispatch, !.token = None]
          IN  /\ Create(dispatches, dispatches', r, dispatch, answer)
              /\ \/ /\ answer = "created"
                    /\ dispatch.token = Unsendable
                    /\ Goto(h, "putResult", [held EXCEPT !.status = "rejected"])
                 \/ /\ answer = "created"
                    /\ dispatch.token # Unsendable
                    /\ Goto(h, "dispatch", held)
                 \/ /\ answer = "conflict"
                    /\ Goto(h, "getDispatch", [call[h] EXCEPT !.token = None])
                 \/ answer = "error" /\ Return(h, "idle")
    BY DEF PutDispatch, AfterPutDispatch, NewDispatch
  <1> DEFINE dispatch == [request |-> call[h].request, receiptID |-> id,
                          token |-> call[h].token]
             held == [call[h] EXCEPT !.dispatch = dispatch, !.token = None]
             decided == [held EXCEPT !.status = "rejected"]
  <1>4. /\ dispatch.request = call[h].request /\ dispatch.token = call[h].token
        /\ dispatch # None
    BY <1>2, NoneAssumption DEF Dispatch, FreshReceiptIDs
  <1> HIDE DEF dispatch
  <1>5. /\ held.intent = call[h].intent /\ held.request = call[h].request
        /\ held.dispatch = dispatch
        /\ decided.intent = call[h].intent /\ decided.request = call[h].request
        /\ decided.dispatch = dispatch /\ decided.status = "rejected"
    BY <1>2 DEF Local
  <1>6. call[h].request = requests[r] /\ requests[r] # None
    BY <1>1, <1>2, NoneAssumption DEF IInv, Holds, HoldsOutbox, Reserving
  <1>7. /\ \A s \in RequestID : dispatches'[s] = dispatches[s]
             \/ (s = r /\ dispatches[s] = None /\ dispatches'[s] = dispatch)
        /\ answer = "created" => dispatches[r] = None /\ dispatches'[r] = dispatch
        /\ answer = "conflict" => dispatches[r] # None
    BY <1>2, <1>3 DEF Create, IInv, TypeOK, dispatch
  <1>8. DispatchesInv'
    BY <1>1, <1>4, <1>6, <1>7 DEF IInv, DispatchesInv
  <1>9. ResultsInv'
    BY <1>1, <1>7, ResultsKept
  <1>10. ProviderInv'
    BY <1>1, <1>7 DEF IInv, ProviderInv
  <1>11. StoresInv'
    BY <1>1, <1>8, <1>9, <1>10, RequestsKept, ReceiptsKept, VerdictsKept DEF StoresInv
  <1>12. CASE answer = "created" /\ dispatch.token = Unsendable
              /\ Goto(h, "putResult", decided)
    <2>1. pc'[h] = "putResult" /\ call'[h] = decided
      BY <1>12, GotoValues, TypeOfHandlers DEF IInv
    <2>2. Holds(h)'
      BY <1>1, <1>5, <1>6, <1>7, <1>12, <2>1 DEF Holds, HoldsReservation,
         HoldsOutbox, Reserving, HasRequest, HasDispatch, HasStatus, HasResult,
         RequestOf, Justified
    <2>3. QED
      BY <1>1, <1>11, <1>12, <2>2, HandlerStep
  <1>13. CASE answer = "created" /\ dispatch.token # Unsendable
              /\ Goto(h, "dispatch", held)
    <2>1. pc'[h] = "dispatch" /\ call'[h] = held
      BY <1>13, GotoValues, TypeOfHandlers DEF IInv
    <2>2. sent[r] = 0
      <3>1. sent[r] \in Nat
        BY <1>2 DEF IInv, TypeOK
      <3>2. QED
        BY <1>2, <1>7, <1>13, <3>1 DEF IInv, ProviderInv
    <2>3. Holds(h)'
      BY <1>1, <1>5, <1>6, <1>7, <1>13, <2>1, <2>2 DEF Holds, HoldsReservation,
         HoldsOutbox, Reserving, HasRequest, HasDispatch, HasStatus, HasResult, RequestOf
    <2>4. ASSUME NEW k \in Handler, pc[k] = "dispatch"
          PROVE  RequestOf(k) # RequestIDOf[held.intent]
      <3>1. call[k].dispatch \in Dispatch /\ call[k].dispatch = dispatches[RequestOf(k)]
        BY <2>4, LocalsTyped, TypeOfHandlers DEF IInv, Holds, HoldsOutbox,
           HasDispatch, Serving
      <3>2. dispatches[RequestOf(k)] # None
        BY <3>1, NoneAssumption
      <3>3. QED
        BY <1>5, <1>7, <1>13, <3>2 DEF RequestOf
    <2>5. QED
      BY <1>1, <1>11, <1>13, <2>3, <2>4, HandlerStep
  <1>14. CASE answer = "conflict" /\ Goto(h, "getDispatch", [call[h] EXCEPT !.token = None])
    <2>1. pc'[h] = "getDispatch" /\ call'[h] = [call[h] EXCEPT !.token = None]
      BY <1>14, GotoValues, TypeOfHandlers DEF IInv
    <2>2. call'[h].intent = call[h].intent /\ call'[h].request = call[h].request
      BY <1>2, <2>1 DEF Local
    <2>3. Holds(h)'
      BY <1>1, <1>6, <2>1, <2>2 DEF Holds, HoldsReservation, HoldsOutbox,
         Reserving, HasRequest, HasDispatch, HasStatus, HasResult, RequestOf
    <2>4. QED
      BY <1>1, <1>11, <1>14, <2>3, HandlerStep
  <1>15. CASE Return(h, "idle")
    BY <1>1, <1>11, <1>15, ReturnStep DEF Returned
  <1>16. QED
    BY <1>3, <1>12, <1>13, <1>14, <1>15 DEF dispatch

\* Only the creator of the dispatch record sends.
LEMMA SendMutationInv ==
  ASSUME IInv, Grows, TypeOK', NEW h \in Handler, SendMutation(h)
  PROVE  IInv'
  <1> DEFINE r == RequestOf(h)
  <1>1. /\ pc[h] = "dispatch" /\ pc[h] \in Serving /\ pc[h] \in HasDispatch
        /\ pc[h] \in HasRequest /\ pc[h] \notin Reserving
        /\ UNCHANGED <<requests, dispatches, results, receipts, applied, refused, epoch>>
    BY DEF SendMutation, Serving, HasRequest, HasDispatch, Reserving, storeVars, outboxVars
  <1>2. /\ call[h].intent \in Intent /\ call[h].dispatch \in Dispatch
        /\ r \in RequestID
    BY <1>1, LocalsTyped, TypeOfHandlers, IntentAssumption DEF IInv, RequestOf
  <1>3. /\ call[h].request = requests[r] /\ call[h].dispatch = dispatches[r]
        /\ dispatches[r] # None /\ dispatches[r].token # Unsendable
        /\ sent[r] = 0
    BY <1>1, <1>2, NoneAssumption DEF IInv, Holds, HoldsOutbox
  <1>4. RequestsInv' /\ DispatchesInv' /\ ResultsInv' /\ ReceiptsInv' /\ VerdictsInv'
    BY <1>1, RequestsKept, DispatchesKept, ResultsKept, ReceiptsKept, VerdictsKept
  <1>5. CASE sent' = [sent EXCEPT ![r] = @ + 1] /\ Goto(h, "response", call[h])
    <2>1. ProviderInv'
      <3> SUFFICES ASSUME NEW s \in RequestID
                   PROVE  /\ applied[s] + refused[s] <= sent'[s]
                          /\ sent'[s] <= 1
                          /\ sent'[s] > 0 => dispatches[s] # None /\ dispatches[s].token # Unsendable
        BY <1>1 DEF IInv, ProviderInv
      <3>1. /\ sent[s] \in Nat /\ applied[s] \in Nat /\ refused[s] \in Nat
            /\ sent'[s] = IF s = r THEN sent[s] + 1 ELSE sent[s]
        BY <1>5 DEF IInv, TypeOK
      <3>2. QED
        BY <1>3, <3>1 DEF IInv, ProviderInv
    <2>2. pc'[h] = "response" /\ call'[h] = call[h]
      BY <1>5, GotoValues, TypeOfHandlers DEF IInv
    <2>3. Holds(h)'
      BY <1>1, <1>3, <2>2 DEF Holds, HoldsReservation, HoldsOutbox,
         Reserving, HasRequest, HasDispatch, HasStatus, HasResult, RequestOf
    <2>4. ASSUME NEW k \in Handler \ {h}, pc[k] = "dispatch"
          PROVE  sent'[RequestOf(k)] = sent[RequestOf(k)]
      <3>1. RequestOf(k) # r
        BY <1>1, <2>4 DEF IInv, OneSender
      <3>2. RequestOf(k) \in RequestID
        BY <2>4, LocalsTyped, TypeOfHandlers, IntentAssumption DEF IInv, RequestOf, Serving
      <3>3. QED
        BY <1>5, <3>1, <3>2 DEF IInv, TypeOK
    <2>5. StoresInv'
      BY <1>4, <2>1 DEF StoresInv
    <2>6. QED
      BY <1>5, <2>3, <2>4, <2>5, HandlerStep
  <1>6. CASE sent' = sent /\ Return(h, "pending")
    BY <1>1, <1>6, StoresKept, ReturnStep DEF Returned
  <1>7. QED
    BY <1>5, <1>6 DEF SendMutation

\* What the provider's answer, or its loss, lets Service.prepare conclude.
LEMMA ReceiveResponseInv ==
  ASSUME IInv, Grows, TypeOK', NEW h \in Handler, ReceiveResponse(h)
  PROVE  IInv'
  <1> DEFINE r == RequestOf(h)
             decided(status) == [call[h] EXCEPT !.status = status]
  <1>1. /\ pc[h] = "response" /\ pc[h] \in Serving /\ pc[h] \in HasDispatch
        /\ pc[h] \in HasRequest /\ pc[h] \notin Reserving
        /\ UNCHANGED <<requests, dispatches, results, receipts, sent, applied,
                       refused, epoch>>
    BY DEF ReceiveResponse, Serving, HasRequest, HasDispatch, Reserving,
           storeVars, outboxVars, providerVars
  <1>2. StoresInv'
    BY <1>1, StoresKept
  <1>3. /\ call[h] \in Local /\ call[h].intent \in Intent
        /\ call[h].dispatch \in Dispatch /\ r \in RequestID
    BY <1>1, LocalsTyped, TypeOfHandlers, IntentAssumption DEF IInv, RequestOf
  <1>4. /\ call[h].request = requests[r] /\ call[h].dispatch = dispatches[r]
        /\ dispatches[r] # None
    BY <1>1, <1>3, NoneAssumption DEF IInv, Holds, HoldsOutbox
  <1>5. ASSUME NEW status \in Status, Justified(r, status),
               Goto(h, "putResult", decided(status))
        PROVE  IInv'
    <2>1. pc'[h] = "putResult" /\ call'[h] = decided(status)
      BY <1>5, GotoValues, TypeOfHandlers DEF IInv
    <2>2. /\ call'[h].intent = call[h].intent /\ call'[h].request = call[h].request
          /\ call'[h].dispatch = call[h].dispatch /\ call'[h].status = status
      BY <1>3, <2>1 DEF Local
    <2>3. RequestOf(h)' = r /\ Justified(r, status)'
      BY <1>1, <1>5, <2>2 DEF RequestOf, Justified
    <2>4. Justified(RequestOf(h), call[h].status)'
      BY <2>2, <2>3
    <2>5. Holds(h)'
      BY <1>1, <1>4, <2>1, <2>2, <2>3, <2>4 DEF Holds, HoldsReservation,
         HoldsOutbox, Reserving, HasRequest, HasDispatch, HasStatus, HasResult
    <2>6. QED
      BY <1>1, <1>2, <1>5, <2>5, HandlerStep
  <1>6. applied[r] > 0 => Justified(r, "accepted")
    <2>1. applied[r] \in Nat /\ refused[r] \in Nat /\ sent[r] \in Nat
      BY <1>3 DEF IInv, TypeOK
    <2>2. QED
      BY <1>3, <2>1 DEF IInv, ProviderInv, Justified
  <1>7. refused[r] > 0 => Justified(r, "rejected")
    BY DEF Justified
  <1>8. CASE Return(h, "pending")
    BY <1>1, <1>2, <1>8, ReturnStep DEF Returned
  <1>9. QED
    BY <1>5, <1>6, <1>7, <1>8 DEF ReceiveResponse, Status

-----------------------------------------------------------------------------
(* Service.resume preserves the invariant.                                 *)

LEMMA GetDispatchInv ==
  ASSUME IInv, Grows, TypeOK', NEW h \in Handler, GetDispatch(h)
  PROVE  IInv'
  <1> DEFINE r == RequestOf(h)
             found == [call[h] EXCEPT !.dispatch = dispatches[r]]
  <1>1. /\ pc[h] = "getDispatch" /\ pc[h] \in Serving
        /\ pc[h] \in HasRequest /\ pc[h] \notin Reserving
        /\ UNCHANGED <<requests, dispatches, results, receipts, sent, applied,
                       refused, epoch>>
    BY DEF GetDispatch, Serving, HasRequest, Reserving, storeVars, outboxVars, providerVars
  <1>2. StoresInv'
    BY <1>1, StoresKept
  <1>3. call[h] \in Local /\ call[h].request = requests[r]
    BY <1>1, LocalsTyped, TypeOfHandlers DEF IInv, Holds, HoldsOutbox
  <1>4. CASE Goto(h, "prepare", call[h])
    <2>1. pc'[h] = "prepare" /\ call'[h] = call[h]
      BY <1>4, GotoValues, TypeOfHandlers DEF IInv
    <2>2. Holds(h)'
      BY <1>1, <1>3, <2>1 DEF Holds, HoldsReservation, HoldsOutbox, Reserving,
         HasRequest, HasDispatch, HasStatus, HasResult, RequestOf
    <2>3. QED
      BY <1>1, <1>2, <1>4, <2>2, HandlerStep
  <1>5. CASE Goto(h, "getResult", found)
    <2>1. pc'[h] = "getResult" /\ call'[h] = found
      BY <1>5, GotoValues, TypeOfHandlers DEF IInv
    <2>2. /\ found.intent = call[h].intent /\ found.request = call[h].request
          /\ found.dispatch = dispatches[r]
      BY <1>3 DEF Local
    <2>3. Holds(h)'
      BY <1>1, <1>3, <2>1, <2>2 DEF Holds, HoldsReservation, HoldsOutbox,
         Reserving, HasRequest, HasDispatch, HasStatus, HasResult, RequestOf
    <2>4. QED
      BY <1>1, <1>2, <1>5, <2>3, HandlerStep
  <1>6. CASE Return(h, "idle")
    BY <1>1, <1>2, <1>6, ReturnStep DEF Returned
  <1>7. QED
    BY <1>4, <1>5, <1>6 DEF GetDispatch

\* A result that is stored is finalized and not recovered again.
LEMMA GetDispatchResultInv ==
  ASSUME IInv, Grows, TypeOK', NEW h \in Handler, GetDispatchResult(h)
  PROVE  IInv'
  <1> DEFINE r == RequestOf(h)
             found == [call[h] EXCEPT !.result = results[r]]
  <1>1. /\ pc[h] = "getResult" /\ pc[h] \in Serving /\ pc[h] \in HasDispatch
        /\ pc[h] \in HasRequest /\ pc[h] \notin Reserving
        /\ UNCHANGED <<requests, dispatches, results, receipts, sent, applied,
                       refused, epoch>>
    BY DEF GetDispatchResult, Serving, HasRequest, HasDispatch, Reserving,
           storeVars, outboxVars, providerVars
  <1>2. StoresInv'
    BY <1>1, StoresKept
  <1>3. /\ call[h] \in Local /\ call[h].request = requests[r]
        /\ call[h].dispatch = dispatches[r]
    BY <1>1, LocalsTyped, TypeOfHandlers DEF IInv, Holds, HoldsOutbox
  <1>4. CASE Goto(h, "recover", call[h])
    <2>1. pc'[h] = "recover" /\ call'[h] = call[h]
      BY <1>4, GotoValues, TypeOfHandlers DEF IInv
    <2>2. Holds(h)'
      BY <1>1, <1>3, <2>1 DEF Holds, HoldsReservation, HoldsOutbox, Reserving,
         HasRequest, HasDispatch, HasStatus, HasResult, RequestOf
    <2>3. QED
      BY <1>1, <1>2, <1>4, <2>2, HandlerStep
  <1>5. CASE Goto(h, "putReceipt", found)
    <2>1. pc'[h] = "putReceipt" /\ call'[h] = found
      BY <1>5, GotoValues, TypeOfHandlers DEF IInv
    <2>2. /\ found.intent = call[h].intent /\ found.request = call[h].request
          /\ found.dispatch = call[h].dispatch /\ found.result = results[r]
      BY <1>3 DEF Local
    <2>3. Holds(h)'
      BY <1>1, <1>3, <2>1, <2>2 DEF Holds, HoldsReservation, HoldsOutbox,
         Reserving, HasRequest, HasDispatch, HasStatus, HasResult, RequestOf
    <2>4. QED
      BY <1>1, <1>2, <1>5, <2>3, HandlerStep
  <1>6. CASE Return(h, "idle")
    BY <1>1, <1>2, <1>6, ReturnStep DEF Returned
  <1>7. QED
    BY <1>4, <1>5, <1>6 DEF GetDispatchResult

\* What recovery observes justifies the verdict it gives.
LEMMA ObservedJustifies ==
  ASSUME IInv, NEW r \in RequestID, dispatches[r] # None,
         dispatches[r].token # Unsendable,
         Observed(requests[r].intent, dispatches[r].token)
  PROVE  Justified(r, "accepted")
  <1>1. /\ requests[r] # None
        /\ epoch[TargetOf[requests[r].intent]] \in Nat
        /\ dispatches[r].token \in Nat
    BY StoredTyped DEF IInv, DispatchesInv
  <1>2. QED
    BY <1>1 DEF Observed, Justified

\* What Broker.Recover concludes from the target.
LEMMA RecoverInv ==
  ASSUME IInv, Grows, TypeOK', NEW h \in Handler, Recover(h)
  PROVE  IInv'
  <1> DEFINE r == RequestOf(h)
             decided(status) == [call[h] EXCEPT !.status = status]
  <1>1. /\ pc[h] = "recover" /\ pc[h] \in Serving /\ pc[h] \in HasDispatch
        /\ pc[h] \in HasRequest /\ pc[h] \notin Reserving
        /\ UNCHANGED <<requests, dispatches, results, receipts, sent, applied,
                       refused, epoch>>
    BY DEF Recover, Serving, HasRequest, HasDispatch, Reserving,
           storeVars, outboxVars, providerVars
  <1>2. StoresInv'
    BY <1>1, StoresKept
  <1>3. /\ call[h] \in Local /\ call[h].intent \in Intent
        /\ call[h].dispatch \in Dispatch /\ r \in RequestID
    BY <1>1, LocalsTyped, TypeOfHandlers, IntentAssumption DEF IInv, RequestOf
  <1>4. /\ call[h].request = requests[r] /\ call[h].dispatch = dispatches[r]
        /\ dispatches[r] # None
    BY <1>1, <1>3, NoneAssumption DEF IInv, Holds, HoldsOutbox
  <1>5. ASSUME NEW status \in Status, Justified(r, status),
               Goto(h, "putResult", decided(status))
        PROVE  IInv'
    <2>1. pc'[h] = "putResult" /\ call'[h] = decided(status)
      BY <1>5, GotoValues, TypeOfHandlers DEF IInv
    <2>2. /\ call'[h].intent = call[h].intent /\ call'[h].request = call[h].request
          /\ call'[h].dispatch = call[h].dispatch /\ call'[h].status = status
      BY <1>3, <2>1 DEF Local
    <2>3. RequestOf(h)' = r /\ Justified(r, status)'
      BY <1>1, <1>5, <2>2 DEF RequestOf, Justified
    <2>4. Justified(RequestOf(h), call[h].status)'
      BY <2>2, <2>3
    <2>5. Holds(h)'
      BY <1>1, <1>4, <2>1, <2>2, <2>3, <2>4 DEF Holds, HoldsReservation,
         HoldsOutbox, Reserving, HasRequest, HasDispatch, HasStatus, HasResult
    <2>6. QED
      BY <1>1, <1>2, <1>5, <2>5, HandlerStep
  <1>6. call[h].dispatch.token = Unsendable => Justified(r, "rejected")
    BY <1>4 DEF Justified
  <1>7. (/\ call[h].dispatch.token # Unsendable
         /\ Observed(call[h].request.intent, call[h].dispatch.token))
            => Justified(r, "accepted")
    BY <1>3, <1>4, ObservedJustifies
  <1>8. CASE Return(h, "pending")
    BY <1>1, <1>2, <1>8, ReturnStep DEF Returned
  <1>9. QED
    BY <1>5, <1>6, <1>7, <1>8 DEF Recover, Status

-----------------------------------------------------------------------------
(* Service.complete and Service.finalize preserve the invariant.           *)

LEMMA PutDispatchResultInv ==
  ASSUME IInv, Grows, TypeOK', NEW h \in Handler, PutDispatchResult(h)
  PROVE  IInv'
  <1> DEFINE r == RequestOf(h)
             result == [request |-> call[h].request,
                        receiptID |-> call[h].dispatch.receiptID,
                        status |-> call[h].status, recordedAt |-> clock]
             held == [call[h] EXCEPT !.result = result]
  <1>1. /\ pc[h] = "putResult" /\ pc[h] \in Serving /\ pc[h] \in HasDispatch
        /\ pc[h] \in HasRequest /\ pc[h] \notin Reserving /\ pc[h] \in HasStatus
        /\ UNCHANGED <<requests, dispatches, receipts, sent, applied, refused, epoch>>
    BY DEF PutDispatchResult, Serving, HasRequest, HasDispatch, HasStatus,
           Reserving, providerVars
  <1>2. /\ call[h] \in Local /\ call[h].intent \in Intent
        /\ call[h].dispatch \in Dispatch /\ r \in RequestID
    BY <1>1, LocalsTyped, TypeOfHandlers, IntentAssumption DEF IInv, RequestOf
  <1>3. /\ call[h].request = requests[r] /\ call[h].dispatch = dispatches[r]
        /\ dispatches[r] # None /\ Justified(r, call[h].status)
    BY <1>1, <1>2, NoneAssumption DEF IInv, Holds, HoldsOutbox
  <1>4. PICK answer \in Answers :
          /\ Create(results, results', r, result, answer)
          /\ \/ answer = "created" /\ Goto(h, "putReceipt", held)
             \/ answer = "conflict" /\ Goto(h, "readResult", call[h])
             \/ answer = "error" /\ Return(h, "pending")
    BY DEF PutDispatchResult
  <1>5. /\ result.request = requests[r] /\ result.receiptID = dispatches[r].receiptID
        /\ result.status = call[h].status
    BY <1>3
  <1> HIDE DEF result
  <1>6. /\ \A s \in RequestID : results'[s] = results[s]
             \/ (s = r /\ results'[s] = result)
        /\ answer = "created" => results'[r] = result
        /\ answer = "conflict" => results'[r] # None
    BY <1>2, <1>4 DEF Create, IInv, TypeOK
  <1>7. ResultsInv'
    BY <1>1, <1>3, <1>5, <1>6 DEF IInv, ResultsInv
  <1>8. VerdictsInv'
    <2> SUFFICES ASSUME NEW s \in RequestID, results'[s] # None
                 PROVE  Justified(s, results'[s].status)
      BY <1>1 DEF VerdictsInv, Justified
    <2>1. QED
      BY <1>3, <1>5, <1>6 DEF IInv, VerdictsInv
  <1>9. StoresInv'
    BY <1>1, <1>7, <1>8, RequestsKept, DispatchesKept, ReceiptsKept, ProviderKept
    DEF StoresInv
  <1>10. CASE answer = "created" /\ Goto(h, "putReceipt", held)
    <2>1. pc'[h] = "putReceipt" /\ call'[h] = held
      BY <1>10, GotoValues, TypeOfHandlers DEF IInv
    <2>2. /\ held.intent = call[h].intent /\ held.request = call[h].request
          /\ held.dispatch = call[h].dispatch /\ held.result = result
      BY <1>2 DEF Local
    <2>3. Holds(h)'
      BY <1>1, <1>3, <1>6, <1>10, <2>1, <2>2 DEF Holds, HoldsReservation,
         HoldsOutbox, Reserving, HasRequest, HasDispatch, HasStatus, HasResult, RequestOf
    <2>4. QED
      BY <1>1, <1>9, <1>10, <2>3, HandlerStep
  <1>11. CASE answer = "conflict" /\ Goto(h, "readResult", call[h])
    <2>1. pc'[h] = "readResult" /\ call'[h] = call[h]
      BY <1>11, GotoValues, TypeOfHandlers DEF IInv
    <2>2. RequestOf(h)' = r /\ Justified(RequestOf(h), call[h].status)'
      BY <1>1, <1>3, <2>1 DEF RequestOf, Justified
    <2>3. Holds(h)'
      BY <1>1, <1>3, <1>6, <1>11, <2>1, <2>2 DEF Holds, HoldsReservation,
         HoldsOutbox, Reserving, HasRequest, HasDispatch, HasStatus, HasResult
    <2>4. QED
      BY <1>1, <1>9, <1>11, <2>3, HandlerStep
  <1>12. CASE Return(h, "pending")
    BY <1>1, <1>9, <1>12, ReturnStep DEF Returned
  <1>13. QED
    BY <1>4, <1>10, <1>11, <1>12

\* Who meets a stored result goes on with that result.
LEMMA ReadConflictingResultInv ==
  ASSUME IInv, Grows, TypeOK', NEW h \in Handler, ReadConflictingResult(h)
  PROVE  IInv'
  <1> DEFINE r == RequestOf(h)
             found == [call[h] EXCEPT !.result = results[r]]
  <1>1. /\ pc[h] = "readResult" /\ pc[h] \in Serving /\ pc[h] \in HasDispatch
        /\ pc[h] \in HasRequest /\ pc[h] \notin Reserving
        /\ UNCHANGED <<requests, dispatches, results, receipts, sent, applied,
                       refused, epoch>>
    BY DEF ReadConflictingResult, Serving, HasRequest, HasDispatch, Reserving,
           storeVars, outboxVars, providerVars
  <1>2. StoresInv'
    BY <1>1, StoresKept
  <1>3. /\ call[h] \in Local /\ call[h].request = requests[r]
        /\ call[h].dispatch = dispatches[r]
    BY <1>1, LocalsTyped, TypeOfHandlers DEF IInv, Holds, HoldsOutbox
  <1>4. CASE Goto(h, "putReceipt", found)
    <2>1. pc'[h] = "putReceipt" /\ call'[h] = found
      BY <1>4, GotoValues, TypeOfHandlers DEF IInv
    <2>2. /\ found.intent = call[h].intent /\ found.request = call[h].request
          /\ found.dispatch = call[h].dispatch /\ found.result = results[r]
      BY <1>3 DEF Local
    <2>3. Holds(h)'
      BY <1>1, <1>3, <2>1, <2>2 DEF Holds, HoldsReservation, HoldsOutbox,
         Reserving, HasRequest, HasDispatch, HasStatus, HasResult, RequestOf
    <2>4. QED
      BY <1>1, <1>2, <1>4, <2>3, HandlerStep
  <1>5. CASE Return(h, "pending")
    BY <1>1, <1>2, <1>5, ReturnStep DEF Returned
  <1>6. QED
    BY <1>4, <1>5 DEF ReadConflictingResult

\* The receipt is created, or one is met.
LEMMA PutReceiptInv ==
  ASSUME IInv, Grows, TypeOK', NEW h \in Handler, PutReceipt(h)
  PROVE  IInv'
  <1> DEFINE r == RequestOf(h)
             result == call[h].result
  <1>1. /\ pc[h] = "putReceipt" /\ pc[h] \in Serving /\ pc[h] \in HasDispatch
        /\ pc[h] \in HasRequest /\ pc[h] \notin Reserving /\ pc[h] \in HasResult
        /\ UNCHANGED <<requests, dispatches, results, sent, applied, refused, epoch>>
    BY DEF PutReceipt, Serving, HasRequest, HasDispatch, HasResult, Reserving, providerVars
  <1>2. /\ call[h] \in Local /\ call[h].intent \in Intent
        /\ result \in Result /\ r \in RequestID
    BY <1>1, LocalsTyped, TypeOfHandlers, IntentAssumption DEF IInv, RequestOf
  <1>3. /\ call[h].request = requests[r] /\ call[h].dispatch = dispatches[r]
        /\ result = results[r] /\ results[r] # None
    BY <1>1, <1>2, NoneAssumption DEF IInv, Holds, HoldsOutbox
  <1>4. /\ result.request = requests[r] /\ requests[r] # None
        /\ RequestIDOf[result.request.intent] = r
    BY <1>2, <1>3 DEF IInv, ResultsInv, DispatchesInv, RequestsInv
  <1>5. ReceiptObject(result) \in AuditObject
    BY <1>2 DEF ReceiptObject, AuditObject, Result
  <1>6. \/ Return(h, "idle") /\ UNCHANGED receipts
        \/ \E answer \in Answers :
             /\ Create(receipts, receipts', ReceiptObject(result), result, answer)
             /\ \/ answer = "created" /\ Return(h, "answered")
                \/ answer = "conflict" /\ Goto(h, "readReceipt", call[h])
                \/ answer = "error" /\ Return(h, "pending")
    BY DEF PutReceipt
  <1>7. CASE Return(h, "idle") /\ UNCHANGED receipts
    BY <1>1, <1>7, StoresKept, ReturnStep DEF Returned
  <1>8. CASE \E answer \in Answers :
             /\ Create(receipts, receipts', ReceiptObject(result), result, answer)
             /\ \/ answer = "created" /\ Return(h, "answered")
                \/ answer = "conflict" /\ Goto(h, "readReceipt", call[h])
                \/ answer = "error" /\ Return(h, "pending")
    <2>1. PICK answer \in Answers :
             /\ Create(receipts, receipts', ReceiptObject(result), result, answer)
             /\ \/ answer = "created" /\ Return(h, "answered")
                \/ answer = "conflict" /\ Goto(h, "readReceipt", call[h])
                \/ answer = "error" /\ Return(h, "pending")
      BY <1>8
    <2>2. /\ \A o \in AuditObject : receipts'[o] = receipts[o]
               \/ (o = ReceiptObject(result) /\ receipts'[o] = result)
          /\ answer = "conflict" => receipts'[ReceiptObject(result)] # None
      BY <1>5, <2>1 DEF Create, IInv, TypeOK
    <2>3. ReceiptsInv'
      <3> SUFFICES ASSUME NEW o \in AuditObject, receipts'[o] # None
                   PROVE  /\ receipts'[o] = results[RequestIDOf[receipts'[o].request.intent]]
                          /\ o = ReceiptObject(receipts'[o])
        BY <1>1 DEF ReceiptsInv, ReceiptObject
      <3>1. QED
        BY <1>3, <1>4, <2>2 DEF IInv, ReceiptsInv
    <2>4. StoresInv'
      BY <1>1, <2>3, RequestsKept, DispatchesKept, ResultsKept, ProviderKept,
         VerdictsKept DEF StoresInv
    <2>5. CASE answer = "conflict" /\ Goto(h, "readReceipt", call[h])
      <3>1. pc'[h] = "readReceipt" /\ call'[h] = call[h]
        BY <2>5, GotoValues, TypeOfHandlers DEF IInv
      <3>2. receipts'[ReceiptObject(call'[h].result)] # None
        BY <2>2, <2>5, <3>1
      <3>3. Holds(h)'
        BY <1>1, <1>3, <3>1, <3>2 DEF Holds, HoldsReservation, HoldsOutbox,
           Reserving, HasRequest, HasDispatch, HasStatus, HasResult, RequestOf, ReceiptObject
      <3>4. QED
        BY <1>1, <2>4, <2>5, <3>3, HandlerStep
    <2>6. CASE Return(h, "answered") \/ Return(h, "pending")
      BY <1>1, <2>4, <2>6, ReturnStep DEF Returned
    <2>7. QED
      BY <2>1, <2>5, <2>6
  <1>9. QED
    BY <1>6, <1>7, <1>8

\* A receipt that is met is answered only if it repeats the result.
LEMMA ReadConflictingReceiptInv ==
  ASSUME IInv, Grows, TypeOK', NEW h \in Handler, ReadConflictingReceipt(h)
  PROVE  IInv'
  <1>1. /\ UNCHANGED <<requests, dispatches, results, receipts, sent, applied, refused>>
        /\ Return(h, "answered") \/ Return(h, "pending")
    BY DEF ReadConflictingReceipt, storeVars, outboxVars, providerVars
  <1>2. QED
    BY <1>1, StoresKept, ReturnStep DEF Returned

-----------------------------------------------------------------------------
(* GitHub and the other actors preserve the invariant.                     *)

\* A step that is no handler's takes from no handler what it holds.
LEMMA NoHandlerStep ==
  ASSUME IInv, Grows, TypeOK', StoresInv', UNCHANGED <<handlerVars, sent>>
  PROVE  IInv'
  <1>1. \A k \in Handler : pc'[k] = pc[k] /\ call'[k] = call[k]
    BY DEF handlerVars
  <1>2. \A k \in Handler : Holds(k)'
    BY <1>1, OthersHold
  <1>3. OneSender'
    BY <1>1 DEF IInv, OneSender, RequestOf
  <1>4. QED
    BY <1>2, <1>3 DEF IInv, StoresInv

\* GitHub carries out, refuses and shows only what was sent.
LEMMA GitHubInv ==
  ASSUME IInv, Grows, TypeOK', NEW r \in RequestID, GitHub(r)
  PROVE  IInv'
  <1>1. /\ UNCHANGED <<requests, dispatches, results, receipts, sent, handlerVars>>
        /\ applied[r] + refused[r] < sent[r]
    BY DEF GitHub, ApplyMutation, RefuseMutation, storeVars, outboxVars
  <1>2. ProviderInv'
    <2> SUFFICES ASSUME NEW s \in RequestID
                 PROVE  applied'[s] + refused'[s] <= sent[s]
      BY <1>1 DEF IInv, ProviderInv
    <2>1. /\ applied[s] \in Nat /\ refused[s] \in Nat /\ sent[s] \in Nat
          /\ applied[s] + refused[s] <= sent[s]
      BY DEF IInv, TypeOK, ProviderInv
    <2>2. CASE s # r
      <3>1. applied'[s] = applied[s] /\ refused'[s] = refused[s]
        BY <2>2 DEF GitHub, ApplyMutation, RefuseMutation, IInv, TypeOK
      <3>2. QED BY <2>1, <3>1
    <2>3. CASE s = r
      <3>1. \/ applied'[r] = applied[r] + 1 /\ refused'[r] = refused[r]
            \/ applied'[r] = applied[r] /\ refused'[r] = refused[r] + 1
        BY DEF GitHub, ApplyMutation, RefuseMutation, IInv, TypeOK
      <3>2. QED BY <1>1, <2>1, <2>3, <3>1
    <2>4. QED BY <2>2, <2>3
  <1>3. StoresInv'
    BY <1>1, <1>2, RequestsKept, DispatchesKept, ResultsKept, ReceiptsKept,
       VerdictsKept DEF StoresInv
  <1>4. QED
    BY <1>1, <1>3, NoHandlerStep

-----------------------------------------------------------------------------
(* The invariant is inductive.                                             *)

LEMMA InitInv == Init => IInv
  <1> SUFFICES ASSUME Init PROVE IInv
    OBVIOUS
  <1>1. TypeOK
    BY TypeInit
  <1>2. RequestsInv /\ DispatchesInv /\ ResultsInv /\ VerdictsInv /\ ProviderInv
    BY DEF Init, RequestsInv, DispatchesInv, ResultsInv, VerdictsInv, ProviderInv
  <1>3. ReceiptsInv
    BY DEF Init, ReceiptsInv
  <1>4. \A h \in Handler : Holds(h)
    BY DEF Init, Holds, HoldsReservation, HoldsOutbox, Reserving, HasRequest,
           HasDispatch, HasStatus, HasResult
  <1>5. OneSender
    BY DEF Init, OneSender
  <1>6. QED
    BY <1>1, <1>2, <1>3, <1>4, <1>5 DEF IInv

\* Every step keeps the types.
LEMMA NextTypeOK == IInv /\ [Next]_vars => TypeOK'
  <1>1. IInv => \A h \in Handler : pc[h] = "readResult" => results[RequestOf(h)] # None
    BY DEF IInv, Holds, HoldsOutbox
  <1>2. QED
    BY <1>1, TypeNext DEF IInv

\* Every step preserves the invariant.
LEMMA NextInv == IInv /\ [Next]_vars => IInv'
  <1> SUFFICES ASSUME IInv, [Next]_vars PROVE IInv'
    OBVIOUS
  <1>1. TypeOK' /\ Grows
    BY NextTypeOK, NextGrows DEF IInv
  <1>2. ASSUME NEW h \in Handler, NEW i \in Intent, Submit(h, i) PROVE IInv'
    <2>1. UNCHANGED <<requests, dispatches, results, receipts, sent, applied, refused>>
      BY <1>2 DEF Submit, storeVars, outboxVars, providerVars
    <2>2. QED
      BY <1>1, <1>2, <2>1, StoresKept, BareStep DEF Submit, HasRequest
  <1>3. ASSUME NEW h \in Handler, CreateSteps(h) PROVE IInv'
    BY <1>1, <1>3, LookupInv, EvidenceInv, ReserveRequestIDInv, ReserveBindingInv,
       ReserveApprovalInv, PutRequestInv DEF CreateSteps
  <1>4. ASSUME NEW h \in Handler, PrepareSteps(h) PROVE IInv'
    BY <1>1, <1>4, PrepareInv, PutDispatchInv, SendMutationInv, ReceiveResponseInv
    DEF PrepareSteps
  <1>5. ASSUME NEW h \in Handler, ResumeSteps(h) PROVE IInv'
    BY <1>1, <1>5, GetDispatchInv, GetDispatchResultInv, RecoverInv DEF ResumeSteps
  <1>6. ASSUME NEW h \in Handler, CompleteSteps(h) PROVE IInv'
    BY <1>1, <1>6, PutDispatchResultInv, ReadConflictingResultInv, PutReceiptInv,
       ReadConflictingReceiptInv DEF CompleteSteps
  <1>7. ASSUME NEW h \in Handler, CutOff(h) PROVE IInv'
    <2>1. UNCHANGED <<requests, dispatches, results, receipts, sent, applied, refused>>
      BY <1>7 DEF CutOff, storeVars, outboxVars, providerVars
    <2>2. QED
      BY <1>1, <1>7, <2>1, StoresKept, ReturnStep DEF CutOff, Returned
  <1>8. ASSUME NEW r \in RequestID, GitHub(r) PROVE IInv'
    BY <1>1, <1>8, GitHubInv
  <1>9. CASE \/ \E t \in Target : ForeignChange(t)
             \/ \E r \in RequestID : ShowEffect(r)
             \/ Tick \/ Stabilise \/ UNCHANGED vars
    <2>1. UNCHANGED <<requests, dispatches, results, receipts, sent, applied,
                      refused, handlerVars>>
      BY <1>9 DEF ForeignChange, ShowEffect, Tick, Stabilise, vars, storeVars, outboxVars,
         providerVars
    <2>2. QED
      BY <1>1, <2>1, StoresKept, NoHandlerStep
  <1>10. QED
    BY <1>2, <1>3, <1>4, <1>5, <1>6, <1>7, <1>8, <1>9 DEF Next, Serve

-----------------------------------------------------------------------------
(* Which steps give which answers.                                         *)

LEMMA OthersStay ==
  ASSUME HandlersTyped, NEW h \in Handler, Serve(h), NEW k \in Handler, k # h
  PROVE  pc'[k] = pc[k]
  <1> SUFFICES ASSUME \A label, locals : ~Goto(h, label, locals)
               PROVE  FALSE
    BY GotoValues
  <1>1. ~CreateSteps(h)
    BY DEF CreateSteps, LookupRequest, CheckEvidence, ReserveRequestID,
       ReserveBinding, ReserveApproval, RereadRequest, PutRequest, Return
  <1>2. ~PrepareSteps(h)
    BY DEF PrepareSteps, Prepare, PutDispatch, AfterPutDispatch, NewDispatch, SendMutation, ReceiveResponse, Return
  <1>3. ~ResumeSteps(h)
    BY DEF ResumeSteps, GetDispatch, GetDispatchResult, Recover, Return
  <1>4. ~CompleteSteps(h)
    BY DEF CompleteSteps, PutDispatchResult, ReadConflictingResult, PutReceipt,
       ReadConflictingReceipt, Return
  <1>5. QED BY <1>1, <1>2, <1>3, <1>4 DEF Serve

\* A handler that has moved took a step itself.
LEMMA MovedItself ==
  ASSUME HandlersTyped, [Next]_vars, NEW h \in Handler, pc'[h] # pc[h]
  PROVE  (\E i \in Intent : Submit(h, i)) \/ Serve(h) \/ CutOff(h)
  <1>1. PICK k \in Handler : (\E i \in Intent : Submit(k, i)) \/ Serve(k) \/ CutOff(k)
    BY DEF Next, GitHub, ApplyMutation, RefuseMutation, ShowEffect, ForeignChange,
       Tick, Stabilise, vars, handlerVars
  <1>2. (\E i \in Intent : Submit(k, i)) \/ CutOff(k) => k = h
    BY GotoValues DEF Submit, CutOff, Return
  <1>3. Serve(k) => k = h
    BY OthersStay
  <1>4. QED BY <1>1, <1>2, <1>3

\* The answers that a step can give: those that its code returns.
LEMMA Answered ==
  ASSUME HandlersTyped, [Next]_vars, NEW h \in Handler,
         pc'[h] # pc[h], pc'[h] \in {"answered", "pending"}
  PROVE  /\ pc'[h] = "answered" => PutReceipt(h) \/ ReadConflictingReceipt(h)
         /\ pc[h] \in HasDispatch
  <1> USE GotoValues DEF Return
  <1>1. ~CutOff(h) /\ ~\E i \in Intent : Submit(h, i)
    <2>1. ASSUME NEW i \in Intent, Submit(h, i) PROVE pc'[h] = "lookup"
      BY <2>1 DEF Submit
    <2>2. CutOff(h) => pc'[h] = "idle"
      BY DEF CutOff
    <2>3. QED BY <2>1, <2>2
  <1>2. ~CreateSteps(h)
    <2>1. ~LookupRequest(h) /\ ~CheckEvidence(h) /\ ~RereadRequest(h)
      BY DEF LookupRequest, CheckEvidence, RereadRequest
    <2>2. ~ReserveRequestID(h)
      <3>1. ReserveRequestID(h) => \E label \in {"reserveBinding", "reread", "idle"} :
                                       \E locals : Goto(h, label, locals)
        BY ZenonT(30) DEF ReserveRequestID
      <3>2. QED BY <3>1
    <2>3. ~ReserveBinding(h) /\ ~ReserveApproval(h) /\ ~PutRequest(h)
      BY DEF ReserveBinding, ReserveApproval, PutRequest
    <2>4. QED BY <2>1, <2>2, <2>3 DEF CreateSteps
  <1>3. PrepareSteps(h) => pc[h] \in HasDispatch /\ pc'[h] = "pending"
    <2>1. ~Prepare(h)
      BY DEF Prepare
    <2>2. ~PutDispatch(h)
      <3>1. PutDispatch(h) => \E label \in {"putResult", "dispatch", "getDispatch", "idle"} :
                                  \E locals : Goto(h, label, locals)
        BY ZenonT(30) DEF PutDispatch, AfterPutDispatch, NewDispatch
      <3>2. QED BY <3>1
    <2>3. SendMutation(h) => pc[h] \in HasDispatch /\ pc'[h] = "pending"
      BY DEF SendMutation, HasDispatch
    <2>4. ReceiveResponse(h) => pc[h] \in HasDispatch /\ pc'[h] = "pending"
      BY DEF ReceiveResponse, HasDispatch
    <2>5. QED BY <2>1, <2>2, <2>3, <2>4 DEF PrepareSteps
  <1>4. ResumeSteps(h) => pc[h] \in HasDispatch /\ pc'[h] = "pending"
    <2>1. ~GetDispatch(h) /\ ~GetDispatchResult(h)
      BY DEF GetDispatch, GetDispatchResult
    <2>2. Recover(h) => pc[h] \in HasDispatch /\ pc'[h] = "pending"
      BY DEF Recover, HasDispatch
    <2>3. QED BY <2>1, <2>2 DEF ResumeSteps
  <1>5. CompleteSteps(h) => pc[h] \in HasDispatch
    BY DEF CompleteSteps, PutDispatchResult, ReadConflictingResult, PutReceipt,
       ReadConflictingReceipt, HasDispatch
  <1>6. /\ PutDispatchResult(h) => pc'[h] = "pending"
        /\ ReadConflictingResult(h) => pc'[h] = "pending"
    BY DEF PutDispatchResult, ReadConflictingResult
  <1>7. CreateSteps(h) \/ PrepareSteps(h) \/ ResumeSteps(h) \/ CompleteSteps(h)
    BY <1>1, MovedItself DEF Serve
  <1>8. QED
    BY <1>2, <1>3, <1>4, <1>5, <1>6, <1>7 DEF CompleteSteps

-----------------------------------------------------------------------------
(* The theorems.                                                           *)

\* For any number of handlers, submissions, targets and receipts, and however
\* long the clock runs: every reachable state satisfies the invariant.
THEOREM Invariance == Spec => []IInv
  <1>1. QED
    BY InitInv, NextInv, PTL DEF Spec

\* Every object and local has its type, and a handler always holds the locals
\* that the next step of service.go reads.
THEOREM TypeCorrect == Spec => []TypeOK
  <1>1. IInv => TypeOK
    BY DEF IInv
  <1>2. QED
    BY <1>1, Invariance, PTL

\* The mutation of a request is sent once at most: the creator of the
\* dispatch record is its only sender, and resume never sends.
THEOREM AtMostOnce == Spec => []AtMostOneMutation
  <1>1. IInv => AtMostOneMutation
    BY DEF IInv, ProviderInv, AtMostOneMutation
  <1>2. QED
    BY <1>1, Invariance, PTL

\* A binding and an approval serve one stored request at most, although
\* ReserveRequest is three writes that can be interrupted.
THEOREM ReservedOnce == Spec => []SingleUse
  <1>1. IInv => SingleUse
    BY DEF IInv, RequestsInv, SingleUse
  <1>2. QED
    BY <1>1, Invariance, PTL

\* The durable request, dispatch and replay objects all precede the call.
THEOREM Announced == Spec => []AnnouncedBeforeSent
  <1>1. IInv => AnnouncedBeforeSent
    BY DEF IInv, ProviderInv, DispatchesInv, RequestsInv, AnnouncedBeforeSent
  <1>2. QED
    BY <1>1, Invariance, PTL

\* The objects of one operation cite each other, and so do the locals of a
\* handler about to write the receipt: finalize meets no mismatch.
THEOREM Consistent == Spec => []OutboxConsistent
  <1>1. ASSUME IInv PROVE OutboxConsistent
    <2>1. ASSUME NEW h \in Handler, pc[h] = "putReceipt"
          PROVE  /\ call[h].result.request = call[h].request
                 /\ call[h].result.receiptID = call[h].dispatch.receiptID
      <3>1. /\ call[h].intent \in Intent /\ call[h].result \in Result
            /\ call[h].request = requests[RequestOf(h)]
            /\ call[h].dispatch = dispatches[RequestOf(h)]
            /\ call[h].result = results[RequestOf(h)]
        BY <1>1, <2>1, LocalsTyped, TypeOfHandlers DEF IInv, Holds, HoldsOutbox,
           Serving, HasRequest, HasDispatch, HasResult, Reserving
      <3>2. RequestOf(h) \in RequestID /\ results[RequestOf(h)] # None
        BY <3>1, IntentAssumption, NoneAssumption DEF RequestOf
      <3>3. QED
        BY <1>1, <3>1, <3>2 DEF IInv, ResultsInv
    <2>2. QED
      BY <1>1, <2>1 DEF IInv, DispatchesInv, ResultsInv, OutboxConsistent
  <1>2. QED
    BY <1>1, Invariance, PTL

\* Whatever answers were lost, a rejecting result means that the mutation was
\* not carried out and will not be.
THEOREM RejectionIsTrue == Spec => []NoFalseRejection
  <1>1. ASSUME IInv PROVE NoFalseRejection
    <2> SUFFICES ASSUME NEW r \in RequestID, results[r] # None,
                        results[r].status = "rejected"
                 PROVE  applied[r] = 0 /\ refused[r] = sent[r]
      BY DEF NoFalseRejection
    <2>1. /\ dispatches[r] # None
          /\ dispatches[r].token = Unsendable \/ refused[r] > 0
      BY <1>1 DEF IInv, ResultsInv, VerdictsInv, Justified
    <2>2. sent[r] \in Nat /\ applied[r] \in Nat /\ refused[r] \in Nat
      BY <1>1 DEF IInv, TypeOK
    <2>3. /\ applied[r] + refused[r] <= sent[r] /\ sent[r] <= 1
          /\ sent[r] > 0 => dispatches[r].token # Unsendable
      BY <1>1 DEF IInv, ProviderInv
    <2>4. QED
      BY <2>1, <2>2, <2>3
  <1>2. QED
    BY <1>1, Invariance, PTL

\* An accepting result rests on GitHub having taken the mutation on, or on a
\* change of the target after its baseline.
THEOREM AcceptanceIsObserved == Spec => []AcceptedIsObserved
  <1>1. ASSUME IInv PROVE AcceptedIsObserved
    <2> SUFFICES ASSUME NEW r \in RequestID, results[r] # None,
                        results[r].status = "accepted"
                 PROVE  /\ dispatches[r].token # Unsendable
                        /\ \/ applied[r] > 0
                           \/ epoch[TargetOf[requests[r].intent]] > dispatches[r].token
      BY DEF AcceptedIsObserved
    <2>1. QED
      BY <1>1 DEF IInv, VerdictsInv, Justified
  <1>2. QED
    BY <1>1, Invariance, PTL

\* However many handlers finalize a request, on whatever days, there is one
\* receipt and it repeats the result.
THEOREM ReceiptIsUnique == Spec => []OneReceipt
  <1>1. IInv => OneReceipt
    BY DEF IInv, ReceiptsInv, OneReceipt
  <1>2. QED
    BY <1>1, Invariance, PTL

\* A call is answered with a receipt only if the stored receipt repeats the
\* stored result: also when another handler wrote either of them.
THEOREM DurableAnswer == Spec => AnswerIsDurable
  <1> DEFINE Step ==
        \A h \in Handler :
            (pc[h] # "answered" /\ pc'[h] = "answered") =>
                LET result == results'[RequestOf(h)]
                IN  /\ result # None
                    /\ result.request = call[h].request
                    /\ receipts'[ReceiptObject(result)] = result
  <1>1. ASSUME IInv, [Next]_vars PROVE Step
    <2> SUFFICES ASSUME NEW h \in Handler, pc[h] # "answered", pc'[h] = "answered"
                 PROVE  LET result == results'[RequestOf(h)]
                        IN  /\ result # None
                            /\ result.request = call[h].request
                            /\ receipts'[ReceiptObject(result)] = result
      OBVIOUS
    <2>1. PutReceipt(h) \/ ReadConflictingReceipt(h)
      BY <1>1, Answered, TypeOfHandlers DEF IInv
    <2>2. /\ pc[h] \in Serving /\ pc[h] \in HasResult /\ pc[h] \in HasDispatch
          /\ pc[h] \in HasRequest /\ pc[h] \notin Reserving
          /\ UNCHANGED results
      BY <2>1 DEF PutReceipt, ReadConflictingReceipt, Serving, HasResult,
         HasDispatch, HasRequest, Reserving, storeVars, outboxVars
    <2>3. /\ call[h].intent \in Intent /\ call[h].result \in Result
          /\ call[h].result = results[RequestOf(h)]
          /\ call[h].request = requests[RequestOf(h)]
          /\ RequestOf(h) \in RequestID
      BY <1>1, <2>2, LocalsTyped, TypeOfHandlers, IntentAssumption
      DEF IInv, Holds, HoldsOutbox, RequestOf
    <2>4. /\ results[RequestOf(h)] # None
          /\ call[h].result.request = call[h].request
          /\ RequestIDOf[call[h].request.intent] = RequestOf(h)
      BY <1>1, <2>3, NoneAssumption DEF IInv, ResultsInv, DispatchesInv, RequestsInv
    <2>5. ReceiptObject(call[h].result) \in AuditObject
      BY <2>3 DEF ReceiptObject, AuditObject, Result
    <2>6. receipts'[ReceiptObject(call[h].result)] = call[h].result
      <3>1. CASE PutReceipt(h)
        <4>1. PICK answer \in Answers :
                /\ Create(receipts, receipts', ReceiptObject(call[h].result),
                          call[h].result, answer)
                /\ \/ answer = "created"
                   \/ answer = "conflict" /\ Goto(h, "readReceipt", call[h])
                   \/ answer = "error" /\ Return(h, "pending")
          BY <1>1, <3>1, GotoValues, TypeOfHandlers DEF PutReceipt, Return, IInv
        <4>2. answer = "created"
          BY <1>1, <4>1, GotoValues, TypeOfHandlers DEF Return, IInv
        <4>3. QED
          BY <1>1, <2>5, <4>1, <4>2 DEF Create, IInv, TypeOK
      <3>2. CASE ReadConflictingReceipt(h)
        <4> DEFINE stored == receipts[ReceiptObject(call[h].result)]
        <4>1. stored # None
          BY <1>1, <3>2 DEF IInv, Holds, HoldsOutbox, ReadConflictingReceipt
        <4>2. stored.request = call[h].request
          BY <1>1, <3>2, GotoValues, TypeOfHandlers
          DEF ReadConflictingReceipt, Return, IInv
        <4>3. stored = results[RequestIDOf[stored.request.intent]]
          BY <1>1, <2>5, <4>1 DEF IInv, ReceiptsInv
        <4>4. receipts' = receipts
          BY <3>2 DEF ReadConflictingReceipt, storeVars, outboxVars
        <4>5. QED
          BY <2>3, <2>4, <4>2, <4>3, <4>4
      <3>3. QED BY <2>1, <3>1, <3>2
    <2>7. QED
      BY <2>2, <2>3, <2>4, <2>6 DEF ReceiptObject
  <1>2. IInv /\ [Next]_vars => [Step]_vars
    BY <1>1
  <1>3. QED
    BY <1>2, Invariance, PTL DEF Spec, AnswerIsDurable

\* A call is answered as pending only when its dispatch record is stored.
THEOREM PendingIsDurable == Spec => PendingHasOutbox
  <1> DEFINE Step ==
        \A h \in Handler :
            (pc[h] # "pending" /\ pc'[h] = "pending") =>
                dispatches'[RequestOf(h)] # None
  <1>1. ASSUME IInv, [Next]_vars PROVE Step
    <2> SUFFICES ASSUME NEW h \in Handler, pc[h] # "pending", pc'[h] = "pending"
                 PROVE  dispatches'[RequestOf(h)] # None
      OBVIOUS
    <2>1. pc[h] \in HasDispatch
      BY <1>1, Answered, TypeOfHandlers DEF IInv
    <2>2. pc[h] \in Serving
      BY <2>1 DEF HasDispatch, Serving
    <2>3. /\ call[h].intent \in Intent /\ call[h].dispatch \in Dispatch
          /\ call[h].dispatch = dispatches[RequestOf(h)]
          /\ RequestOf(h) \in RequestID
      BY <1>1, <2>1, <2>2, LocalsTyped, TypeOfHandlers, IntentAssumption
      DEF IInv, Holds, HoldsOutbox, RequestOf
    <2>4. dispatches[RequestOf(h)] # None
      BY <2>3, NoneAssumption
    <2>5. Grows
      BY <1>1, NextGrows DEF IInv
    <2>6. QED
      BY <2>3, <2>4, <2>5 DEF Grows
  <1>2. IInv /\ [Next]_vars => [Step]_vars
    BY <1>1
  <1>3. QED
    BY <1>2, Invariance, PTL DEF Spec, PendingHasOutbox
=============================================================================
