------------------------ MODULE OperationLedgerProofs ------------------------
(***************************************************************************)
(* OperationService implements OperationLedger.                            *)
(*                                                                         *)
(* A step of a handler or of GitHub is at most one step of the ledger: the *)
(* upload of the request grants it, the call of the dispatcher sends the   *)
(* mutation, the uploads of result and receipt decide and publish.  That   *)
(* the guards of the ledger hold is what the inductive invariant is for.   *)
(***************************************************************************)
EXTENDS OperationServiceProofs

\* What the refinement mapping puts for the variables of the ledger.
GrantedNow == {requests[r].intent : r \in {s \in RequestID : requests[s] # None}}

MutationNow == [r \in RequestID |-> MutationOf(r)]

VerdictOf(r) == IF results[r] = None THEN "none" ELSE results[r].status
VerdictNow == [r \in RequestID |-> VerdictOf(r)]

PublishedOf(r) ==
    IF ReceiptsOf(r) = {} THEN "none"
    ELSE (CHOOSE receipt \in ReceiptsOf(r) : TRUE).status
PublishedNow == [r \in RequestID |-> PublishedOf(r)]

-----------------------------------------------------------------------------
(* The ledger in terms of the mapping.                                     *)

\* A step that leaves the four values alone is a stutter.
LEMMA LedgerStutters ==
  ASSUME UNCHANGED <<GrantedNow, MutationNow, VerdictNow, PublishedNow>>
  PROVE  UNCHANGED Ledger!ledger
  BY DEF Ledger!ledger, GrantedNow, MutationNow, VerdictNow, VerdictOf,
         PublishedNow, PublishedOf

\* A submission whose three keys are free is granted.
LEMMA LedgerGrants ==
  ASSUME NEW i \in Intent,
         \A j \in GrantedNow : /\ RequestIDOf[j] # RequestIDOf[i]
                               /\ BindingOf[j] # BindingOf[i]
                               /\ ApprovalOf[j] # ApprovalOf[i],
         GrantedNow' = GrantedNow \cup {i},
         UNCHANGED <<MutationNow, VerdictNow, PublishedNow>>
  PROVE  Ledger!Grant(i)
  BY DEF Ledger!Grant, GrantedNow, MutationNow, VerdictNow, VerdictOf,
         PublishedNow, PublishedOf

\* A stored request is a granted one.
LEMMA LedgerGranted ==
  ASSUME IInv, NEW r \in RequestID, requests[r] # None
  PROVE  Ledger!Granted(r)
  <1>1. RequestIDOf[requests[r].intent] = r
    BY DEF IInv, RequestsInv
  <1>2. QED
    BY <1>1 DEF Ledger!Granted

\* A mutation that is not yet sent, for a request that is not rejected, is sent.
LEMMA LedgerSends ==
  ASSUME IInv, NEW r \in RequestID, requests[r] # None,
         MutationOf(r) = "none", VerdictOf(r) # "rejected",
         MutationNow' = [MutationNow EXCEPT ![r] = "sent"],
         UNCHANGED <<GrantedNow, VerdictNow, PublishedNow>>
  PROVE  Ledger!Send(r)
  <1>1. Ledger!Granted(r)
    BY LedgerGranted
  <1>2. QED
    BY <1>1 DEF Ledger!Send, GrantedNow, MutationNow, VerdictNow, VerdictOf,
                PublishedNow, PublishedOf

\* GitHub decides on a mutation that it was sent.
LEMMA LedgerSettles ==
  ASSUME NEW r \in RequestID, NEW outcome \in {"applied", "refused"},
         MutationOf(r) = "sent",
         MutationNow' = [MutationNow EXCEPT ![r] = outcome],
         UNCHANGED <<GrantedNow, VerdictNow, PublishedNow>>
  PROVE  Ledger!Settle(r, outcome)
  BY DEF Ledger!Settle, GrantedNow, MutationNow, VerdictNow, VerdictOf,
         PublishedNow, PublishedOf

\* A verdict is given once, and rejects nothing that is or may be carried out.
LEMMA LedgerDecides ==
  ASSUME IInv, NEW r \in RequestID, requests[r] # None,
         NEW status \in Status, VerdictOf(r) = "none",
         status = "rejected" => MutationOf(r) \in {"none", "refused"},
         VerdictNow' = [VerdictNow EXCEPT ![r] = status],
         UNCHANGED <<GrantedNow, MutationNow, PublishedNow>>
  PROVE  Ledger!Accept(r) \/ Ledger!Reject(r)
  <1>1. Ledger!Granted(r)
    BY LedgerGranted
  <1>2. CASE status = "accepted"
    BY <1>1, <1>2 DEF Ledger!Accept, GrantedNow, MutationNow, VerdictNow,
       VerdictOf, PublishedNow, PublishedOf
  <1>3. CASE status = "rejected"
    BY <1>1, <1>3 DEF Ledger!Reject, GrantedNow, MutationNow, VerdictNow,
       VerdictOf, PublishedNow, PublishedOf
  <1>4. QED
    BY <1>2, <1>3 DEF Status

\* The receipt repeats the verdict, once.
LEMMA LedgerPublishes ==
  ASSUME NEW r \in RequestID, VerdictOf(r) # "none", PublishedOf(r) = "none",
         PublishedNow' = [PublishedNow EXCEPT ![r] = VerdictOf(r)],
         UNCHANGED <<GrantedNow, MutationNow, VerdictNow>>
  PROVE  Ledger!Publish(r)
  BY DEF Ledger!Publish, GrantedNow, MutationNow, VerdictNow, VerdictOf,
         PublishedNow, PublishedOf

-----------------------------------------------------------------------------
(* What the mapping depends on.                                            *)

\* An upload writes its object where there was none, or nothing.
LEMMA CreateWrites ==
  ASSUME NEW store, NEW next, NEW name, NEW object, NEW answer,
         Create(store, next, name, object, answer)
  PROVE  \/ next = store
         \/ store[name] = None /\ next = [store EXCEPT ![name] = object]
  BY DEF Create

\* Each value of the mapping changes with the variables it is made of only.
LEMMA MutationStays ==
  ASSUME UNCHANGED <<sent, applied, refused>>
  PROVE  UNCHANGED MutationNow
  BY DEF MutationNow, MutationOf

\* A step that is about the mutation of one request.
LEMMA MutationMoves ==
  ASSUME NEW r \in RequestID,
         \A s \in RequestID : s # r => /\ sent'[s] = sent[s]
                                       /\ applied'[s] = applied[s]
                                       /\ refused'[s] = refused[s]
  PROVE  MutationNow' = [MutationNow EXCEPT ![r] = MutationOf(r)']
  <1>1. ASSUME NEW s \in RequestID, s # r PROVE MutationOf(s)' = MutationOf(s)
    BY <1>1 DEF MutationOf
  <1>2. QED
    BY <1>1 DEF MutationNow

\* The verdicts are the results.
LEMMA VerdictStays ==
  ASSUME UNCHANGED results
  PROVE  UNCHANGED VerdictNow
  BY DEF VerdictNow, VerdictOf

\* What is published is in the receipts.
LEMMA PublishedStays ==
  ASSUME UNCHANGED receipts
  PROVE  UNCHANGED PublishedNow
  BY DEF PublishedNow, PublishedOf, ReceiptsOf

\* What is granted is in the requests.
LEMMA GrantedStays ==
  ASSUME UNCHANGED requests
  PROVE  UNCHANGED GrantedNow
  BY DEF GrantedNow

\* Whatever else a step does.
LEMMA QuietStep ==
  ASSUME UNCHANGED <<requests, results, receipts, sent, applied, refused>>
  PROVE  UNCHANGED Ledger!ledger
  BY MutationStays, VerdictStays, PublishedStays, GrantedStays, LedgerStutters

\* A request has a single receipt, its result.
LEMMA ReceiptRepeats ==
  ASSUME IInv, NEW r \in RequestID
  PROVE  /\ ReceiptsOf(r) # {} => results[r] # None
         /\ \A receipt \in ReceiptsOf(r) : receipt = results[r]
         /\ PublishedOf(r) = IF ReceiptsOf(r) = {} THEN "none" ELSE results[r].status
  <1>1. ASSUME NEW receipt \in ReceiptsOf(r)
        PROVE  receipt = results[r] /\ results[r] # None
    BY DEF ReceiptsOf, IInv, ReceiptsInv
  <1>2. QED
    BY <1>1 DEF PublishedOf

\* What became of a mutation, given that there is one.
LEMMA MutationValues ==
  ASSUME IInv, NEW r \in RequestID
  PROVE  /\ sent[r] = 0 => MutationOf(r) = "none" /\ applied[r] = 0 /\ refused[r] = 0
         /\ sent[r] # 0 /\ applied[r] = 0 /\ refused[r] = 0 => MutationOf(r) = "sent"
         /\ refused[r] > 0 => MutationOf(r) = "refused"
         /\ applied[r] > 0 => MutationOf(r) = "applied"
         /\ applied[r] + refused[r] < sent[r]
                => sent[r] = 1 /\ applied[r] = 0 /\ refused[r] = 0
  <1>1. sent[r] \in Nat /\ applied[r] \in Nat /\ refused[r] \in Nat
    BY DEF IInv, TypeOK
  <1>2. applied[r] + refused[r] <= sent[r] /\ sent[r] <= 1
    BY DEF IInv, ProviderInv
  <1>3. QED
    BY <1>1, <1>2 DEF MutationOf

-----------------------------------------------------------------------------
(* The steps that the ledger sees.                                         *)

\* The upload of the request: its replay objects are its own, so no other
\* stored request has the binding or the approval.
LEMMA PutRequestGrants ==
  ASSUME IInv, IInv', NEW h \in Handler, PutRequest(h)
  PROVE  (\E i \in Intent : Ledger!Grant(i)) \/ UNCHANGED Ledger!ledger
  <1> DEFINE r == RequestOf(h)
             request == call[h].request
             i == request.intent
  <1>1. /\ pc[h] = "putRequest"
        /\ UNCHANGED <<results, receipts, sent, applied, refused>>
    BY DEF PutRequest, outboxVars, providerVars
  <1>2. call[h].intent \in Intent /\ request \in Request /\ r \in RequestID
    BY <1>1, LocalsTyped, TypeOfHandlers, IntentAssumption
    DEF IInv, RequestOf, Serving, HasRequest
  <1>3. \/ UNCHANGED requests
        \/ requests[r] = None /\ requests' = [requests EXCEPT ![r] = request]
    BY CreateWrites DEF PutRequest
  <1>4. CASE UNCHANGED requests
    BY <1>1, <1>4, QuietStep
  <1>5. CASE requests[r] = None /\ requests' = [requests EXCEPT ![r] = request]
    <2>1. i \in Intent /\ request # None
      BY <1>2, NoneAssumption DEF Request
    <2>2. /\ requests'[r] = request
          /\ \A s \in RequestID : s # r => requests'[s] = requests[s]
      BY <1>2, <1>5 DEF IInv, TypeOK
    <2>3. ASSUME NEW j \in GrantedNow
          PROVE  /\ RequestIDOf[j] # RequestIDOf[i]
                 /\ BindingOf[j] # BindingOf[i]
                 /\ ApprovalOf[j] # ApprovalOf[i]
      <3>1. PICK s \in RequestID : requests[s] # None /\ j = requests[s].intent
        BY DEF GrantedNow
      <3>2. s # r /\ requests'[s] = requests[s]
        BY <1>5, <2>2, <3>1
      <3>3. ASSUME NEW q \in RequestID, requests'[q] # None
            PROVE  /\ RequestIDOf[requests'[q].intent] = q
                   /\ replayBindings'[BindingOf[requests'[q].intent]] = requests'[q]
                   /\ replayApprovals'[ApprovalOf[requests'[q].intent]] = requests'[q]
        <4>1. RequestsInv'
          BY DEF IInv
        <4>2. QED
          BY <3>3, <4>1 DEF RequestsInv
      <3>4. /\ requests'[s].intent = j /\ requests'[s] # None
            /\ requests'[r].intent = i /\ requests'[r] # None
        BY <2>1, <2>2, <3>1, <3>2
      <3>5. RequestIDOf[j] = s /\ RequestIDOf[i] = r
        BY <1>2, <3>3, <3>4
      <3>6. /\ replayBindings'[BindingOf[j]] = requests'[s]
            /\ replayBindings'[BindingOf[i]] = requests'[r]
            /\ replayApprovals'[ApprovalOf[j]] = requests'[s]
            /\ replayApprovals'[ApprovalOf[i]] = requests'[r]
        BY <1>2, <3>3, <3>4
      <3>7. QED
        BY <3>2, <3>4, <3>5, <3>6
    <2>4. GrantedNow' = GrantedNow \cup {i}
      BY <1>2, <1>5, <2>1, <2>2 DEF GrantedNow
    <2>5. UNCHANGED <<MutationNow, VerdictNow, PublishedNow>>
      BY <1>1, MutationStays, VerdictStays, PublishedStays
    <2>6. QED
      BY <2>1, <2>3, <2>4, <2>5, LedgerGrants
  <1>6. QED
    BY <1>3, <1>4, <1>5

\* The call of the dispatcher: nothing was sent before, and a rejecting result
\* would rest on a preparation that allows no dispatch or on a refusal.
LEMMA SendMutationSends ==
  ASSUME IInv, NEW h \in Handler, SendMutation(h)
  PROVE  (\E r \in RequestID : Ledger!Send(r)) \/ UNCHANGED Ledger!ledger
  <1>1. /\ pc[h] = "dispatch"
        /\ UNCHANGED <<requests, results, receipts, applied, refused>>
        /\ sent' = sent \/ sent' = [sent EXCEPT ![RequestOf(h)] = @ + 1]
    BY DEF SendMutation, storeVars, outboxVars
  <1>2. CASE sent' = sent
    BY <1>1, <1>2, QuietStep
  <1>3. CASE sent' = [sent EXCEPT ![RequestOf(h)] = @ + 1]
    <2>1. /\ call[h].intent \in Intent /\ call[h].dispatch \in Dispatch
          /\ RequestOf(h) \in RequestID
      BY <1>1, LocalsTyped, TypeOfHandlers, IntentAssumption
      DEF IInv, RequestOf, Serving, HasDispatch
    <2>2. PICK r \in RequestID : r = RequestOf(h)
      BY <2>1
    <2>3. /\ call[h].dispatch = dispatches[r] /\ sent[r] = 0
          /\ dispatches[r].token # Unsendable
      BY <1>1, <2>2 DEF IInv, Holds, HoldsOutbox, HasDispatch
    <2>4. dispatches[r] # None /\ requests[r] # None
      BY <2>1, <2>3, NoneAssumption DEF IInv, DispatchesInv
    <2>5. MutationOf(r) = "none" /\ applied[r] = 0 /\ refused[r] = 0
      BY <2>3, MutationValues
    <2>6. VerdictOf(r) # "rejected"
      BY <2>3, <2>5 DEF VerdictOf, IInv, VerdictsInv, Justified
    <2>7. MutationNow' = [MutationNow EXCEPT ![r] = "sent"]
      <3>1. sent'[r] = 1 /\ \A s \in RequestID : s # r => sent'[s] = sent[s]
        BY <1>3, <2>2, <2>3 DEF IInv, TypeOK
      <3>2. applied'[r] = 0 /\ refused'[r] = 0
        BY <1>1, <2>5
      <3>3. MutationOf(r)' = "sent"
        BY <3>1, <3>2 DEF MutationOf
      <3>4. QED
        BY <1>1, <3>1, <3>3, MutationMoves
    <2>8. UNCHANGED <<GrantedNow, VerdictNow, PublishedNow>>
      BY <1>1, GrantedStays, VerdictStays, PublishedStays
    <2>9. QED
      BY <2>4, <2>5, <2>6, <2>7, <2>8, LedgerSends
  <1>4. QED
    BY <1>1, <1>2, <1>3

\* GitHub decides once on what it was sent once.
LEMMA GitHubSettles ==
  ASSUME IInv, IInv', NEW r \in RequestID, GitHub(r)
  PROVE  \E outcome \in {"applied", "refused"} : Ledger!Settle(r, outcome)
  <1>1. /\ applied[r] + refused[r] < sent[r]
        /\ UNCHANGED <<requests, results, receipts, sent>>
    BY DEF GitHub, ApplyMutation, RefuseMutation, storeVars, outboxVars
  <1>2. sent[r] = 1 /\ applied[r] = 0 /\ refused[r] = 0
    BY <1>1, MutationValues
  <1>3. MutationOf(r) = "sent"
    BY <1>2, MutationValues
  <1>4. UNCHANGED <<GrantedNow, VerdictNow, PublishedNow>>
    BY <1>1, GrantedStays, VerdictStays, PublishedStays
  <1>5. CASE ApplyMutation(r)
    <2>1. /\ applied'[r] = 1 /\ refused' = refused
          /\ \A s \in RequestID : s # r => applied'[s] = applied[s]
      BY <1>2, <1>5 DEF ApplyMutation, IInv, TypeOK
    <2>2. MutationOf(r)' = "applied"
      BY <1>1, <1>2, <2>1 DEF MutationOf
    <2>3. MutationNow' = [MutationNow EXCEPT ![r] = "applied"]
      BY <1>1, <2>1, <2>2, MutationMoves
    <2>4. QED
      BY <1>3, <1>4, <2>3, LedgerSettles
  <1>6. CASE RefuseMutation(r)
    <2>1. /\ refused'[r] = 1 /\ applied' = applied
          /\ \A s \in RequestID : s # r => refused'[s] = refused[s]
      BY <1>2, <1>6 DEF RefuseMutation, IInv, TypeOK
    <2>2. MutationOf(r)' = "refused"
      BY <1>1, <1>2, <2>1 DEF MutationOf
    <2>3. MutationNow' = [MutationNow EXCEPT ![r] = "refused"]
      BY <1>1, <2>1, <2>2, MutationMoves
    <2>4. QED
      BY <1>3, <1>4, <2>3, LedgerSettles
  <1>7. QED
    BY <1>5, <1>6 DEF GitHub

\* The upload of the result: the handler that rejects knows of a preparation
\* that allows no dispatch, after which nothing is sent, or of a refusal.
LEMMA PutDispatchResultDecides ==
  ASSUME IInv, NEW h \in Handler, PutDispatchResult(h)
  PROVE  \/ \E r \in RequestID : Ledger!Accept(r) \/ Ledger!Reject(r)
         \/ UNCHANGED Ledger!ledger
  <1> DEFINE result == [request |-> call[h].request,
                        receiptID |-> call[h].dispatch.receiptID,
                        status |-> call[h].status, recordedAt |-> clock]
  <1>1. /\ pc[h] = "putResult"
        /\ UNCHANGED <<requests, receipts, sent, applied, refused>>
    BY DEF PutDispatchResult, providerVars
  <1>2. /\ call[h].intent \in Intent /\ call[h].request \in Request
        /\ call[h].dispatch \in Dispatch /\ call[h].status \in Status
        /\ RequestOf(h) \in RequestID
    BY <1>1, LocalsTyped, TypeOfHandlers, IntentAssumption
    DEF IInv, RequestOf, Serving, HasRequest, HasDispatch, HasStatus
  <1>3. PICK r \in RequestID : r = RequestOf(h)
    BY <1>2
  <1>4. PICK status \in Status : status = call[h].status
    BY <1>2
  <1>5. /\ call[h].dispatch = dispatches[r] /\ Justified(r, status)
    BY <1>1, <1>3, <1>4 DEF IInv, Holds, HoldsOutbox, HasDispatch, HasStatus
  <1>6. dispatches[r] # None /\ requests[r] # None
    BY <1>2, <1>5, NoneAssumption DEF IInv, DispatchesInv
  <1>7. \/ UNCHANGED results
        \/ results[r] = None /\ results' = [results EXCEPT ![r] = result]
    BY <1>3, CreateWrites DEF PutDispatchResult
  <1>8. CASE UNCHANGED results
    BY <1>1, <1>8, QuietStep
  <1>9. CASE results[r] = None /\ results' = [results EXCEPT ![r] = result]
    <2>1. result.status = status /\ result # None
      <3>1. result \in Result
        BY <1>2 DEF Result, Dispatch, IInv, TypeOK
      <3>2. QED
        BY <1>4, <3>1, NoneAssumption
    <2> HIDE DEF result
    <2>2. /\ results'[r] = result
          /\ \A s \in RequestID : s # r => results'[s] = results[s]
      BY <1>9 DEF IInv, TypeOK
    <2>3. VerdictOf(r)' = status
      BY <2>1, <2>2 DEF VerdictOf
    <2>4. \A s \in RequestID : s # r => VerdictOf(s)' = VerdictOf(s)
      BY <2>2 DEF VerdictOf
    <2>5. VerdictNow' = [VerdictNow EXCEPT ![r] = status]
      BY <2>3, <2>4 DEF VerdictNow
    <2>6. VerdictOf(r) = "none"
      BY <1>9 DEF VerdictOf
    <2>7. status = "rejected" => MutationOf(r) \in {"none", "refused"}
      <3>1. SUFFICES ASSUME status = "rejected"
                     PROVE  MutationOf(r) \in {"none", "refused"}
        OBVIOUS
      <3>2. CASE refused[r] > 0
        BY <3>2, MutationValues
      <3>3. CASE dispatches[r].token = Unsendable
        <4>1. ~(sent[r] > 0) /\ sent[r] \in Nat
          BY <3>3 DEF IInv, ProviderInv, TypeOK
        <4>2. QED
          BY <4>1, MutationValues
      <3>4. QED
        BY <1>5, <3>1, <3>2, <3>3 DEF Justified
    <2>8. UNCHANGED <<GrantedNow, MutationNow, PublishedNow>>
      BY <1>1, GrantedStays, MutationStays, PublishedStays
    <2>9. QED
      BY <1>6, <2>5, <2>6, <2>7, <2>8, LedgerDecides
  <1>10. QED
    BY <1>7, <1>8, <1>9

\* The upload of the receipt: all receipts of a request are its result, under
\* the one name that the result's date gives.
LEMMA PutReceiptPublishes ==
  ASSUME IInv, IInv', NEW h \in Handler, PutReceipt(h)
  PROVE  (\E r \in RequestID : Ledger!Publish(r)) \/ UNCHANGED Ledger!ledger
  <1>1. /\ pc[h] = "putReceipt"
        /\ UNCHANGED <<requests, results, sent, applied, refused>>
    BY DEF PutReceipt, providerVars
  <1>2. /\ call[h].intent \in Intent /\ call[h].result \in Result
        /\ call[h].dispatch \in Dispatch /\ RequestOf(h) \in RequestID
    BY <1>1, LocalsTyped, TypeOfHandlers, IntentAssumption
    DEF IInv, RequestOf, Serving, HasDispatch, HasResult
  <1>3. PICK r \in RequestID : r = RequestOf(h)
    BY <1>2
  <1>4. PICK result \in Result : result = call[h].result
    BY <1>2
  <1>5. result = results[r] /\ results[r] # None
    BY <1>1, <1>2, <1>3, <1>4, NoneAssumption DEF IInv, Holds, HoldsOutbox, HasResult
  <1>6. RequestIDOf[result.request.intent] = r
    BY <1>5 DEF IInv, ResultsInv, DispatchesInv, RequestsInv
  <1>7. PICK object \in AuditObject : object = ReceiptObject(result)
    BY <1>4 DEF ReceiptObject, AuditObject, Result
  <1>8. \/ UNCHANGED receipts
        \/ receipts[object] = None /\ receipts' = [receipts EXCEPT ![object] = result]
    BY <1>4, <1>7, CreateWrites DEF PutReceipt
  <1>9. CASE UNCHANGED receipts
    BY <1>1, <1>9, QuietStep
  <1>10. CASE receipts[object] = None /\ receipts' = [receipts EXCEPT ![object] = result]
    <2>1. result # None
      BY NoneAssumption
    <2>2. /\ receipts'[object] = result
          /\ \A o \in AuditObject : o # object => receipts'[o] = receipts[o]
      BY <1>10 DEF IInv, TypeOK
    <2>3. PublishedOf(r) = "none"
      <3>1. ASSUME NEW o \in AuditObject, receipts[o] # None,
                   RequestIDOf[receipts[o].request.intent] = r
            PROVE  FALSE
        <4>1. receipts[o] = result /\ o = ReceiptObject(result)
          BY <1>5, <3>1 DEF IInv, ReceiptsInv
        <4>2. QED
          BY <1>7, <1>10, <3>1, <4>1
      <3>2. QED
        BY <3>1 DEF PublishedOf, ReceiptsOf
    <2>4. PublishedOf(r)' = VerdictOf(r)
      <3>1. result \in ReceiptsOf(r)'
        BY <1>6, <2>1, <2>2 DEF ReceiptsOf
      <3>2. \A receipt \in ReceiptsOf(r)' : receipt = results'[r]
        BY DEF IInv, ReceiptsInv, ReceiptsOf
      <3>3. PublishedOf(r)' = results[r].status
        BY <1>1, <3>1, <3>2 DEF PublishedOf
      <3>4. QED
        BY <1>5, <3>3 DEF VerdictOf
    <2>5. ASSUME NEW s \in RequestID, s # r PROVE PublishedOf(s)' = PublishedOf(s)
      <3>1. ReceiptsOf(s)' = ReceiptsOf(s)
        BY <1>6, <1>10, <2>2, <2>5 DEF ReceiptsOf
      <3>2. QED
        BY <3>1 DEF PublishedOf
    <2>6. PublishedNow' = [PublishedNow EXCEPT ![r] = VerdictOf(r)]
      BY <2>4, <2>5 DEF PublishedNow
    <2>7. VerdictOf(r) # "none"
      BY <1>5 DEF VerdictOf, Result, Status
    <2>8. UNCHANGED <<GrantedNow, MutationNow, VerdictNow>>
      BY <1>1, GrantedStays, MutationStays, VerdictStays
    <2>9. QED
      BY <2>3, <2>6, <2>7, <2>8, LedgerPublishes
  <1>11. QED
    BY <1>8, <1>9, <1>10

-----------------------------------------------------------------------------
(* The refinement.                                                         *)

\* An empty bucket is the ledger before its first grant.
LEMMA InitIsLedgerInit == Init => Ledger!LedgerInit
  <1> SUFFICES ASSUME Init PROVE Ledger!LedgerInit
    OBVIOUS
  <1>1. \A r \in RequestID : /\ requests[r] = None /\ results[r] = None
                             /\ MutationOf(r) = "none" /\ ReceiptsOf(r) = {}
    BY DEF Init, MutationOf, ReceiptsOf
  <1>2. QED
    BY <1>1 DEF Ledger!LedgerInit

\* Every step of a handler, of GitHub, of others or of the clock is a step of
\* the ledger or leaves it as it is.
LEMMA NextIsLedgerNext ==
  ASSUME IInv, IInv', [Next]_vars
  PROVE  [Ledger!LedgerNext]_(Ledger!ledger)
  <1>1. ASSUME NEW h \in Handler, NEW i \in Intent, Submit(h, i)
        PROVE  UNCHANGED Ledger!ledger
    BY <1>1, QuietStep DEF Submit, storeVars, outboxVars, providerVars
  <1>2. ASSUME NEW h \in Handler, CreateSteps(h)
        PROVE  [Ledger!LedgerNext]_(Ledger!ledger)
    <2>1. CASE PutRequest(h)
      BY <2>1, PutRequestGrants DEF Ledger!LedgerNext
    <2>2. CASE ~PutRequest(h)
      <3>1. UNCHANGED <<requests, results, receipts, sent, applied, refused>>
        BY <1>2, <2>2 DEF CreateSteps, LookupRequest, CheckEvidence, ReserveRequestID,
           ReserveBinding, ReserveApproval, RereadRequest, storeVars, outboxVars,
           providerVars
      <3>2. QED
        BY <3>1, QuietStep
    <2>3. QED
      BY <2>1, <2>2
  <1>3. ASSUME NEW h \in Handler, PrepareSteps(h)
        PROVE  [Ledger!LedgerNext]_(Ledger!ledger)
    <2>1. CASE SendMutation(h)
      BY <2>1, SendMutationSends DEF Ledger!LedgerNext
    <2>2. CASE ~SendMutation(h)
      <3>1. UNCHANGED <<requests, results, receipts, sent, applied, refused>>
        BY <1>3, <2>2 DEF PrepareSteps, Prepare, PutDispatch, ReceiveResponse,
           storeVars, outboxVars, providerVars
      <3>2. QED
        BY <3>1, QuietStep
    <2>3. QED
      BY <2>1, <2>2
  <1>4. ASSUME NEW h \in Handler, ResumeSteps(h)
        PROVE  UNCHANGED Ledger!ledger
    BY <1>4, QuietStep DEF ResumeSteps, GetDispatch, GetDispatchResult, Recover,
       storeVars, outboxVars, providerVars
  <1>5. ASSUME NEW h \in Handler, CompleteSteps(h)
        PROVE  [Ledger!LedgerNext]_(Ledger!ledger)
    <2>1. CASE PutDispatchResult(h)
      BY <2>1, PutDispatchResultDecides DEF Ledger!LedgerNext
    <2>2. CASE PutReceipt(h)
      BY <2>2, PutReceiptPublishes DEF Ledger!LedgerNext
    <2>3. CASE ReadConflictingResult(h) \/ ReadConflictingReceipt(h)
      <3>1. UNCHANGED <<requests, results, receipts, sent, applied, refused>>
        BY <2>3 DEF ReadConflictingResult, ReadConflictingReceipt, storeVars,
           outboxVars, providerVars
      <3>2. QED
        BY <3>1, QuietStep
    <2>4. QED
      BY <1>5, <2>1, <2>2, <2>3 DEF CompleteSteps
  <1>6. ASSUME NEW h \in Handler, CutOff(h)
        PROVE  UNCHANGED Ledger!ledger
    BY <1>6, QuietStep DEF CutOff, storeVars, outboxVars, providerVars
  <1>7. ASSUME NEW r \in RequestID, GitHub(r)
        PROVE  [Ledger!LedgerNext]_(Ledger!ledger)
    BY <1>7, GitHubSettles DEF Ledger!LedgerNext
  <1>8. CASE \/ \E t \in Target : ForeignChange(t)
             \/ \E r \in RequestID : ShowEffect(r)
             \/ Tick \/ Stabilise \/ UNCHANGED vars
    <2>1. UNCHANGED <<requests, results, receipts, sent, applied, refused>>
      BY <1>8 DEF ForeignChange, ShowEffect, Tick, Stabilise, vars, storeVars,
         outboxVars, providerVars
    <2>2. QED
      BY <2>1, QuietStep
  <1>9. QED
    BY <1>1, <1>2, <1>3, <1>4, <1>5, <1>6, <1>7, <1>8 DEF Next, Serve

\* For any number of handlers, submissions and receipts, through every
\* interleaving, lost answer and cut-off call: what service.go writes and sends
\* is what the ledger allows.
THEOREM ServiceImplementsLedger == Spec => ImplementsLedger
  <1>1. Init => Ledger!LedgerInit
    BY InitIsLedgerInit
  <1>2. IInv /\ IInv' /\ [Next]_vars => [Ledger!LedgerNext]_(Ledger!ledger)
    BY NextIsLedgerNext
  <1>3. Spec => []IInv
    BY Invariance
  <1>4. QED
    BY <1>1, <1>2, <1>3, PTL DEF Spec, ImplementsLedger, Ledger!LedgerSpec
=============================================================================
