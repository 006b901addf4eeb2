-------------------------- MODULE SubmissionProofs --------------------------
(***************************************************************************)
(* What holds of Submission for any number of consoles, clients, people,   *)
(* replicas and calls, and any evidence, catalogs and lengths of time.     *)
(***************************************************************************)
EXTENDS Submission, SequenceTheorems, TLAPS

Label == {"free", "authenticate", "lookup", "evidence", "approvers", "reserve"}
CallField == {"client", "intent", "begun", "now", "asking"}
Requester(k) == UserOf[call[k].client]

WorldTyped ==
    /\ clock \in Time
    /\ role \in [Person -> Role]
    /\ operatorAt \in [Person -> Time \cup {-1}]
    /\ approverAt \in [Person -> Time \cup {-1}]
    /\ filed \subseteq Evidence
    /\ snapshot \in [Repository -> Evidence]

\* Whoever is an operator, or an approver, has been seen to be one just now.
SeenInv ==
    \A p \in Person :
        /\ operatorAt[p] <= clock /\ approverAt[p] <= clock
        /\ role[p] >= Operator => operatorAt[p] = clock
        /\ role[p] >= Approver => approverAt[p] = clock

\* Some replica lets the intent pass.
IsEnabled(intent) ==
    \E replica \in Replica :
        Enabled(Catalog[replica], intent.repository, intent.operation)

\* What GetEvidence checks.
IsApproved(intent, requester, at) ==
    /\ intent.evidence \in filed
    /\ EvidenceCurrent(intent.evidence, at)
    /\ Binds(intent.evidence, intent, requester)
    /\ intent.operation = "cancel" => intent.evidence.superseded

\* Somebody else was seen to be an approver since.
IsSeconded(e, requester, at) ==
    \E a \in Range(e.approvers) \ {requester} : a \in Person /\ approverAt[a] >= at

\* What a call has established on its way.
Entered(k) ==
    /\ call[k].client \in Client
    /\ DOMAIN call[k].intent = IntentField
    /\ call[k].begun <= clock
Admissible(k) ==
    /\ operatorAt[Requester(k)] >= call[k].begun
    /\ IsEnabled(call[k].intent)
Checked(k) == IsApproved(call[k].intent, Requester(k), call[k].now)
Seconded(k) == IsSeconded(call[k].intent.evidence, Requester(k), call[k].now)
ConsoleBound(k) ==
    call[k].client \in Tab =>
        Binds(call[k].intent.evidence, call[k].intent, Requester(k))

CallInv(k) ==
    /\ pc[k] \in Label
    /\ (pc[k] = "free") <=> (call[k] = Free)
    /\ DOMAIN call[k] = CallField
    /\ call[k].begun \in Time /\ call[k].now \in Time
    /\ call[k].now <= clock
    /\ ConsoleBound(k)
    /\ pc[k] # "free" => Entered(k)
    /\ pc[k] \notin {"free", "authenticate"} => Admissible(k)
    /\ pc[k] \in {"approvers", "reserve"} => Checked(k)
    /\ pc[k] = "reserve" => Seconded(k)

CallsInv ==
    /\ DOMAIN call = Call
    /\ pc \in [Call -> Label]
    /\ \A k \in Call : CallInv(k)

\* What is signed went through all of it.
AdmittedInv ==
    \A r \in admitted :
        /\ RequestValid(r)
        /\ IsApproved(r, r.requestedBy, r.issuedAt)
        /\ IsEnabled(r)

TabsInv ==
    /\ form \in [Tab -> Form \cup {None}]
    /\ fetches \in [Tab -> Seq(Fetch)]
    /\ \A t \in Tab : form[t] = None => fetches[t] = <<>>

SubmissionInv == WorldTyped /\ SeenInv /\ CallsInv /\ AdmittedInv /\ TabsInv

-----------------------------------------------------------------------------
(* The properties follow from the invariant.                               *)

LEMMA TypedFromInv == SubmissionInv => SubmissionTypeOK
  BY DEF SubmissionInv, SubmissionTypeOK, WorldTyped, CallsInv, CallInv, Label,
         AdmittedInv, IsApproved, TabsInv

\* What binds a request to its evidence is what Binding covers.
LEMMA ApprovedFromInv == SubmissionInv => ApprovedExactly
<1> SUFFICES ASSUME SubmissionInv, NEW r \in admitted
             PROVE  LET e == r.evidence
                    IN  /\ e \in filed
                        /\ EvidenceCurrent(e, r.issuedAt)
                        /\ Binding(r) = [Binding(r) EXCEPT
                                !.operation = e.operation, !.repository = e.repository,
                                !.workflow = e.workflow, !.main = e.main, !.plan = e.plan,
                                !.reason = e.reason, !.requestedBy = e.requestedBy,
                                !.run = IF e.operation = "refresh" THEN 0 ELSE e.run]
                        /\ e.operation = "cancel" => e.superseded
                        /\ \E replica \in Replica :
                            Enabled(Catalog[replica], r.repository, r.operation)
  BY DEF ApprovedExactly
<1>1. IsApproved(r, r.requestedBy, r.issuedAt) /\ IsEnabled(r)
  BY DEF SubmissionInv, AdmittedInv
<1> DEFINE e == r.evidence
<1>2. Binds(e, r, r.requestedBy)
  BY <1>1 DEF IsApproved
<1>3. Binding(r) = [Binding(r) EXCEPT
        !.operation = e.operation, !.repository = e.repository,
        !.workflow = e.workflow, !.main = e.main, !.plan = e.plan,
        !.reason = e.reason, !.requestedBy = e.requestedBy,
        !.run = IF e.operation = "refresh" THEN 0 ELSE e.run]
  <2>1. PICK b : b = Binding(r)
    OBVIOUS
  <2>2. /\ b.operation = e.operation /\ b.repository = e.repository
        /\ b.workflow = e.workflow /\ b.main = e.main /\ b.plan = e.plan
        /\ b.reason = e.reason /\ b.requestedBy = e.requestedBy
        /\ b.run = IF e.operation = "refresh" THEN 0 ELSE e.run
    BY <1>2, <2>1 DEF Binds, Binding
  <2>3. b = [x \in DOMAIN b |-> b[x]]
    BY <2>1 DEF Binding
  <2>4. /\ b = [b EXCEPT !.operation = e.operation]
        /\ b = [b EXCEPT !.repository = e.repository]
        /\ b = [b EXCEPT !.workflow = e.workflow]
        /\ b = [b EXCEPT !.main = e.main]
        /\ b = [b EXCEPT !.plan = e.plan]
        /\ b = [b EXCEPT !.reason = e.reason]
        /\ b = [b EXCEPT !.requestedBy = e.requestedBy]
        /\ b = [b EXCEPT !.run = IF e.operation = "refresh" THEN 0 ELSE e.run]
    BY <2>2, <2>3
  <2>5. QED
    BY <2>1, <2>4
<1>4. QED
  BY <1>1, <1>2, <1>3 DEF IsApproved, IsEnabled, Binds

\* The invariant says of each request of the console what ConsoleBinds says.
LEMMA ConsoleFromInv == SubmissionInv => ConsoleBinds
  BY DEF SubmissionInv, CallsInv, CallInv, ConsoleBound, ConsoleBinds, Requester

-----------------------------------------------------------------------------
(* The world                                                               *)

LEMMA TimeType ==
  /\ Time \subseteq Nat /\ 0 \in Time
  /\ \A x \in Time \cup {-1} : x \in Int
  BY TimeAssumption DEF Time

\* What the consoles and the calls do leaves the world alone.
LEMMA WorldActions ==
  ASSUME [Next]_vars
  PROVE  \/ UNCHANGED worldVars
         \/ \E p \in Mover : RoleChange(p)
         \/ \E e \in Evidence : Publish(e)
         \/ Tick
  BY DEF Next, vars, Load, Show, Reopen, Unload, SelectRepository, EvidenceAnswer,
         Edit, Submit, Post, Arrive, Authenticate, LookupRequest, GetEvidence,
         AskApprover, Reserve

\* Who is seen at a level is seen now; nobody is forgotten.
LEMMA SeenStep ==
  ASSUME NEW level \in Int, NEW at \in [Person -> Time \cup {-1}],
         clock \in Time, clock' \in Time, clock <= clock',
         role \in [Person -> Role], role' \in [Person -> Role],
         role' = role \/ clock' = clock,
         \A p \in Person : at[p] <= clock /\ (role[p] >= level => at[p] = clock)
  PROVE  /\ Seen(level, at) \in [Person -> Time \cup {-1}]
         /\ \A p \in Person :
                /\ at[p] <= Seen(level, at)[p]
                /\ Seen(level, at)[p] <= clock'
                /\ role'[p] >= level => Seen(level, at)[p] = clock'
<1>1. Seen(level, at) \in [Person -> Time \cup {-1}]
  BY DEF Seen
<1>2. ASSUME NEW p \in Person
      PROVE  /\ at[p] <= Seen(level, at)[p]
             /\ Seen(level, at)[p] <= clock'
             /\ role'[p] >= level => Seen(level, at)[p] = clock'
  <2>1. Seen(level, at)[p] = IF role[p] >= level \/ role'[p] >= level
                             THEN clock' ELSE at[p]
    BY DEF Seen
  <2>2. at[p] \in Int /\ clock \in Int /\ clock' \in Int
    BY TimeType
  <2>3. QED
    BY <2>1, <2>2
<1>3. QED
  BY <1>1, <1>2

\* The world keeps its types; time passes, evidence stays on file, and those
\* who were seen are not forgotten.
LEMMA WorldStep ==
  ASSUME WorldTyped, SeenInv, [Next]_vars
  PROVE  /\ WorldTyped' /\ SeenInv'
         /\ clock <= clock' /\ filed \subseteq filed'
         /\ \A p \in Person : /\ operatorAt[p] <= operatorAt'[p]
                              /\ approverAt[p] <= approverAt'[p]
<1>0. /\ clock \in Int
      /\ \A p \in Person : operatorAt[p] \in Int /\ approverAt[p] \in Int
  BY TimeType DEF WorldTyped
<1>1. CASE UNCHANGED worldVars
  BY <1>0, <1>1 DEF worldVars, WorldTyped, SeenInv
<1>2. ASSUME /\ clock' \in Time /\ clock <= clock' /\ role' \in [Person -> Role]
             /\ role' = role \/ clock' = clock
             /\ operatorAt' = Seen(Operator, operatorAt)
             /\ approverAt' = Seen(Approver, approverAt)
             /\ UNCHANGED <<filed, snapshot>>
      PROVE  /\ WorldTyped' /\ SeenInv'
             /\ clock <= clock' /\ filed \subseteq filed'
             /\ \A p \in Person : /\ operatorAt[p] <= operatorAt'[p]
                                  /\ approverAt[p] <= approverAt'[p]
  <2>1. Operator \in Int /\ Approver \in Int
    BY DEF Operator, Approver
  <2>2. /\ operatorAt' \in [Person -> Time \cup {-1}]
        /\ \A p \in Person :
            /\ operatorAt[p] <= operatorAt'[p] /\ operatorAt'[p] <= clock'
            /\ role'[p] >= Operator => operatorAt'[p] = clock'
    BY <1>2, <2>1, SeenStep DEF WorldTyped, SeenInv
  <2>3. /\ approverAt' \in [Person -> Time \cup {-1}]
        /\ \A p \in Person :
            /\ approverAt[p] <= approverAt'[p] /\ approverAt'[p] <= clock'
            /\ role'[p] >= Approver => approverAt'[p] = clock'
    BY <1>2, <2>1, SeenStep DEF WorldTyped, SeenInv
  <2>4. QED
    BY <1>2, <2>2, <2>3 DEF WorldTyped, SeenInv
<1>3. ASSUME NEW p \in Mover, RoleChange(p)
      PROVE  /\ clock' \in Time /\ clock <= clock' /\ role' \in [Person -> Role]
             /\ role' = role \/ clock' = clock
             /\ operatorAt' = Seen(Operator, operatorAt)
             /\ approverAt' = Seen(Approver, approverAt)
             /\ UNCHANGED <<filed, snapshot>>
  BY <1>0, <1>3, PeopleAssumption DEF RoleChange, WorldTyped
<1>4. ASSUME Tick
      PROVE  /\ clock' \in Time /\ clock <= clock' /\ role' \in [Person -> Role]
             /\ role' = role \/ clock' = clock
             /\ operatorAt' = Seen(Operator, operatorAt)
             /\ approverAt' = Seen(Approver, approverAt)
             /\ UNCHANGED <<filed, snapshot>>
  BY <1>4, TimeAssumption DEF Tick, WorldTyped, Time
<1>5. ASSUME NEW e \in Evidence, Publish(e)
      PROVE  /\ WorldTyped' /\ SeenInv'
             /\ clock <= clock' /\ filed \subseteq filed'
             /\ \A p \in Person : /\ operatorAt[p] <= operatorAt'[p]
                                  /\ approverAt[p] <= approverAt'[p]
  <2>1. /\ UNCHANGED <<clock, role, operatorAt, approverAt>>
        /\ filed' = filed \cup {e}
        /\ snapshot' = [snapshot EXCEPT ![e.repository] = e]
    BY <1>5 DEF Publish
  <2>2. snapshot' \in [Repository -> Evidence]
    BY <2>1 DEF WorldTyped
  <2>3. WorldTyped'
    BY <2>1, <2>2 DEF WorldTyped
  <2>4. SeenInv'
    BY <2>1 DEF SeenInv
  <2>5. QED
    BY <1>0, <2>1, <2>3, <2>4
<1>6. QED
  BY <1>1, <1>2, <1>3, <1>4, <1>5, WorldActions

-----------------------------------------------------------------------------
(* Calls                                                                   *)

LEMMA FreeFields ==
  /\ DOMAIN Free = CallField
  /\ Free.client = None /\ Free.begun = 0 /\ Free.now = 0
  BY DEF Free, CallField

\* A call that is free has established nothing.
LEMMA FreeCall ==
  ASSUME WorldTyped', NEW k \in Call, pc'[k] = "free", call'[k] = Free
  PROVE  CallInv(k)'
<1>1. 0 <= clock' /\ 0 \in Time
  BY TimeType DEF WorldTyped
<1>2. None \notin Tab
  BY NoneAssumption DEF Client
<1>3. ConsoleBound(k)'
  BY <1>2, FreeFields DEF ConsoleBound
<1>4. QED
  BY <1>1, <1>3, FreeFields DEF CallInv, Label

\* The requester of a call is somebody.
LEMMA RequesterType ==
  ASSUME NEW k \in Call, call[k].client \in Client
  PROVE  Requester(k) \in Person
  BY PeopleAssumption DEF Requester

\* What was established of a call stays so whatever happens in the world.
LEMMA EstablishedStays ==
  ASSUME WorldTyped, SeenInv, [Next]_vars, NEW intent, NEW requester \in Person,
         NEW begun \in Time, NEW now \in Time
  PROVE  /\ begun <= clock => begun <= clock'
         /\ operatorAt[requester] >= begun => operatorAt'[requester] >= begun
         /\ IsApproved(intent, requester, now) => IsApproved(intent, requester, now)'
         /\ IsSeconded(intent.evidence, requester, now)
                => IsSeconded(intent.evidence, requester, now)'
<1>1. /\ WorldTyped' /\ clock <= clock' /\ filed \subseteq filed'
      /\ \A p \in Person : /\ operatorAt[p] <= operatorAt'[p]
                           /\ approverAt[p] <= approverAt'[p]
  BY WorldStep
<1>2. /\ clock \in Int /\ clock' \in Int /\ begun \in Int /\ now \in Int
      /\ \A p \in Person : /\ operatorAt[p] \in Int /\ operatorAt'[p] \in Int
                           /\ approverAt[p] \in Int /\ approverAt'[p] \in Int
  BY <1>1, TimeType DEF WorldTyped
<1>3. begun <= clock => begun <= clock'
  BY <1>1, <1>2
<1>4. operatorAt[requester] >= begun => operatorAt'[requester] >= begun
  BY <1>1, <1>2
<1>5. IsApproved(intent, requester, now) => IsApproved(intent, requester, now)'
  BY <1>1 DEF IsApproved
<1>6. ASSUME IsSeconded(intent.evidence, requester, now)
      PROVE  IsSeconded(intent.evidence, requester, now)'
  <2>1. PICK a \in Range(intent.evidence.approvers) \ {requester} :
            a \in Person /\ approverAt[a] >= now
    BY <1>6 DEF IsSeconded
  <2>2. approverAt'[a] >= now
    BY <1>1, <1>2, <2>1
  <2>3. QED
    BY <2>1, <2>2 DEF IsSeconded
<1>7. QED
  BY <1>3, <1>4, <1>5, <1>6

\* A call that a step leaves alone.
LEMMA KeptCall ==
  ASSUME WorldTyped, SeenInv, [Next]_vars, NEW k \in Call, CallInv(k),
         pc'[k] = pc[k], call'[k] = call[k]
  PROVE  CallInv(k)'
<1>1. WorldTyped' /\ clock <= clock'
  BY WorldStep
<1>2. ConsoleBound(k)'
  BY DEF CallInv, ConsoleBound, Requester
<1>3. call[k].now <= clock'
  BY <1>1, TimeType DEF CallInv, WorldTyped
<1>4. CASE pc[k] = "free"
  BY <1>2, <1>3, <1>4 DEF CallInv
<1>5. CASE pc[k] # "free"
  <2>1. Entered(k) /\ call[k].begun \in Time /\ call[k].now \in Time
    BY <1>5 DEF CallInv
  <2>2. Requester(k) \in Person /\ Requester(k)' = Requester(k)
    BY <2>1, RequesterType DEF Entered, Requester
  <2>3. PICK q \in Person : q = Requester(k)
    BY <2>2
  <2>4. PICK b \in Time : b = call[k].begun
    BY <2>1
  <2>5. PICK n \in Time : n = call[k].now
    BY <2>1
  <2>6. PICK i : i = call[k].intent
    OBVIOUS
  <2>7. /\ b <= clock => b <= clock'
        /\ operatorAt[q] >= b => operatorAt'[q] >= b
        /\ IsApproved(i, q, n) => IsApproved(i, q, n)'
        /\ IsSeconded(i.evidence, q, n) => IsSeconded(i.evidence, q, n)'
    BY EstablishedStays
  <2>8. Entered(k)'
    BY <2>1, <2>4, <2>7 DEF Entered
  <2>9. Admissible(k) => Admissible(k)'
    BY <2>2, <2>3, <2>4, <2>7 DEF Admissible, IsEnabled
  <2>10. Checked(k) => Checked(k)'
    BY <2>2, <2>3, <2>5, <2>6, <2>7 DEF Checked, IsApproved
  <2>11. Seconded(k) => Seconded(k)'
    BY <2>2, <2>3, <2>5, <2>6, <2>7 DEF Seconded, IsSeconded
  <2>12. QED
    BY <1>2, <1>3, <1>5, <2>8, <2>9, <2>10, <2>11 DEF CallInv
<1>6. QED
  BY <1>4, <1>5

\* A step of one call leaves the others alone.
LEMMA OneCall ==
  ASSUME WorldTyped, SeenInv, CallsInv, [Next]_vars, NEW k \in Call,
         NEW label \in Label, NEW locals,
         pc' = [pc EXCEPT ![k] = label], call' = [call EXCEPT ![k] = locals],
         CallInv(k)'
  PROVE  CallsInv'
<1>1. DOMAIN call' = Call /\ pc' \in [Call -> Label]
  BY DEF CallsInv
<1>2. ASSUME NEW j \in Call
      PROVE  CallInv(j)'
  <2>1. CASE j = k
    BY <2>1
  <2>2. CASE j # k
    <3>1. pc'[j] = pc[j] /\ call'[j] = call[j] /\ CallInv(j)
      BY <2>2 DEF CallsInv
    <3>2. QED
      BY <3>1, KeptCall
  <2>3. QED
    BY <2>1, <2>2
<1>3. QED
  BY <1>1, <1>2 DEF CallsInv

\* An answer sets its call free.
LEMMA AnswerCalls ==
  ASSUME WorldTyped, SeenInv, CallsInv, [Next]_vars,
         NEW k \in Call, NEW outcome, Answer(k, outcome)
  PROVE  CallsInv'
<1>1. pc' = [pc EXCEPT ![k] = "free"] /\ call' = [call EXCEPT ![k] = Free]
  BY DEF Answer
<1>2. pc'[k] = "free" /\ call'[k] = Free
  BY <1>1 DEF CallsInv
<1>3. CallInv(k)'
  BY <1>2, WorldStep, FreeCall
<1>4. QED
  BY <1>1, <1>3, OneCall DEF Label

\* An arriving call is entered, and binds its evidence if a console sent it.
LEMMA ArriveCalls ==
  ASSUME WorldTyped, SeenInv, CallsInv, [Next]_vars,
         NEW k \in Call, NEW c \in Client, NEW intent, Arrive(k, c, intent),
         DOMAIN intent = IntentField,
         c \in Tab => Binds(intent.evidence, intent, UserOf[c])
  PROVE  CallsInv'
<1> DEFINE locals == [Free EXCEPT !.client = c, !.intent = intent, !.begun = clock]
<1>1. /\ pc' = [pc EXCEPT ![k] = "authenticate"]
      /\ call' = [call EXCEPT ![k] = locals]
  BY DEF Arrive
<1>2. pc'[k] = "authenticate" /\ call'[k] = locals
  BY <1>1 DEF CallsInv
<1>3. clock' = clock /\ clock \in Time /\ 0 \in Time /\ 0 <= clock
  BY TimeType DEF Arrive, worldVars, WorldTyped
<1>4. /\ DOMAIN locals = CallField /\ locals.client = c /\ locals.intent = intent
      /\ locals.begun = clock /\ locals.now = 0
  BY DEF Free, CallField
<1>5. locals # Free
  BY <1>4, FreeFields, NoneAssumption
<1> HIDE DEF locals
<1>6. Entered(k)'
  BY <1>2, <1>3, <1>4, TimeType DEF Entered
<1>7. ConsoleBound(k)'
  BY <1>2, <1>4 DEF ConsoleBound, Requester
<1>8. CallInv(k)'
  BY <1>2, <1>3, <1>4, <1>5, <1>6, <1>7 DEF CallInv, Label
<1>9. QED
  BY <1>1, <1>8, OneCall DEF Label

\* A call that goes on keeps who asks for what; it has read the clock, or not,
\* and has established what its new place demands.
LEMMA GotoCalls ==
  ASSUME WorldTyped, SeenInv, CallsInv, [Next]_vars, UNCHANGED worldVars,
         NEW k \in Call, pc[k] # "free",
         NEW label \in Label \ {"free", "authenticate"}, NEW locals,
         Goto(k, label, locals), DOMAIN locals = CallField,
         locals.client = call[k].client, locals.intent = call[k].intent,
         locals.begun = call[k].begun, locals.now \in {call[k].now, clock},
         Admissible(k),
         label \in {"approvers", "reserve"} => Checked(k) /\ locals.now = call[k].now,
         label = "reserve" => Seconded(k)
  PROVE  CallsInv'
<1>1. pc' = [pc EXCEPT ![k] = label] /\ call' = [call EXCEPT ![k] = locals]
  BY DEF Goto
<1>2. pc'[k] = label /\ call'[k] = locals
  BY <1>1 DEF CallsInv
<1>3. UNCHANGED <<clock, operatorAt, approverAt, filed>>
  BY DEF worldVars
<1>4. CallInv(k) /\ Entered(k)
  BY DEF CallsInv, CallInv
<1>5. Requester(k)' = Requester(k)
  BY <1>2 DEF Requester
<1>6. Entered(k)'
  BY <1>2, <1>3, <1>4 DEF Entered
<1>7. Admissible(k)'
  BY <1>2, <1>3, <1>5 DEF Admissible, IsEnabled
<1>8. label \in {"approvers", "reserve"} => Checked(k)'
  BY <1>2, <1>3, <1>5 DEF Checked, IsApproved
<1>9. label = "reserve" => Seconded(k)'
  BY <1>2, <1>3, <1>5 DEF Seconded, IsSeconded
<1>10. ConsoleBound(k)'
  BY <1>2, <1>4, <1>5 DEF ConsoleBound, CallInv
<1>11. locals.begun \in Time /\ locals.now \in Time /\ locals.now <= clock'
  BY <1>3, <1>4, TimeType DEF CallInv, WorldTyped
<1>12. call'[k] # Free
  BY <1>2, <1>4, FreeFields, NoneAssumption DEF Entered
<1>13. CallInv(k)'
  BY <1>2, <1>6, <1>7, <1>8, <1>9, <1>10, <1>11, <1>12 DEF CallInv
<1>14. QED
  BY <1>1, <1>13, OneCall

-----------------------------------------------------------------------------
(* The steps of a call                                                     *)

\* What a catalog authorises it enables.
LEMMA AuthorizedIsEnabled ==
  ASSUME NEW d, NEW intent, Authorize(d, intent) = "authorized"
  PROVE  Enabled(d, intent.repository, intent.operation)
  BY DEF Authorize

\* createOperation and Authorize establish who asks and that it is enabled.
LEMMA AuthenticateCalls ==
  ASSUME WorldTyped, SeenInv, CallsInv, [Next]_vars,
         NEW k \in Call, Authenticate(k)
  PROVE  CallsInv'
<1>1. pc[k] = "authenticate" /\ UNCHANGED worldVars
  BY DEF Authenticate
<1>2. CASE \E outcome : Answer(k, outcome)
  BY <1>2, AnswerCalls
<1>3. ASSUME NEW replica \in Replica,
             Authorize(Catalog[replica], call[k].intent) = "authorized",
             role[UserOf[call[k].client]] >= Operator,
             Goto(k, "lookup", call[k])
      PROVE  CallsInv'
  <2>1. CallInv(k) /\ Entered(k)
    BY <1>1 DEF CallsInv, CallInv
  <2>2. Requester(k) \in Person
    BY <2>1, RequesterType DEF Entered
  <2>3. operatorAt[Requester(k)] = clock
    BY <1>3, <2>2 DEF SeenInv, Requester
  <2>4. operatorAt[Requester(k)] >= call[k].begun
    BY <2>1, <2>3, TimeType DEF Entered, CallInv, WorldTyped
  <2>5. IsEnabled(call[k].intent)
    BY <1>3, AuthorizedIsEnabled DEF IsEnabled
  <2>6. Admissible(k)
    BY <2>4, <2>5 DEF Admissible
  <2>7. DOMAIN call[k] = CallField
    BY <2>1 DEF CallInv
  <2>8. QED
    BY <1>1, <1>3, <2>6, <2>7, GotoCalls DEF Label
<1>4. QED
  BY <1>2, <1>3, Zenon DEF Authenticate

\* The clock of a call is read once its request was not found stored.
LEMMA LookupCalls ==
  ASSUME WorldTyped, SeenInv, CallsInv, [Next]_vars,
         NEW k \in Call, LookupRequest(k)
  PROVE  CallsInv'
<1>1. pc[k] = "lookup" /\ UNCHANGED worldVars
  BY DEF LookupRequest
<1>2. CASE \E outcome : Answer(k, outcome)
  BY <1>2, AnswerCalls
<1>3. CASE Goto(k, "evidence", [call[k] EXCEPT !.now = clock])
  <2>1. CallInv(k) /\ Admissible(k) /\ DOMAIN call[k] = CallField
    BY <1>1 DEF CallsInv, CallInv
  <2>2. PICK locals : locals = [call[k] EXCEPT !.now = clock]
    OBVIOUS
  <2>3. /\ DOMAIN locals = CallField /\ locals.client = call[k].client
        /\ locals.intent = call[k].intent /\ locals.begun = call[k].begun
        /\ locals.now = clock
    BY <2>1, <2>2 DEF CallField
  <2>4. Goto(k, "evidence", locals)
    BY <1>3, <2>2, Zenon
  <2>5. QED
    BY <1>1, <2>1, <2>3, <2>4, GotoCalls DEF Label
<1>4. QED
  BY <1>2, <1>3, Zenon DEF LookupRequest, Resume

\* validateEvidence establishes that the evidence binds the intent.
LEMMA GetEvidenceCalls ==
  ASSUME WorldTyped, SeenInv, CallsInv, [Next]_vars,
         NEW k \in Call, GetEvidence(k)
  PROVE  CallsInv'
<1>1. pc[k] = "evidence" /\ UNCHANGED worldVars
  BY DEF GetEvidence
<1>2. CASE \E outcome : Answer(k, outcome)
  BY <1>2, AnswerCalls
<1>3. CASE /\ call[k].intent.evidence \in filed
           /\ EvidenceCurrent(call[k].intent.evidence, call[k].now)
           /\ Binds(call[k].intent.evidence, call[k].intent, UserOf[call[k].client])
           /\ call[k].intent.operation = "cancel" => call[k].intent.evidence.superseded
           /\ Goto(k, "approvers", [call[k] EXCEPT !.asking = 1])
  <2>1. CallInv(k) /\ Admissible(k) /\ DOMAIN call[k] = CallField
    BY <1>1 DEF CallsInv, CallInv
  <2>2. Checked(k)
    BY <1>3 DEF Checked, IsApproved, Requester
  <2>3. PICK locals : locals = [call[k] EXCEPT !.asking = 1]
    OBVIOUS
  <2>4. /\ DOMAIN locals = CallField /\ locals.client = call[k].client
        /\ locals.intent = call[k].intent /\ locals.begun = call[k].begun
        /\ locals.now = call[k].now
    BY <2>1, <2>3 DEF CallField
  <2>5. Goto(k, "approvers", locals)
    BY <1>3, <2>3, Zenon
  <2>6. QED
    BY <1>1, <2>1, <2>2, <2>4, <2>5, GotoCalls DEF Label
<1>4. QED
  BY <1>2, <1>3, Zenon DEF GetEvidence

\* validateEvidence establishes the role of the approver.
LEMMA AskApproverCalls ==
  ASSUME WorldTyped, SeenInv, CallsInv, [Next]_vars,
         NEW k \in Call, AskApprover(k)
  PROVE  CallsInv'
<1> DEFINE approvers == call[k].intent.evidence.approvers
           asking == call[k].asking
<1>1. pc[k] = "approvers" /\ UNCHANGED worldVars
  BY DEF AskApprover
<1>2. CallInv(k) /\ Admissible(k) /\ Checked(k) /\ DOMAIN call[k] = CallField
  BY <1>1 DEF CallsInv, CallInv
<1>3. CASE \E outcome : Answer(k, outcome)
  BY <1>3, AnswerCalls
<1>4. CASE Goto(k, "approvers", [call[k] EXCEPT !.asking = asking + 1])
  <2>1. PICK locals : locals = [call[k] EXCEPT !.asking = asking + 1]
    OBVIOUS
  <2>2. /\ DOMAIN locals = CallField /\ locals.client = call[k].client
        /\ locals.intent = call[k].intent /\ locals.begun = call[k].begun
        /\ locals.now = call[k].now
    BY <1>2, <2>1 DEF CallField
  <2>3. QED
    BY <1>1, <1>2, <1>4, <2>1, <2>2, GotoCalls DEF Label
<1>5. CASE /\ asking \in DOMAIN approvers
           /\ approvers[asking] # UserOf[call[k].client]
           /\ role[approvers[asking]] >= Approver
           /\ Goto(k, "reserve", call[k])
  <2>1. call[k].intent.evidence \in Evidence
    BY <1>2 DEF Checked, IsApproved, WorldTyped
  <2>2. approvers \in Seq(Person)
    BY <2>1, PeopleAssumption
  <2>3. PICK a \in Person : a = approvers[asking]
    BY <1>5, <2>2
  <2>4. approverAt[a] = clock
    BY <1>5, <2>3 DEF SeenInv
  <2>5. approverAt[a] >= call[k].now
    BY <1>2, <2>4, TimeType DEF CallInv, WorldTyped
  <2>6. a \in Range(approvers) \ {Requester(k)}
    BY <1>5, <2>3 DEF Range, Requester
  <2>7. Seconded(k)
    BY <2>5, <2>6 DEF Seconded, IsSeconded
  <2>8. QED
    BY <1>1, <1>2, <1>5, <2>7, GotoCalls DEF Label
<1>6. QED
  BY <1>3, <1>4, <1>5, Zenon DEF AskApprover

\* The reservation changes nothing of what was established.
LEMMA ReserveCalls ==
  ASSUME WorldTyped, SeenInv, CallsInv, [Next]_vars, NEW k \in Call, Reserve(k)
  PROVE  CallsInv'
<1>1. \E outcome : Answer(k, outcome)
  BY Zenon DEF Reserve, Resume
<1>2. QED
  BY <1>1, AnswerCalls

\* A console sends what the evidence approves, whichever answers it got.
LEMMA SubmitCalls ==
  ASSUME WorldTyped, SeenInv, CallsInv, [Next]_vars,
         NEW k \in Call, NEW t \in Tab, Submit(t, k)
  PROVE  CallsInv'
<1>1. PICK id \in FreshIDs : Arrive(k, t, IntentOf(form[t], id))
  BY DEF Submit
<1>2. ApprovalMatches(t, form[t])
  BY DEF Submit, CanOperate
<1>3. DOMAIN IntentOf(form[t], id) = IntentField
  BY DEF IntentOf, IntentField
<1>4. Binds(IntentOf(form[t], id).evidence, IntentOf(form[t], id), UserOf[t])
  BY <1>2 DEF ApprovalMatches, IntentOf, Binds
<1>5. t \in Client
  BY DEF Client
<1>6. QED
  BY <1>1, <1>3, <1>4, <1>5, ArriveCalls

\* A new call has established nothing.
LEMMA PostCalls ==
  ASSUME WorldTyped, SeenInv, CallsInv, [Next]_vars,
         NEW k \in Call, NEW c \in Script, Post(c, k)
  PROVE  CallsInv'
<1>1. PICK intent \in Intents : Arrive(k, c, intent)
  BY DEF Post
<1>2. c \in Client /\ c \notin Tab /\ DOMAIN intent = IntentField
  BY ClientAssumption DEF Client
<1>3. QED
  BY <1>1, <1>2, ArriveCalls

\* Steps of no call.
LEMMA OtherCalls ==
  ASSUME WorldTyped, SeenInv, CallsInv, [Next]_vars, UNCHANGED callVars
  PROVE  CallsInv'
<1>1. pc' = pc /\ call' = call
  BY DEF callVars
<1>2. \A k \in Call : CallInv(k)'
  BY <1>1, KeptCall DEF CallsInv
<1>3. QED
  BY <1>1, <1>2 DEF CallsInv

\* Every step keeps what the calls have established.
LEMMA CallsStep ==
  ASSUME WorldTyped, SeenInv, CallsInv, [Next]_vars
  PROVE  CallsInv'
<1>1. CASE \E t \in Tab : \/ Load(t) \/ Reopen(t) \/ Unload(t)
                          \/ SelectRepository(t) \/ EvidenceAnswer(t) \/ Edit(t)
  BY <1>1, OtherCalls DEF Load, Reopen, Show, Unload, SelectRepository,
     EvidenceAnswer, Edit
<1>2. ASSUME NEW k \in Call,
             \/ \E t \in Tab : Submit(t, k)
             \/ \E c \in Script : Post(c, k)
             \/ Authenticate(k) \/ LookupRequest(k) \/ GetEvidence(k)
             \/ AskApprover(k) \/ Reserve(k)
      PROVE  CallsInv'
  BY <1>2, SubmitCalls, PostCalls, AuthenticateCalls, LookupCalls,
     GetEvidenceCalls, AskApproverCalls, ReserveCalls
<1>3. CASE \/ \E p \in Mover : RoleChange(p)
           \/ \E e \in Evidence : Publish(e)
           \/ Tick
  BY <1>3, OtherCalls DEF RoleChange, Publish, Tick
<1>4. CASE UNCHANGED vars
  BY <1>4, OtherCalls DEF vars
<1>5. QED
  BY <1>1, <1>2, <1>3, <1>4 DEF Next

-----------------------------------------------------------------------------
(* What is admitted                                                        *)

\* The request that is signed carries what was submitted.
LEMMA RequestFields ==
  ASSUME NEW k \in Call, DOMAIN call[k].intent = IntentField
  PROVE  /\ \A field \in IntentField : RequestOf(k)[field] = call[k].intent[field]
         /\ RequestOf(k).requestedBy = Requester(k)
         /\ RequestOf(k).issuedAt = call[k].now
  BY DEF RequestOf, IntentField, Requester

\* What approves the one approves the other, and so does what enables it.
LEMMA RequestIsApproved ==
  ASSUME NEW k \in Call, DOMAIN call[k].intent = IntentField,
         Checked(k), IsEnabled(call[k].intent)
  PROVE  /\ IsApproved(RequestOf(k), RequestOf(k).requestedBy, RequestOf(k).issuedAt)
         /\ IsEnabled(RequestOf(k))
<1>1. PICK r : r = RequestOf(k)
  OBVIOUS
<1>2. PICK i : i = call[k].intent
  OBVIOUS
<1>3. /\ r.operation = i.operation /\ r.repository = i.repository
      /\ r.workflow = i.workflow /\ r.run = i.run /\ r.main = i.main
      /\ r.plan = i.plan /\ r.evidence = i.evidence /\ r.reason = i.reason
      /\ r.requestedBy = Requester(k) /\ r.issuedAt = call[k].now
  BY <1>1, <1>2, RequestFields DEF IntentField
<1>4. IsApproved(i, r.requestedBy, r.issuedAt) /\ IsEnabled(i)
  BY <1>2, <1>3 DEF Checked
<1>5. IsApproved(r, r.requestedBy, r.issuedAt)
  BY <1>3, <1>4 DEF IsApproved, Binds
<1>6. IsEnabled(r)
  BY <1>3, <1>4 DEF IsEnabled
<1>7. QED
  BY <1>1, <1>5, <1>6

\* Nothing but Reserve admits a request, which is that of its call.
LEMMA AdmittedBy ==
  ASSUME [Next]_vars
  PROVE  \/ admitted' = admitted
         \/ \E k \in Call :
                /\ pc[k] = "reserve" /\ RequestValid(RequestOf(k))
                /\ admitted' = admitted \cup {RequestOf(k)}
                /\ \E outcome : Answer(k, outcome)
<1>1. ASSUME NEW k \in Call, Reserve(k)
      PROVE  \/ admitted' = admitted
             \/ /\ pc[k] = "reserve" /\ RequestValid(RequestOf(k))
                /\ admitted' = admitted \cup {RequestOf(k)}
                /\ \E outcome : Answer(k, outcome)
  BY <1>1, Zenon DEF Reserve
<1>2. QED
  BY <1>1 DEF Next, vars, Load, Show, Reopen, Unload, SelectRepository,
     EvidenceAnswer, Edit, Submit, Post, Arrive, Authenticate, LookupRequest,
     GetEvidence, AskApprover, RoleChange, Publish, Tick

\* Every step leaves the admitted requests approved; a new one was.
LEMMA AdmittedStep ==
  ASSUME WorldTyped, SeenInv, CallsInv, AdmittedInv, [Next]_vars
  PROVE  AdmittedInv'
<1>1. filed \subseteq filed'
  BY WorldStep
<1>2. \A r : /\ IsApproved(r, r.requestedBy, r.issuedAt)
                    => IsApproved(r, r.requestedBy, r.issuedAt)'
             /\ IsEnabled(r) => IsEnabled(r)'
  BY <1>1 DEF IsApproved, IsEnabled
<1>3. CASE admitted' = admitted
  BY <1>2, <1>3 DEF AdmittedInv
<1>4. ASSUME NEW k \in Call, pc[k] = "reserve", RequestValid(RequestOf(k)),
             admitted' = admitted \cup {RequestOf(k)}
      PROVE  AdmittedInv'
  <2>1. Checked(k) /\ Admissible(k) /\ Entered(k)
    BY <1>4 DEF CallsInv, CallInv
  <2>2. PICK q : q = RequestOf(k)
    OBVIOUS
  <2>3. RequestValid(q) /\ IsApproved(q, q.requestedBy, q.issuedAt) /\ IsEnabled(q)
    BY <1>4, <2>1, <2>2, RequestIsApproved DEF Admissible, Entered
  <2>4. admitted' = admitted \cup {q}
    BY <1>4, <2>2
  <2>5. \A r \in admitted' : /\ RequestValid(r)
                             /\ IsApproved(r, r.requestedBy, r.issuedAt)
                             /\ IsEnabled(r)
    BY <2>3, <2>4 DEF AdmittedInv
  <2>6. QED
    BY <1>2, <2>5 DEF AdmittedInv
<1>5. QED
  BY <1>3, <1>4, AdmittedBy

-----------------------------------------------------------------------------
(* The forms                                                               *)

FormField == {"health", "options", "enabled", "role", "repository", "operation",
              "reason", "selected", "submitting", "message"}

\* A record with the fields of a form is a form.
LEMMA FormByFields ==
  ASSUME NEW f, f = [x \in FormField |-> f[x]],
         f.health \in [Repository -> Evidence], f.options \in Replica,
         f.enabled \in {Catalog[k].connected : k \in Replica}, f.role \in Role,
         f.repository \in Repository, f.operation \in Operation,
         f.reason \in {e.reason : e \in Evidence} \cup {""},
         f.selected \in Evidence \cup {None}, f.submitting \in Call \cup {None},
         f.message \in Outcome \cup {""}
  PROVE  f \in Form
  BY DEF Form, FormField

\* And a form has those fields.
LEMMA FormFields ==
  ASSUME NEW f \in Form
  PROVE  /\ DOMAIN f = FormField
         /\ f # None
         /\ f.health \in [Repository -> Evidence] /\ f.options \in Replica
         /\ f.enabled \in {Catalog[k].connected : k \in Replica} /\ f.role \in Role
         /\ f.repository \in Repository /\ f.operation \in Operation
         /\ f.reason \in {e.reason : e \in Evidence} \cup {""}
         /\ f.selected \in Evidence \cup {None} /\ f.submitting \in Call \cup {None}
         /\ f.message \in Outcome \cup {""}
  BY NoneAssumption DEF Form, FormField

\* A request for evidence names a repository and what its health says.
LEMMA FetchType ==
  ASSUME NEW f, f.repository \in Repository, f.health \in [Repository -> Evidence]
  PROVE  FetchOf(f) \in Fetch
  BY DEF FetchOf, Fetch

\* A new form is a form, whatever the old one was.
LEMMA NewFormType ==
  ASSUME NEW f, DOMAIN f = FormField,
         f.health \in [Repository -> Evidence], f.options \in Replica,
         f.enabled \in {Catalog[k].connected : k \in Replica}, f.role \in Role
  PROVE  NewForm(f) \in Form /\ FetchOf(NewForm(f)) \in Fetch
<1>1. PICK g : g = NewForm(f)
  OBVIOUS
<1>2. /\ g = [x \in FormField |-> g[x]]
      /\ g.health = f.health /\ g.options = f.options
      /\ g.enabled = f.enabled /\ g.role = f.role
      /\ g.repository = Repositories[1] /\ g.operation = "rerun"
      /\ g.reason = "" /\ g.selected = None /\ g.submitting = None
      /\ g.message = ""
  BY <1>1 DEF NewForm, FormField
<1>3. Repositories[1] \in Repository
  BY SnapshotAssumption
<1>4. g \in Form
  BY <1>2, <1>3, FormByFields DEF Operation
<1>5. FetchOf(g) \in Fetch
  BY <1>2, <1>3, FetchType
<1>6. QED
  BY <1>1, <1>4, <1>5

\* A step of one console leaves the others alone.
LEMMA OneTab ==
  ASSUME TabsInv, NEW t \in Tab, NEW f \in Form \cup {None}, NEW s \in Seq(Fetch),
         form' = [form EXCEPT ![t] = f], fetches' = [fetches EXCEPT ![t] = s],
         f = None => s = <<>>
  PROVE  TabsInv'
  BY DEF TabsInv

\* A console that is loaded or opened again shows a new form.
LEMMA ShowTabs ==
  ASSUME TabsInv, NEW t \in Tab, NEW f, DOMAIN f = FormField,
         f.health \in [Repository -> Evidence], f.options \in Replica,
         f.enabled \in {Catalog[k].connected : k \in Replica}, f.role \in Role,
         Show(t, f)
  PROVE  TabsInv'
<1>1. NewForm(f) \in Form /\ FetchOf(NewForm(f)) \in Fetch
  BY NewFormType
<1>2. NewForm(f) # None
  BY <1>1, NoneAssumption
<1>3. <<FetchOf(NewForm(f))>> \in Seq(Fetch)
  BY <1>1
<1>4. QED
  BY <1>1, <1>2, <1>3, OneTab DEF Show

\* Opening and closing a form.
LEMMA OpenTabs ==
  ASSUME WorldTyped, TabsInv, NEW t \in Tab, Load(t) \/ Reopen(t) \/ Unload(t)
  PROVE  TabsInv'
<1>1. CASE Load(t)
  <2>1. PICK options \in Replica, session \in Replica :
            Show(t, [health |-> snapshot, options |-> options,
                     enabled |-> Catalog[session].connected,
                     role |-> role[UserOf[t]], repository |-> None,
                     operation |-> None, reason |-> None, selected |-> None,
                     submitting |-> None, message |-> None])
    BY <1>1 DEF Load
  <2>2. PICK f : f = [health |-> snapshot, options |-> options,
                     enabled |-> Catalog[session].connected,
                     role |-> role[UserOf[t]], repository |-> None,
                     operation |-> None, reason |-> None, selected |-> None,
                     submitting |-> None, message |-> None]
    OBVIOUS
  <2>3. role[UserOf[t]] \in Role
    BY PeopleAssumption DEF WorldTyped, Client
  <2>4. /\ DOMAIN f = FormField
        /\ f.health \in [Repository -> Evidence] /\ f.options \in Replica
        /\ f.enabled \in {Catalog[k].connected : k \in Replica} /\ f.role \in Role
    BY <2>2, <2>3 DEF FormField, WorldTyped
  <2>5. Show(t, f)
    BY <2>1, <2>2, Zenon
  <2>6. QED
    BY <2>4, <2>5, ShowTabs
<1>2. CASE Reopen(t)
  <2>1. form[t] \in Form /\ Show(t, form[t])
    BY <1>2 DEF Reopen, TabsInv
  <2>2. QED
    BY <2>1, FormFields, ShowTabs
<1>3. CASE Unload(t)
  <2>1. None \in Form \cup {None} /\ <<>> \in Seq(Fetch)
    OBVIOUS
  <2>2. /\ form' = [form EXCEPT ![t] = None]
        /\ fetches' = [fetches EXCEPT ![t] = <<>>]
    BY <1>3 DEF Unload
  <2>3. QED
    BY <2>1, <2>2, OneTab
<1>4. QED
  BY <1>1, <1>2, <1>3

\* The selection of a repository starts one more request for evidence.
LEMMA SelectRepositoryTabs ==
  ASSUME TabsInv, NEW t \in Tab, SelectRepository(t)
  PROVE  TabsInv'
<1>1. PICK r \in Repository \ {form[t].repository} :
        /\ form' = [form EXCEPT ![t] = [form[t] EXCEPT !.repository = r]]
        /\ fetches' = [fetches EXCEPT ![t] =
                Append(fetches[t], FetchOf([form[t] EXCEPT !.repository = r]))]
  BY DEF SelectRepository
<1>2. form[t] \in Form /\ fetches[t] \in Seq(Fetch)
  BY DEF SelectRepository, TabsInv
<1>3. PICK f : f = [form[t] EXCEPT !.repository = r]
  OBVIOUS
<1>4. f \in Form
  BY <1>2, <1>3 DEF Form
<1>5. f # None /\ FetchOf(f) \in Fetch
  BY <1>4, FormFields, FetchType
<1>6. Append(fetches[t], FetchOf(f)) \in Seq(Fetch)
  BY <1>2, <1>5
<1>7. QED
  BY <1>1, <1>3, <1>4, <1>5, <1>6, OneTab

\* A sequence without one of its members.
LEMMA RemoveType ==
  ASSUME NEW S, NEW s \in Seq(S), NEW i \in DOMAIN s
  PROVE  RemoveAt(s, i) \in Seq(S)
<1>1. i \in 1..Len(s) /\ Len(s) \in Nat
  OBVIOUS
<1>2. SubSeq(s, 1, i - 1) \in Seq(S)
  BY <1>1
<1>3. SubSeq(s, i + 1, Len(s)) \in Seq(S)
  BY <1>1
<1>4. QED
  BY <1>2, <1>3, ConcatProperties DEF RemoveAt

\* Evidence that arrives leaves a form.
LEMMA WithEvidenceType ==
  ASSUME NEW f \in Form, NEW fetch \in Fetch, EvidenceValid(fetch.evidence)
  PROVE  WithEvidence(f, fetch) \in Form
<1>1. fetch.evidence \in Evidence /\ fetch.evidence.operation \in Operation
  BY DEF Fetch, EvidenceValid
<1>2. PICK e \in Evidence : e = fetch.evidence
  BY <1>1
<1>3. PICK op \in Operation :
        op = IF Supported([f EXCEPT !.repository = fetch.repository], e.operation)
             THEN e.operation ELSE f.operation
  BY <1>1, <1>2, FormFields
<1>4. WithEvidence(f, fetch) =
        [f EXCEPT !.selected = e, !.reason = e.reason, !.operation = op]
  BY <1>2, <1>3 DEF WithEvidence
<1>5. e.reason \in {d.reason : d \in Evidence} \cup {""}
  OBVIOUS
<1>6. QED
  BY <1>2, <1>3, <1>4, <1>5 DEF Form

\* Evidence that arrives, however late, goes into the form.
LEMMA EvidenceAnswerTabs ==
  ASSUME TabsInv, NEW t \in Tab, EvidenceAnswer(t)
  PROVE  TabsInv'
<1>1. PICK i \in DOMAIN fetches[t] :
        /\ fetches' = [fetches EXCEPT ![t] = RemoveAt(fetches[t], i)]
        /\ \/ /\ EvidenceValid(fetches[t][i].evidence)
              /\ form' = [form EXCEPT ![t] = WithEvidence(form[t], fetches[t][i])]
           \/ form' = [form EXCEPT ![t] = [form[t] EXCEPT !.message = "problem"]]
  BY DEF EvidenceAnswer
<1>2. fetches[t] \in Seq(Fetch) /\ fetches[t] # <<>>
  BY <1>1 DEF TabsInv
<1>3. form[t] \in Form
  BY <1>2 DEF TabsInv
<1>4. fetches[t][i] \in Fetch
  BY <1>2
<1>5. RemoveAt(fetches[t], i) \in Seq(Fetch)
  BY <1>2, RemoveType
<1>6. PICK f \in Form : form' = [form EXCEPT ![t] = f]
  <2>1. CASE /\ EvidenceValid(fetches[t][i].evidence)
             /\ form' = [form EXCEPT ![t] = WithEvidence(form[t], fetches[t][i])]
    BY <1>3, <1>4, <2>1, WithEvidenceType
  <2>2. CASE form' = [form EXCEPT ![t] = [form[t] EXCEPT !.message = "problem"]]
    <3>1. [form[t] EXCEPT !.message = "problem"] \in Form
      BY <1>3 DEF Form, Outcome
    <3>2. QED
      BY <2>2, <3>1
  <2>3. QED
    BY <1>1, <2>1, <2>2
<1>7. f # None
  BY FormFields
<1>8. QED
  BY <1>1, <1>5, <1>6, <1>7, OneTab

\* Steps that change the form of one console and wait for no evidence.
LEMMA FormTabs ==
  ASSUME TabsInv, NEW t \in Tab, NEW f \in Form, form' = [form EXCEPT ![t] = f],
         UNCHANGED fetches
  PROVE  TabsInv'
<1>1. f # None
  BY FormFields
<1>2. QED
  BY <1>1 DEF TabsInv

\* The user changes the operation or the reason.
LEMMA EditTabs ==
  ASSUME TabsInv, NEW t \in Tab, Edit(t)
  PROVE  TabsInv'
<1>1. form[t] \in Form
  BY DEF Edit, TabsInv
<1>2. ASSUME NEW op \in Operation,
             form' = [form EXCEPT ![t] = [form[t] EXCEPT !.operation = op]]
      PROVE  TabsInv'
  <2>1. [form[t] EXCEPT !.operation = op] \in Form
    BY <1>1 DEF Form
  <2>2. QED
    BY <1>2, <2>1, FormTabs DEF Edit
<1>3. ASSUME NEW e \in Evidence,
             form' = [form EXCEPT ![t] = [form[t] EXCEPT !.reason = e.reason]]
      PROVE  TabsInv'
  <2>1. e.reason \in {d.reason : d \in Evidence} \cup {""}
    OBVIOUS
  <2>2. [form[t] EXCEPT !.reason = e.reason] \in Form
    BY <1>1, <2>1 DEF Form
  <2>3. QED
    BY <1>3, <2>2, FormTabs DEF Edit
<1>4. QED
  BY <1>2, <1>3 DEF Edit

\* A form that is submitted waits for its call.
LEMMA SubmitTabs ==
  ASSUME TabsInv, NEW k \in Call, NEW t \in Tab, Submit(t, k)
  PROVE  TabsInv'
<1>1. form[t] \in Form
  BY DEF Submit, TabsInv
<1>2. form' = [form EXCEPT ![t] = [form[t] EXCEPT !.submitting = k, !.message = ""]]
  BY DEF Submit, TabsInv
<1>3. [form[t] EXCEPT !.submitting = k, !.message = ""] \in Form
  BY <1>1 DEF Form
<1>4. QED
  BY <1>2, <1>3, FormTabs DEF Submit

\* What an answer leaves of a form.
LEMMA AnsweredType ==
  ASSUME NEW f \in Form, NEW outcome
  PROVE  [f EXCEPT !.submitting = None,
                   !.message = IF outcome \in Outcome THEN outcome ELSE "problem",
                   !.reason = IF outcome = "receipt" THEN "" ELSE @] \in Form
<1>1. PICK m \in Outcome : m = IF outcome \in Outcome THEN outcome ELSE "problem"
  BY DEF Outcome
<1>2. PICK r \in {e.reason : e \in Evidence} \cup {""} :
        r = IF outcome = "receipt" THEN "" ELSE f.reason
  BY FormFields
<1>3. [f EXCEPT !.submitting = None,
                !.message = IF outcome \in Outcome THEN outcome ELSE "problem",
                !.reason = IF outcome = "receipt" THEN "" ELSE @]
      = [f EXCEPT !.submitting = None, !.message = m, !.reason = r]
  BY <1>1, <1>2, FormFields DEF FormField
<1>4. [f EXCEPT !.submitting = None, !.message = m, !.reason = r] \in Form
  BY DEF Form
<1>5. QED
  BY <1>3, <1>4

\* A form is told the outcome of the call that it waits for.
LEMMA AnswerTabs ==
  ASSUME TabsInv, NEW k \in Call, NEW outcome, Answer(k, outcome)
  PROVE  TabsInv'
<1>1. /\ UNCHANGED fetches
      /\ form' = [t \in Tab |->
                IF form[t] # None /\ t = call[k].client /\ form[t].submitting = k
                THEN [form[t] EXCEPT !.submitting = None,
                          !.message = IF outcome \in Outcome THEN outcome
                                      ELSE "problem",
                          !.reason = IF outcome = "receipt" THEN "" ELSE @]
                ELSE form[t]]
  BY DEF Answer
<1>2. ASSUME NEW t \in Tab
      PROVE  /\ form'[t] \in Form \cup {None}
             /\ form'[t] = None => form[t] = None
  <2>1. CASE form[t] # None /\ t = call[k].client /\ form[t].submitting = k
    <3>1. form[t] \in Form
      BY <2>1 DEF TabsInv
    <3>2. form'[t] \in Form
      BY <1>1, <2>1, <3>1, AnsweredType
    <3>3. QED
      BY <3>2, FormFields
  <2>2. CASE ~(form[t] # None /\ t = call[k].client /\ form[t].submitting = k)
    BY <1>1, <2>2 DEF TabsInv
  <2>3. QED
    BY <2>1, <2>2
<1>3. DOMAIN form' = Tab /\ form' = [t \in DOMAIN form' |-> form'[t]]
  BY <1>1
<1>4. QED
  BY <1>1, <1>2, <1>3 DEF TabsInv

\* An API step either answers or leaves the forms alone.
LEMMA ApiTabs ==
  ASSUME TabsInv, NEW k \in Call,
         \/ Authenticate(k) \/ LookupRequest(k) \/ GetEvidence(k)
         \/ AskApprover(k) \/ Reserve(k)
  PROVE  TabsInv'
<1>1. (\E outcome : Answer(k, outcome)) \/ UNCHANGED tabVars
  BY Zenon DEF Authenticate, LookupRequest, GetEvidence, AskApprover, Reserve,
     Resume, Goto
<1>2. QED
  BY <1>1, AnswerTabs DEF TabsInv, tabVars

\* Every step leaves each tab with a form or closed.
LEMMA TabsStep ==
  ASSUME WorldTyped, TabsInv, [Next]_vars
  PROVE  TabsInv'
<1>1. ASSUME NEW t \in Tab,
             \/ Load(t) \/ Reopen(t) \/ Unload(t)
             \/ SelectRepository(t) \/ EvidenceAnswer(t) \/ Edit(t)
      PROVE  TabsInv'
  BY <1>1, OpenTabs, SelectRepositoryTabs, EvidenceAnswerTabs, EditTabs
<1>2. ASSUME NEW k \in Call,
             \/ \E t \in Tab : Submit(t, k)
             \/ \E c \in Script : Post(c, k)
             \/ Authenticate(k) \/ LookupRequest(k) \/ GetEvidence(k)
             \/ AskApprover(k) \/ Reserve(k)
      PROVE  TabsInv'
  <2>1. CASE \E c \in Script : Post(c, k)
    BY <2>1 DEF Post, TabsInv, tabVars
  <2>2. QED
    BY <1>2, <2>1, SubmitTabs, ApiTabs
<1>3. CASE \/ \E p \in Mover : RoleChange(p)
           \/ \E e \in Evidence : Publish(e)
           \/ Tick
  BY <1>3 DEF RoleChange, Publish, Tick, TabsInv, tabVars
<1>4. CASE UNCHANGED vars
  BY <1>4 DEF vars, TabsInv, tabVars
<1>5. QED
  BY <1>1, <1>2, <1>3, <1>4 DEF Next

-----------------------------------------------------------------------------
(* The theorems                                                            *)

LEMMA SubmissionInit == Init => SubmissionInv
<1> SUFFICES ASSUME Init PROVE SubmissionInv
  OBVIOUS
<1>1. 0 \in Time /\ 0 \in Nat
  BY TimeType
<1>2. snapshot \in [Repository -> Evidence] /\ filed \subseteq Evidence
  BY SnapshotAssumption DEF Init, Range
<1>3. WorldTyped
  BY <1>1, <1>2, PeopleAssumption DEF Init, WorldTyped
<1>4. SeenInv
  <2>1. \A p \in Person :
            /\ operatorAt[p] = IF role[p] >= Operator THEN 0 ELSE -1
            /\ approverAt[p] = IF role[p] >= Approver THEN 0 ELSE -1
    BY DEF Init
  <2>2. clock = 0
    BY DEF Init
  <2>3. QED
    BY <2>1, <2>2 DEF SeenInv
<1>5. CallsInv
  <2>1. \A k \in Call : pc[k] = "free" /\ call[k] = Free
    BY DEF Init
  <2>2. None \notin Tab
    BY NoneAssumption DEF Client
  <2>3. \A k \in Call : ConsoleBound(k)
    BY <2>1, <2>2, FreeFields DEF ConsoleBound
  <2>4. \A k \in Call : CallInv(k)
    BY <1>1, <2>1, <2>3, FreeFields DEF CallInv, Label, Init
  <2>5. QED
    BY <2>4 DEF CallsInv, Init, Label
<1>6. AdmittedInv
  BY DEF Init, AdmittedInv
<1>7. TabsInv
  BY DEF Init, TabsInv
<1>8. QED
  BY <1>3, <1>4, <1>5, <1>6, <1>7 DEF SubmissionInv

\* The inductive invariant holds in every reachable state.
THEOREM SubmissionInvariance == Spec => []SubmissionInv
<1>1. Init => SubmissionInv
  BY SubmissionInit
<1>2. SubmissionInv /\ [Next]_vars => SubmissionInv'
  BY WorldStep, CallsStep, AdmittedStep, TabsStep DEF SubmissionInv
<1>3. QED
  BY <1>1, <1>2, PTL DEF Spec

\* Everything has its type; what is signed can be verified when it is read
\* back, and a form that is gone waits for nothing (Operations, Create).
THEOREM SubmissionTyped == Spec => []SubmissionTypeOK
  BY SubmissionInvariance, TypedFromInv, PTL

\* What is admitted is what its evidence approves, whatever else happens
\* while it is checked (validateEvidence).
THEOREM AdmittedIsApproved == Spec => []ApprovedExactly
  BY SubmissionInvariance, ApprovedFromInv, PTL

\* A console submits nothing that its evidence does not approve, however many
\* answers are on their way to it (Operations, validateEvidence).
THEOREM ConsoleIsBound == Spec => []ConsoleBinds
  BY SubmissionInvariance, ConsoleFromInv, PTL

\* What was established when a request is admitted.
LEMMA AdmissionStep ==
  ASSUME SubmissionInv, [Next]_vars, NEW r \in admitted' \ admitted
  PROVE  \E k \in Call :
            /\ pc[k] = "reserve" /\ pc'[k] = "free"
            /\ r = RequestOf(k)
            /\ operatorAt'[r.requestedBy] >= call[k].begun
            /\ \E a \in Range(r.evidence.approvers) \ {r.requestedBy} :
                approverAt'[a] >= r.issuedAt
<1>1. PICK k \in Call : /\ pc[k] = "reserve" /\ r = RequestOf(k)
                        /\ \E outcome : Answer(k, outcome)
  BY AdmittedBy
<1>2. pc'[k] = "free"
  BY <1>1 DEF Answer, SubmissionInv, CallsInv
<1>3. CallInv(k) /\ Entered(k) /\ Admissible(k) /\ Seconded(k)
  BY <1>1 DEF SubmissionInv, CallsInv, CallInv
<1>4. /\ r.requestedBy = Requester(k) /\ r.issuedAt = call[k].now
      /\ r.evidence = call[k].intent.evidence
  BY <1>1, <1>3, RequestFields DEF Entered, IntentField
<1>5. Requester(k) \in Person
  BY <1>3, RequesterType DEF Entered
<1>6. PICK q \in Person, b \in Time, n \in Time :
        q = Requester(k) /\ b = call[k].begun /\ n = call[k].now
  BY <1>3, <1>5 DEF CallInv
<1>7. PICK i : i = call[k].intent
  OBVIOUS
<1>8. operatorAt[q] >= b /\ IsSeconded(i.evidence, q, n)
  BY <1>3, <1>6, <1>7 DEF Admissible, Seconded
<1>9. operatorAt'[q] >= b /\ IsSeconded(i.evidence, q, n)'
  BY <1>8, EstablishedStays DEF SubmissionInv
<1>10. PICK a \in Range(i.evidence.approvers) \ {q} : approverAt'[a] >= n
  BY <1>9 DEF IsSeconded
<1>11. QED
  BY <1>1, <1>2, <1>4, <1>6, <1>7, <1>9, <1>10

\* Nothing is admitted but on the word of two people who could give it while
\* the call was served (Server.createOperation, validateEvidence).
THEOREM TwoAuthorise == Spec => AuthorisedByTwo
<1>1. SubmissionInv /\ [Next]_vars =>
        [\A r \in admitted' \ admitted :
            \E k \in Call :
                /\ pc[k] = "reserve" /\ pc'[k] = "free"
                /\ r = RequestOf(k)
                /\ operatorAt'[r.requestedBy] >= call[k].begun
                /\ \E a \in Range(r.evidence.approvers) \ {r.requestedBy} :
                    approverAt'[a] >= r.issuedAt]_vars
  BY AdmissionStep
<1>2. QED
  BY <1>1, SubmissionInvariance, PTL DEF Spec, AuthorisedByTwo
=============================================================================
