---------------------------- MODULE GitHubBroker ----------------------------
(***************************************************************************)
(* The broker of estate-ci (src/internal/githubapp/client.go) and as much  *)
(* of GitHub as it looks at, while the operation service handles one       *)
(* request with it.  A Caller is a goroutine of the service.  Each request *)
(* to GitHub is a step, so the two reads of Prepare, the mutation and its  *)
(* answer interleave with other callers and with whatever else happens to  *)
(* the branch, the run and the workflow.                                   *)
(***************************************************************************)
EXTENDS Integers, Sequences, FiniteSets, FiniteSetsExt

CONSTANTS
    Caller,       \* goroutines that serve this request
    Sha,          \* commits that are or were the head of main
    RequestSha,   \* request.ProtectedMainSHA
    PerPage,      \* runs in one answer to a listing, 100 in the code
    Unreadable,   \* pages of runs that exceed the 256 KiB read of an answer
    Steady,       \* when requests to GitHub stop failing: never, eventually
    MaxOthers,    \* bound: changes that others make, and runs they add
    None,         \* an absent token
    Unsendable    \* the recovery token of rejectedPreparation

ASSUME ShaAssumption == RequestSha \in Sha
ASSUME ListAssumption == PerPage \in Nat /\ PerPage >= 2
ASSUME BrokerBound == MaxOthers \in Nat /\ Steady \in {"never", "eventually"}

Operation == {"refresh", "rerun", "cancel"}

\* What recoveryState keeps of the target.  The last two fields are not in
\* the code: what had happened to the target when it was observed.
State == [baselineRunID : Nat, baselineRunAttempt : Nat,
          cancellations : Nat, others : Nat]

\* Whoever reads a stored token can tell what it is.
ASSUME TokenAssumption ==
    /\ None # Unsendable
    /\ None \notin State \cup Nat
    /\ Unsendable \notin State \cup Nat

\* The run a rerun or a cancellation is about, as ObserveRun reads it.
Run == [sha : Sha, branch : {"main", "topic"},
        status : {"queued", "in_progress", "completed"},
        conclusion : {"none", "success", "failure", "cancelled"},
        attempt : Nat]

VARIABLES
    operation,      \* request.Operation
    main,           \* the main branch: its head and whether it is protected
    run,            \* the run that request.WorkflowRunID names
    dispatched,     \* heads of the workflow's dispatched runs, by run ID
    cancellations,  \* how often the run was cancelled
    others,         \* how often others changed what recovery looks at
    own,            \* the run that the request's own dispatch created, or 0
    sent, applied, refused, shown,   \* what became of the mutation
    token,          \* the recovery token of the stored dispatch record
    pc, held,       \* where each caller is and the token it prepared
    outcome,        \* its last outcome from Dispatch or Recover
    reference,      \* the run that outcome refers to, or 0
    steady          \* no request fails and no caller is cut off any more

targetVars   == <<run, dispatched, cancellations, others, own>>
mutationVars == <<sent, applied, refused, shown>>
callerVars   == <<pc, held, outcome, reference>>
vars == <<operation, main, targetVars, mutationVars, token, callerVars, steady>>

-----------------------------------------------------------------------------
(* What the broker reads                                                   *)

\* ObserveWorkflowRuns: the runs at the request's commit, at most a page of
\* them, the newest first.
Matching == {id \in DOMAIN dispatched : dispatched[id] = RequestSha}
Listing ==
    {id \in Matching : Cardinality({k \in Matching : k > id}) < PerPage}

\* The answer is read up to a fixed length; one that is longer is an error.
ListingReadable == Listing \notin Unreadable

MainAsRequested == main.protected /\ main.sha = RequestSha

RunAsRequested == run.sha = RequestSha /\ run.branch = "main"

\* Variant: a run that is still going on may be rerun.
RunStateAny == TRUE

\* What Broker.Prepare demands of the run.
RunState ==
    /\ operation = "rerun" =>
        /\ run.status = "completed"
        /\ run.conclusion \notin {"success", "none"}
    /\ operation = "cancel" => run.status \in {"queued", "in_progress"}

\* The state that the recovery token keeps.
Baseline ==
    [baselineRunID |-> IF operation = "refresh" THEN Max(Listing \cup {0}) ELSE 0,
     baselineRunAttempt |-> IF operation = "refresh" THEN 0 ELSE run.attempt,
     cancellations |-> cancellations, others |-> others]

-----------------------------------------------------------------------------
(* Broker.Prepare, and what Service.prepare makes of it                    *)

At(c, label) == pc' = [pc EXCEPT ![c] = label]

\* The service prepares when it finds no dispatch record.
StartPrepare(c) ==
    /\ pc[c] = "idle"
    /\ token = None
    /\ At(c, "observeMain")
    /\ UNCHANGED <<operation, main, targetVars, mutationVars, token, held,
                   outcome, reference, steady>>

\* Variant: a rejected preparation leaves the token empty.
ObserveMainWithoutToken(c) ==
    /\ pc[c] = "observeMain"
    /\ \/ MainAsRequested /\ At(c, "observeTarget")
       \/ (~MainAsRequested \/ ~steady) /\ At(c, "record")
    /\ UNCHANGED <<operation, main, targetVars, mutationVars, token, held,
                   outcome, reference, steady>>

\* A read that fails rejects the preparation like one that finds the branch
\* changed.
ObserveMain(c) ==
    /\ pc[c] = "observeMain"
    /\ \/ /\ MainAsRequested
          /\ At(c, "observeTarget")
          /\ held' = held
       \/ /\ ~MainAsRequested \/ ~steady
          /\ At(c, "record")
          /\ held' = [held EXCEPT ![c] = Unsendable]
    /\ UNCHANGED <<operation, main, targetVars, mutationVars, token, outcome,
                   reference, steady>>

TargetAsRequested ==
    IF operation = "refresh" THEN ListingReadable ELSE RunAsRequested /\ RunState

ObserveTarget(c) ==
    /\ pc[c] = "observeTarget"
    /\ \/ /\ TargetAsRequested
          /\ held' = [held EXCEPT ![c] = Baseline]
       \/ /\ ~TargetAsRequested \/ ~steady
          /\ held' = [held EXCEPT ![c] = Unsendable]
    /\ At(c, "record")
    /\ UNCHANGED <<operation, main, targetVars, mutationVars, token, outcome,
                   reference, steady>>

\* PutDispatch creates the record or finds one: only its creator goes on.
Record(c) ==
    /\ pc[c] = "record"
    /\ \/ /\ token = None
          /\ token' = held[c]
          /\ At(c, IF held[c] = Unsendable THEN "rejected" ELSE "dispatch")
       \/ /\ token # None
          /\ token' = token
          /\ At(c, "idle")
    /\ held' = [held EXCEPT ![c] = None]
    /\ UNCHANGED <<operation, main, targetVars, mutationVars, outcome,
                   reference, steady>>

Answer(c, verdict, id) ==
    /\ outcome' = [outcome EXCEPT ![c] = verdict]
    /\ reference' = [reference EXCEPT ![c] = id]

FinalPreparation(c) ==
    /\ pc[c] = "rejected"
    /\ Answer(c, "rejected", 0)
    /\ At(c, "idle")
    /\ UNCHANGED <<operation, main, targetVars, mutationVars, token, held, steady>>

-----------------------------------------------------------------------------
(* Broker.Dispatch                                                         *)

\* Client.mutate, unless there is no installation token to send it with.
Mutate(c) ==
    /\ pc[c] = "dispatch"
    /\ \/ /\ sent' = sent + 1
          /\ At(c, "response")
          /\ UNCHANGED <<outcome, reference>>
       \/ /\ ~steady
          /\ sent' = sent
          /\ Answer(c, "pending", 0)
          /\ At(c, "idle")
    /\ UNCHANGED <<operation, main, targetVars, applied, refused, shown, token,
                   held, steady>>

\* Variant: every status but the expected one is a rejection.
ServerErrorRejects(c) ==
    /\ pc[c] = "response"
    /\ \/ applied > 0 /\ Answer(c, "accepted", 0)
       \/ (refused > 0 \/ ~steady) /\ Answer(c, "rejected", 0)
    /\ At(c, "idle")
    /\ UNCHANGED <<operation, main, targetVars, mutationVars, token, held, steady>>

\* The expected status, another one below 500, or a 5xx, a timeout and a
\* lost connection, which say nothing.
Response(c) ==
    /\ pc[c] = "response"
    /\ \/ applied > 0 /\ Answer(c, "accepted", 0)
       \/ refused > 0 /\ Answer(c, "rejected", 0)
       \/ ~steady /\ Answer(c, "pending", 0)
    /\ At(c, "idle")
    /\ UNCHANGED <<operation, main, targetVars, mutationVars, token, held, steady>>

-----------------------------------------------------------------------------
(* Broker.Recover                                                          *)

\* Variant: the newest of several runs is taken for the request's own.
NewestRuns == {Max(Listing \cup {0})} \ {0}

NewerRuns == {id \in Listing : id > token.baselineRunID}

\* Variant: a rerun counts only when it has ended.
ShownByEndedRun ==
    /\ run.sha = RequestSha /\ run.status = "completed"
    /\ \/ operation = "rerun" /\ run.attempt > token.baselineRunAttempt
       \/ operation = "cancel" /\ run.conclusion = "cancelled"

ShownByRun ==
    /\ run.sha = RequestSha
    /\ \/ operation = "rerun" /\ run.attempt > token.baselineRunAttempt
       \/ operation = "cancel" /\ run.status = "completed" /\ run.conclusion = "cancelled"

ShownByListing == ListingReadable /\ Cardinality(NewerRuns) = 1

\* What the service asks for whenever it finds a dispatch record without a
\* result.  A token that is not a recovery state is a final rejection.
Recover(c) ==
    /\ pc[c] = "idle"
    /\ \/ /\ token = Unsendable
          /\ Answer(c, "rejected", 0)
       \/ /\ token \notin {None, Unsendable}
          /\ \/ /\ operation = "refresh" /\ ShownByListing
                /\ \E id \in NewerRuns : Answer(c, "accepted", id)
             \/ /\ operation # "refresh" /\ ShownByRun
                /\ Answer(c, "accepted", 0)
             \/ /\ IF operation = "refresh" THEN ~ShownByListing ELSE ~ShownByRun
                /\ Answer(c, "pending", 0)
             \/ ~steady /\ Answer(c, "pending", 0)
    /\ UNCHANGED <<operation, main, targetVars, mutationVars, token, pc, held, steady>>

-----------------------------------------------------------------------------
(* GitHub and other actors                                                 *)

Rerun ==
    /\ run.status = "completed"
    /\ run' = [run EXCEPT !.status = "queued", !.conclusion = "none",
                          !.attempt = @ + 1]
    /\ UNCHANGED <<dispatched, cancellations>>

Cancel ==
    /\ run.status # "completed"
    /\ run' = [run EXCEPT !.status = "completed", !.conclusion = "cancelled"]
    /\ cancellations' = cancellations + 1
    /\ UNCHANGED dispatched

DispatchWorkflow(sha) ==
    /\ dispatched' = Append(dispatched, sha)
    /\ UNCHANGED <<run, cancellations>>

\* GitHub takes the mutation on or turns it down, whatever the caller sees
\* of its answer.
Apply ==
    /\ applied + refused < sent
    /\ applied' = applied + 1
    /\ UNCHANGED <<operation, main, targetVars, sent, refused, shown, token,
                   callerVars, steady>>

Refuse ==
    /\ applied + refused < sent
    /\ refused' = refused + 1
    /\ UNCHANGED <<operation, main, targetVars, sent, applied, shown, token,
                   callerVars, steady>>

\* The effect is there for all to see, some time after the answer.
Show ==
    /\ shown < applied
    /\ shown' = shown + 1
    /\ \/ operation = "rerun" /\ Rerun /\ own' = own
       \/ operation = "cancel" /\ Cancel /\ own' = own
       \/ /\ operation = "refresh"
          /\ DispatchWorkflow(RequestSha)
          /\ own' = Len(dispatched) + 1
    /\ UNCHANGED <<operation, main, others, sent, applied, refused, token,
                   callerVars, steady>>

\* Others rerun or cancel the same run, or dispatch the same workflow.
OthersChange ==
    /\ \/ /\ operation # "refresh"
          /\ others < MaxOthers
          /\ Rerun \/ Cancel
          /\ others' = others + 1
       \/ /\ operation = "refresh"
          /\ Len(dispatched) < MaxOthers + 1
          /\ \E sha \in Sha :
                /\ DispatchWorkflow(sha)
                /\ others' = IF sha = RequestSha THEN others + 1 ELSE others
    /\ UNCHANGED <<operation, main, own, mutationVars, token, callerVars, steady>>

RunProgress ==
    /\ \/ run.status = "queued" /\ run' = [run EXCEPT !.status = "in_progress"]
       \/ /\ run.status = "in_progress"
          /\ \E conclusion \in {"success", "failure"} :
                run' = [run EXCEPT !.status = "completed", !.conclusion = conclusion]
    /\ UNCHANGED <<operation, main, dispatched, cancellations, others, own,
                   mutationVars, token, callerVars, steady>>

BranchChange ==
    /\ \E sha \in Sha, protected \in BOOLEAN :
        main' = [sha |-> sha, protected |-> protected]
    /\ UNCHANGED <<operation, targetVars, mutationVars, token, callerVars, steady>>

CutOff(c) ==
    /\ ~steady
    /\ pc[c] # "idle"
    /\ At(c, "idle")
    /\ held' = [held EXCEPT ![c] = None]
    /\ UNCHANGED <<operation, main, targetVars, mutationVars, token, outcome,
                   reference, steady>>

Settle ==
    /\ Steady = "eventually"
    /\ ~steady
    /\ steady' = TRUE
    /\ UNCHANGED <<operation, main, targetVars, mutationVars, token, callerVars>>

-----------------------------------------------------------------------------
FirstRuns ==
    {[sha |-> sha, branch |-> branch, status |-> state[1], conclusion |-> state[2],
      attempt |-> 1] :
        sha \in Sha, branch \in {"main", "topic"},
        state \in {<<"in_progress", "none">>, <<"completed", "failure">>,
                   <<"completed", "success">>, <<"completed", "cancelled">>}}

\* The run plays no part in a refresh, nor the list of runs elsewhere.
Init ==
    /\ operation \in Operation
    /\ main = [sha |-> RequestSha, protected |-> TRUE]
    /\ run \in FirstRuns
    /\ operation = "refresh" => RunAsRequested /\ run.conclusion = "success"
    /\ dispatched \in {<<>>} \cup {<<sha>> : sha \in Sha}
    /\ operation # "refresh" => dispatched = <<>>
    /\ cancellations = 0 /\ others = 0 /\ own = 0
    /\ sent = 0 /\ applied = 0 /\ refused = 0 /\ shown = 0
    /\ token = None
    /\ pc = [c \in Caller |-> "idle"]
    /\ held = [c \in Caller |-> None]
    /\ outcome = [c \in Caller |-> "none"]
    /\ reference = [c \in Caller |-> 0]
    /\ steady = FALSE

Work(c) ==
    \/ ObserveMain(c) \/ ObserveTarget(c) \/ Record(c) \/ FinalPreparation(c)
    \/ Mutate(c) \/ Response(c)

Next ==
    \/ \E c \in Caller : StartPrepare(c) \/ Work(c) \/ Recover(c) \/ CutOff(c)
    \/ Apply \/ Refuse \/ Show
    \/ OthersChange \/ RunProgress \/ BranchChange
    \/ Settle

Spec == Init /\ [][Next]_vars

\* Callers are scheduled, GitHub answers, failures end, and the service asks
\* for recovery again and again (README, "Retry an ambiguous ... submission").
FairSpec ==
    /\ Spec
    /\ \A c \in Caller : WF_vars(Work(c)) /\ WF_vars(Recover(c))
    /\ WF_vars(Apply \/ Refuse)
    /\ WF_vars(Settle)

-----------------------------------------------------------------------------
(* Properties                                                              *)

Tokens == State \cup {None, Unsendable}

\* Tokens and answers have the types the service expects, and whoever is
\* about to record a token has one: SealDispatch refuses an empty one.
BrokerTypeOK ==
    /\ operation \in Operation
    /\ main \in [sha : Sha, protected : BOOLEAN]
    /\ run \in Run
    /\ dispatched \in Seq(Sha)
    /\ cancellations \in Nat /\ others \in Nat /\ own \in Nat
    /\ sent \in Nat /\ applied \in Nat /\ refused \in Nat /\ shown \in Nat
    /\ token \in Tokens
    /\ pc \in [Caller -> {"idle", "observeMain", "observeTarget", "record",
                          "rejected", "dispatch", "response"}]
    /\ held \in [Caller -> Tokens]
    /\ \A c \in Caller :
        /\ pc[c] = "record" => held[c] # None
        /\ pc[c] \in {"rejected", "dispatch", "response"} => token # None
    /\ outcome \in [Caller -> {"none", "accepted", "rejected", "pending"}]
    /\ reference \in [Caller -> Nat]
    /\ steady \in BOOLEAN

\* Others changed, since Prepare observed it, what recovery looks at.
Disturbed == token \notin {None, Unsendable} /\ others # token.others

\* If nobody else touched the target since the baseline was taken, an
\* accepted outcome is the effect of the request's own mutation, and the run
\* it refers to is the one that the mutation created.
AcceptedIsOwn ==
    token # Unsendable /\ ~Disturbed =>
        \A c \in Caller : outcome[c] = "accepted" =>
            /\ applied > 0
            /\ reference[c] # 0 => reference[c] = own

\* What was accepted on the strength of a run list is one run at the
\* requested commit that is newer than every run seen by Prepare.
ReferenceIsNew ==
    \A c \in Caller : reference[c] # 0 =>
        /\ reference[c] \in Matching
        /\ reference[c] > token.baselineRunID

\* An effect that can be seen is found, if nobody else touches the target.
ShownIsFound ==
    (shown > 0 /\ ListingReadable) ~>
        \/ \E c \in Caller : outcome[c] = "accepted"
        \/ Disturbed
        \/ ~ListingReadable

-----------------------------------------------------------------------------
(* The broker is a provider.                                               *)

\* What the target looks like when it has changed so many times.
EpochOf(state) ==
    CASE operation = "refresh" -> Cardinality({id \in Matching : id <= state.baselineRunID})
      [] operation = "rerun" -> state.baselineRunAttempt
      [] operation = "cancel" -> state.cancellations

TokenOf(t) == IF t \in {None, Unsendable} THEN t ELSE EpochOf(t)

Dispatcher == INSTANCE Provider WITH
    epoch <- CASE operation = "refresh" -> Cardinality(Matching)
               [] operation = "rerun" -> run.attempt
               [] operation = "cancel" -> cancellations,
    held <- [c \in Caller |-> TokenOf(held[c])],
    token <- TokenOf(token)

\* Every step of the broker and of GitHub is one the service allows for.
ImplementsProvider == Dispatcher!ProviderSpec
=============================================================================
