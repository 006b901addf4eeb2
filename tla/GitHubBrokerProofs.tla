------------------------- MODULE GitHubBrokerProofs -------------------------
(***************************************************************************)
(* What GitHubBroker promises, proved for any number of callers, commits,  *)
(* runs and changes by others.                                             *)
(*                                                                         *)
(* That an accepted outcome is the effect of the request's own mutation    *)
(* rests on what a recovery token knows: what is newer than the token is   *)
(* the request's own doing or was counted among the changes of others.     *)
(***************************************************************************)
EXTENDS GitHubBroker, FiniteSetTheorems, TLAPS

\* A mutation is sent once, for a stored recovery state.
MutationInv ==
    /\ applied + refused <= sent
    /\ shown <= applied
    /\ sent <= 1
    /\ sent > 0 => token \in State
    /\ own # 0 => shown > 0

\* The creator of the dispatch record is the only one about to send.
CallersInv ==
    /\ \A c \in Caller :
        /\ pc[c] = "dispatch" => sent = 0 /\ token \in State
        /\ pc[c] = "response" => token \in State
        /\ pc[c] = "rejected" => token = Unsendable
    /\ \A c, d \in Caller : pc[c] = "dispatch" /\ pc[d] = "dispatch" => c = d

\* What a recovery state tells of everything that came after it.
Tells(b) ==
    /\ b.others <= others
    /\ b.baselineRunID <= Len(dispatched)
    /\ operation = "refresh" =>
        \A id \in Matching : id > b.baselineRunID => id = own \/ others > b.others
    /\ operation = "rerun" =>
        /\ b.baselineRunAttempt <= run.attempt
        /\ run.attempt - b.baselineRunAttempt <= shown + (others - b.others)
    /\ operation = "cancel" =>
        /\ b.cancellations <= cancellations
        /\ cancellations - b.cancellations <= shown + (others - b.others)
        /\ run.status = "completed" /\ run.conclusion = "cancelled"
            => cancellations > b.cancellations

TokensInv ==
    /\ token \in State => Tells(token)
    /\ \A c \in Caller : held[c] \in State => Tells(held[c])

\* An outcome is never undone by what happens later.
OutcomesInv ==
    \A c \in Caller :
        /\ outcome[c] = "accepted" =>
            /\ token \in State
            /\ applied > 0 \/ others > token.others
        /\ reference[c] # 0 =>
            /\ token \in State
            /\ reference[c] \in Matching
            /\ reference[c] > token.baselineRunID
            /\ reference[c] = own \/ others > token.others

BInv ==
    /\ BrokerTypeOK
    /\ MutationInv
    /\ CallersInv
    /\ TokensInv
    /\ OutcomesInv

-----------------------------------------------------------------------------
(* The list of runs.                                                       *)

\* A bounded set of numbers that is not empty has a greatest element.
LEMMA GreatestExists ==
  ASSUME NEW S \in SUBSET Nat, S # {}, NEW n \in Nat, \A x \in S : x <= n
  PROVE  \E m \in S : \A x \in S : x <= m
  <1> DEFINE T == {n - x : x \in S}
             R == OpToRel(<, Nat)
  <1>1. T \subseteq Nat /\ T # {}
    <2>1. \A x \in S : n - x \in Nat
      OBVIOUS
    <2>2. \A x \in S : n - x \in T
      OBVIOUS
    <2>3. QED
      BY <2>1, <2>2
  <1>2. IsWellFoundedOn(R, Nat)
    BY NatLessThanWellFounded
  <1>3. \E t \in T : \A u \in T : ~ (<<u, t>> \in R)
    <2> HIDE DEF T, R
    <2>1. QED
      BY <1>1, <1>2, WFMin
  <1>4. PICK t \in T : \A u \in T : ~ (<<u, t>> \in R)
    BY <1>3
  <1>5. \A u \in T : ~ (u < t)
    BY <1>1, <1>4 DEF OpToRel
  <1>6. PICK m \in S : t = n - m
    OBVIOUS
  <1>7. ASSUME NEW x \in S PROVE x <= m
    <2>1. n - x \in T
      OBVIOUS
    <2>2. ~ (n - x < n - m)
      BY <1>5, <1>6, <2>1
    <2>3. x \in Nat /\ m \in Nat
      OBVIOUS
    <2>4. QED
      BY <2>2, <2>3
  <1>8. QED
    BY <1>7

\* Max of a bounded set is its greatest element.
LEMMA MaxIsGreatest ==
  ASSUME NEW S \in SUBSET Nat, S # {}, NEW n \in Nat, \A x \in S : x <= n
  PROVE  Max(S) \in S /\ \A x \in S : x <= Max(S)
  <1>1. PICK m \in S : \A x \in S : x <= m
    BY GreatestExists
  <1>2. \E m_1 \in S : \A x \in S : m_1 >= x
    BY <1>1
  <1>3. QED
    BY <1>2 DEF Max

\* The runs at the request's commit are finitely many.
LEMMA MatchingFinite ==
  ASSUME BrokerTypeOK
  PROVE  /\ Len(dispatched) \in Nat
         /\ Matching \subseteq 1..Len(dispatched)
         /\ IsFiniteSet(Matching)
  <1>1. Len(dispatched) \in Nat /\ Matching \subseteq 1..Len(dispatched)
    BY DEF BrokerTypeOK, Matching
  <1>2. IsFiniteSet(1..Len(dispatched))
    BY <1>1, FS_Interval
  <1>3. QED
    BY <1>1, <1>2, FS_Subset

\* However long the list, its first page holds the newest run.
LEMMA NewestIsListed ==
  ASSUME BrokerTypeOK, NEW m \in Matching, \A k \in Matching : k <= m
  PROVE  m \in Listing
  <1>1. {k \in Matching : k > m} = {}
    BY MatchingFinite
  <1>2. Cardinality({k \in Matching : k > m}) = 0
    BY <1>1, FS_EmptySet
  <1>3. QED
    BY <1>2, ListAssumption DEF Listing

\* The baseline that Prepare keeps of a list is the newest run there is.
LEMMA BaselineIsNewest ==
  ASSUME BrokerTypeOK
  PROVE  /\ Max(Listing \cup {0}) \in Nat
         /\ Max(Listing \cup {0}) <= Len(dispatched)
         /\ \A id \in Matching : id <= Max(Listing \cup {0})
  <1> DEFINE newest == Max(Listing \cup {0})
  <1>1. /\ Len(dispatched) \in Nat /\ Matching \subseteq 1..Len(dispatched)
        /\ Listing \subseteq Matching
    BY MatchingFinite DEF Listing
  <1>2. /\ Listing \cup {0} \in SUBSET Nat /\ Listing \cup {0} # {}
        /\ \A x \in Listing \cup {0} : x <= Len(dispatched)
    BY <1>1
  <1>3. newest \in Listing \cup {0} /\ \A x \in Listing \cup {0} : x <= newest
    BY <1>1, <1>2, MaxIsGreatest
  <1>4. newest \in Nat /\ newest <= Len(dispatched)
    BY <1>2, <1>3
  <1>5. ASSUME Matching # {}
        PROVE  \A id \in Matching : id <= newest
    <2>1. Matching \in SUBSET Nat /\ \A x \in Matching : x <= Len(dispatched)
      BY <1>1
    <2>2. PICK m \in Matching : \A x \in Matching : x <= m
      BY <1>1, <1>5, <2>1, GreatestExists
    <2>3. m <= newest
      BY <1>3, <2>2, NewestIsListed
    <2>4. QED
      BY <1>4, <2>1, <2>2, <2>3
  <1>6. QED
    BY <1>4, <1>5

-----------------------------------------------------------------------------
(* Type correctness                                                        *)

\* What Prepare keeps of the target is a recovery state.
LEMMA BaselineIsState == BrokerTypeOK => Baseline \in State
  BY BaselineIsNewest DEF BrokerTypeOK, Baseline, State, Run

\* What happens to run and run list keeps their types.
LEMMA TargetTypes ==
  ASSUME BrokerTypeOK,
         \/ Rerun \/ Cancel
         \/ \E sha \in Sha : DispatchWorkflow(sha)
  PROVE  run' \in Run /\ dispatched' \in Seq(Sha) /\ cancellations' \in Nat
  <1>1. /\ run \in Run /\ dispatched \in Seq(Sha) /\ cancellations \in Nat
        /\ run.attempt + 1 \in Nat
    BY DEF BrokerTypeOK, Run
  <1>2. CASE Rerun
    BY <1>1, <1>2 DEF Rerun, Run
  <1>3. CASE Cancel
    <2>1. /\ run' = [run EXCEPT !.status = "completed", !.conclusion = "cancelled"]
          /\ cancellations' = cancellations + 1 /\ dispatched' = dispatched
      BY <1>3 DEF Cancel
    <2>2. run' \in Run
      BY <1>1, <2>1 DEF Run
    <2>3. QED
      BY <1>1, <2>1, <2>2
  <1>4. CASE \E sha \in Sha : DispatchWorkflow(sha)
    BY <1>1, <1>4 DEF DispatchWorkflow
  <1>5. QED
    BY <1>2, <1>3, <1>4

Label == {"idle", "observeMain", "observeTarget", "record", "rejected",
          "dispatch", "response"}
Verdict == {"none", "accepted", "rejected", "pending"}

\* A caller that moves on with a token has one wherever it needs one.
LEMMA CallerMoves ==
  ASSUME BrokerTypeOK, NEW c \in Caller, NEW label \in Label, At(c, label),
         NEW t \in Tokens, held' = [held EXCEPT ![c] = t],
         label = "record" => t # None,
         label \in {"rejected", "dispatch", "response"} => token' # None,
         token' \in Tokens, token # None => token' = token,
         sent' \in Nat, outcome' \in [Caller -> Verdict], reference' \in [Caller -> Nat],
         UNCHANGED <<operation, main, targetVars, applied, refused, shown, steady>>
  PROVE  BrokerTypeOK'
  <1>1. /\ pc' = [pc EXCEPT ![c] = label]
        /\ pc \in [Caller -> Label] /\ held \in [Caller -> Tokens]
    BY DEF At, BrokerTypeOK, Label
  <1>2. pc' \in [Caller -> Label] /\ held' \in [Caller -> Tokens]
    BY <1>1
  <1>3. ASSUME NEW d \in Caller
        PROVE  /\ pc'[d] = "record" => held'[d] # None
               /\ pc'[d] \in {"rejected", "dispatch", "response"} => token' # None
    <2>1. CASE d = c
      BY <1>1, <2>1
    <2>2. CASE d # c
      BY <1>1, <2>2 DEF BrokerTypeOK
    <2>3. QED
      BY <2>1, <2>2
  <1>4. QED
    BY <1>2, <1>3 DEF BrokerTypeOK, targetVars, Label, Verdict

\* An answer is a verdict and perhaps a run.
LEMMA AnswerTypes ==
  ASSUME BrokerTypeOK, NEW c \in Caller, NEW verdict \in Verdict, NEW id \in Nat,
         Answer(c, verdict, id)
  PROVE  outcome' \in [Caller -> Verdict] /\ reference' \in [Caller -> Nat]
  BY DEF BrokerTypeOK, Answer, Verdict

\* What Recover answers.
LEMMA RecoverAnswers ==
  ASSUME BrokerTypeOK, NEW c \in Caller, Recover(c)
  PROVE  \E verdict \in {"accepted", "rejected", "pending"}, id \in Nat :
            Answer(c, verdict, id)
  <1>1. NewerRuns \subseteq Nat
    BY MatchingFinite DEF NewerRuns, Listing
  <1>2. QED
    BY <1>1 DEF Recover

\* A step of a caller keeps the types of what the callers hold.
LEMMA CallerTypes ==
  ASSUME BrokerTypeOK, NEW c \in Caller,
         StartPrepare(c) \/ Work(c) \/ Recover(c) \/ CutOff(c)
  PROVE  BrokerTypeOK'
  <1>1. /\ held[c] \in Tokens /\ held = [held EXCEPT ![c] = held[c]]
        /\ pc[c] \in Label /\ pc = [pc EXCEPT ![c] = pc[c]]
        /\ pc[c] = "record" => held[c] # None
        /\ pc[c] \in {"rejected", "dispatch", "response"} => token # None
        /\ token \in Tokens /\ sent \in Nat /\ sent + 1 \in Nat
        /\ outcome \in [Caller -> Verdict] /\ reference \in [Caller -> Nat]
        /\ None \in Tokens /\ Unsendable \in Tokens /\ None # Unsendable
    BY TokenAssumption DEF BrokerTypeOK, Tokens, Label, Verdict
  <1>2. CASE StartPrepare(c)
    BY <1>1, <1>2, CallerMoves DEF StartPrepare, mutationVars, Label
  <1>3. CASE ObserveMain(c)
    <2>1. PICK t \in Tokens, label \in {"observeTarget", "record"} :
            /\ held' = [held EXCEPT ![c] = t] /\ At(c, label)
            /\ label = "record" => t # None
      BY <1>1, <1>3 DEF ObserveMain
    <2>2. QED
      BY <1>1, <1>3, <2>1, CallerMoves DEF ObserveMain, mutationVars, Label
  <1>4. CASE ObserveTarget(c)
    <2>1. Baseline \in Tokens /\ Baseline # None
      BY BaselineIsState, TokenAssumption DEF Tokens
    <2>2. PICK t \in Tokens : held' = [held EXCEPT ![c] = t] /\ t # None
      BY <1>1, <1>4, <2>1 DEF ObserveTarget
    <2>3. QED
      BY <1>1, <1>4, <2>2, CallerMoves DEF ObserveTarget, mutationVars, Label
  <1>5. CASE Record(c)
    <2>1. PICK label \in {"rejected", "dispatch", "idle"} :
            /\ At(c, label)
            /\ token' \in Tokens /\ token' # None
            /\ token # None => token' = token
      BY <1>1, <1>5 DEF Record
    <2>2. QED
      BY <1>1, <1>5, <2>1, CallerMoves DEF Record, mutationVars, Label
  <1>6. CASE FinalPreparation(c)
    <2>1. outcome' \in [Caller -> Verdict] /\ reference' \in [Caller -> Nat]
      BY <1>6, AnswerTypes DEF FinalPreparation, Verdict
    <2>2. QED
      BY <1>1, <1>6, <2>1, CallerMoves DEF FinalPreparation, mutationVars, Label
  <1>7. CASE Mutate(c)
    <2>1. outcome' \in [Caller -> Verdict] /\ reference' \in [Caller -> Nat]
      BY <1>1, <1>7, AnswerTypes DEF Mutate, Verdict
    <2>2. PICK label \in {"response", "idle"} : At(c, label) /\ sent' \in Nat
      BY <1>1, <1>7 DEF Mutate
    <2>3. token # None
      BY <1>1, <1>7 DEF Mutate
    <2>4. QED
      BY <1>1, <1>7, <2>1, <2>2, <2>3, CallerMoves DEF Mutate, Label
  <1>8. CASE Response(c)
    <2>1. outcome' \in [Caller -> Verdict] /\ reference' \in [Caller -> Nat]
      BY <1>8, AnswerTypes DEF Response, Verdict
    <2>2. QED
      BY <1>1, <1>8, <2>1, CallerMoves DEF Response, mutationVars, Label
  <1>9. CASE Recover(c)
    <2>1. outcome' \in [Caller -> Verdict] /\ reference' \in [Caller -> Nat]
      BY <1>9, RecoverAnswers, AnswerTypes DEF Verdict
    <2>2. At(c, pc[c])
      BY <1>1, <1>9 DEF Recover, At
    <2>3. QED
      BY <1>1, <1>9, <2>1, <2>2, CallerMoves DEF Recover, mutationVars
  <1>10. CASE CutOff(c)
    BY <1>1, <1>10, CallerMoves DEF CutOff, mutationVars, Label
  <1>11. QED
    BY <1>2, <1>3, <1>4, <1>5, <1>6, <1>7, <1>8, <1>9, <1>10 DEF Work

\* Every step of callers, GitHub and others keeps the types.
LEMMA BrokerTypeNext == BrokerTypeOK /\ [Next]_vars => BrokerTypeOK'
  <1> SUFFICES ASSUME BrokerTypeOK, [Next]_vars PROVE BrokerTypeOK'
    OBVIOUS
  <1>1. CASE \E c \in Caller : StartPrepare(c) \/ Work(c) \/ Recover(c) \/ CutOff(c)
    BY <1>1, CallerTypes
  <1>2. CASE Apply \/ Refuse
    BY <1>2 DEF BrokerTypeOK, Apply, Refuse, targetVars, callerVars
  <1>3. CASE Show
    <2>1. run' \in Run /\ dispatched' \in Seq(Sha) /\ cancellations' \in Nat
      BY <1>3, TargetTypes, ShaAssumption DEF Show
    <2>2. own' \in Nat
      BY <1>3, MatchingFinite DEF BrokerTypeOK, Show
    <2>3. QED
      BY <1>3, <2>1, <2>2 DEF BrokerTypeOK, Show, callerVars
  <1>4. CASE OthersChange
    <2>1. run' \in Run /\ dispatched' \in Seq(Sha) /\ cancellations' \in Nat
      BY <1>4, TargetTypes DEF OthersChange
    <2>2. others' \in Nat
      BY <1>4 DEF BrokerTypeOK, OthersChange
    <2>3. QED
      BY <1>4, <2>1, <2>2 DEF BrokerTypeOK, OthersChange, mutationVars, callerVars
  <1>5. CASE RunProgress
    BY <1>5 DEF BrokerTypeOK, RunProgress, Run, mutationVars, callerVars
  <1>6. CASE BranchChange
    BY <1>6 DEF BrokerTypeOK, BranchChange, targetVars, mutationVars, callerVars
  <1>7. CASE Settle
    BY <1>7 DEF BrokerTypeOK, Settle, targetVars, mutationVars, callerVars
  <1>8. CASE UNCHANGED vars
    BY <1>8 DEF BrokerTypeOK, vars, targetVars, mutationVars, callerVars
  <1>9. QED
    BY <1>1, <1>2, <1>3, <1>4, <1>5, <1>6, <1>7, <1>8 DEF Next

-----------------------------------------------------------------------------
(* The inductive invariant                                                 *)

\* A recovery state is neither absent nor unsendable, and the other way round.
LEMMA TokenKinds ==
  ASSUME BrokerTypeOK
  PROVE  /\ token \in State <=> token \notin {None, Unsendable}
         /\ \A c \in Caller : held[c] \in State <=> held[c] \notin {None, Unsendable}
  BY TokenAssumption DEF BrokerTypeOK, Tokens

\* The dispatch record is written once.
LEMMA TokenKept ==
  ASSUME BrokerTypeOK, [Next]_vars, token # None
  PROVE  token' = token
  BY DEF Next, StartPrepare, Work, ObserveMain, ObserveTarget, Record,
         FinalPreparation, Mutate, Response, Recover, CutOff, Apply, Refuse, Show,
         OthersChange, RunProgress, BranchChange, Settle, vars

\* What a step may do to the mutation and to the run that it creates.
LEMMA MutationNext == BInv /\ [Next]_vars => MutationInv'
  <1> SUFFICES ASSUME BInv, [Next]_vars PROVE MutationInv'
    OBVIOUS
  <1>1. /\ sent \in Nat /\ applied \in Nat /\ refused \in Nat /\ shown \in Nat
        /\ MutationInv /\ BrokerTypeOK
    BY DEF BInv, BrokerTypeOK
  <1>2. sent > 0 => token' \in State
    BY <1>1, TokenKept, TokenKinds DEF MutationInv
  <1>3. CASE \E c \in Caller : Mutate(c)
    <2>1. PICK c \in Caller : Mutate(c)
      BY <1>3
    <2>2. /\ UNCHANGED <<applied, refused, shown, own, token>>
          /\ sent' = sent \/ sent' = sent + 1
          /\ pc[c] = "dispatch"
      BY <2>1 DEF Mutate, targetVars
    <2>3. sent = 0 /\ token \in State
      BY <2>2 DEF BInv, CallersInv
    <2>4. QED
      BY <1>1, <2>2, <2>3 DEF MutationInv
  <1>4. CASE Apply \/ Refuse
    <2>1. /\ applied + refused < sent
          /\ UNCHANGED <<sent, shown, own, token>>
          /\ \/ applied' = applied + 1 /\ refused' = refused
             \/ applied' = applied /\ refused' = refused + 1
      BY <1>4 DEF Apply, Refuse, targetVars
    <2>2. QED
      BY <1>1, <2>1 DEF MutationInv
  <1>5. CASE Show
    <2>1. /\ shown < applied /\ shown' = shown + 1
          /\ UNCHANGED <<sent, applied, refused, token>>
      BY <1>5 DEF Show
    <2>2. QED
      BY <1>1, <2>1 DEF MutationInv
  <1>6. CASE UNCHANGED <<sent, applied, refused, shown, own>>
    BY <1>1, <1>2, <1>6 DEF MutationInv
  <1>7. QED
    BY <1>3, <1>4, <1>5, <1>6 DEF Next, StartPrepare, Work, ObserveMain,
       ObserveTarget, Record, FinalPreparation, Response, Recover, CutOff,
       OthersChange, RunProgress, BranchChange, Settle, vars, targetVars, mutationVars

\* Only the caller that creates the record goes on to send, and only once.
LEMMA CallersNext == BInv /\ [Next]_vars => CallersInv'
  <1> SUFFICES ASSUME BInv, [Next]_vars PROVE CallersInv'
    OBVIOUS
  <1>1. /\ CallersInv /\ BrokerTypeOK /\ pc \in [Caller -> Label]
        /\ sent \in Nat /\ MutationInv
    BY DEF BInv, BrokerTypeOK, Label
  <1>2. token # None => token' = token
    BY <1>1, TokenKept
  <1>3. token \in State => token # None
    BY <1>1, TokenKinds
  <1>4. ASSUME NEW c \in Caller, NEW label, At(c, label)
        PROVE  pc'[c] = label /\ \A d \in Caller \ {c} : pc'[d] = pc[d]
    BY <1>1, <1>4 DEF At
  <1>5. ASSUME NEW c \in Caller, NEW label \in Label \ {"dispatch", "response", "rejected"},
               At(c, label), sent' = sent
        PROVE  CallersInv'
    BY <1>1, <1>2, <1>3, <1>4, <1>5, TokenAssumption DEF CallersInv
  <1>6. ASSUME NEW c \in Caller, Record(c) PROVE CallersInv'
    <2>1. CASE token # None
      BY <1>5, <1>6, <2>1 DEF Record, mutationVars, Label
    <2>2. CASE token = None
      <3>1. /\ pc[c] = "record" /\ token' = held[c] /\ held[c] # None /\ sent' = sent
            /\ At(c, IF held[c] = Unsendable THEN "rejected" ELSE "dispatch")
        BY <1>1, <1>6, <2>2 DEF Record, mutationVars, BrokerTypeOK
      <3>2. sent = 0
        BY <1>1, <1>3, <2>2 DEF MutationInv
      <3>3. \A d \in Caller : pc[d] \notin {"dispatch", "response", "rejected"}
        BY <1>1, <1>3, <2>2, TokenAssumption DEF CallersInv
      <3>4. \A d \in Caller \ {c} : pc'[d] = pc[d]
        BY <1>4, <3>1
      <3>5. CASE held[c] = Unsendable
        BY <1>4, <3>1, <3>2, <3>3, <3>4, <3>5 DEF CallersInv
      <3>6. CASE held[c] # Unsendable
        <4>1. token' \in State /\ pc'[c] = "dispatch"
          BY <1>1, <1>4, <3>1, <3>6, TokenKinds
        <4>2. QED
          BY <3>1, <3>2, <3>3, <3>4, <4>1 DEF CallersInv
      <3>7. QED
        BY <3>5, <3>6
    <2>3. QED
      BY <2>1, <2>2
  <1>7. ASSUME NEW c \in Caller, Mutate(c) PROVE CallersInv'
    <2>1. /\ pc[c] = "dispatch" /\ token' = token /\ token \in State
          /\ \A d \in Caller \ {c} : pc[d] # "dispatch"
      BY <1>1, <1>7 DEF Mutate, CallersInv
    <2>2. CASE At(c, "response")
      <3>1. pc'[c] = "response" /\ \A d \in Caller \ {c} : pc'[d] = pc[d]
        BY <1>4, <2>2
      <3>2. QED
        BY <1>1, <2>1, <3>1 DEF CallersInv
    <2>3. CASE sent' = sent /\ At(c, "idle")
      BY <1>5, <2>3 DEF Label
    <2>4. QED
      BY <1>7, <2>2, <2>3 DEF Mutate
  <1>8. CASE UNCHANGED <<pc, sent>>
    BY <1>1, <1>2, <1>3, <1>8, TokenAssumption DEF CallersInv
  <1>9. CASE \E c \in Caller : StartPrepare(c) \/ Work(c) \/ Recover(c) \/ CutOff(c)
    <2>1. PICK c \in Caller : StartPrepare(c) \/ Work(c) \/ Recover(c) \/ CutOff(c)
      BY <1>9
    <2>2. CASE StartPrepare(c) \/ ObserveMain(c) \/ ObserveTarget(c)
                \/ FinalPreparation(c) \/ Response(c) \/ CutOff(c)
      <3>1. /\ sent' = sent
            /\ \E label \in {"observeMain", "observeTarget", "record", "idle"} : At(c, label)
        BY <2>2 DEF StartPrepare, ObserveMain, ObserveTarget, FinalPreparation,
           Response, CutOff, mutationVars
      <3>2. QED
        BY <1>5, <3>1 DEF Label
    <2>3. CASE Recover(c)
      BY <1>8, <2>3 DEF Recover, mutationVars
    <2>4. QED
      BY <1>6, <1>7, <2>1, <2>2, <2>3 DEF Work
  <1>10. QED
    BY <1>8, <1>9 DEF Next, Apply, Refuse, Show, OthersChange, RunProgress,
       BranchChange, Settle, vars, mutationVars, callerVars

\* A run is added at the end of the list, and is one more at the request's
\* commit if it is at that commit.
LEMMA MatchingGrows ==
  ASSUME BrokerTypeOK, NEW sha \in Sha, dispatched' = Append(dispatched, sha)
  PROVE  /\ Len(dispatched)' = Len(dispatched) + 1
         /\ Matching' = IF sha = RequestSha THEN Matching \cup {Len(dispatched) + 1}
                        ELSE Matching
         /\ Len(dispatched) + 1 \notin Matching
  <1>1. /\ dispatched \in Seq(Sha) /\ Len(dispatched) \in Nat
        /\ DOMAIN dispatched = 1..Len(dispatched)
    BY DEF BrokerTypeOK
  <1>2. /\ Len(dispatched') = Len(dispatched) + 1
        /\ DOMAIN dispatched' = 1..(Len(dispatched) + 1)
        /\ \A id \in 1..Len(dispatched) : dispatched'[id] = dispatched[id]
        /\ dispatched'[Len(dispatched) + 1] = sha
    BY <1>1
  <1>3. Matching = {id \in 1..Len(dispatched) : dispatched[id] = RequestSha}
    BY <1>1 DEF Matching
  <1>4. Matching' = {id \in 1..(Len(dispatched) + 1) : dispatched'[id] = RequestSha}
    BY <1>2 DEF Matching
  <1>5. QED
    BY <1>1, <1>2, <1>3, <1>4

\* The same list has the same runs at the request's commit.
LEMMA MatchingStays ==
  ASSUME UNCHANGED dispatched
  PROVE  UNCHANGED Matching /\ UNCHANGED Len(dispatched)
  BY DEF Matching

\* One more change, one more that is counted.
LEMMA OneMore ==
  ASSUME NEW x \in Nat, NEW y \in Nat, NEW s \in Nat, NEW o \in Nat, NEW p \in Nat,
         y <= x, x - y <= s + (o - p)
  PROVE  /\ y < x + 1 /\ y <= x + 1
         /\ (x + 1) - y <= (s + 1) + (o - p)
         /\ (x + 1) - y <= s + ((o + 1) - p)
         /\ x - y <= s + ((o + 1) - p)
  OBVIOUS

\* The effect of the request's own mutation is counted in shown.
LEMMA ShowKeepsTells ==
  ASSUME BInv, Show, NEW b \in State, Tells(b)
  PROVE  Tells(b)'
  <1>1. /\ BrokerTypeOK /\ others \in Nat /\ shown \in Nat /\ cancellations \in Nat
        /\ run.attempt \in Nat
        /\ b.others \in Nat /\ b.baselineRunID \in Nat /\ b.baselineRunAttempt \in Nat
        /\ b.cancellations \in Nat
        /\ operation' = operation /\ others' = others /\ shown' = shown + 1
    BY DEF BInv, BrokerTypeOK, Run, State, Show
  <1>2. shown = 0 /\ own = 0
    BY <1>1 DEF Show, BInv, MutationInv, BrokerTypeOK
  <1>3. CASE operation = "rerun"
    <2>1. Rerun
      BY <1>3 DEF Show
    <2>2. run'.attempt = run.attempt + 1 /\ Len(dispatched') = Len(dispatched)
      BY <2>1 DEF Rerun, BInv, BrokerTypeOK, Run
    <2>3. /\ b.others <= others /\ b.baselineRunID <= Len(dispatched)
          /\ b.baselineRunAttempt <= run.attempt
          /\ run.attempt - b.baselineRunAttempt <= shown + (others - b.others)
      BY <1>3 DEF Tells
    <2>4. /\ b.baselineRunAttempt <= run.attempt + 1
          /\ (run.attempt + 1) - b.baselineRunAttempt <= (shown + 1) + (others - b.others)
      BY <1>1, <2>3, OneMore, Zenon
    <2>5. QED
      BY <1>1, <1>3, <2>2, <2>3, <2>4 DEF Tells
  <1>4. CASE operation = "cancel"
    <2>1. Cancel
      BY <1>4 DEF Show
    <2>2. cancellations' = cancellations + 1 /\ Len(dispatched') = Len(dispatched)
      BY <2>1 DEF Cancel
    <2>3. /\ b.others <= others /\ b.baselineRunID <= Len(dispatched)
          /\ b.cancellations <= cancellations
          /\ cancellations - b.cancellations <= shown + (others - b.others)
      BY <1>4 DEF Tells
    <2>4. /\ b.cancellations < cancellations'
          /\ cancellations' - b.cancellations <= shown' + (others' - b.others)
      BY <1>1, <2>2, <2>3, OneMore
    <2>5. QED
      BY <1>1, <1>4, <2>2, <2>3, <2>4 DEF Tells
  <1>5. CASE operation = "refresh"
    <2>1. dispatched' = Append(dispatched, RequestSha) /\ own' = Len(dispatched) + 1
      BY <1>5 DEF Show, DispatchWorkflow
    <2>2. /\ Len(dispatched)' = Len(dispatched) + 1 /\ Len(dispatched) \in Nat
          /\ Matching' = Matching \cup {Len(dispatched) + 1}
          /\ Matching \subseteq 1..Len(dispatched)
      BY <1>1, <2>1, MatchingGrows, MatchingFinite, ShaAssumption
    <2>3. \A id \in Matching : id # own
      BY <1>2, <2>2
    <2>4. QED
      BY <1>1, <1>5, <2>1, <2>2, <2>3 DEF Tells
  <1>6. QED
    BY <1>3, <1>4, <1>5 DEF BInv, BrokerTypeOK, Operation

\* At most one more change, and one more that is counted.
LEMMA AtMostOneMore ==
  ASSUME NEW x \in Nat, NEW y \in Nat, NEW s \in Nat, NEW o \in Nat, NEW p \in Nat,
         NEW next, next = x \/ next = x + 1, y <= x, x - y <= s + (o - p)
  PROVE  /\ y <= next /\ next - y <= s + ((o + 1) - p)
         /\ next = x + 1 => y < next
  OBVIOUS

\* One more attempt or one more cancellation, counted in others.
LEMMA CountedKeepsTells ==
  ASSUME BInv, NEW b \in State, Tells(b), operation # "refresh",
         UNCHANGED <<operation, shown>>, others' = others + 1,
         Len(dispatched') = Len(dispatched),
         \/ run'.attempt = run.attempt
         \/ run'.attempt = run.attempt + 1 /\ run'.status = "queued",
         \/ cancellations' = cancellations + 1
         \/ cancellations' = cancellations /\ run'.status = "queued"
  PROVE  Tells(b)'
  <1>1. /\ others \in Nat /\ shown \in Nat /\ cancellations \in Nat
        /\ run.attempt \in Nat /\ b.others \in Nat /\ b.baselineRunAttempt \in Nat
        /\ b.cancellations \in Nat
    BY DEF BInv, BrokerTypeOK, Run, State
  <1>2. b.others <= others' /\ b.baselineRunID <= Len(dispatched')
    BY <1>1 DEF Tells
  <1>3. operation = "rerun" =>
          /\ b.baselineRunAttempt <= run'.attempt
          /\ run'.attempt - b.baselineRunAttempt <= shown + (others' - b.others)
    <2>1. SUFFICES ASSUME operation = "rerun"
                   PROVE  /\ b.baselineRunAttempt <= run'.attempt
                          /\ run'.attempt - b.baselineRunAttempt
                                <= shown + (others' - b.others)
      OBVIOUS
    <2>2. /\ b.baselineRunAttempt <= run.attempt
          /\ run.attempt - b.baselineRunAttempt <= shown + (others - b.others)
      BY <2>1 DEF Tells
    <2>3. PICK x \in Nat, y \in Nat, s \in Nat, o \in Nat, p \in Nat :
            /\ x = run.attempt /\ y = b.baselineRunAttempt /\ s = shown
            /\ o = others /\ p = b.others
      BY <1>1
    <2>4. y <= x /\ x - y <= s + (o - p)
      BY <2>2, <2>3
    <2>5. PICK next : next = run'.attempt
      OBVIOUS
    <2>6. next = x \/ next = x + 1
      BY <2>3, <2>5
    <2>7. y <= next /\ next - y <= s + ((o + 1) - p)
      BY <2>4, <2>6, AtMostOneMore
    <2>8. QED
      BY <2>3, <2>5, <2>7
  <1>4. operation = "cancel" =>
          /\ b.cancellations <= cancellations'
          /\ cancellations' - b.cancellations <= shown + (others' - b.others)
          /\ cancellations' > b.cancellations \/ run'.status = "queued"
    <2>1. SUFFICES ASSUME operation = "cancel"
                   PROVE  /\ b.cancellations <= cancellations'
                          /\ cancellations' - b.cancellations
                                <= shown + (others' - b.others)
                          /\ b.cancellations < cancellations' \/ run'.status = "queued"
      BY <1>1
    <2>2. /\ b.cancellations <= cancellations
          /\ cancellations - b.cancellations <= shown + (others - b.others)
      BY <2>1 DEF Tells
    <2>3. PICK x \in Nat, y \in Nat, s \in Nat, o \in Nat, p \in Nat :
            /\ x = cancellations /\ y = b.cancellations /\ s = shown
            /\ o = others /\ p = b.others
      BY <1>1
    <2>4. y <= x /\ x - y <= s + (o - p)
      BY <2>2, <2>3
    <2>5. PICK next : next = cancellations'
      OBVIOUS
    <2>6. next = x \/ next = x + 1
      BY <2>3, <2>5
    <2>7. /\ y <= next /\ next - y <= s + ((o + 1) - p)
          /\ next = x + 1 => y < next
      BY <2>4, <2>6, AtMostOneMore
    <2>8. QED
      BY <2>3, <2>5, <2>7
  <1>5. QED
    BY <1>2, <1>3, <1>4 DEF Tells

\* What others do to the target is counted in others.
LEMMA OthersKeepTells ==
  ASSUME BInv, OthersChange, NEW b \in State, Tells(b)
  PROVE  Tells(b)'
  <1>1. /\ BrokerTypeOK /\ others \in Nat /\ shown \in Nat /\ cancellations \in Nat
        /\ run.attempt \in Nat
        /\ b.others \in Nat /\ b.baselineRunID \in Nat /\ b.baselineRunAttempt \in Nat
        /\ b.cancellations \in Nat
        /\ operation' = operation /\ shown' = shown /\ own' = own
    BY DEF BInv, BrokerTypeOK, Run, State, OthersChange, mutationVars
  <1>2. CASE operation # "refresh" /\ Rerun /\ others' = others + 1
    <2>1. /\ run'.attempt = run.attempt + 1 /\ run'.status = "queued"
          /\ Len(dispatched') = Len(dispatched) /\ cancellations' = cancellations
      BY <1>2 DEF Rerun, BInv, BrokerTypeOK, Run
    <2>2. QED
      BY <1>1, <1>2, <2>1, CountedKeepsTells
  <1>3. CASE operation # "refresh" /\ Cancel /\ others' = others + 1
    <2>1. /\ run'.attempt = run.attempt /\ cancellations' = cancellations + 1
          /\ Len(dispatched') = Len(dispatched)
      BY <1>3 DEF Cancel, BInv, BrokerTypeOK, Run
    <2>2. QED
      BY <1>1, <1>3, <2>1, CountedKeepsTells
  <1>4. CASE /\ operation = "refresh"
             /\ \E sha \in Sha :
                   /\ DispatchWorkflow(sha)
                   /\ others' = IF sha = RequestSha THEN others + 1 ELSE others
    <2>1. PICK sha \in Sha :
            /\ dispatched' = Append(dispatched, sha)
            /\ others' = IF sha = RequestSha THEN others + 1 ELSE others
      BY <1>4 DEF DispatchWorkflow
    <2>2. /\ Len(dispatched)' = Len(dispatched) + 1 /\ Len(dispatched) \in Nat
          /\ Matching' = IF sha = RequestSha THEN Matching \cup {Len(dispatched) + 1}
                         ELSE Matching
      BY <1>1, <2>1, MatchingGrows, MatchingFinite
    <2>3. QED
      BY <1>1, <1>4, <2>1, <2>2 DEF Tells
  <1>5. QED
    BY <1>2, <1>3, <1>4 DEF OthersChange

\* What a token tells of the target goes on holding.
LEMMA TellsKept ==
  ASSUME BInv, [Next]_vars, NEW b \in State, Tells(b)
  PROVE  Tells(b)'
  <1>1. CASE UNCHANGED <<operation, targetVars, shown>>
    BY <1>1, MatchingStays DEF Tells, targetVars
  <1>2. CASE RunProgress
    <2>1. /\ run'.attempt = run.attempt
          /\ ~(run'.status = "completed" /\ run'.conclusion = "cancelled")
          /\ UNCHANGED <<operation, dispatched, cancellations, others, own, shown>>
      BY <1>2 DEF RunProgress, mutationVars, BInv, BrokerTypeOK, Run
    <2>2. QED
      BY <2>1, MatchingStays DEF Tells
  <1>3. CASE Show
    BY <1>3, ShowKeepsTells
  <1>4. CASE OthersChange
    BY <1>4, OthersKeepTells
  <1>5. QED
    BY <1>1, <1>2, <1>3, <1>4 DEF Next, StartPrepare, Work, ObserveMain, ObserveTarget,
       Record, FinalPreparation, Mutate, Response, Recover, CutOff, Apply, Refuse,
       BranchChange, Settle, vars, mutationVars

\* When it is taken, a baseline has nothing after it.
LEMMA BaselineTells ==
  ASSUME BInv, TargetAsRequested
  PROVE  Baseline \in State /\ Tells(Baseline)
  <1>1. Baseline \in State /\ BrokerTypeOK
    BY BaselineIsState DEF BInv
  <1>2. /\ others \in Nat /\ shown \in Nat /\ cancellations \in Nat
        /\ run.attempt \in Nat /\ Len(dispatched) \in Nat
    BY <1>1, MatchingFinite DEF BrokerTypeOK, Run
  <1>3. /\ Baseline.others = others /\ Baseline.cancellations = cancellations
        /\ operation = "rerun" => Baseline.baselineRunAttempt = run.attempt
    BY DEF Baseline
  <1>4. /\ Baseline.baselineRunID <= Len(dispatched)
        /\ operation = "refresh" => \A id \in Matching : id <= Baseline.baselineRunID
        /\ Baseline.baselineRunID \in Nat
    <2>1. CASE operation = "refresh"
      <3>1. Baseline.baselineRunID = Max(Listing \cup {0})
        BY <2>1 DEF Baseline
      <3>2. QED
        BY <1>1, <3>1, BaselineIsNewest
    <2>2. CASE operation # "refresh"
      <3>1. Baseline.baselineRunID = 0
        BY <2>2 DEF Baseline
      <3>2. QED
        BY <1>2, <2>2, <3>1
    <2>3. QED
      BY <2>1, <2>2
  <1>5. operation = "refresh" => \A id \in Matching : ~(id > Baseline.baselineRunID)
    BY <1>1, <1>4, MatchingFinite
  <1>6. operation = "cancel" => run.status # "completed"
    BY DEF TargetAsRequested, RunState
  <1>7. QED
    BY <1>1, <1>2, <1>3, <1>4, <1>5, <1>6 DEF Tells

\* Every recovery state that is held or stored tells of what came after it.
LEMMA TokensNext == BInv /\ [Next]_vars => TokensInv'
  <1> SUFFICES ASSUME BInv, [Next]_vars PROVE TokensInv'
    OBVIOUS
  <1>1. BrokerTypeOK /\ TokensInv /\ held \in [Caller -> Tokens]
    BY DEF BInv, BrokerTypeOK
  <1>2. ASSUME NEW t, t \in State, t = token \/ \E c \in Caller : t = held[c]
        PROVE  Tells(t)'
    <2>1. Tells(t)
      BY <1>1, <1>2 DEF TokensInv
    <2>2. QED
      BY <1>2, <2>1, TellsKept
  <1>3. token' \in State => Tells(token)'
    <2>1. token' = token \/ \E c \in Caller : token' = held[c]
      BY DEF Next, StartPrepare, Work, ObserveMain, ObserveTarget, Record,
         FinalPreparation, Mutate, Response, Recover, CutOff, Apply, Refuse, Show,
         OthersChange, RunProgress, BranchChange, Settle, vars
    <2>2. PICK t : t = token'
      OBVIOUS
    <2>3. t \in State => Tells(t)'
      BY <1>2, <2>1, <2>2
    <2>4. QED
      BY <2>2, <2>3 DEF Tells
  <1>4. ASSUME NEW c \in Caller, held'[c] \in State PROVE Tells(held[c])'
    <2>1. CASE ObserveTarget(c) /\ TargetAsRequested /\ held'[c] = Baseline
      <3>1. PICK b \in State : b = Baseline /\ Tells(b)
        BY <2>1, BaselineTells
      <3>2. Tells(b)'
        BY <3>1, TellsKept
      <3>3. QED
        BY <2>1, <3>1, <3>2 DEF Tells
    <2>2. CASE held'[c] = held[c]
      <3>1. PICK t : t = held[c]
        OBVIOUS
      <3>2. Tells(t)'
        BY <1>2, <1>4, <2>2, <3>1
      <3>3. QED
        BY <2>2, <3>1, <3>2 DEF Tells
    <2>3. held'[c] \notin State \/ held'[c] = held[c]
            \/ (ObserveTarget(c) /\ TargetAsRequested /\ held'[c] = Baseline)
      BY <1>1, TokenAssumption DEF Next, StartPrepare, Work, ObserveMain,
         ObserveTarget, Record, FinalPreparation, Mutate, Response, Recover, CutOff,
         Apply, Refuse, Show, OthersChange, RunProgress, BranchChange, Settle, vars,
         callerVars
    <2>4. QED
      BY <1>4, <2>1, <2>2, <2>3
  <1>5. QED
    BY <1>3, <1>4 DEF TokensInv

\* Nothing an outcome rests on is taken back.
LEMMA NextOnlyAdds ==
  ASSUME BInv, [Next]_vars
  PROVE  /\ applied > 0 => applied' > 0
         /\ others' = others \/ others' = others + 1
         /\ Matching \subseteq Matching'
         /\ own # 0 => own' = own
  <1>1. applied' = applied \/ applied' = applied + 1
    BY DEF Next, StartPrepare, Work, ObserveMain, ObserveTarget, Record,
       FinalPreparation, Mutate, Response, Recover, CutOff, Apply, Refuse, Show,
       OthersChange, RunProgress, BranchChange, Settle, vars, targetVars, mutationVars
  <1>2. applied > 0 => applied' > 0
    BY <1>1 DEF BInv, BrokerTypeOK
  <1>3. others' = others \/ others' = others + 1
    BY DEF Next, StartPrepare, Work, ObserveMain, ObserveTarget, Record,
       FinalPreparation, Mutate, Response, Recover, CutOff, Apply, Refuse, Show,
       OthersChange, RunProgress, BranchChange, Settle, vars, targetVars, mutationVars
  <1>4. \/ dispatched' = dispatched
        \/ \E sha \in Sha : dispatched' = Append(dispatched, sha)
    BY ShaAssumption DEF Next, StartPrepare, Work, ObserveMain, ObserveTarget, Record,
       FinalPreparation, Mutate, Response, Recover, CutOff, Apply, Refuse, Show,
       OthersChange, RunProgress, BranchChange, Settle, vars, targetVars,
       Rerun, Cancel, DispatchWorkflow
  <1>5. Matching \subseteq Matching'
    BY <1>4, MatchingGrows, MatchingStays DEF BInv
  <1>6. own # 0 => ~Show
    BY DEF Show, BInv, MutationInv, BrokerTypeOK
  <1>7. own # 0 => own' = own
    BY <1>6 DEF Next, StartPrepare, Work, ObserveMain, ObserveTarget, Record,
       FinalPreparation, Mutate, Response, Recover, CutOff, Apply, Refuse,
       OthersChange, RunProgress, BranchChange, Settle, vars, targetVars
  <1>8. QED
    BY <1>2, <1>3, <1>5, <1>7

\* OutcomesInv for one caller.
OutcomeRests(c) ==
    /\ outcome[c] = "accepted" =>
        /\ token \in State
        /\ applied > 0 \/ others > token.others
    /\ reference[c] # 0 =>
        /\ token \in State
        /\ reference[c] \in Matching
        /\ reference[c] > token.baselineRunID
        /\ reference[c] = own \/ others > token.others

\* An outcome given earlier still rests on what it rested on.
LEMMA OutcomeKept ==
  ASSUME BInv, [Next]_vars, NEW c \in Caller,
         outcome'[c] = outcome[c], reference'[c] = reference[c]
  PROVE  OutcomeRests(c)'
  <1>1. OutcomeRests(c) /\ BrokerTypeOK
    BY DEF BInv, OutcomesInv, OutcomeRests
  <1>2. token \in State => token' = token /\ token.others \in Nat
    BY <1>1, TokenKept, TokenKinds DEF State
  <1>3. /\ applied > 0 => applied' > 0
        /\ Matching \subseteq Matching'
        /\ reference[c] = own /\ own # 0 => own' = own
    BY NextOnlyAdds
  <1>4. ASSUME token \in State, others > token.others PROVE others' > token.others
    BY <1>1, <1>2, <1>4, NextOnlyAdds DEF BrokerTypeOK
  <1>5. QED
    BY <1>1, <1>2, <1>3, <1>4 DEF OutcomeRests

\* What Recover finds newer than the token is the request's own effect or
\* comes with a change that others made.
LEMMA RecoverRests ==
  ASSUME BInv, NEW c \in Caller, Recover(c)
  PROVE  OutcomeRests(c)'
  <1>1. /\ BrokerTypeOK /\ outcome \in [Caller -> Verdict] /\ reference \in [Caller -> Nat]
        /\ others \in Nat /\ shown \in Nat /\ applied \in Nat /\ own \in Nat
        /\ operation \in Operation
        /\ UNCHANGED <<token, applied, others, own, dispatched>>
    BY DEF BInv, BrokerTypeOK, Verdict, Recover, targetVars, mutationVars
  <1>2. shown > 0 => applied > 0
    BY <1>1 DEF BInv, MutationInv
  <1>3. own # 0 => applied > 0
    BY <1>2 DEF BInv, MutationInv
  <1>4. Matching' = Matching
    BY <1>1, MatchingStays
  <1>5. CASE \E verdict \in {"pending", "rejected"} : Answer(c, verdict, 0)
    BY <1>1, <1>5 DEF Answer, OutcomeRests
  <1>6. CASE token \notin {None, Unsendable}
    <2>1. token \in State /\ Tells(token)
      BY <1>1, <1>6, TokenKinds DEF BInv, TokensInv
    <2>2. /\ token.others \in Nat /\ token.baselineRunAttempt \in Nat
          /\ token.cancellations \in Nat /\ token.others <= others
      BY <2>1 DEF State, Tells
    <2>3. CASE /\ operation = "refresh"
               /\ \E id \in NewerRuns : Answer(c, "accepted", id)
      <3>1. PICK id \in NewerRuns : Answer(c, "accepted", id)
        BY <2>3
      <3>2. /\ id \in Matching /\ id > token.baselineRunID /\ id # 0
            /\ id = own \/ others > token.others
        BY <1>1, <2>1, <2>3, MatchingFinite DEF NewerRuns, Listing, Tells
      <3>3. outcome'[c] = "accepted" /\ reference'[c] = id
        BY <1>1, <3>1 DEF Answer
      <3>4. QED
        BY <1>1, <1>3, <1>4, <2>1, <3>2, <3>3 DEF OutcomeRests
    <2>4. CASE operation # "refresh" /\ ShownByRun /\ Answer(c, "accepted", 0)
      <3>1. outcome'[c] = "accepted" /\ reference'[c] = 0
        BY <1>1, <2>4 DEF Answer
      <3>2. CASE operation = "rerun"
        <4>1. /\ run.attempt > token.baselineRunAttempt /\ run.attempt \in Nat
              /\ run.attempt - token.baselineRunAttempt
                    <= shown + (others - token.others)
          BY <2>1, <2>4, <3>2 DEF ShownByRun, Tells, BInv, BrokerTypeOK, Run
        <4>2. shown > 0 \/ others > token.others
          BY <1>1, <2>2, <4>1
        <4>3. QED
          BY <1>1, <1>2, <2>1, <3>1, <4>2 DEF OutcomeRests
      <3>3. CASE operation = "cancel"
        <4>1. /\ cancellations > token.cancellations /\ cancellations \in Nat
              /\ cancellations - token.cancellations <= shown + (others - token.others)
          BY <2>1, <2>4, <3>3 DEF ShownByRun, Tells, BInv, BrokerTypeOK
        <4>2. shown > 0 \/ others > token.others
          BY <1>1, <2>2, <4>1
        <4>3. QED
          BY <1>1, <1>2, <2>1, <3>1, <4>2 DEF OutcomeRests
      <3>4. QED
        BY <1>1, <2>4, <3>2, <3>3 DEF Operation
    <2>5. QED
      BY <1>5, <1>6, <2>3, <2>4 DEF Recover
  <1>7. QED
    BY <1>5, <1>6, TokenAssumption DEF Recover

\* Every outcome that callers are given rests on the mutation, or on a change
\* that others made after the token.
LEMMA OutcomesNext == BInv /\ [Next]_vars => OutcomesInv'
  <1> SUFFICES ASSUME BInv, [Next]_vars, NEW c \in Caller PROVE OutcomeRests(c)'
    BY DEF OutcomesInv, OutcomeRests
  <1>1. /\ BrokerTypeOK /\ outcome \in [Caller -> Verdict] /\ reference \in [Caller -> Nat]
    BY DEF BInv, BrokerTypeOK, Verdict
  <1>2. ASSUME NEW d \in Caller, NEW verdict, NEW id, Answer(d, verdict, id), d # c
        PROVE  outcome'[c] = outcome[c] /\ reference'[c] = reference[c]
    BY <1>1, <1>2 DEF Answer
  <1>3. ASSUME NEW verdict \in {"rejected", "pending"}, Answer(c, verdict, 0)
        PROVE  OutcomeRests(c)'
    BY <1>1, <1>3 DEF Answer, OutcomeRests
  <1>4. CASE UNCHANGED <<outcome, reference>>
    BY <1>4, OutcomeKept
  <1>5. ASSUME NEW d \in Caller, FinalPreparation(d) \/ Mutate(d) \/ Response(d)
        PROVE  OutcomeRests(c)'
    <2>1. CASE d # c
      BY <1>2, <1>4, <1>5, <2>1, OutcomeKept DEF FinalPreparation, Mutate, Response
    <2>2. CASE d = c /\ Response(c) /\ applied > 0 /\ Answer(c, "accepted", 0)
      <3>1. token' = token /\ applied' = applied /\ token \in State
        BY <2>2 DEF Response, mutationVars, BInv, CallersInv
      <3>2. outcome'[c] = "accepted" /\ reference'[c] = 0
        BY <1>1, <2>2 DEF Answer
      <3>3. QED
        BY <2>2, <3>1, <3>2 DEF OutcomeRests
    <2>3. QED
      BY <1>3, <1>4, <1>5, <2>1, <2>2 DEF FinalPreparation, Mutate, Response
  <1>6. ASSUME NEW d \in Caller, Recover(d) PROVE OutcomeRests(c)'
    <2>1. CASE d = c
      BY <1>6, <2>1, RecoverRests
    <2>2. CASE d # c
      <3>1. PICK verdict \in {"accepted", "rejected", "pending"}, id \in Nat :
              Answer(d, verdict, id)
        BY <1>1, <1>6, RecoverAnswers
      <3>2. QED
        BY <1>2, <2>2, <3>1, OutcomeKept
    <2>3. QED
      BY <2>1, <2>2
  <1>7. QED
    BY <1>4, <1>5, <1>6 DEF Next, Work, StartPrepare, ObserveMain, ObserveTarget, Record,
       CutOff, Apply, Refuse, Show, OthersChange, RunProgress, BranchChange, Settle,
       vars, callerVars

\* At first there is no token and no outcome.
LEMMA BrokerInit == Init => BInv
  <1> SUFFICES ASSUME Init PROVE BInv
    OBVIOUS
  <1>1. main \in [sha : Sha, protected : BOOLEAN] /\ run \in Run
    BY ShaAssumption DEF Init, FirstRuns, Run
  <1>2. dispatched \in Seq(Sha)
    <2>1. <<>> \in Seq(Sha)
      OBVIOUS
    <2>2. \A sha \in Sha : <<sha>> \in Seq(Sha)
      OBVIOUS
    <2>3. QED
      BY <2>1, <2>2 DEF Init
  <1>3. /\ pc \in [Caller -> Label] /\ held \in [Caller -> Tokens] /\ token \in Tokens
        /\ outcome \in [Caller -> Verdict] /\ reference \in [Caller -> Nat]
    BY DEF Init, Label, Tokens, Verdict
  <1>4. BrokerTypeOK
    BY <1>1, <1>2, <1>3 DEF Init, BrokerTypeOK, Label, Verdict
  <1>5. MutationInv /\ CallersInv /\ OutcomesInv
    BY DEF Init, MutationInv, CallersInv, OutcomesInv
  <1>6. TokensInv
    BY TokenAssumption DEF Init, TokensInv
  <1>7. QED
    BY <1>4, <1>5, <1>6 DEF BInv

\* The invariant is inductive.
LEMMA BrokerNext == BInv /\ [Next]_vars => BInv'
  BY BrokerTypeNext, MutationNext, CallersNext, TokensNext, OutcomesNext DEF BInv

-----------------------------------------------------------------------------
(* The theorems.                                                           *)

\* For any number of callers, runs, commits and changes: every reachable state
\* satisfies the invariant.
THEOREM BrokerInvariance == Spec => []BInv
  <1>1. QED
    BY BrokerInit, BrokerNext, PTL DEF Spec

\* Tokens and answers have the types that the service expects, and whoever
\* records a preparation has a token to record.
THEOREM BrokerTyped == Spec => []BrokerTypeOK
  <1>1. BInv => BrokerTypeOK
    BY DEF BInv
  <1>2. QED
    BY <1>1, BrokerInvariance, PTL

\* An accepted outcome is the effect of the request's own mutation, and the
\* run it names is the request's own, unless others touched the target.
THEOREM AcceptedIsTheirOwn == Spec => []AcceptedIsOwn
  <1>1. BInv => AcceptedIsOwn
    <2> SUFFICES ASSUME BInv, token # Unsendable, ~Disturbed,
                        NEW c \in Caller, outcome[c] = "accepted"
                 PROVE  applied > 0 /\ (reference[c] # 0 => reference[c] = own)
      BY DEF AcceptedIsOwn
    <2>1. token \in State
      BY DEF BInv, OutcomesInv
    <2>2. token.others = others /\ others \in Nat
      BY <2>1, TokenKinds DEF Disturbed, BInv, BrokerTypeOK
    <2>3. ~(others > token.others)
      BY <2>2
    <2>4. QED
      BY <2>3 DEF BInv, OutcomesInv
  <1>2. QED
    BY <1>1, BrokerInvariance, PTL

\* The run that an outcome names is at the requested commit and newer than
\* every run that Prepare saw, however long the list has grown.
THEOREM ReferenceIsAlwaysNew == Spec => []ReferenceIsNew
  <1>1. BInv => ReferenceIsNew
    BY DEF BInv, OutcomesInv, ReferenceIsNew
  <1>2. QED
    BY <1>1, BrokerInvariance, PTL
=============================================================================
