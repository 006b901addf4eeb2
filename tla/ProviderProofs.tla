--------------------------- MODULE ProviderProofs ---------------------------
(***************************************************************************)
(* GitHubBroker implements Provider, what OperationService takes for       *)
(* granted about its dispatcher.                                           *)
(*                                                                         *)
(* The mapping counts: the epoch of a target is the number of runs at the  *)
(* request's commit, the run attempt or the number of cancellations, and a *)
(* recovery token stands for the epoch at which it was taken.  The broker  *)
(* sees a page of the run list only, so the proof is mostly about what     *)
(* that page says of the whole list.                                       *)
(***************************************************************************)
EXTENDS GitHubBrokerProofs

\* What the refinement mapping puts for the variables of Provider.
EpochNow ==
    CASE operation = "refresh" -> Cardinality(Matching)
      [] operation = "rerun" -> run.attempt
      [] operation = "cancel" -> cancellations
HeldNow == [c \in Caller |-> TokenOf(held[c])]
TokenNow == TokenOf(token)

-----------------------------------------------------------------------------
(* Epochs                                                                  *)

\* Each kind of operation counts one thing.
LEMMA EpochByOperation ==
  ASSUME BrokerTypeOK
  PROVE  /\ operation = "refresh" => EpochNow = Cardinality(Matching)
         /\ operation = "rerun" => EpochNow = run.attempt
         /\ operation = "cancel" => EpochNow = cancellations
         /\ EpochNow \in Nat
  <1>1. Cardinality(Matching) \in Nat
    BY MatchingFinite, FS_CardinalityType
  <1>2. run.attempt \in Nat /\ cancellations \in Nat /\ operation \in Operation
    BY DEF BrokerTypeOK, Run
  <1>3. QED
    BY <1>1, <1>2 DEF EpochNow, Operation

\* The runs that a recovery state knows of.
Known(b) == {id \in Matching : id <= b.baselineRunID}

\* The epoch that a recovery token records, one operation at a time.
LEMMA EpochOfByOperation ==
  ASSUME BrokerTypeOK, NEW b \in State
  PROVE  /\ operation = "refresh" => EpochOf(b) = Cardinality(Known(b))
         /\ operation = "rerun" => EpochOf(b) = b.baselineRunAttempt
         /\ operation = "cancel" => EpochOf(b) = b.cancellations
         /\ EpochOf(b) \in Nat
  <1>1. Known(b) \in SUBSET Matching
    BY DEF Known
  <1>2. IsFiniteSet(Known(b))
    BY <1>1, MatchingFinite, FS_Subset
  <1>3. Cardinality(Known(b)) \in Nat
    BY <1>2, FS_CardinalityType
  <1>4. b.baselineRunAttempt \in Nat /\ b.cancellations \in Nat /\ operation \in Operation
    BY DEF BrokerTypeOK, State
  <1>5. QED
    BY <1>3, <1>4 DEF EpochOf, Operation, Known

\* A token is mapped to itself, or to a number.
LEMMA TokenOfKinds ==
  ASSUME BrokerTypeOK, NEW t \in Tokens
  PROVE  /\ t \in State => TokenOf(t) = EpochOf(t) /\ TokenOf(t) \in Nat
         /\ t \notin State => TokenOf(t) = t /\ t \in {None, Unsendable}
         /\ TokenOf(t) = None <=> t = None
         /\ TokenOf(t) = Unsendable <=> t = Unsendable
  <1>1. CASE t \in State
    <2>1. t \notin {None, Unsendable} /\ EpochOf(t) \in Nat
      BY <1>1, TokenAssumption, EpochOfByOperation
    <2>2. QED
      BY <1>1, <2>1, TokenAssumption DEF TokenOf
  <1>2. CASE t \notin State
    BY <1>2 DEF TokenOf, Tokens
  <1>3. QED
    BY <1>1, <1>2

\* What happens to the target does not change what a token stands for.
LEMMA EpochOfKept ==
  ASSUME BInv, [Next]_vars, NEW b \in State, Tells(b)
  PROVE  EpochOf(b)' = EpochOf(b)
  <1>1. BrokerTypeOK /\ BrokerTypeOK' /\ operation' = operation
    BY BrokerTypeNext DEF BInv, Next, StartPrepare, Work, ObserveMain, ObserveTarget,
       Record, FinalPreparation, Mutate, Response, Recover, CutOff, Apply, Refuse, Show,
       OthersChange, RunProgress, BranchChange, Settle, vars
  <1>2. Known(b)' = Known(b)
    <2>1. \/ dispatched' = dispatched
          \/ \E sha \in Sha : dispatched' = Append(dispatched, sha)
      BY ShaAssumption DEF Next, StartPrepare, Work, ObserveMain, ObserveTarget,
         Record, FinalPreparation, Mutate, Response, Recover, CutOff, Apply, Refuse,
         Show, OthersChange, RunProgress, BranchChange, Settle, vars, targetVars,
         Rerun, Cancel, DispatchWorkflow
    <2>2. /\ b.baselineRunID \in Nat /\ Len(dispatched) \in Nat
          /\ b.baselineRunID <= Len(dispatched)
      BY <1>1, MatchingFinite DEF State, Tells
    <2>3. Matching' = Matching \/ Matching' = Matching \cup {Len(dispatched) + 1}
      BY <1>1, <2>1, MatchingGrows, MatchingStays
    <2>4. ~(Len(dispatched) + 1 <= b.baselineRunID)
      BY <2>2
    <2>5. QED
      BY <2>3, <2>4 DEF Known
  <1>3. EpochOf(b)' = EpochOf(b)
    BY <1>1, <1>2 DEF EpochOf, Known
  <1>4. QED
    BY <1>3

\* The tokens of a state, seen one step later.
LEMMA TokenOfKept ==
  ASSUME BInv, [Next]_vars, NEW t \in Tokens,
         t \in State => Tells(t)
  PROVE  TokenOf(t)' = TokenOf(t)
  <1>1. t \in State => EpochOf(t)' = EpochOf(t)
    BY EpochOfKept
  <1>2. t \notin State => t \in {None, Unsendable}
    BY DEF Tokens
  <1>3. QED
    BY <1>1, <1>2 DEF TokenOf

\* The token is the same where it was not written.
LEMMA TokenNowStays ==
  ASSUME BInv, [Next]_vars, token' = token
  PROVE  TokenNow' = TokenNow
  <1>1. PICK t \in Tokens : t = token
    BY DEF BInv, BrokerTypeOK
  <1>2. TokenOf(t)' = TokenOf(t)
    BY <1>1, TokenOfKept DEF BInv, TokensInv
  <1>3. TokenNow = TokenOf(t) /\ TokenNow' = TokenOf(t)'
    BY <1>1 DEF TokenNow, TokenOf, EpochOf
  <1>4. QED
    BY <1>2, <1>3

\* A caller that takes a token up, or puts it down, changes its own only.
LEMMA HeldNowMoves ==
  ASSUME BInv, [Next]_vars, NEW c \in Caller, NEW t \in Tokens,
         t \in State => Tells(t),
         held' = [held EXCEPT ![c] = t]
  PROVE  HeldNow' = [HeldNow EXCEPT ![c] = TokenOf(t)]
  <1>1. held \in [Caller -> Tokens]
    BY DEF BInv, BrokerTypeOK
  <1>2. \A u \in Tokens : (u \in State => Tells(u)) => TokenOf(u)' = TokenOf(u)
    BY TokenOfKept
  <1>3. ASSUME NEW d \in Caller PROVE TokenOf(held[d])' = TokenOf(held'[d])
    <2>1. held'[d] = IF d = c THEN t ELSE held[d]
      BY <1>1
    <2>2. held'[d] \in Tokens
      BY <1>1, <2>1
    <2>3. held'[d] \in State => Tells(held'[d])
      BY <2>1 DEF BInv, TokensInv
    <2>4. (held'[d] \in State => Tells(held'[d])) => TokenOf(held[d])' = TokenOf(held'[d])
      BY <1>2, <2>2, Zenon DEF TokenOf, EpochOf
    <2>5. QED
      BY <2>3, <2>4
  <1>4. QED
    BY <1>1, <1>3 DEF HeldNow

\* Nobody takes up a token.
LEMMA HeldNowStays ==
  ASSUME BInv, [Next]_vars, held' = held
  PROVE  HeldNow' = HeldNow
  <1>1. held \in [Caller -> Tokens]
    BY DEF BInv, BrokerTypeOK
  <1>2. ASSUME NEW d \in Caller PROVE TokenOf(held[d])' = TokenOf(held[d])
    <2>1. PICK u \in Tokens : u = held[d]
      BY <1>1
    <2>2. TokenOf(u)' = TokenOf(u)
      BY <2>1, TokenOfKept DEF BInv, TokensInv
    <2>3. TokenOf(held[d])' = TokenOf(u)' /\ TokenOf(held[d]) = TokenOf(u)
      BY <2>1 DEF TokenOf, EpochOf
    <2>4. QED
      BY <2>2, <2>3
  <1>3. QED
    BY <1>2 DEF HeldNow

\* The target is as it was.
LEMMA EpochStays ==
  ASSUME UNCHANGED <<operation, targetVars>>
  PROVE  EpochNow' = EpochNow
  BY DEF EpochNow, Matching, targetVars

-----------------------------------------------------------------------------
(* What a page of the list says of the whole list.                         *)

\* The run just below the newest one is listed too: a page has room for two.
LEMMA SecondIsListed ==
  ASSUME BrokerTypeOK, NEW x \in Matching, NEW y \in Matching,
         \A k \in Matching : k > y => k = x
  PROVE  y \in Listing
  <1> DEFINE above == {k \in Matching : k > y}
  <1>1. above \in SUBSET {x}
    OBVIOUS
  <1>2. IsFiniteSet({x}) /\ Cardinality({x}) = 1
    BY FS_Singleton
  <1>3. IsFiniteSet(above) /\ Cardinality(above) <= 1
    BY <1>1, <1>2, FS_Subset
  <1>4. Cardinality(above) \in Nat
    BY <1>3, FS_CardinalityType
  <1>5. Cardinality(above) < PerPage
    BY <1>3, <1>4, ListAssumption
  <1>6. QED
    BY <1>5 DEF Listing

\* If the page shows one run newer than the baseline, there is no other.
LEMMA OneNewerRun ==
  ASSUME BrokerTypeOK, token \in State, NEW x, NewerRuns = {x}
  PROVE  /\ x \in Matching /\ x > token.baselineRunID
         /\ \A k \in Matching : k > token.baselineRunID => k = x
  <1>1. /\ Len(dispatched) \in Nat /\ Matching \subseteq 1..Len(dispatched)
        /\ token.baselineRunID \in Nat
    BY MatchingFinite DEF State
  <1>2. x \in Matching /\ x > token.baselineRunID
    BY DEF NewerRuns, Listing
  <1> DEFINE Others == {k \in Matching : k > token.baselineRunID /\ k # x}
  <1>3. Others = {}
    <2>1. SUFFICES ASSUME Others # {} PROVE FALSE
      OBVIOUS
    <2>2. Others \in SUBSET Nat /\ \A k \in Others : k <= Len(dispatched)
      <3>1. Others \subseteq 1..Len(dispatched)
        BY <1>1
      <3>2. \A k \in 1..Len(dispatched) : k \in Nat /\ k <= Len(dispatched)
        BY <1>1
      <3>3. QED
        BY <3>1, <3>2
    <2>3. PICK y \in Others : \A k \in Others : k <= y
      BY <1>1, <2>1, <2>2, GreatestExists
    <2>4. ASSUME NEW k \in Matching, k > y PROVE k = x
      <3>1. k \in Nat /\ y \in Nat /\ y > token.baselineRunID
        BY <1>1, <2>2
      <3>2. k > token.baselineRunID
        BY <1>1, <2>4, <3>1
      <3>3. ~(k <= y)
        BY <2>4, <3>1
      <3>4. QED
        BY <2>3, <3>2, <3>3
    <2>5. y \in Listing
      BY <1>2, <2>4, SecondIsListed
    <2>6. y \in NewerRuns /\ y # x
      BY <2>5 DEF NewerRuns
    <2>7. QED
      BY <2>6
  <1>4. QED
    BY <1>2, <1>3

\* When it is taken, a baseline stands for what can be seen of the target.
LEMMA BaselineIsEpoch ==
  ASSUME BrokerTypeOK
  PROVE  EpochOf(Baseline) = EpochNow
  <1>1. Baseline \in State /\ operation \in Operation
    BY BaselineIsState DEF BrokerTypeOK
  <1>2. CASE operation = "refresh"
    <2>1. Baseline.baselineRunID = Max(Listing \cup {0})
      BY <1>2 DEF Baseline
    <2>2. Known(Baseline) = Matching
      BY <2>1, BaselineIsNewest DEF Known
    <2>3. QED
      BY <1>1, <1>2, <2>2, EpochByOperation, EpochOfByOperation
  <1>3. CASE operation = "rerun"
    BY <1>1, <1>3, EpochByOperation, EpochOfByOperation DEF Baseline
  <1>4. CASE operation = "cancel"
    BY <1>1, <1>4, EpochByOperation, EpochOfByOperation DEF Baseline
  <1>5. QED
    BY <1>1, <1>2, <1>3, <1>4 DEF Operation

\* What Recover takes for the effect of a mutation is an epoch that Provider
\* accepts as observed.
LEMMA ShownIsObserved ==
  ASSUME BInv, token \in State,
         IF operation = "refresh" THEN ShownByListing ELSE ShownByRun
  PROVE  IF operation = "refresh" THEN EpochNow = EpochOf(token) + 1
                                  ELSE EpochNow > EpochOf(token)
  <1>1. BrokerTypeOK /\ Tells(token) /\ operation \in Operation
    BY DEF BInv, TokensInv, BrokerTypeOK
  <1>2. CASE operation = "refresh"
    <2>1. IsFiniteSet(NewerRuns)
      <3>1. NewerRuns \in SUBSET Matching
        BY DEF NewerRuns, Listing
      <3>2. QED
        BY <1>1, <3>1, MatchingFinite, FS_Subset
    <2>2. PICK x : NewerRuns = {x}
      BY <1>2, <2>1, FS_Singleton DEF ShownByListing
    <2>3. /\ x \in Matching /\ x > token.baselineRunID
          /\ \A k \in Matching : k > token.baselineRunID => k = x
      BY <1>1, <2>2, OneNewerRun
    <2>4. Matching \subseteq Nat /\ token.baselineRunID \in Nat
      BY <1>1, MatchingFinite DEF State
    <2>5. Matching = Known(token) \cup {x} /\ x \notin Known(token)
      <3>1. \A k \in Matching : k <= token.baselineRunID \/ k > token.baselineRunID
        BY <2>4
      <3>2. ~(x <= token.baselineRunID)
        BY <2>3, <2>4
      <3>3. QED
        BY <2>3, <3>1, <3>2 DEF Known
    <2>6. IsFiniteSet(Known(token))
      <3>1. Known(token) \in SUBSET Matching
        BY DEF Known
      <3>2. QED
        BY <1>1, <3>1, MatchingFinite, FS_Subset
    <2>7. Cardinality(Known(token) \cup {x}) = Cardinality(Known(token)) + 1
      BY <2>5, <2>6, FS_AddElement
    <2>8. QED
      BY <1>1, <1>2, <2>5, <2>7, EpochByOperation, EpochOfByOperation
  <1>3. CASE operation = "rerun"
    BY <1>1, <1>3, EpochByOperation, EpochOfByOperation DEF ShownByRun
  <1>4. CASE operation = "cancel"
    BY <1>1, <1>4, EpochByOperation, EpochOfByOperation DEF ShownByRun, Tells
  <1>5. QED
    BY <1>1, <1>2, <1>3, <1>4 DEF Operation

-----------------------------------------------------------------------------
(* Provider in terms of the mapping.                                       *)

\* A caller takes up a token, or puts one down.
LEMMA ProviderPrepares ==
  ASSUME NEW c \in Caller, NEW baseline \in {EpochNow, Unsendable, None},
         HeldNow' = [HeldNow EXCEPT ![c] = baseline],
         UNCHANGED <<operation, EpochNow, sent, applied, refused, shown, TokenNow, outcome>>
  PROVE  Dispatcher!Prepare(c)
  BY DEF Dispatcher!Prepare, EpochNow, HeldNow, TokenNow

\* The dispatch record is written.
LEMMA ProviderRecords ==
  ASSUME NEW c \in Caller, TokenNow = None, TokenOf(held[c]) # None,
         TokenNow' = TokenOf(held[c]), HeldNow' = [HeldNow EXCEPT ![c] = None],
         UNCHANGED <<operation, EpochNow, sent, applied, refused, shown, outcome>>
  PROVE  Dispatcher!Record(c)
  BY DEF Dispatcher!Record, EpochNow, HeldNow, TokenNow

\* The mutation is sent.
LEMMA ProviderSends ==
  ASSUME TokenNow \notin {None, Unsendable}, sent = 0, sent' = 1,
         UNCHANGED <<operation, EpochNow, applied, refused, shown, HeldNow, TokenNow,
                     outcome>>
  PROVE  Dispatcher!Send
  BY DEF Dispatcher!Send, EpochNow, HeldNow, TokenNow

\* A caller is answered.
LEMMA ProviderConcludes ==
  ASSUME NEW c \in Caller, TokenNow # None,
         NEW verdict \in {"accepted", "rejected", "pending"},
         verdict = "accepted" =>
            \/ applied > 0
            \/ /\ TokenNow # Unsendable
               /\ IF operation = "refresh" THEN EpochNow = TokenNow + 1
                                           ELSE EpochNow > TokenNow,
         verdict = "rejected" => refused > 0 \/ TokenNow = Unsendable,
         outcome' = [outcome EXCEPT ![c] = verdict],
         UNCHANGED <<operation, EpochNow, sent, applied, refused, shown, HeldNow,
                     TokenNow>>
  PROVE  Dispatcher!Conclude(c)
  BY DEF Dispatcher!Conclude, Dispatcher!Observed, EpochNow, HeldNow, TokenNow

\* GitHub decides on the mutation, or shows its effect; others change the target.
LEMMA ProviderMoves ==
  ASSUME UNCHANGED <<operation, sent, HeldNow, TokenNow, outcome>>
  PROVE  /\ /\ applied + refused < sent /\ applied' = applied + 1
            /\ UNCHANGED <<EpochNow, refused, shown>>
            => Dispatcher!Apply
         /\ /\ applied + refused < sent /\ refused' = refused + 1
            /\ UNCHANGED <<EpochNow, applied, shown>>
            => Dispatcher!Refuse
         /\ /\ shown < applied /\ shown' = shown + 1 /\ EpochNow' = EpochNow + 1
            /\ UNCHANGED <<applied, refused>>
            => Dispatcher!Show
         /\ EpochNow' = EpochNow + 1 /\ UNCHANGED <<applied, refused, shown>>
            => Dispatcher!OthersChange
         /\ UNCHANGED <<EpochNow, applied, refused, shown>>
            => UNCHANGED Dispatcher!provider
  BY DEF Dispatcher!Apply, Dispatcher!Refuse, Dispatcher!Show, Dispatcher!OthersChange,
         Dispatcher!provider, EpochNow, HeldNow, TokenNow

-----------------------------------------------------------------------------
(* The steps of a caller.                                                  *)

\* The reads of Prepare, and a caller that is cut off.
LEMMA PreparationPrepares ==
  ASSUME BInv, [Next]_vars, NEW c \in Caller,
         \/ StartPrepare(c) \/ ObserveMain(c) \/ ObserveTarget(c)
         \/ Record(c) /\ token # None
         \/ CutOff(c)
  PROVE  Dispatcher!Prepare(c) \/ UNCHANGED Dispatcher!provider
  <1>1. /\ BrokerTypeOK
        /\ UNCHANGED <<operation, targetVars, sent, applied, refused, shown, token, outcome>>
    BY DEF BInv, StartPrepare, ObserveMain, ObserveTarget, Record, CutOff, mutationVars
  <1>2. UNCHANGED <<EpochNow, TokenNow>>
    BY <1>1, EpochStays, TokenNowStays
  <1>3. CASE held' = held
    <2>1. HeldNow' = HeldNow
      BY <1>3, HeldNowStays
    <2>2. QED
      BY <1>1, <1>2, <2>1, ProviderMoves
  <1>4. ASSUME NEW t \in {None, Unsendable}, held' = [held EXCEPT ![c] = t]
        PROVE  Dispatcher!Prepare(c)
    <2>1. t \in Tokens /\ t \notin State
      BY TokenAssumption DEF Tokens
    <2>2. HeldNow' = [HeldNow EXCEPT ![c] = TokenOf(t)]
      BY <1>4, <2>1, HeldNowMoves
    <2>3. TokenOf(t) = t
      BY <1>1, <2>1, TokenOfKinds
    <2>4. HeldNow' = [HeldNow EXCEPT ![c] = t]
      BY <2>2, <2>3
    <2>5. QED
      BY <1>1, <1>2, <2>4, ProviderPrepares
  <1>5. CASE TargetAsRequested /\ held' = [held EXCEPT ![c] = Baseline]
    <2>1. PICK t \in Tokens : t = Baseline /\ t \in State /\ Tells(t)
      BY <1>5, BaselineTells DEF Tokens
    <2>2. HeldNow' = [HeldNow EXCEPT ![c] = TokenOf(t)]
      BY <1>5, <2>1, HeldNowMoves
    <2>3. TokenOf(t) = EpochNow
      BY <1>1, <2>1, TokenOfKinds, BaselineIsEpoch
    <2>4. HeldNow' = [HeldNow EXCEPT ![c] = EpochNow]
      BY <2>2, <2>3
    <2>5. QED
      BY <1>1, <1>2, <2>4, ProviderPrepares
  <1>6. QED
    BY <1>3, <1>4, <1>5 DEF StartPrepare, ObserveMain, ObserveTarget, Record, CutOff

\* PutDispatch stores what its caller holds.
LEMMA RecordRecords ==
  ASSUME BInv, [Next]_vars, NEW c \in Caller, Record(c), token = None
  PROVE  Dispatcher!Record(c)
  <1>1. /\ BrokerTypeOK /\ held[c] # None /\ held[c] \in Tokens
        /\ held \in [Caller -> Tokens]
        /\ UNCHANGED <<operation, targetVars, sent, applied, refused, shown, outcome>>
        /\ token' = held[c] /\ held' = [held EXCEPT ![c] = None]
    BY DEF BInv, BrokerTypeOK, Record, mutationVars
  <1>2. EpochNow' = EpochNow
    BY <1>1, EpochStays
  <1>3. None \in Tokens /\ None \notin State /\ TokenOf(None) = None
    BY TokenAssumption DEF Tokens, TokenOf
  <1>4. HeldNow' = [HeldNow EXCEPT ![c] = None]
    <2>1. HeldNow' = [HeldNow EXCEPT ![c] = TokenOf(None)]
      BY <1>1, <1>3, HeldNowMoves
    <2>2. QED
      BY <1>3, <2>1
  <1>5. TokenOf(held[c]) # None
    BY <1>1, TokenOfKinds
  <1>6. TokenNow = None
    BY DEF TokenNow, TokenOf
  <1>7. TokenNow' = TokenOf(held[c])
    <2>1. PICK t \in Tokens : t = held[c]
      BY <1>1
    <2>2. TokenOf(t)' = TokenOf(t)
      BY <2>1, TokenOfKept DEF BInv, TokensInv
    <2>3. token' = t
      BY <1>1, <2>1
    <2>4. TokenNow' = TokenOf(t)'
      BY <2>3 DEF TokenNow, TokenOf, EpochOf
    <2>5. QED
      BY <2>1, <2>2, <2>4
  <1>8. QED
    BY <1>1, <1>2, <1>4, <1>5, <1>6, <1>7, ProviderRecords

\* The values that a step of Dispatch or Recover leaves alone.
LEMMA ConcludingStays ==
  ASSUME BInv, [Next]_vars, UNCHANGED <<operation, targetVars, token, held>>
  PROVE  UNCHANGED <<EpochNow, HeldNow, TokenNow>>
  BY EpochStays, HeldNowStays, TokenNowStays

\* The mutation is sent for a recovery state, and once.
LEMMA MutateSends ==
  ASSUME BInv, [Next]_vars, NEW c \in Caller, Mutate(c)
  PROVE  Dispatcher!Send \/ Dispatcher!Conclude(c)
  <1>1. /\ BrokerTypeOK /\ token \in Tokens /\ pc[c] = "dispatch"
        /\ UNCHANGED <<operation, targetVars, token, held, applied, refused, shown>>
    BY DEF BInv, BrokerTypeOK, Mutate
  <1>2. UNCHANGED <<EpochNow, HeldNow, TokenNow>>
    BY <1>1, ConcludingStays
  <1>3. sent = 0 /\ token \in State
    BY <1>1 DEF BInv, CallersInv
  <1>4. TokenNow \notin {None, Unsendable}
    BY <1>1, <1>3, TokenOfKinds, TokenKinds DEF TokenNow
  <1>5. CASE sent' = sent + 1 /\ UNCHANGED outcome
    BY <1>1, <1>2, <1>3, <1>4, <1>5, ProviderSends
  <1>6. CASE sent' = sent /\ Answer(c, "pending", 0)
    BY <1>1, <1>2, <1>4, <1>6, ProviderConcludes DEF Answer
  <1>7. QED
    BY <1>5, <1>6 DEF Mutate

\* The answers to a rejected preparation, to the mutation and to a recovery.
LEMMA AnswersConclude ==
  ASSUME BInv, [Next]_vars, NEW c \in Caller,
         FinalPreparation(c) \/ Response(c) \/ Recover(c)
  PROVE  Dispatcher!Conclude(c)
  <1>1. /\ BrokerTypeOK /\ token \in Tokens
        /\ UNCHANGED <<operation, targetVars, token, held, sent, applied, refused, shown>>
    BY DEF BInv, BrokerTypeOK, FinalPreparation, Response, Recover, mutationVars
  <1>2. UNCHANGED <<EpochNow, HeldNow, TokenNow>>
    BY <1>1, ConcludingStays
  <1>3. /\ token \in State => TokenNow = EpochOf(token)
        /\ TokenNow = None <=> token = None
        /\ TokenNow = Unsendable <=> token = Unsendable
    BY <1>1, TokenOfKinds DEF TokenNow
  <1>4. CASE FinalPreparation(c)
    <2>1. token = Unsendable /\ token # None
      BY <1>4, TokenAssumption DEF FinalPreparation, BInv, CallersInv
    <2>2. QED
      BY <1>1, <1>2, <1>3, <1>4, <2>1, ProviderConcludes DEF FinalPreparation, Answer
  <1>5. CASE Response(c)
    <2>1. token # None
      BY <1>5, TokenKinds DEF Response, BInv, CallersInv
    <2>2. PICK verdict \in {"accepted", "rejected", "pending"} :
            /\ Answer(c, verdict, 0)
            /\ verdict = "accepted" => applied > 0
            /\ verdict = "rejected" => refused > 0
      BY <1>5 DEF Response
    <2>3. QED
      BY <1>1, <1>2, <1>3, <2>1, <2>2, ProviderConcludes DEF Answer
  <1>6. CASE Recover(c)
    <2>1. CASE token = Unsendable /\ Answer(c, "rejected", 0)
      BY <1>1, <1>2, <1>3, <2>1, TokenAssumption, ProviderConcludes DEF Answer
    <2>2. CASE token \notin {None, Unsendable}
      <3>1. token \in State
        BY <1>1, <2>2, TokenKinds
      <3>2. CASE \/ operation = "refresh" /\ ShownByListing
                 \/ operation # "refresh" /\ ShownByRun
        <4>1. IF operation = "refresh" THEN EpochNow = TokenNow + 1
                                       ELSE EpochNow > TokenNow
          BY <1>3, <3>1, <3>2, ShownIsObserved
        <4>2. PICK verdict \in {"accepted", "pending"}, id \in Nat :
                Answer(c, verdict, id)
          <5>1. NewerRuns \subseteq Nat
            BY <1>1, MatchingFinite DEF NewerRuns, Listing
          <5>2. QED
            BY <1>6, <2>2, <3>2, <5>1 DEF Recover
        <4>3. QED
          BY <1>1, <1>2, <1>3, <2>2, <4>1, <4>2, ProviderConcludes DEF Answer
      <3>3. CASE Answer(c, "pending", 0)
        BY <1>1, <1>2, <1>3, <2>2, <3>3, ProviderConcludes DEF Answer
      <3>4. QED
        BY <1>6, <2>2, <3>2, <3>3 DEF Recover
    <2>3. QED
      BY <1>6, <2>1, <2>2 DEF Recover
  <1>7. QED
    BY <1>4, <1>5, <1>6

-----------------------------------------------------------------------------
(* The steps of GitHub and of others.                                      *)

\* A new run at the request's commit is one more, one at another is none.
LEMMA DispatchCounts ==
  ASSUME BrokerTypeOK, NEW sha \in Sha, DispatchWorkflow(sha),
         operation = "refresh", operation' = operation
  PROVE  EpochNow' = IF sha = RequestSha THEN EpochNow + 1 ELSE EpochNow
  <1>1. /\ Matching' = IF sha = RequestSha THEN Matching \cup {Len(dispatched) + 1}
                       ELSE Matching
        /\ Len(dispatched) + 1 \notin Matching
    BY MatchingGrows DEF DispatchWorkflow
  <1>2. Cardinality(Matching \cup {Len(dispatched) + 1}) = Cardinality(Matching) + 1
    BY <1>1, MatchingFinite, FS_AddElement
  <1>3. EpochNow = Cardinality(Matching) /\ EpochNow' = Cardinality(Matching')
    BY DEF EpochNow
  <1>4. QED
    BY <1>1, <1>2, <1>3

\* The target of a rerun counts attempts, that of a cancellation cancellations.
LEMMA RunCounts ==
  ASSUME BrokerTypeOK, Rerun \/ Cancel, operation # "refresh", operation' = operation
  PROVE  /\ operation = "rerun" /\ Rerun => EpochNow' = EpochNow + 1
         /\ operation = "rerun" /\ Cancel => EpochNow' = EpochNow
         /\ operation = "cancel" /\ Rerun => EpochNow' = EpochNow
         /\ operation = "cancel" /\ Cancel => EpochNow' = EpochNow + 1
  <1>1. /\ Rerun => run'.attempt = run.attempt + 1 /\ cancellations' = cancellations
        /\ Cancel => run'.attempt = run.attempt /\ cancellations' = cancellations + 1
    BY DEF BrokerTypeOK, Run, Rerun, Cancel
  <1>2. /\ operation = "rerun" => EpochNow = run.attempt /\ EpochNow' = run'.attempt
        /\ operation = "cancel" => EpochNow = cancellations /\ EpochNow' = cancellations'
    BY DEF EpochNow
  <1>3. QED
    BY <1>1, <1>2

\* What no caller does is seen by the provider as what it is.
LEMMA OutsideMoves ==
  ASSUME BInv, [Next]_vars,
         \/ Apply \/ Refuse \/ Show \/ OthersChange \/ RunProgress \/ BranchChange
         \/ Settle \/ UNCHANGED vars
  PROVE  [Dispatcher!ProviderNext]_(Dispatcher!provider)
  <1>1. /\ BrokerTypeOK /\ operation \in Operation
        /\ UNCHANGED <<operation, sent, outcome, held, token>>
    BY DEF BInv, BrokerTypeOK, Apply, Refuse, Show, OthersChange, RunProgress,
       BranchChange, Settle, vars, mutationVars, callerVars
  <1>2. HeldNow' = HeldNow /\ TokenNow' = TokenNow
    BY <1>1, HeldNowStays, TokenNowStays
  <1>3. CASE Apply \/ Refuse
    <2>1. EpochNow' = EpochNow
      BY <1>1, <1>3, EpochStays DEF Apply, Refuse
    <2>2. Dispatcher!Apply \/ Dispatcher!Refuse
      BY <1>1, <1>2, <1>3, <2>1, ProviderMoves DEF Apply, Refuse
    <2>3. QED
      BY <2>2 DEF Dispatcher!ProviderNext
  <1>4. CASE Show
    <2>1. EpochNow' = EpochNow + 1
      BY <1>1, <1>4, RunCounts, DispatchCounts, ShaAssumption DEF Show, Operation
    <2>2. Dispatcher!Show
      BY <1>1, <1>2, <1>4, <2>1, ProviderMoves DEF Show
    <2>3. QED
      BY <2>2 DEF Dispatcher!ProviderNext
  <1>5. CASE OthersChange
    <2>1. EpochNow' = EpochNow + 1 \/ EpochNow' = EpochNow
      BY <1>1, <1>5, RunCounts, DispatchCounts DEF OthersChange, Operation
    <2>2. UNCHANGED <<applied, refused, shown>>
      BY <1>5 DEF OthersChange, mutationVars
    <2>3. Dispatcher!OthersChange \/ UNCHANGED Dispatcher!provider
      BY <1>1, <1>2, <2>1, <2>2, ProviderMoves
    <2>4. QED
      BY <2>3 DEF Dispatcher!ProviderNext
  <1>6. CASE RunProgress
    <2>1. run'.attempt = run.attempt /\ UNCHANGED <<dispatched, cancellations>>
      BY <1>1, <1>6 DEF RunProgress, BrokerTypeOK, Run
    <2>2. EpochNow' = EpochNow
      BY <1>1, <2>1 DEF EpochNow, Matching
    <2>3. UNCHANGED <<applied, refused, shown>>
      BY <1>6 DEF RunProgress, mutationVars
    <2>4. UNCHANGED Dispatcher!provider
      BY <1>1, <1>2, <2>2, <2>3, ProviderMoves
    <2>5. QED
      BY <2>4
  <1>7. CASE BranchChange \/ Settle \/ UNCHANGED vars
    <2>1. UNCHANGED <<targetVars, applied, refused, shown>>
      BY <1>7 DEF BranchChange, Settle, vars, mutationVars
    <2>2. EpochNow' = EpochNow
      BY <1>1, <2>1, EpochStays
    <2>3. UNCHANGED Dispatcher!provider
      BY <1>1, <1>2, <2>1, <2>2, ProviderMoves
    <2>4. QED
      BY <2>3
  <1>8. QED
    BY <1>3, <1>4, <1>5, <1>6, <1>7

-----------------------------------------------------------------------------
(* The refinement.                                                         *)

\* At first there is no token, no mutation and no outcome.
LEMMA InitIsProviderInit == Init => Dispatcher!ProviderInit
  <1> SUFFICES ASSUME Init PROVE Dispatcher!ProviderInit
    OBVIOUS
  <1>1. BrokerTypeOK
    BY BrokerInit DEF BInv
  <1>2. EpochNow \in Nat
    BY <1>1, EpochByOperation
  <1>3. TokenOf(None) = None
    BY DEF TokenOf
  <1>4. \A c \in Caller : held[c] = None
    BY DEF Init
  <1>5. QED
    BY <1>2, <1>3, <1>4 DEF Init, Dispatcher!ProviderInit, EpochNow, Operation

\* Every step is a step of the provider or leaves it as it is.
LEMMA NextIsProviderNext ==
  ASSUME BInv, [Next]_vars
  PROVE  [Dispatcher!ProviderNext]_(Dispatcher!provider)
  <1>1. ASSUME NEW c \in Caller,
               StartPrepare(c) \/ Work(c) \/ Recover(c) \/ CutOff(c)
        PROVE  [Dispatcher!ProviderNext]_(Dispatcher!provider)
    <2>1. CASE \/ StartPrepare(c) \/ ObserveMain(c) \/ ObserveTarget(c)
               \/ Record(c) /\ token # None
               \/ CutOff(c)
      BY <2>1, PreparationPrepares DEF Dispatcher!ProviderNext
    <2>2. CASE Record(c) /\ token = None
      BY <2>2, RecordRecords DEF Dispatcher!ProviderNext
    <2>3. CASE Mutate(c)
      BY <2>3, MutateSends DEF Dispatcher!ProviderNext
    <2>4. CASE FinalPreparation(c) \/ Response(c) \/ Recover(c)
      BY <2>4, AnswersConclude DEF Dispatcher!ProviderNext
    <2>5. QED
      BY <1>1, <2>1, <2>2, <2>3, <2>4 DEF Work
  <1>2. QED
    BY <1>1, OutsideMoves DEF Next

\* For any number of callers and runs, and any page size from two on: Prepare,
\* Dispatch and Recover answer as the operation service takes for granted.
THEOREM BrokerImplementsProvider == Spec => ImplementsProvider
  <1>1. Init => Dispatcher!ProviderInit
    BY InitIsProviderInit
  <1>2. BInv /\ [Next]_vars => [Dispatcher!ProviderNext]_(Dispatcher!provider)
    BY NextIsProviderNext
  <1>3. Spec => []BInv
    BY BrokerInvariance
  <1>4. QED
    BY <1>1, <1>2, <1>3, PTL DEF Spec, ImplementsProvider, Dispatcher!ProviderSpec
=============================================================================
