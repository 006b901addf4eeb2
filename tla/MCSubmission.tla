---------------------------- MODULE MCSubmission ----------------------------
(* Instances of Submission for TLC. *)
EXTENDS Submission

\* Each of the two asks, on evidence that names both as approvers.  2 becomes
\* an approver, and stops being one and an operator, while calls are served.
MCPerson == 1..2
MCRole == <<3, 1>>
MCUserOf == [c \in Client |-> IF c \in Tab THEN 1 ELSE 2]
MCRepositories == <<"a", "b">>

Rerun == [repository |-> "a", workflow |-> 1, run |-> 7, main |-> "m",
          plan |-> "p", conclusion |-> "success", decision |-> "approved",
          superseded |-> FALSE, approval |-> 1, operation |-> "rerun",
          requestedBy |-> 1, reason |-> "retry", approvers |-> <<1, 2>>,
          approvedAt |-> 0, observedAt |-> 0, expiresAt |-> 1]
Cancel == [Rerun EXCEPT !.repository = "b", !.workflow = 2, !.run = 8,
           !.approval = 2, !.operation = "cancel", !.superseded = TRUE,
           !.requestedBy = 2, !.expiresAt = 2]

Newer == [Rerun EXCEPT !.main = "n", !.run = 9]

MCEvidence == {Rerun, Newer, Cancel}
MCSnapshot == [r \in {"a", "b"} |-> IF r = "a" THEN Rerun ELSE Cancel]

IntentFor(e, id) ==
    [id |-> id, operation |-> e.operation, repository |-> e.repository,
     workflow |-> e.workflow, run |-> e.run, main |-> e.main, plan |-> e.plan,
     evidence |-> e, reason |-> e.reason, expiresAt |-> e.expiresAt]

MCIntents == {IntentFor(Cancel, "i1"), [IntentFor(Cancel, "s1") EXCEPT !.run = 9]}

\* One replica still reads a document of version 1, the other one of version
\* 2 in which cancelling waits for its qualification.
MCCatalog ==
    <<[version |-> 1, connected |-> TRUE,
       workflows |-> [r \in {"a", "b"} |->
            [op \in Operation |-> IF r = "a" THEN 1 ELSE 2]]],
      [version |-> 2, connected |-> TRUE,
       workflows |-> [r \in {"a", "b"} |->
            IF r = "a" THEN [op \in {"rerun"} |-> 1]
                       ELSE [op \in {"cancel"} |-> 2]],
       enabled |-> [r \in {"a", "b"} |-> IF r = "a" THEN {"rerun"} ELSE {}]]>>
=============================================================================
