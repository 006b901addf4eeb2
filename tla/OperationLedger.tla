-------------------------- MODULE OperationLedger --------------------------
(***************************************************************************)
(* What the operation service promises to those who submit operations, to  *)
(* those who approved them and to those who audit them, without saying how *)
(* (src/README.md, "Security boundary"; src/SECURITY.md):                  *)
(*   - a request identity, an operation binding and an approval are used   *)
(*     by one granted submission at most;                                  *)
(*   - the mutation of a granted submission is sent at most once, and not  *)
(*     at all once the submission is rejected;                             *)
(*   - the verdict is final, never rejects a mutation that was or may be   *)
(*     carried out, and the receipt repeats it.                            *)
(***************************************************************************)
CONSTANTS Intent, RequestID, RequestIDOf, BindingOf, ApprovalOf

VARIABLES
    granted,     \* the submissions that hold their three keys
    mutation,    \* [RequestID -> Mutation], what became of the mutation
    verdict,     \* [RequestID -> Verdict], the durable result
    published    \* [RequestID -> Verdict], the receipt

ledger == <<granted, mutation, verdict, published>>

Mutation == {"none", "sent", "applied", "refused"}
Verdict  == {"none", "accepted", "rejected"}

LedgerTypeOK ==
    /\ granted \subseteq Intent
    /\ mutation \in [RequestID -> Mutation]
    /\ verdict \in [RequestID -> Verdict]
    /\ published \in [RequestID -> Verdict]

Granted(r) == \E i \in granted : RequestIDOf[i] = r

Grant(i) ==
    /\ \A j \in granted :
        /\ RequestIDOf[j] # RequestIDOf[i]
        /\ BindingOf[j] # BindingOf[i]
        /\ ApprovalOf[j] # ApprovalOf[i]
    /\ granted' = granted \cup {i}
    /\ UNCHANGED <<mutation, verdict, published>>

\* An accepting verdict does not stop the mutation: recovery may find the
\* effect it looks for before the handler that prepared it has sent it.
Send(r) ==
    /\ Granted(r)
    /\ mutation[r] = "none"
    /\ verdict[r] # "rejected"
    /\ mutation' = [mutation EXCEPT ![r] = "sent"]
    /\ UNCHANGED <<granted, verdict, published>>

Settle(r, outcome) ==
    /\ mutation[r] = "sent"
    /\ mutation' = [mutation EXCEPT ![r] = outcome]
    /\ UNCHANGED <<granted, verdict, published>>

Accept(r) ==
    /\ Granted(r)
    /\ verdict[r] = "none"
    /\ verdict' = [verdict EXCEPT ![r] = "accepted"]
    /\ UNCHANGED <<granted, mutation, published>>

Reject(r) ==
    /\ Granted(r)
    /\ verdict[r] = "none"
    /\ mutation[r] \in {"none", "refused"}
    /\ verdict' = [verdict EXCEPT ![r] = "rejected"]
    /\ UNCHANGED <<granted, mutation, published>>

Publish(r) ==
    /\ verdict[r] # "none"
    /\ published[r] = "none"
    /\ published' = [published EXCEPT ![r] = verdict[r]]
    /\ UNCHANGED <<granted, mutation, verdict>>

LedgerInit ==
    /\ granted = {}
    /\ mutation = [r \in RequestID |-> "none"]
    /\ verdict = [r \in RequestID |-> "none"]
    /\ published = [r \in RequestID |-> "none"]

LedgerNext ==
    \/ \E i \in Intent : Grant(i)
    \/ \E r \in RequestID :
        \/ Send(r)
        \/ \E outcome \in {"applied", "refused"} : Settle(r, outcome)
        \/ Accept(r)
        \/ Reject(r)
        \/ Publish(r)

LedgerSpec == LedgerInit /\ [][LedgerNext]_ledger
=============================================================================
