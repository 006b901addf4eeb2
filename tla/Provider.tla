------------------------------ MODULE Provider ------------------------------
(***************************************************************************)
(* What the operation service takes for granted about its Dispatcher, the  *)
(* GitHub broker, when it serves one request: the answers Prepare,         *)
(* Dispatch and Recover may give, and when.  OperationService calls a      *)
(* provider of this kind; GitHubBroker is shown to be one.                 *)
(***************************************************************************)
EXTENDS Integers

CONSTANTS Caller, None, Unsendable

VARIABLES
    operation,   \* of the request: "refresh", "rerun" or "cancel"
    epoch,       \* run attempts, new runs or cancellations that can be seen
    sent, applied, refused, shown,   \* what became of the mutation
    held,        \* the token Prepare answered, for each caller
    token,       \* the token of the stored dispatch record
    outcome      \* the last outcome of Dispatch or Recover, for each caller

provider == <<operation, epoch, sent, applied, refused, shown, held, token, outcome>>

Outcome == {"none", "accepted", "rejected", "pending"}

\* A refresh is recognised while it is the only change since the baseline.
Observed(baseline) ==
    IF operation = "refresh" THEN epoch = baseline + 1 ELSE epoch > baseline

ProviderInit ==
    /\ operation \in {"refresh", "rerun", "cancel"}
    /\ epoch \in Nat
    /\ sent = 0 /\ applied = 0 /\ refused = 0 /\ shown = 0
    /\ held = [c \in Caller |-> None]
    /\ token = None
    /\ outcome = [c \in Caller |-> "none"]

Prepare(c) ==
    /\ \E baseline \in {epoch, Unsendable, None} :
        held' = [held EXCEPT ![c] = baseline]
    /\ UNCHANGED <<operation, epoch, sent, applied, refused, shown, token, outcome>>

\* The first dispatch record stays.
Record(c) ==
    /\ token = None
    /\ held[c] # None
    /\ token' = held[c]
    /\ held' = [held EXCEPT ![c] = None]
    /\ UNCHANGED <<operation, epoch, sent, applied, refused, shown, outcome>>

Send ==
    /\ token \notin {None, Unsendable}
    /\ sent = 0
    /\ sent' = 1
    /\ UNCHANGED <<operation, epoch, applied, refused, shown, held, token, outcome>>

Conclude(c) ==
    /\ token # None
    /\ \E verdict \in {"accepted", "rejected", "pending"} :
        /\ verdict = "accepted" =>
            \/ applied > 0
            \/ token # Unsendable /\ Observed(token)
        /\ verdict = "rejected" => refused > 0 \/ token = Unsendable
        /\ outcome' = [outcome EXCEPT ![c] = verdict]
    /\ UNCHANGED <<operation, epoch, sent, applied, refused, shown, held, token>>

Apply ==
    /\ applied + refused < sent
    /\ applied' = applied + 1
    /\ UNCHANGED <<operation, epoch, sent, refused, shown, held, token, outcome>>

Refuse ==
    /\ applied + refused < sent
    /\ refused' = refused + 1
    /\ UNCHANGED <<operation, epoch, sent, applied, shown, held, token, outcome>>

Show ==
    /\ shown < applied
    /\ shown' = shown + 1
    /\ epoch' = epoch + 1
    /\ UNCHANGED <<operation, sent, applied, refused, held, token, outcome>>

OthersChange ==
    /\ epoch' = epoch + 1
    /\ UNCHANGED <<operation, sent, applied, refused, shown, held, token, outcome>>

ProviderNext ==
    \/ \E c \in Caller : Prepare(c) \/ Record(c) \/ Conclude(c)
    \/ Send \/ Apply \/ Refuse \/ Show \/ OthersChange

ProviderSpec == ProviderInit /\ [][ProviderNext]_provider
=============================================================================
