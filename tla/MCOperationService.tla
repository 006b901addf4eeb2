------------------------- MODULE MCOperationService -------------------------
(***************************************************************************)
(* Instances of OperationService for TLC.  A submission is a record of the *)
(* parts that the service tells apart.                                     *)
(***************************************************************************)
EXTENDS OperationService, TLC

Submission(id, binding, approval, target, op, expires, text) ==
    [requestID |-> id, binding |-> binding, approval |-> approval,
     target |-> target, operation |-> op, expires |-> expires, text |-> text]

\* One approval in three submissions: as approved, under another request
\* identity, and with its evidence sealed again (another digest, hence
\* another binding).
First    == Submission("r1", "b1", "a1", "run", "rerun", 2, "canonical")
Renamed  == Submission("r2", "b1", "a1", "run", "rerun", 2, "canonical")
Resealed == Submission("r2", "b2", "a1", "run", "rerun", 2, "canonical")

\* Two with an approval of their own: a refresh, and the same rerun again.
Refresh == Submission("r2", "b3", "a2", "workflow", "refresh", 1, "canonical")
Other   == Submission("r2", "b3", "a2", "run", "rerun", 1, "canonical")

MCReuse    == {First, Renamed, Resealed, Other}
MCOne      == {First}
MCRefresh  == {Refresh}
MCTwo      == {First, Other}

MCRequestID   == {i.requestID : i \in Intent}
MCBinding     == {i.binding : i \in Intent}
MCApproval    == {i.approval : i \in Intent}
MCTarget      == {i.target : i \in Intent}
MCRequestIDOf == [i \in Intent |-> i.requestID]
MCBindingOf   == [i \in Intent |-> i.binding]
MCApprovalOf  == [i \in Intent |-> i.approval]
MCTargetOf    == [i \in Intent |-> i.target]
MCStoredAs    == [i \in Intent |->
    CHOOSE j \in Intent : j = [i EXCEPT !.text = "canonical"]]
MCOperationOf == [i \in Intent |-> i.operation]
MCExpiresAt   == [i \in Intent |-> i.expires]
MCDayOf       == [t \in 0..MaxTime |-> t]

Symmetry == Permutations(Handler) \cup Permutations(Nonce)
                \cup Permutations(ReceiptID)
=============================================================================
