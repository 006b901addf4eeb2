------------------------------ MODULE MCReplica ------------------------------
(* Instances of Replica for TLC.  An instant is 15 seconds or more. *)
EXTENDS Replica

MCFetchTimeout == [k \in Kind |-> 1]
MCAnswers == [k \in Kind |-> IF k = "keys" THEN {3, 5} ELSE {1, 3, 5}]

\* Version 2 with five repositories of which the last one may be operated,
\* version 1 with a single one.
Documents ==
    LET five == [r \in 1..5 |-> [op \in {"rerun"} |-> 1]]
    IN  {[version |-> 2, connected |-> c, workflows |-> five,
          enabled |-> [r \in 1..5 |-> IF r = 5 THEN on ELSE {}]] :
            c \in {TRUE}, on \in {{"rerun"}}}
        \cup
        {[version |-> 2, connected |-> FALSE, workflows |-> five,
          enabled |-> [r \in 1..5 |-> on]] : on \in {{}, {"rerun"}}}
        \cup
        {[version |-> 1, connected |-> c,
          workflows |-> [r \in {1} |-> [op \in Operation |-> w]]] :
            c \in BOOLEAN, w \in {0, 1}}

App == [app : {1, 2}, installation : {1, 2}, keyFile : {1, 2}]

MCEnvironments ==
    [mode : {"development", "source-ready", "connected", "other"},
     catalog : Documents, https : BOOLEAN, complete : BOOLEAN,
     observation : {[app |-> 1, installation |-> 1, keyFile |-> 1]},
     dispatch : App]
=============================================================================
