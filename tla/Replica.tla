------------------------------- MODULE Replica -------------------------------
(***************************************************************************)
(* A process of the API (cmd/estate-ci-api/main.go): what it makes of its  *)
(* environment, and the requests it serves with the credentials of         *)
(* Credentials.                                                            *)
(***************************************************************************)
EXTENDS Credentials, Contract

CONSTANTS
    Environments   \* what processes are started in

VARIABLES
    process,     \* its phase
    setup        \* the environment, then what run built of it

replicaVars == <<process, setup>>
vars == <<credentialVars, replicaVars>>

-----------------------------------------------------------------------------
(* Start.  An environment: the mode, the catalog document, whether it uses *)
(* HTTPS, whether everything that must be set is set and can be read, and  *)
(* the identities of the two GitHub Apps.                                  *)

\* seedDevelopment seals a summary with one degraded repository, the fifth,
\* and cache hits that fall from one repository to the next.
SeedingWorks(document) == Cardinality(DOMAIN document.workflows) \in 5..46

\* connectedDispatcher, for complete configurations.
AppsSeparate(e) ==
    \A part \in {"app", "installation", "keyFile"} :
        e.observation[part] # e.dispatch[part]

\* What the mode demands, in run.
ModeAllows(e) ==
    CASE e.mode = "development"  -> SeedingWorks(e.catalog)
      [] e.mode = "source-ready" -> e.complete
      [] e.mode = "connected"    -> /\ e.catalog.connected
                                    /\ e.complete /\ AppsSeparate(e)
      [] OTHER                   -> FALSE

\* Variant: whatever the catalog says.
ServerAllowsAnyCatalog(e) == e.mode # "development" => e.https

\* NewServer: cookies are secure but in development, and only the mode that
\* dispatches nothing has a catalog that is not connected.
ServerAllows(e) ==
    /\ e.mode # "development" => e.https
    /\ e.mode = "source-ready" <=> ~e.catalog.connected

Starts(e) == DocumentValid(e.catalog) /\ ModeAllows(e) /\ ServerAllows(e)

Dispatcher(e) ==
    CASE e.mode = "development"  -> "simulation"
      [] e.mode = "source-ready" -> "failClosed"
      [] e.mode = "connected"    -> "broker"

\* The operations that Create would admit.
Admits(document) ==
    \E repository \in DOMAIN document.workflows :
        \E op \in DOMAIN document.workflows[repository] :
            Authorize(document,
                [repository |-> repository, operation |-> op,
                 workflow |-> document.workflows[repository][op]])
            = "authorized"

\* What NewServer and NewService are given.
Built(e) ==
    [dispatcher |-> Dispatcher(e),
     validator  |-> IF e.mode = "development" THEN "local" ELSE "iap",
     storage    |-> IF e.mode = "development" THEN "memory" ELSE "buckets",
     secure     |-> e.mode # "development",
     separate   |-> e.mode = "connected" /\ AppsSeparate(e),
     admits     |-> Admits(e.catalog)]

\* The credentials that the parts fetch.
Fetched(built) ==
    (IF built.validator = "iap" THEN {"keys"} ELSE {})
    \cup (IF built.storage = "buckets" THEN {"metadata"} ELSE {})
    \cup (IF built.dispatcher = "broker" THEN {"installation"} ELSE {})

Start ==
    /\ process = "starting"
    /\ \/ /\ ~Starts(setup)
          /\ process' = "refused"
          /\ UNCHANGED setup
       \/ /\ Starts(setup)
          /\ process' = "serving"
          /\ setup' = Built(setup)
    /\ UNCHANGED credentialVars

-----------------------------------------------------------------------------
(* Serving.                                                                *)

\* A part fetches the credentials that it was built with.
Serving == process = "serving" /\ kind \in Fetched(setup) /\ UNCHANGED replicaVars

\* ListenAndServe fails, the process is told to stop or is killed: what it
\* keeps in memory is gone.
Stop ==
    /\ process = "serving"
    /\ process' = "stopped"
    /\ cache' = Empty /\ fetch' = None
    /\ queue' = <<>> /\ mutex' = "normal"
    /\ at' = [h \in Handler |-> "idle"]
    /\ asked' = [h \in Handler |-> 0]
    /\ held' = [h \in Handler |-> None]
    /\ UNCHANGED <<now, kind, worldVars, setup>>

Init ==
    /\ CredentialsInit
    /\ process = "starting"
    /\ setup \in Environments

Next ==
    \/ Start \/ Stop
    \/ Serving /\ CredentialsNext

\* Who asks for the mutex is scheduled, who is woken takes it as long as it
\* is free, and fetches have timeouts.
Fairness ==
    \A h \in Handler :
        /\ WF_vars(Serving /\ (Park(h) \/ Lock(h)))
        /\ WF_vars(Serving /\ (Receive(h) \/ FetchFails(h)))

Spec == Init /\ [][Next]_vars /\ Fairness

-----------------------------------------------------------------------------
(* Properties.                                                             *)

\* What is built and what it may do belong together: nobody is admitted
\* without IAP but to a simulation that keeps its records in memory, GitHub
\* is reached with two separate identities only, and no approval is used up
\* by a process that dispatches nothing (main.go:70-142, 193, server.go:67).
WiredSafely ==
    process = "serving" =>
        /\ setup.validator = "local" <=> setup.dispatcher = "simulation"
        /\ setup.validator = "local" <=> setup.storage = "memory"
        /\ setup.dispatcher = "broker" => setup.separate /\ setup.secure
        /\ setup.dispatcher = "failClosed" => ~setup.admits

\* A handler that asks for the mutex gets it and a result, or its process
\* stops: no return path keeps the mutex, no fetch lasts for ever, newcomers
\* do not take the mutex for ever (iap.go:185, metadata.go:56, client.go:60).
EveryAskEnds ==
    \A h \in Handler : at[h] \in {"asking", "waiting"}
        ~> at[h] \notin {"asking", "waiting", "fetching"}
=============================================================================
