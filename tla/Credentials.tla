----------------------------- MODULE Credentials -----------------------------
(***************************************************************************)
(* The credentials a replica keeps in memory: Google's verification keys   *)
(* for IAP assertions (internal/auth/iap.go), the access token of the      *)
(* workload (internal/adc/metadata.go) and the installation token of a     *)
(* GitHub App (internal/githubapp/client.go).  Each is kept behind a       *)
(* mutex, is fetched when it is missing or too old, and the mutex is held  *)
(* over the request that fetches it.                                       *)
(*                                                                         *)
(* The three caches share nothing, so a behaviour is about one of them.    *)
(* Time passes while a request is under way, and no time passes in code.   *)
(***************************************************************************)
EXTENDS Integers, Sequences, FiniteSets

CONSTANTS
    Handler,       \* goroutines that serve requests
    FetchTimeout,  \* [Kind -> how long a fetch may take], 10, 5 and 15 s
    CallTimeout,   \* how long a call with a token may take, 15 s
    Margin,        \* a token is used until this long before it expires, 60 s
    MaxLife,       \* the longest life of a token, two hours
    MinAge,        \* bounds of max-age for the keys, 60 s and a day
    MaxAge,
    DefaultAge,    \* their lifetime without a max-age in bounds, 10 minutes
    ClockSkew,     \* what is allowed for in the window of an assertion, 30 s
    Answers,       \* [Kind -> lives of tokens, values of max-age, that are answered]
    AssertionLife, \* how much longer an assertion is valid when it arrives
    MaxRotations,  \* bound: how often the keys are changed
    MaxTime,       \* bound: when the clock stops
    None

Kind == {"keys", "metadata", "installation"}
Time == 0..MaxTime

\* Each edition of the key set has a key more and one key less.
Edition == 1..(MaxRotations + 1)
Key == 0..(MaxRotations + 1)
KeysOf(edition) == {edition - 1, edition}

ASSUME TimeoutAssumption ==
    /\ FetchTimeout \in [Kind -> Nat] /\ CallTimeout \in Nat
    /\ Margin \in Nat /\ MaxLife \in Nat /\ ClockSkew \in Nat
    /\ \A k \in Kind : FetchTimeout[k] + CallTimeout < Margin
    /\ MinAge \in Nat /\ DefaultAge \in MinAge..MaxAge /\ MaxAge \in Nat
    /\ FetchTimeout["keys"] < MinAge
    /\ Answers \in [Kind -> SUBSET Nat] /\ AssertionLife \in Nat
    /\ MaxRotations \in Nat /\ MaxTime \in Nat

\* What an endpoint answers: how long it is good for, and the edition of the
\* keys or the time at which the token expires.
Answer == [life : Nat, content : Nat]
\* A request under way: when it began, and its answer.
Fetch == [start : Time, answer : Answer \cup {None}]
\* What a handler works with.
Assertion == [key : Key, expires : Nat]
Token == [expires : Nat, sent : Time]

ASSUME HandlerAssumption == IsFiniteSet(Handler)

ASSUME NoneAssumption ==
    None \notin Nat \cup Answer \cup Fetch \cup Assertion \cup Token

VARIABLES
    now,
    kind,       \* the cache this behaviour is about
    published,  \* the edition of the keys that the endpoint answers
    retired,    \* when each key was withdrawn
    cache,      \* what is kept, and when it expires as the replica reckons
    queue,      \* who sleeps until the mutex is free, in turn
    mutex,      \* whether newcomers may take it before them
    fetch,      \* the request of the one that holds it
    at,         \* where each handler is
    asked,      \* when it asked for the credential
    held        \* the assertion it checks, the token it calls with

worldVars == <<published, retired>>
handlerVars == <<at, asked, held>>
credentialVars ==
    <<now, kind, worldVars, cache, queue, mutex, fetch, handlerVars>>

Empty == [content |-> None, expires |-> 0]
First(h) == queue # <<>> /\ h = queue[1]

-----------------------------------------------------------------------------
(* A handler.  It holds the mutex while it fetches; what it does with the  *)
(* mutex besides takes no time and is one step.                            *)

\* What a handler brings along: an assertion that IAP signed with some key,
\* or nothing, when it is a token that it needs.
Brought ==
    IF kind # "keys" THEN {None}
    ELSE [key : Key, expires : {now + AssertionLife}]

\* Validate before it looks for the key; a request that needs a token.
Ask(h) ==
    /\ at[h] = "idle"
    /\ \E b \in Brought : held' = [held EXCEPT ![h] = b]
    /\ at' = [at EXCEPT ![h] = "asking"]
    /\ asked' = [asked EXCEPT ![h] = now]
    /\ UNCHANGED <<now, kind, worldVars, cache, queue, mutex, fetch>>

\* The mutex is held, or is being handed to one that starves: the handler
\* goes to sleep behind the others.
Park(h) ==
    /\ at[h] = "asking"
    /\ fetch # None \/ mutex = "starving"
    /\ at' = [at EXCEPT ![h] = "waiting"]
    /\ queue' = Append(queue, h)
    /\ UNCHANGED <<now, kind, worldVars, cache, mutex, fetch, asked, held>>

\* The mutex is free again; the handler is left with a result.
Unlock(h, result) ==
    /\ fetch' = None
    /\ at' = [at EXCEPT ![h] = result]
    /\ asked' = [asked EXCEPT ![h] = 0]

\* The rest of Validate, which reads the clock once it has the key.  The
\* signature is the key's, issuer and audience are right, and the assertion
\* was issued before it came.
Window(assertion) ==
    IF now - ClockSkew < assertion.expires THEN "verified" ELSE "expired"

\* The handler has what it asked for, as far as it is there, and goes on.
\* A token is known by the time at which it really expires.
Deliver(h, content) ==
    IF kind = "keys"
    THEN /\ Unlock(h, IF held[h].key \in KeysOf(content)
                      THEN Window(held[h]) ELSE "unknown")
         /\ held' = [held EXCEPT ![h] = None]
    ELSE /\ Unlock(h, "calling")
         /\ held' = [held EXCEPT ![h] = [expires |-> content, sent |-> now]]

\* The call is answered or times out; the handler goes on with its request.
Done(h) ==
    /\ at[h] \notin {"idle", "asking", "waiting", "fetching"}
    /\ at' = [at EXCEPT ![h] = "idle"]
    /\ held' = [held EXCEPT ![h] = None]
    /\ UNCHANGED <<now, kind, worldVars, cache, queue, mutex, fetch, asked>>

-----------------------------------------------------------------------------
(* The caches.                                                             *)

\* Variant: the clock is read before the mutex is asked for.
KeyUsableOnceAsked(h) ==
    held[h].key \in KeysOf(cache.content) /\ asked[h] < cache.expires

\* Variant: keys that have not expired are all there are.
KeysUsable(h) == now < cache.expires

\* JWKSValidator.key: the key is there, and the keys have not expired.
KeyUsable(h) == held[h].key \in KeysOf(cache.content) /\ now < cache.expires

\* Token of both sources.
TokenUsable == now + Margin < cache.expires

Usable(h) ==
    /\ cache.content # None
    /\ IF kind = "keys" THEN KeyUsable(h) ELSE TokenUsable

\* The head of the queue was woken, but a newcomer has taken the mutex.  When
\* it finds the mutex held and more than a millisecond has passed since it
\* went to sleep, it starves.  An instant is longer, and so is a fetch.
ModesOnceOvertaken(h) ==
    IF queue = <<>> THEN {mutex}
    ELSE IF Usable(h) THEN {mutex, "starving"}
    ELSE IF mutex = "overtaken" \/ asked[queue[1]] < now THEN {"starving"}
    ELSE {"overtaken", "starving"}

\* The head of the queue has got the mutex.  The others starve on until the
\* queue is empty or one gets it that has waited for less.
ModesOnceWoken(h) ==
    IF mutex # "starving" \/ Tail(queue) = <<>> THEN {"normal"}
    ELSE IF asked[h] < now THEN {"starving"}
    ELSE {"normal", "starving"}

\* The mutex is free and goes to the head of the queue, or to a newcomer
\* while nobody starves: serve the credential from the cache, or fetch one.
Lock(h) ==
    /\ fetch = None
    /\ \/ /\ First(h)
          /\ queue' = Tail(queue) /\ mutex' \in ModesOnceWoken(h)
       \/ /\ at[h] = "asking" /\ mutex # "starving"
          /\ mutex' \in ModesOnceOvertaken(h) /\ UNCHANGED queue
    /\ IF Usable(h)
       THEN Deliver(h, cache.content)
       ELSE /\ at' = [at EXCEPT ![h] = "fetching"]
            /\ fetch' = [start |-> now, answer |-> None]
            /\ UNCHANGED <<asked, held>>
    /\ UNCHANGED <<now, kind, worldVars, cache>>

\* The endpoint answers: the keys of now, or a token that expires then.
EndpointAnswers ==
    /\ fetch # None /\ fetch.answer = None
    /\ \E life \in Answers[kind] :
        fetch' = [fetch EXCEPT !.answer =
            [life    |-> life,
             content |-> IF kind = "keys" THEN published ELSE now + life]]
    /\ UNCHANGED <<now, kind, worldVars, cache, queue, mutex, handlerVars>>

\* cacheLifetime
CacheLifetime(maxAge) == IF maxAge \in MinAge..MaxAge THEN maxAge ELSE DefaultAge

\* Variant: any life will do.
AcceptableAnyLife(a) == a.life > 0

\* Whether the answer is accepted.  The metadata server answers how long
\* the token lives, GitHub when it expires, each within bounds.
Acceptable(a) ==
    CASE kind = "keys"         -> TRUE
      [] kind = "metadata"     -> a.life \in Margin..MaxLife
      [] kind = "installation" ->
            a.content \in (fetch.start + Margin + 1)..(fetch.start + MaxLife)

\* When it expires: the keys a lifetime after the fetch began, a token of
\* the metadata server its life after the answer has arrived.
ExpiryOf(a) ==
    CASE kind = "keys"         -> fetch.start + CacheLifetime(a.life)
      [] kind = "metadata"     -> now + a.life
      [] kind = "installation" -> a.content

\* The answer arrives and replaces what was kept, also when it lacks the key
\* that was asked for.
Receive(h) ==
    LET a == fetch.answer
    IN  /\ at[h] = "fetching" /\ a # None
        /\ IF Acceptable(a)
           THEN /\ cache' = [content |-> a.content, expires |-> ExpiryOf(a)]
                /\ Deliver(h, a.content)
           ELSE Unlock(h, "failed") /\ UNCHANGED <<cache, held>>
        /\ UNCHANGED <<now, kind, worldVars, queue, mutex>>

\* Variant: an error return that keeps the mutex.
FetchFailsLocked(h) ==
    /\ at[h] = "fetching"
    /\ at' = [at EXCEPT ![h] = "failed"]
    /\ UNCHANGED <<now, kind, worldVars, cache, queue, mutex, fetch, asked, held>>

\* The request fails or times out, or its answer is malformed; what was
\* kept stays.
FetchFails(h) ==
    /\ at[h] = "fetching"
    /\ Unlock(h, "failed")
    /\ UNCHANGED <<now, kind, worldVars, cache, queue, mutex, held>>

-----------------------------------------------------------------------------
(* What happens around them.                                               *)

\* Google publishes a new key and withdraws the oldest one.
Rotate ==
    /\ kind = "keys" /\ published <= MaxRotations
    /\ published' = published + 1
    /\ retired' = [retired EXCEPT ![published - 1] = now]
    /\ UNCHANGED <<now, kind, cache, queue, mutex, fetch, handlerVars>>

\* Variant: the client of the fetch has no timeout.
InTimeCallsOnly ==
    /\ \A h \in Handler :
        /\ at[h] = "calling" => now < held[h].sent + CallTimeout
        /\ at[h] = "waiting" => fetch # None
        /\ at[h] \in {"idle", "waiting", "fetching", "calling"}

\* The next instant is there only if no timeout has passed before, nobody
\* waits for a free mutex and nobody has code to run.
InTime ==
    /\ fetch # None => now < fetch.start + FetchTimeout[kind]
    /\ \A h \in Handler :
        /\ at[h] = "calling" => now < held[h].sent + CallTimeout
        /\ at[h] = "waiting" => fetch # None
        /\ at[h] \in {"idle", "waiting", "fetching", "calling"}

Tick ==
    /\ now < MaxTime /\ InTime
    /\ now' = now + 1
    /\ UNCHANGED <<kind, worldVars, cache, queue, mutex, fetch, handlerVars>>

CredentialsInit ==
    /\ now = 0
    /\ kind \in Kind
    /\ published = 1
    /\ retired = [k \in Key |-> None]
    /\ cache = Empty
    /\ queue = <<>> /\ mutex = "normal"
    /\ fetch = None
    /\ at = [h \in Handler |-> "idle"]
    /\ asked = [h \in Handler |-> 0]
    /\ held = [h \in Handler |-> None]

CredentialsNext ==
    \/ \E h \in Handler :
        \/ Ask(h) \/ Park(h) \/ Lock(h)
        \/ Receive(h) \/ FetchFails(h) \/ Done(h)
    \/ EndpointAnswers \/ Rotate \/ Tick

-----------------------------------------------------------------------------
(* Properties.                                                             *)

\* Every variable has its type, one handler at most fetches, and who sleeps
\* is in the queue.
CredentialsTypeOK ==
    /\ now \in Time
    /\ kind \in Kind
    /\ published \in Edition
    /\ retired \in [Key -> Time \cup {None}]
    /\ cache \in [content : Nat \cup {None}, expires : Nat]
    /\ queue \in Seq(Handler)
    /\ mutex \in {"normal", "overtaken", "starving"}
    /\ queue = <<>> => mutex = "normal"
    /\ fetch \in Fetch \cup {None}
    /\ at \in [Handler -> {"idle", "asking", "waiting", "fetching", "calling",
                           "verified", "expired", "unknown", "failed"}]
    /\ asked \in [Handler -> Time]
    /\ \A h \in Handler :
        /\ held[h] \in Assertion \cup Token \cup {None}
        /\ (\E i \in DOMAIN queue : queue[i] = h) <=> at[h] = "waiting"
        /\ at[h] = "fetching" =>
            fetch # None /\ \A g \in Handler \ {h} : at[g] # "fetching"
    /\ fetch # None => \E h \in Handler : at[h] = "fetching"

\* A token does not expire while it is in use, however long its fetch and
\* the call took and although the expiry of a workload token is reckoned
\* from the arrival of the answer (metadata.go:58 and 79, client.go:62, 96).
TokenOutlivesCall ==
    \A h \in Handler : at[h] = "calling" => now < held[h].expires

\* An assertion that is verified has not expired by more than the skew, and
\* its key was withdrawn less than a lifetime of the cache ago, however long
\* the handler waited for the mutex (iap.go:117, 138, 187, 231).
VerifiedInTime ==
    [][\A h \in Handler : at'[h] = "verified" /\ at[h] # "verified" =>
        LET k == held[h].key
        IN  /\ now < held[h].expires + ClockSkew
            /\ retired[k] # None => now < retired[k] + MaxAge]_credentialVars

\* A key that was published before the handler asked and still is, is never
\* reported unknown: new keys are found before the cache expires
\* (iap.go:188, 232).
KnownKeyIsFound ==
    [][\A h \in Handler : at'[h] = "unknown" /\ at[h] # "unknown" =>
        LET k == held[h].key
        IN  \/ k \notin KeysOf(published)
            \/ k > 1 /\ retired[k - 2] >= asked[h]]_credentialVars

\* While the endpoint hangs the handlers wait one behind the other, and a
\* newcomer may go before them.  A handler that sleeps still waits for no
\* more fetches than there are handlers, fewer by one for each that is before
\* it in the queue, and its own fetch comes on top (iap.go:185,
\* metadata.go:56, client.go:60).
WaitBounded ==
    /\ \A i \in DOMAIN queue :
        now - asked[queue[i]]
            <= FetchTimeout[kind] * (Cardinality(Handler) - i + 1)
    /\ \A h \in Handler : at[h] = "fetching" =>
        now - asked[h] <= FetchTimeout[kind] * (Cardinality(Handler) + 1)
=============================================================================
