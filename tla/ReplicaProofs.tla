---------------------------- MODULE ReplicaProofs ----------------------------
(***************************************************************************)
(* Proofs about Replica and Credentials, for any number of handlers and    *)
(* rotations, any environments, and any timeouts, margins and lives that   *)
(* satisfy TimeoutAssumption.                                              *)
(***************************************************************************)
EXTENDS Replica, FiniteSetTheorems, TLAPS

-----------------------------------------------------------------------------
(* The inductive invariant.                                                *)

\* How long each turn of the mutex may take.
Turn == FetchTimeout[kind]
Turns == Cardinality(Handler)

\* How long the one who has the mutex has been fetching.
Elapsed == IF fetch = None THEN 0 ELSE now - fetch.start

\* What those in the queue may have waited for besides the turns before them:
\* the turn that is over, and the newcomer that went before them.
Spare == (IF fetch = None THEN 1 ELSE 0) + (IF mutex = "starving" THEN 1 ELSE 0)

\* The turns that who is at place i of the queue may have waited for are
\* MaxTurns - i.
MaxTurns == Turns - 1 + Spare

Place == {"idle", "asking", "waiting", "fetching", "calling",
          "verified", "expired", "unknown", "failed"}

TypeInv ==
    /\ now \in Time
    /\ kind \in Kind
    /\ published \in Edition
    /\ retired \in [Key -> Time \cup {None}]
    /\ cache \in [content : Nat \cup {None}, expires : Nat]
    /\ queue \in Seq(Handler)
    /\ mutex \in {"normal", "overtaken", "starving"}
    /\ fetch \in Fetch \cup {None}
    /\ at \in [Handler -> Place]
    /\ asked \in [Handler -> Time]
    /\ held \in [Handler -> Assertion \cup Token \cup {None}]

\* Who waits is in the queue, once; one handler has the mutex and fetches.
QueueInv ==
    /\ \A i, j \in 1..Len(queue) : queue[i] = queue[j] => i = j
    /\ \A i \in 1..Len(queue) : at[queue[i]] = "waiting"
    /\ \A h \in Handler : at[h] = "waiting" =>
            \E i \in 1..Len(queue) : queue[i] = h
    /\ Len(queue) = 0 => mutex = "normal"
    /\ fetch # None => \E h \in Handler : at[h] = "fetching"
    /\ \A h \in Handler : at[h] = "fetching" =>
            fetch # None /\ \A g \in Handler : at[g] = "fetching" => g = h

\* What a handler holds: an assertion until it is verified, a token during
\* its call, which will end before the token does.
HeldInv ==
    \A h \in Handler :
        /\ kind = "keys" /\ at[h] \in {"asking", "waiting", "fetching"}
                => held[h] \in Assertion
        /\ at[h] = "calling" =>
                /\ held[h] \in Token
                /\ now <= held[h].sent + CallTimeout
                /\ held[h].sent + CallTimeout < held[h].expires

\* The oldest keys are withdrawn, in turn, each when a new one is published.
WorldInv ==
    \A k \in Key : /\ retired[k] # None <=> k < published - 1
                   /\ retired[k] # None => retired[k] <= now

\* No key is trusted for more than MaxAge once it is withdrawn; the expiry of
\* a token is reckoned too late by no more than a fetch may take.
CacheInv ==
    /\ kind = "keys" =>
        /\ cache.expires <= now + MaxAge
        /\ cache.content # None =>
            \A k \in Key : k \in KeysOf(cache.content) /\ retired[k] # None
                => cache.expires <= retired[k] + MaxAge
    /\ kind # "keys" /\ cache.content # None =>
            cache.expires <= cache.content + Turn

\* A fetch began after its handler asked and has not timed out.  Its answer
\* is from then or later.
FetchInv ==
    fetch # None =>
        /\ fetch.start <= now /\ now <= fetch.start + Turn
        /\ \A h \in Handler : at[h] = "fetching" => asked[h] <= fetch.start
        /\ fetch.answer # None /\ kind = "keys" =>
            /\ fetch.answer.content \in Edition
            /\ fetch.answer.content <= published
            /\ \A k \in Key : k \in KeysOf(fetch.answer.content) /\ retired[k] # None
                    => fetch.start <= retired[k]
            /\ \A k \in Key : k > 1 /\ k > fetch.answer.content /\ k <= published
                    => fetch.start <= retired[k - 2]
        /\ fetch.answer # None /\ kind # "keys" =>
            /\ fetch.start + fetch.answer.life <= fetch.answer.content
            /\ fetch.answer.content <= now + fetch.answer.life

\* Handlers that are further behind have waited for fewer turns, and who has
\* the mutex has waited for no more than all.
WaitInv ==
    /\ \A i \in 1..Len(queue) :
            now - asked[queue[i]] <= Turn * (MaxTurns - i) + Elapsed
    /\ \A h \in Handler : at[h] = "fetching" =>
            now - asked[h] <= Turn * Turns + Elapsed

\* Nobody asked in the future, who is not asleep yet asked just now, and
\* nobody in the queue asked before those that are before it.
AskedInv ==
    /\ \A h \in Handler : asked[h] <= now
    /\ \A h \in Handler : at[h] = "asking" => asked[h] = now
    /\ \A i, j \in 1..Len(queue) : i < j => asked[queue[i]] <= asked[queue[j]]

CredentialsInv ==
    /\ TypeInv /\ QueueInv /\ HeldInv /\ WorldInv
    /\ CacheInv /\ FetchInv /\ WaitInv /\ AskedInv

-----------------------------------------------------------------------------
(* Lemmas on constants and on the queue.                                   *)

\* The assumptions on the bounds, one by one.
LEMMA Timeouts ==
  ASSUME NEW k \in Kind
  PROVE  /\ FetchTimeout[k] \in Nat /\ CallTimeout \in Nat /\ Margin \in Nat
         /\ FetchTimeout[k] + CallTimeout < Margin
         /\ MaxTime \in Nat /\ MaxRotations \in Nat /\ ClockSkew \in Nat
         /\ MinAge \in Nat /\ MaxAge \in Nat /\ MinAge <= DefaultAge
         /\ DefaultAge \in Nat /\ DefaultAge <= MaxAge
         /\ FetchTimeout["keys"] < MinAge
  BY TimeoutAssumption DEF Kind

\* There are finitely many turns.
LEMMA TurnsType == Turns \in Nat
  BY HandlerAssumption, FS_CardinalityType DEF Turns

\* No fetch lasts longer than a turn.
LEMMA ElapsedType ==
  ASSUME TypeInv, FetchInv
  PROVE  /\ Elapsed \in Int /\ 0 <= Elapsed /\ Elapsed <= Turn
         /\ now \in Nat /\ Turn \in Nat
<1>1. now \in Nat /\ Turn \in Nat
  BY Timeouts DEF TypeInv, Turn, Time
<1>2. CASE fetch = None
  BY <1>1, <1>2 DEF Elapsed
<1>3. CASE fetch # None
  <2>1. fetch.start \in Nat
    BY <1>3, Timeouts DEF TypeInv, Fetch, Time
  <2>2. fetch.start <= now /\ now <= fetch.start + Turn
    BY <1>3 DEF FetchInv
  <2>3. QED
    BY <1>1, <1>3, <2>1, <2>2 DEF Elapsed
<1>4. QED
  BY <1>2, <1>3

\* A queue without repetitions is no longer than there are handlers.
LEMMA QueueFits ==
  ASSUME NEW q \in Seq(Handler),
         \A i, j \in 1..Len(q) : q[i] = q[j] => i = j
  PROVE  Len(q) <= Turns
<1>1. q \in Injection(1..Len(q), Handler)
  BY DEF Injection, IsInjective
<1>2. Cardinality(1..Len(q)) <= Cardinality(Handler)
  BY <1>1, HandlerAssumption, FS_Injection
<1>3. Cardinality(1..Len(q)) = Len(q)
  <2>1. Len(q) \in Nat
    OBVIOUS
  <2>2. Cardinality(1..Len(q)) = IF 1 > Len(q) THEN 0 ELSE Len(q) - 1 + 1
    BY <2>1, FS_Interval
  <2>3. QED
    BY <2>1, <2>2
<1>4. QED
  BY <1>2, <1>3 DEF Turns

\* What is left when the first one leaves.
LEMMA TailOf ==
  ASSUME NEW q \in Seq(Handler), Len(q) > 0
  PROVE  /\ Tail(q) \in Seq(Handler)
         /\ Len(Tail(q)) = Len(q) - 1
         /\ \A i \in 1..Len(Tail(q)) : Tail(q)[i] = q[i + 1]
  OBVIOUS

\* There is room in the queue for all but who has the mutex.
LEMMA QueueFitsBut ==
  ASSUME NEW q \in Seq(Handler), NEW h \in Handler,
         \A i, j \in 1..Len(q) : q[i] = q[j] => i = j,
         \A i \in 1..Len(q) : q[i] # h
  PROVE  Len(q) <= Turns - 1
<1> DEFINE p == Append(q, h)
<1>1. /\ p \in Seq(Handler) /\ Len(p) = Len(q) + 1 /\ Len(q) \in Nat
      /\ p[Len(q) + 1] = h /\ \A i \in 1..Len(q) : p[i] = q[i]
  OBVIOUS
<1>2. ASSUME NEW i \in 1..Len(p), NEW j \in 1..Len(p), p[i] = p[j]
      PROVE  i = j
  <2>1. /\ i \in 1..Len(q) \/ i = Len(q) + 1
        /\ j \in 1..Len(q) \/ j = Len(q) + 1
    BY <1>1
  <2>2. QED
    BY <1>1, <1>2, <2>1
<1>3. Len(p) <= Turns
  BY <1>1, <1>2, QueueFits
<1>4. QED
  BY <1>1, <1>3, TurnsType

\* More turns take more time.
LEMMA MoreTurns ==
  ASSUME NEW a \in Int, NEW b \in Int, a <= b, NEW t \in Nat
  PROVE  t * a <= t * b /\ t * a \in Int /\ t * b \in Int
<1>1. b - a \in Nat /\ t * (b - a) >= 0
  OBVIOUS
<1>2. t * b = t * a + t * (b - a)
  OBVIOUS
<1>3. t * a \in Int /\ t * b \in Int /\ t * (b - a) \in Int
  OBVIOUS
<1>4. QED
  BY <1>1, <1>2, <1>3

\* A handler that takes its turn leaves the queue, goes past it, or ends its
\* fetch.
Turned(h) ==
    \/ /\ fetch = None /\ First(h)
       /\ queue' = Tail(queue) /\ mutex' \in ModesOnceWoken(h)
    \/ /\ fetch = None /\ at[h] = "asking" /\ mutex # "starving"
       /\ queue' = queue /\ mutex' \in ModesOnceOvertaken(h)
    \/ /\ at[h] = "fetching"
       /\ queue' = queue /\ mutex' = mutex

\* The one that is woken is the first of the queue.
LEMMA FirstWaits ==
  ASSUME TypeInv, QueueInv, NEW h \in Handler, First(h)
  PROVE  /\ Len(queue) > 0 /\ queue[1] = h /\ 1 \in 1..Len(queue)
         /\ at[h] = "waiting"
<1>1. Len(queue) > 0 /\ queue[1] = h /\ 1 \in 1..Len(queue)
  BY DEF TypeInv, First
<1>2. QED
  BY <1>1 DEF QueueInv

\* The queue without the one whose turn it is, each of the others at its place
\* or one before it.
LEMMA TurnedQueue ==
  ASSUME TypeInv, QueueInv, NEW h \in Handler, Turned(h)
  PROVE  /\ queue' \in Seq(Handler) /\ Len(queue') \in Nat
         /\ mutex' \in {"normal", "overtaken", "starving"}
         /\ Len(queue') = 0 => mutex' = "normal"
         /\ at[h] \in {"asking", "waiting", "fetching"}
         /\ fetch = None \/ at[h] = "fetching"
         /\ \/ queue' = queue /\ at[h] # "waiting"
            \/ /\ First(h) /\ Len(queue') = Len(queue) - 1
               /\ \A i \in 1..Len(queue') :
                    /\ i + 1 \in 1..Len(queue) /\ i + 1 # 1
                    /\ queue'[i] = queue[i + 1]
<1>1. CASE fetch = None /\ First(h) /\ queue' = Tail(queue) /\ mutex' \in ModesOnceWoken(h)
  <2>1. /\ Len(queue) > 0 /\ queue[1] = h /\ at[h] = "waiting"
        /\ queue' \in Seq(Handler) /\ Len(queue') = Len(queue) - 1
        /\ Len(queue) \in Nat /\ Len(queue') \in Nat
        /\ \A i \in 1..Len(queue') : queue'[i] = queue[i + 1]
    BY <1>1, FirstWaits, TailOf DEF TypeInv
  <2>2. Len(queue') = 0 => Tail(queue) = <<>>
    BY <1>1, <2>1
  <2>3. /\ mutex' \in {"normal", "overtaken", "starving"}
        /\ Len(queue') = 0 => mutex' = "normal"
    BY <1>1, <2>2 DEF ModesOnceWoken
  <2>4. \A i \in 1..Len(queue') : i + 1 \in 1..Len(queue) /\ i + 1 # 1
    BY <2>1
  <2>5. QED
    BY <1>1, <2>1, <2>3, <2>4
<1>2. CASE fetch = None /\ at[h] = "asking" /\ queue' = queue /\ mutex' \in ModesOnceOvertaken(h)
  <2>1. Len(queue) = 0 => queue = <<>>
    BY DEF TypeInv
  <2>2. /\ mutex' \in {"normal", "overtaken", "starving"}
        /\ Len(queue) = 0 => mutex' = "normal"
    BY <1>2, <2>1 DEF ModesOnceOvertaken, TypeInv, QueueInv
  <2>3. QED
    BY <1>2, <2>2 DEF TypeInv
<1>3. CASE at[h] = "fetching" /\ queue' = queue /\ mutex' = mutex
  BY <1>3 DEF TypeInv, QueueInv
<1>4. QED
  BY <1>1, <1>2, <1>3 DEF Turned

\* The turn leaves the queue in order, and one handler with the mutex if it
\* goes on to fetch.
LEMMA TurnedInv ==
  ASSUME TypeInv, QueueInv, NEW h \in Handler, Turned(h),
         NEW place \in Place \ {"idle", "asking", "waiting"},
         at' = [at EXCEPT ![h] = place],
         place = "fetching" <=> fetch' # None
  PROVE  QueueInv' /\ \A i \in 1..Len(queue') : queue'[i] \in Handler \ {h}
<1>1. /\ queue' \in Seq(Handler) /\ Len(queue') \in Nat
      /\ Len(queue') = 0 => mutex' = "normal"
      /\ fetch = None \/ at[h] = "fetching"
      /\ \/ queue' = queue /\ at[h] # "waiting"
         \/ /\ First(h) /\ Len(queue') = Len(queue) - 1
            /\ \A i \in 1..Len(queue') :
                 /\ i + 1 \in 1..Len(queue) /\ i + 1 # 1
                 /\ queue'[i] = queue[i + 1]
  BY TurnedQueue
<1>2. at'[h] = place /\ \A g \in Handler : g # h => at'[g] = at[g]
  BY DEF TypeInv
<1>3. ASSUME NEW i \in 1..Len(queue')
      PROVE  queue'[i] \in Handler \ {h} /\ at'[queue'[i]] = "waiting"
  <2>1. CASE queue' = queue /\ at[h] # "waiting"
    BY <1>2, <2>1 DEF QueueInv, TypeInv
  <2>2. CASE First(h) /\ i + 1 \in 1..Len(queue) /\ i + 1 # 1 /\ queue'[i] = queue[i + 1]
    <3>1. queue[1] = h /\ 1 \in 1..Len(queue)
      BY <2>2, FirstWaits
    <3>2. queue[i + 1] # queue[1] /\ at[queue[i + 1]] = "waiting"
      BY <2>2, <3>1 DEF QueueInv
    <3>3. QED
      BY <1>2, <2>2, <3>1, <3>2 DEF TypeInv
  <2>3. QED
    BY <1>1, <2>1, <2>2
<1>4. ASSUME NEW i \in 1..Len(queue'), NEW j \in 1..Len(queue'), queue'[i] = queue'[j]
      PROVE  i = j
  <2>1. CASE queue' = queue
    BY <1>4, <2>1 DEF QueueInv
  <2>2. CASE /\ i + 1 \in 1..Len(queue) /\ queue'[i] = queue[i + 1]
             /\ j + 1 \in 1..Len(queue) /\ queue'[j] = queue[j + 1]
    <3>1. i + 1 = j + 1
      BY <1>4, <2>2 DEF QueueInv
    <3>2. QED
      BY <3>1, <1>1
  <2>3. QED
    BY <1>1, <2>1, <2>2
<1>5. ASSUME NEW g \in Handler, at'[g] = "waiting"
      PROVE  \E i \in 1..Len(queue') : queue'[i] = g
  <2>1. g # h /\ at[g] = "waiting"
    BY <1>2, <1>5
  <2>2. PICK i \in 1..Len(queue) : queue[i] = g
    BY <2>1 DEF QueueInv
  <2>3. CASE queue' = queue
    BY <2>2, <2>3
  <2>4. CASE /\ First(h) /\ Len(queue') = Len(queue) - 1
             /\ \A k \in 1..Len(queue') : queue'[k] = queue[k + 1]
    <3>1. queue[1] = h
      BY <2>4, FirstWaits
    <3>2. i # 1
      BY <2>1, <2>2, <3>1
    <3>3. i - 1 \in 1..Len(queue') /\ queue'[i - 1] = g
      BY <1>1, <2>2, <2>4, <3>2 DEF TypeInv
    <3>4. QED
      BY <3>3
  <2>5. QED
    BY <1>1, <2>3, <2>4
<1>6. \A g \in Handler : g # h => at'[g] # "fetching"
  BY <1>1, <1>2 DEF QueueInv
<1>7. /\ fetch' # None => \E g \in Handler : at'[g] = "fetching"
      /\ \A g \in Handler : at'[g] = "fetching" =>
            fetch' # None /\ \A f \in Handler : at'[f] = "fetching" => f = g
  BY <1>2, <1>6
<1>8. QED
  BY <1>1, <1>3, <1>4, <1>5, <1>7 DEF QueueInv

\* Nobody that is left asked later than it did before.
LEMMA TurnedAsked ==
  ASSUME TypeInv, QueueInv, AskedInv, NEW h \in Handler, Turned(h),
         NEW place \in Place \ {"idle", "asking", "waiting"},
         at' = [at EXCEPT ![h] = place],
         asked' = asked \/ asked' = [asked EXCEPT ![h] = 0],
         \A i \in 1..Len(queue') : queue'[i] \in Handler \ {h},
         now' = now
  PROVE  AskedInv'
<1>1. /\ now \in Nat /\ 0 <= now
      /\ \A g \in Handler : asked[g] \in Nat /\ asked[g] <= now
  BY TimeoutAssumption DEF TypeInv, Time, AskedInv
<1>2. /\ at'[h] = place
      /\ \A g \in Handler : g # h => at'[g] = at[g] /\ asked'[g] = asked[g]
      /\ asked'[h] = asked[h] \/ asked'[h] = 0
  BY DEF TypeInv
<1>3. \A g \in Handler : asked'[g] <= now
  BY <1>1, <1>2
<1>4. \A g \in Handler : at'[g] = "asking" => asked'[g] = now
  BY <1>2 DEF AskedInv
<1>5. ASSUME NEW i \in 1..Len(queue'), NEW j \in 1..Len(queue'), i < j
      PROVE  asked'[queue'[i]] <= asked'[queue'[j]]
  <2>1. /\ asked'[queue'[i]] = asked[queue'[i]]
        /\ asked'[queue'[j]] = asked[queue'[j]]
    BY <1>2
  <2>2. CASE queue' = queue
    BY <1>5, <2>1, <2>2 DEF AskedInv
  <2>3. CASE /\ i + 1 \in 1..Len(queue) /\ queue'[i] = queue[i + 1]
             /\ j + 1 \in 1..Len(queue) /\ queue'[j] = queue[j + 1]
    <3>1. i + 1 < j + 1
      BY <1>5, TurnedQueue
    <3>2. QED
      BY <2>1, <2>3, <3>1 DEF AskedInv
  <2>4. QED
    BY <2>2, <2>3, TurnedQueue
<1>6. QED
  BY <1>3, <1>4, <1>5 DEF AskedInv

\* Who is left in the queue has waited for a turn more, and has one turn fewer
\* before it, or the newcomer that went before it makes it starve.
LEMMA TurnedWait ==
  ASSUME TypeInv, QueueInv, FetchInv, WaitInv, AskedInv, NEW h \in Handler, Turned(h),
         NEW place \in Place \ {"idle", "asking", "waiting"},
         at' = [at EXCEPT ![h] = place],
         place = "fetching" <=> fetch' # None,
         fetch' # None => fetch'.start = now /\ fetch = None /\ asked' = asked /\ ~Usable(h),
         asked' = asked \/ asked' = [asked EXCEPT ![h] = 0],
         \A i \in 1..Len(queue') : queue'[i] \in Handler \ {h},
         now' = now, kind' = kind
  PROVE  WaitInv'
<1>1. /\ Elapsed \in Int /\ 0 <= Elapsed /\ Elapsed <= Turn
      /\ now \in Nat /\ Turn \in Nat /\ Turns \in Nat
      /\ \A g \in Handler : asked[g] \in Nat
      /\ fetch = None => Elapsed = 0
  BY ElapsedType, TurnsType, TimeoutAssumption DEF TypeInv, Time, Elapsed
<1>2. Elapsed' = 0 /\ Turn' = Turn /\ Turns' = Turns
  BY <1>1 DEF Elapsed, Turn, Turns
<1>3. /\ at'[h] = place
      /\ \A g \in Handler : g # h => at'[g] = at[g] /\ asked'[g] = asked[g]
  BY DEF TypeInv
<1>4. PICK s \in 0..2, m \in Int :
        /\ s = Spare' /\ m = MaxTurns' /\ m = Turns - 1 + s
        /\ Spare \in 0..2 /\ MaxTurns = Turns - 1 + Spare /\ MaxTurns \in Int
  <2>1. PICK s \in 0..2 : s = Spare'
    BY DEF Spare
  <2>2. MaxTurns' = Turns - 1 + s
    BY <1>2, <2>1 DEF MaxTurns
  <2>3. Spare \in 0..2 /\ MaxTurns = Turns - 1 + Spare
    BY DEF Spare, MaxTurns
  <2>4. Turns - 1 + s \in Int /\ Turns - 1 + Spare \in Int
    BY <1>1, <2>1, <2>3
  <2>5. QED
    BY <2>1, <2>2, <2>3, <2>4
<1>5. /\ queue' \in Seq(Handler) /\ Len(queue') \in Nat
      /\ Len(queue') <= Turns - 1
  <2>1. queue' \in Seq(Handler) /\ Len(queue') \in Nat
    BY TurnedQueue
  <2>2. \A i, j \in 1..Len(queue') : queue'[i] = queue'[j] => i = j
    BY TurnedInv DEF QueueInv
  <2>3. QED
    BY <2>1, <2>2, QueueFitsBut
<1>6. ASSUME NEW i \in 1..Len(queue')
      PROVE  now - asked'[queue'[i]] <= Turn * (m - i)
  <2> DEFINE g == queue'[i]
  <2>1. g \in Handler /\ asked'[g] = asked[g] /\ asked[g] \in Nat /\ i \in Nat
    BY <1>1, <1>3, <1>5
  <2>2. m - i \in Nat
    <3>1. i <= Turns - 1 /\ i \in Int /\ Turns \in Int
      BY <1>1, <1>5, <2>1
    <3>2. m = Turns - 1 + s /\ s \in Nat /\ m \in Int
      BY <1>4
    <3>3. m >= i
      BY <3>1, <3>2
    <3>4. QED
      BY <3>1, <3>2, <3>3
  <2>3. CASE now <= asked[g]
    <3>1. 0 <= Turn * (m - i) /\ Turn * (m - i) \in Int
      BY <1>1, <2>2
    <3>2. QED
      BY <1>1, <2>1, <2>3, <3>1
  <2>4. ASSUME NEW k \in 1..Len(queue), g = queue[k],
               NEW turns \in Int, turns <= m - i,
               Turn * turns = Turn * (MaxTurns - k) + (IF fetch = None THEN 0 ELSE Turn)
        PROVE  now - asked'[g] <= Turn * (m - i)
    <3>1. now - asked[g] <= Turn * (MaxTurns - k) + Elapsed
      BY <2>4 DEF WaitInv
    <3>2. Turn * (MaxTurns - k) \in Int
      BY <1>1, <1>4, <2>4
    <3>3. now - asked[g] <= Turn * turns
      BY <1>1, <2>1, <2>4, <3>1, <3>2
    <3>4. turns \in Int /\ m - i \in Int /\ turns <= m - i /\ Turn \in Nat
      BY <1>1, <2>2, <2>4
    <3>5. /\ Turn * turns <= Turn * (m - i) /\ Turn * turns \in Int
          /\ Turn * (m - i) \in Int
      BY <3>4, MoreTurns
    <3>6. now - asked[g] \in Int /\ asked'[g] = asked[g]
      BY <1>1, <2>1
    <3>7. QED
      BY <3>3, <3>5, <3>6
  <2>5. CASE at[h] = "fetching" /\ queue' = queue /\ mutex' = mutex
    <3>1. fetch # None /\ fetch' = None
      BY <2>5 DEF QueueInv
    <3>2. s = Spare + 1
      BY <1>4, <2>5, <3>1 DEF Spare
    <3>3. i \in 1..Len(queue) /\ g = queue[i]
      BY <2>5
    <3>4. m - i = MaxTurns - i + 1 /\ MaxTurns - i \in Int
      BY <1>1, <1>4, <2>1, <2>2, <3>2
    <3>5. Turn * (MaxTurns - i + 1) = Turn * (MaxTurns - i) + Turn
      BY <1>1, <3>4
    <3>6. QED
      BY <2>4, <3>1, <3>3, <3>4, <3>5
  <2>6. CASE /\ fetch = None /\ First(h)
             /\ queue' = Tail(queue) /\ mutex' \in ModesOnceWoken(h)
    <3>1. /\ i + 1 \in 1..Len(queue) /\ i + 1 # 1 /\ g = queue[i + 1]
          /\ at[h] = "waiting"
      BY <2>6, TurnedQueue, FirstWaits
    <3>2. /\ queue[1] = h /\ 1 \in 1..Len(queue)
          /\ asked[h] <= asked[g]
      <4>1. queue[1] = h /\ 1 \in 1..Len(queue) /\ 1 < i + 1
        BY <2>1, <2>6, <3>1, FirstWaits
      <4>2. QED
        BY <3>1, <4>1 DEF AskedInv
    <3>3. CASE mutex = "starving" /\ mutex' # "starving"
      <4>1. queue' # <<>>
        BY <1>5
      <4>2. ~(asked[h] < now)
        BY <2>6, <3>3, <4>1 DEF ModesOnceWoken
      <4>3. QED
        BY <1>1, <2>1, <2>3, <3>2, <4>2
    <3>4. CASE ~(mutex = "starving" /\ mutex' # "starving")
      <4>1. Spare - 1 <= s
        BY <1>4, <2>6, <3>4 DEF Spare
      <4>2. /\ MaxTurns = Turns - 1 + Spare /\ m = Turns - 1 + s
            /\ Turns \in Int /\ Spare \in Int /\ s \in Int /\ i \in Int
            /\ Turn \in Nat
        BY <1>1, <1>4, <2>1
      <4>3. MaxTurns - (i + 1) <= m - i /\ MaxTurns - (i + 1) \in Int
        BY <4>1, <4>2
      <4>4. Turn * (MaxTurns - (i + 1)) = Turn * (MaxTurns - (i + 1)) + 0
        BY <4>2, <4>3
      <4>5. QED
        BY <2>4, <2>6, <3>1, <4>3, <4>4
    <3>5. QED
      BY <3>3, <3>4
  <2>7. CASE /\ fetch = None /\ at[h] = "asking" /\ mutex # "starving"
             /\ queue' = queue /\ mutex' \in ModesOnceOvertaken(h)
    <3>1. i \in 1..Len(queue) /\ g = queue[i] /\ queue # <<>>
      BY <2>7, <1>5
    <3>2. asked[queue[1]] <= asked[g] /\ queue[1] \in Handler
      <4>1. 1 \in 1..Len(queue) /\ (i = 1 \/ 1 < i)
        BY <2>1, <3>1
      <4>2. queue[1] \in Handler /\ asked[queue[1]] \in Nat
        BY <1>1, <4>1 DEF TypeInv
      <4>3. QED
        BY <2>1, <3>1, <4>1, <4>2 DEF AskedInv
    <3>3. CASE fetch' # None /\ mutex' # "starving"
      <4>1. ~(asked[queue[1]] < now)
        BY <2>7, <3>1, <3>3 DEF ModesOnceOvertaken
      <4>2. asked[queue[1]] \in Nat
        BY <1>1, <3>2
      <4>3. QED
        BY <1>1, <2>1, <2>3, <3>2, <4>1, <4>2
    <3>4. CASE ~(fetch' # None /\ mutex' # "starving")
      <4>1. Spare <= s
        BY <1>4, <2>7, <3>4 DEF Spare
      <4>2. /\ MaxTurns = Turns - 1 + Spare /\ m = Turns - 1 + s
            /\ Turns \in Int /\ Spare \in Int /\ s \in Int /\ i \in Int
            /\ Turn \in Nat
        BY <1>1, <1>4, <2>1
      <4>3. MaxTurns - i <= m - i /\ MaxTurns - i \in Int
        BY <4>1, <4>2
      <4>4. Turn * (MaxTurns - i) = Turn * (MaxTurns - i) + 0
        BY <4>2, <4>3
      <4>5. QED
        BY <2>4, <2>7, <3>1, <4>3, <4>4
    <3>5. QED
      BY <3>3, <3>4
  <2>8. QED
    BY <2>5, <2>6, <2>7 DEF Turned
<1>7. ASSUME NEW g \in Handler, at'[g] = "fetching"
      PROVE  now - asked'[g] <= Turn * Turns
  <2>1. g = h /\ fetch' # None /\ fetch = None /\ asked' = asked
    BY <1>7, TurnedInv, <1>3 DEF QueueInv
  <2>2. CASE at[h] = "asking"
    <3>1. asked[h] = now /\ 0 <= Turn * Turns /\ Turn * Turns \in Int
      BY <1>1, <2>2 DEF AskedInv
    <3>2. QED
      BY <1>1, <2>1, <3>1
  <2>3. CASE First(h)
    <3>1. queue[1] = h /\ 1 \in 1..Len(queue)
      BY <2>3, FirstWaits
    <3>2. now - asked[h] <= Turn * (MaxTurns - 1) + 0
      BY <1>1, <2>1, <3>1 DEF WaitInv
    <3>3. MaxTurns - 1 \in Int /\ MaxTurns - 1 <= Turns
      BY <1>1, <1>4
    <3>4. Turn * (MaxTurns - 1) <= Turn * Turns /\ Turn * (MaxTurns - 1) \in Int
          /\ Turn * Turns \in Int
      BY <1>1, <3>3, MoreTurns
    <3>5. QED
      BY <1>1, <2>1, <3>2, <3>4
  <2>4. at[h] # "fetching"
    BY <2>1 DEF QueueInv
  <2>5. QED
    BY <2>2, <2>3, <2>4 DEF Turned
<1>8. QED
  <2>1. \A i \in 1..Len(queue') :
            now - asked'[queue'[i]] <= Turn * (m - i) + 0
    <3>1. \A i \in 1..Len(queue') : Turn * (m - i) \in Int
      BY <1>1, <1>2, <1>4, <1>5
    <3>2. QED
      BY <1>6, <3>1
  <2>2. \A g \in Handler : at'[g] = "fetching" => now - asked'[g] <= Turn * Turns + 0
    BY <1>1, <1>7
  <2>3. QED
    BY <1>2, <1>4, <2>1, <2>2 DEF WaitInv

-----------------------------------------------------------------------------
(* The actions keep the invariant.                                         *)

\* Nothing is cached or awaited in the beginning.
LEMMA InitInv == CredentialsInit => CredentialsInv
<1> SUFFICES ASSUME CredentialsInit PROVE CredentialsInv
  OBVIOUS
<1>1. TypeInv
  BY Timeouts DEF CredentialsInit, TypeInv, Time, Edition, Kind, Empty, Place
<1>2. Len(queue) = 0
  BY DEF CredentialsInit
<1>3. QueueInv /\ HeldInv /\ FetchInv /\ WaitInv
  BY <1>2 DEF CredentialsInit, QueueInv, HeldInv, FetchInv, WaitInv
<1>4. WorldInv
  BY DEF CredentialsInit, WorldInv, Key
<1>5. CacheInv
  BY Timeouts DEF CredentialsInit, CacheInv, Empty
<1>6. AskedInv
  BY <1>2 DEF CredentialsInit, AskedInv
<1>7. QED
  BY <1>1, <1>3, <1>4, <1>5, <1>6 DEF CredentialsInv

\* Who asks has waited for no time.
LEMMA AskStep ==
  ASSUME CredentialsInv, NEW h \in Handler, Ask(h)
  PROVE  CredentialsInv'
<1> USE DEF CredentialsInv
<1>1. PICK b \in Brought : held' = [held EXCEPT ![h] = b]
  BY DEF Ask
<1>2. b \in Assertion \cup {None} /\ (kind = "keys" => b \in Assertion)
  <2>1. CASE kind # "keys"
    BY <1>1, <2>1 DEF Brought
  <2>2. CASE kind = "keys"
    <3>1. now + AssertionLife \in Nat
      BY Timeouts, TimeoutAssumption DEF TypeInv, Time
    <3>2. QED
      BY <1>1, <2>2, <3>1 DEF Brought, Assertion
  <2>3. QED
    BY <2>1, <2>2
<1>3. /\ at'[h] = "asking" /\ asked'[h] = now /\ held'[h] = b
      /\ \A g \in Handler : g # h => /\ at'[g] = at[g] /\ asked'[g] = asked[g]
                                     /\ held'[g] = held[g]
  BY <1>1 DEF Ask, TypeInv
<1>4. /\ UNCHANGED <<now, kind, published, retired, cache, queue, mutex, fetch>>
      /\ at[h] = "idle" /\ now \in Nat
  BY ElapsedType DEF Ask, worldVars
<1>5. \A i \in 1..Len(queue) : queue[i] \in Handler /\ queue[i] # h
  BY <1>4 DEF QueueInv, TypeInv
<1>6. TypeInv'
  BY <1>1, <1>2, <1>4 DEF Ask, TypeInv, Place
<1>7. QueueInv'
  BY <1>3, <1>4, <1>5 DEF QueueInv
<1>8. HeldInv'
  BY <1>2, <1>3, <1>4 DEF HeldInv
<1>9. WorldInv' /\ CacheInv'
  BY <1>4 DEF WorldInv, CacheInv, Turn
<1>10. FetchInv'
  BY <1>3, <1>4 DEF FetchInv, Turn
<1>11. WaitInv'
  BY <1>3, <1>4, <1>5 DEF WaitInv, Elapsed, MaxTurns, Spare, Turn, Turns
<1>12. AskedInv'
  <2>1. now <= now
    BY <1>4
  <2>2. QED
    BY <1>3, <1>4, <1>5, <2>1 DEF AskedInv
<1>13. QED
  BY <1>6, <1>7, <1>8, <1>9, <1>10, <1>11, <1>12

\* Who goes to sleep does so behind the others, in the instant in which it
\* asked.
LEMMA ParkStep ==
  ASSUME CredentialsInv, NEW h \in Handler, Park(h)
  PROVE  CredentialsInv'
<1> USE DEF CredentialsInv
<1>1. /\ queue' \in Seq(Handler) /\ Len(queue) \in Nat
      /\ Len(queue') = Len(queue) + 1
      /\ queue'[Len(queue) + 1] = h
      /\ \A i \in 1..Len(queue) : queue'[i] = queue[i] /\ queue[i] \in Handler
  BY DEF Park, TypeInv
<1>2. /\ at[h] = "asking" /\ (fetch # None \/ mutex = "starving")
      /\ UNCHANGED <<now, kind, published, retired, cache, mutex, fetch, asked, held>>
      /\ now \in Nat /\ Turn \in Nat /\ Elapsed \in Int /\ 0 <= Elapsed
      /\ Turns \in Nat
  BY ElapsedType, TurnsType DEF Park, worldVars
<1>3. at'[h] = "waiting" /\ \A g \in Handler : g # h => at'[g] = at[g]
  BY DEF Park, TypeInv
<1>4. at[h] = "asking" /\ asked[h] = now
  BY DEF Park, AskedInv
<1>5. \A i \in 1..Len(queue) : queue[i] # h
  BY <1>4 DEF QueueInv
<1>6. \A i \in 1..Len(queue') : i \in 1..Len(queue) \/ i = Len(queue) + 1
  BY <1>1
<1>7. TypeInv'
  BY <1>1, <1>2 DEF Park, TypeInv, Place
<1>8. QueueInv'
  <2>1. ASSUME NEW i \in 1..Len(queue'), NEW j \in 1..Len(queue'), queue'[i] = queue'[j]
        PROVE  i = j
    BY <1>1, <1>5, <1>6, <2>1 DEF QueueInv
  <2>2. \A i \in 1..Len(queue') : at'[queue'[i]] = "waiting"
    BY <1>1, <1>3, <1>5, <1>6 DEF QueueInv
  <2>3. ASSUME NEW g \in Handler, at'[g] = "waiting"
        PROVE  \E i \in 1..Len(queue') : queue'[i] = g
    <3>1. CASE g = h
      BY <1>1, <3>1
    <3>2. CASE g # h
      <4>1. PICK i \in 1..Len(queue) : queue[i] = g
        BY <1>3, <2>3, <3>2 DEF QueueInv
      <4>2. i \in 1..Len(queue') /\ queue'[i] = g
        BY <1>1, <4>1
      <4>3. QED
        BY <4>2
    <3>3. QED
      BY <3>1, <3>2
  <2>4. /\ fetch' # None => \E g \in Handler : at'[g] = "fetching"
        /\ \A g \in Handler : at'[g] = "fetching" =>
              fetch' # None /\ \A f \in Handler : at'[f] = "fetching" => f = g
    BY <1>2, <1>3, <1>4 DEF QueueInv
  <2>5. Len(queue') # 0
    BY <1>1
  <2>6. QED
    BY <2>1, <2>2, <2>3, <2>4, <2>5 DEF QueueInv
<1>9. HeldInv'
  BY <1>2, <1>3, <1>4 DEF HeldInv
<1>10. WorldInv' /\ CacheInv'
  BY <1>2 DEF WorldInv, CacheInv, Turn
<1>11. FetchInv'
  BY <1>2, <1>3 DEF FetchInv, Turn
<1>12. WaitInv'
  <2>1. Elapsed' = Elapsed /\ Spare' = Spare /\ Turn' = Turn /\ Turns' = Turns
        /\ Spare \in 0..2 /\ MaxTurns' = MaxTurns
    BY <1>2 DEF Elapsed, Spare, Turn, Turns, MaxTurns
  <2>2. Len(queue) + 1 <= Turns - 1 + Spare
    <3>1. Len(queue') <= Turns
      BY <1>1, <1>8, QueueFits DEF QueueInv
    <3>2. CASE fetch = None
      <4>1. Spare = 2
        BY <1>2, <3>2 DEF Spare, Park
      <4>2. QED
        BY <1>1, <1>2, <3>1, <4>1
    <3>3. CASE fetch # None
      <4>1. PICK f \in Handler : at'[f] = "fetching"
        BY <1>2, <1>8, <3>3 DEF QueueInv
      <4>2. \A i \in 1..Len(queue') : queue'[i] # f
        BY <1>8, <4>1 DEF QueueInv
      <4>3. Len(queue') <= Turns - 1
        BY <1>1, <1>8, <4>2, QueueFitsBut DEF QueueInv
      <4>4. QED
        BY <1>1, <1>2, <2>1, <4>3
    <3>4. QED
      BY <3>2, <3>3
  <2>3. ASSUME NEW i \in 1..Len(queue')
        PROVE  now - asked[queue'[i]] <= Turn * (MaxTurns - i) + Elapsed
    <3>1. CASE i \in 1..Len(queue)
      BY <1>1, <3>1 DEF WaitInv
    <3>2. CASE i = Len(queue) + 1
      <4>1. MaxTurns - i \in Nat
        BY <1>1, <1>2, <2>1, <2>2, <3>2 DEF MaxTurns
      <4>2. Turn * (MaxTurns - i) >= 0 /\ Turn * (MaxTurns - i) \in Int
        BY <1>2, <4>1
      <4>3. QED
        BY <1>1, <1>2, <1>4, <3>2, <4>2
    <3>3. QED
      BY <1>6, <3>1, <3>2
  <2>4. \A g \in Handler : at'[g] = "fetching" => now - asked[g] <= Turn * Turns + Elapsed
    BY <1>3 DEF WaitInv
  <2>5. QED
    BY <1>2, <2>1, <2>3, <2>4 DEF WaitInv
<1>13. AskedInv'
  <2>1. ASSUME NEW i \in 1..Len(queue'), NEW j \in 1..Len(queue'), i < j
        PROVE  asked[queue'[i]] <= asked[queue'[j]]
    <3>1. i \in 1..Len(queue)
      BY <1>1, <2>1
    <3>2. CASE j \in 1..Len(queue)
      BY <1>1, <2>1, <3>1, <3>2 DEF AskedInv
    <3>3. CASE j = Len(queue) + 1
      BY <1>1, <1>4, <3>1, <3>3 DEF AskedInv
    <3>4. QED
      BY <1>6, <3>2, <3>3
  <2>2. QED
    BY <1>2, <1>3, <2>1 DEF AskedInv
<1>14. QED
  BY <1>7, <1>8, <1>9, <1>10, <1>11, <1>12, <1>13

\* Handing over a credential: what an assertion makes of it, or a token that
\* lasts for the call.
LEMMA DeliverKeeps ==
  ASSUME CredentialsInv, NEW h \in Handler, Turned(h),
         NEW content \in Nat, Deliver(h, content),
         kind # "keys" => now + CallTimeout < content,
         UNCHANGED <<now, kind, worldVars>>,
         cache' \in [content : Nat \cup {None}, expires : Nat]
  PROVE  TypeInv' /\ QueueInv' /\ HeldInv' /\ WorldInv'
         /\ FetchInv' /\ WaitInv' /\ AskedInv'
<1> USE DEF CredentialsInv
<1>1. PICK result \in {"calling", "verified", "expired", "unknown", "failed"} :
        /\ Unlock(h, result)
        /\ result = "calling" <=> kind # "keys"
  BY DEF Deliver, Window
<1>2. /\ result \in Place \ {"idle", "asking", "waiting"} /\ result # "fetching"
      /\ at' = [at EXCEPT ![h] = result] /\ asked' = [asked EXCEPT ![h] = 0]
      /\ fetch' = None
  BY <1>1 DEF Unlock, Place
<1>3. QueueInv' /\ \A i \in 1..Len(queue') : queue'[i] \in Handler \ {h}
  BY <1>2, TurnedInv
<1>4. WaitInv' /\ AskedInv'
  BY <1>2, <1>3, TurnedWait, TurnedAsked
<1>5. /\ at'[h] = result
      /\ \A g \in Handler : g # h => at'[g] = at[g] /\ held'[g] = held[g]
  BY <1>1 DEF Unlock, Deliver, TypeInv
<1>6. now \in Time /\ now \in Nat
  BY ElapsedType DEF TypeInv
<1>7. /\ held' \in [Handler -> Assertion \cup Token \cup {None}]
      /\ kind # "keys" => held'[h] = [expires |-> content, sent |-> now]
  <2>1. [expires |-> content, sent |-> now] \in Token
    BY <1>6 DEF Token
  <2>2. CASE kind = "keys"
    BY <2>2 DEF Deliver, TypeInv
  <2>3. CASE kind # "keys"
    BY <2>1, <2>3 DEF Deliver, TypeInv
  <2>4. QED
    BY <2>2, <2>3
<1>8. TypeInv'
  <2>1. /\ queue' \in Seq(Handler)
        /\ mutex' \in {"normal", "overtaken", "starving"}
    BY TurnedQueue
  <2>2. at' \in [Handler -> Place]
    BY <1>2 DEF TypeInv
  <2>3. asked' \in [Handler -> Time]
    BY <1>2, Timeouts DEF TypeInv, Time
  <2>4. QED
    BY <1>2, <1>7, <2>1, <2>2, <2>3 DEF TypeInv, worldVars
<1>9. HeldInv'
  <2> SUFFICES ASSUME NEW g \in Handler
               PROVE  /\ kind = "keys" /\ at'[g] \in {"asking", "waiting", "fetching"}
                            => held'[g] \in Assertion
                      /\ at'[g] = "calling" =>
                            /\ held'[g] \in Token
                            /\ now <= held'[g].sent + CallTimeout
                            /\ held'[g].sent + CallTimeout < held'[g].expires
    BY DEF HeldInv
  <2>1. CASE g # h
    BY <1>5, <2>1 DEF HeldInv
  <2>2. CASE g = h /\ kind # "keys"
    <3>1. held'[h].sent = now /\ held'[h].expires = content /\ held'[h] \in Token
      BY <1>6, <1>7, <2>2 DEF Token
    <3>2. QED
      BY <1>6, <2>2, <3>1, TimeoutAssumption
  <2>3. CASE g = h /\ kind = "keys"
    BY <1>1, <1>5, <2>3
  <2>4. QED
    BY <2>1, <2>2, <2>3
<1>10. WorldInv'
  BY DEF WorldInv, worldVars
<1>11. FetchInv'
  BY <1>2 DEF FetchInv
<1>12. QED
  BY <1>3, <1>4, <1>8, <1>9, <1>10, <1>11

\* A fetch that ends with nothing leaves everything but the mutex as it was.
LEMMA FailureKeeps ==
  ASSUME CredentialsInv, NEW h \in Handler, Turned(h), Unlock(h, "failed"),
         UNCHANGED <<now, kind, published, retired, cache, held>>
  PROVE  CredentialsInv'
<1> USE DEF CredentialsInv
<1>1. /\ "failed" \in Place \ {"idle", "asking", "waiting"}
      /\ at' = [at EXCEPT ![h] = "failed"] /\ asked' = [asked EXCEPT ![h] = 0]
      /\ fetch' = None
  BY DEF Unlock, Place
<1>2. QueueInv' /\ \A i \in 1..Len(queue') : queue'[i] \in Handler \ {h}
  BY <1>1, TurnedInv
<1>3. WaitInv' /\ AskedInv'
  BY <1>1, <1>2, TurnedWait, TurnedAsked
<1>4. at'[h] = "failed" /\ \A g \in Handler : g # h => at'[g] = at[g]
  BY DEF Unlock, TypeInv
<1>5. TypeInv'
  <2>1. /\ queue' \in Seq(Handler)
        /\ mutex' \in {"normal", "overtaken", "starving"}
    BY TurnedQueue
  <2>2. at' \in [Handler -> Place]
    BY <1>1 DEF TypeInv
  <2>3. asked' \in [Handler -> Time]
    BY <1>1, Timeouts DEF TypeInv, Time
  <2>4. QED
    BY <1>1, <2>1, <2>2, <2>3 DEF TypeInv
<1>6. HeldInv'
  BY <1>4 DEF HeldInv
<1>7. WorldInv' /\ CacheInv'
  BY DEF WorldInv, CacheInv, Turn
<1>8. FetchInv'
  BY <1>1 DEF FetchInv
<1>9. QED
  BY <1>2, <1>3, <1>5, <1>6, <1>7, <1>8

\* Whoever gets the mutex is served from the cache or begins a fetch.
LEMMA LockStep ==
  ASSUME CredentialsInv, NEW h \in Handler, Lock(h)
  PROVE  CredentialsInv'
<1> USE DEF CredentialsInv
<1>1. /\ fetch = None /\ Turned(h)
      /\ UNCHANGED <<now, kind, worldVars, cache>>
      /\ now \in Nat /\ now \in Time /\ Turn \in Nat
  BY ElapsedType DEF Lock, Turned, TypeInv
<1>2. CacheInv'
  BY <1>1 DEF CacheInv, Turn, worldVars
<1>3. CASE Usable(h)
  <2>1. cache.content \in Nat /\ cache.expires \in Nat /\ Deliver(h, cache.content)
    BY <1>3 DEF Usable, TypeInv, Lock
  <2>2. ASSUME kind # "keys" PROVE now + CallTimeout < cache.content
    <3>1. now + Margin < cache.expires
      BY <1>3, <2>2 DEF Usable, TokenUsable
    <3>2. cache.expires <= cache.content + Turn
      BY <1>3, <2>2 DEF Usable, CacheInv
    <3>3. Turn + CallTimeout < Margin /\ CallTimeout \in Nat /\ Margin \in Nat
      BY Timeouts DEF Turn, TypeInv
    <3>4. QED
      BY <1>1, <2>1, <3>1, <3>2, <3>3
  <2>3. cache' \in [content : Nat \cup {None}, expires : Nat]
    BY <1>1 DEF TypeInv
  <2>4. /\ TypeInv' /\ QueueInv' /\ HeldInv' /\ WorldInv'
        /\ FetchInv' /\ WaitInv' /\ AskedInv'
    BY <1>1, <2>1, <2>2, <2>3, DeliverKeeps
  <2>5. QED
    BY <1>2, <2>4
<1>4. CASE ~Usable(h)
  <2>1. /\ at' = [at EXCEPT ![h] = "fetching"]
        /\ fetch' = [start |-> now, answer |-> None]
        /\ UNCHANGED <<asked, held>>
        /\ "fetching" \in Place \ {"idle", "asking", "waiting"}
    BY <1>4 DEF Lock, Place
  <2>2. fetch' \in Fetch /\ fetch' # None /\ fetch'.start = now /\ fetch'.answer = None
    BY <1>1, <2>1, NoneAssumption DEF Fetch
  <2>3. at'[h] = "fetching" /\ \A g \in Handler : g # h => at'[g] = at[g]
    BY <2>1 DEF TypeInv
  <2>4. /\ queue' \in Seq(Handler)
        /\ mutex' \in {"normal", "overtaken", "starving"}
        /\ at[h] \in {"asking", "waiting", "fetching"}
    BY <1>1, TurnedQueue
  <2>5. TypeInv'
    BY <1>1, <2>1, <2>2, <2>4 DEF TypeInv, worldVars
  <2>6. QueueInv' /\ \A i \in 1..Len(queue') : queue'[i] \in Handler \ {h}
    BY <1>1, <2>1, <2>2, TurnedInv
  <2>7. HeldInv'
    BY <1>1, <2>1, <2>3, <2>4 DEF HeldInv
  <2>8. WorldInv'
    BY <1>1 DEF WorldInv, worldVars
  <2>9. FetchInv'
    <3>1. \A g \in Handler : asked[g] <= now
      BY DEF AskedInv
    <3>2. now <= now /\ now <= now + Turn
      BY <1>1
    <3>3. QED
      BY <1>1, <2>1, <2>2, <3>1, <3>2 DEF FetchInv, Turn
  <2>10. AskedInv'
    BY <1>1, <2>1, <2>6, TurnedAsked
  <2>11. WaitInv'
    BY <1>1, <1>4, <2>1, <2>2, <2>6, TurnedWait
  <2>12. QED
    BY <1>2, <2>5, <2>6, <2>7, <2>8, <2>9, <2>10, <2>11
<1>5. QED
  BY <1>3, <1>4

\* The endpoint answers with the keys of the moment, or a token that begins now.
LEMMA EndpointAnswersStep ==
  ASSUME CredentialsInv, EndpointAnswers
  PROVE  CredentialsInv'
<1> USE DEF CredentialsInv
<1>1. /\ fetch # None /\ fetch \in Fetch
      /\ UNCHANGED <<now, kind, published, retired, cache, queue, mutex, at, asked, held>>
      /\ now \in Nat /\ Turn \in Nat
  BY ElapsedType DEF EndpointAnswers, worldVars, handlerVars, TypeInv
<1>2. PICK life \in Answers[kind] :
        fetch' = [fetch EXCEPT !.answer =
            [life    |-> life,
             content |-> IF kind = "keys" THEN published ELSE now + life]]
  BY DEF EndpointAnswers
<1>3. published \in Edition /\ published \in Nat /\ life \in Nat
  BY TimeoutAssumption DEF TypeInv, Edition
<1>4. /\ fetch'.start = fetch.start /\ fetch.start \in Nat
      /\ fetch'.answer.life = life
      /\ fetch'.answer.content = IF kind = "keys" THEN published ELSE now + life
      /\ fetch' \in Fetch
  BY <1>1, <1>2, <1>3, TimeoutAssumption DEF Fetch, Answer, Time
<1>5. fetch' # None
  BY <1>4, NoneAssumption
<1>6. TypeInv'
  BY <1>1, <1>4 DEF TypeInv
<1>7. QueueInv' /\ HeldInv' /\ WorldInv' /\ CacheInv' /\ AskedInv'
  BY <1>1, <1>5 DEF QueueInv, HeldInv, WorldInv, CacheInv, AskedInv, Turn
<1>8. FetchInv'
  <2>1. /\ fetch.start <= now /\ now <= fetch.start + Turn
        /\ \A h \in Handler : at[h] = "fetching" => asked[h] <= fetch.start
    BY <1>1 DEF FetchInv
  <2>2. ASSUME kind = "keys"
        PROVE  /\ \A k \in Key : k \in KeysOf(published) => retired[k] = None
               /\ \A k \in Key : ~(k > published /\ k <= published)
    BY <1>3 DEF KeysOf, WorldInv, Key
  <2>3. ASSUME kind # "keys"
        PROVE  /\ fetch.start + life <= now + life
               /\ now + life <= now + life
    BY <1>1, <1>3, <1>4, <2>1
  <2>4. CASE kind = "keys"
    BY <1>1, <1>3, <1>4, <2>1, <2>2, <2>4 DEF FetchInv, Turn
  <2>5. CASE kind # "keys"
    BY <1>1, <1>4, <2>1, <2>3, <2>5 DEF FetchInv, Turn
  <2>6. QED
    BY <2>4, <2>5
<1>9. WaitInv'
  <2>1. Elapsed' = Elapsed /\ Spare' = Spare
    BY <1>1, <1>4, <1>5 DEF Elapsed, Spare
  <2>2. QED
    BY <1>1, <2>1 DEF WaitInv, MaxTurns, Turn, Turns
<1>10. QED
  BY <1>6, <1>7, <1>8, <1>9

\* An answer that is accepted is kept no longer than CacheInv allows.
LEMMA ReceiveStep ==
  ASSUME CredentialsInv, NEW h \in Handler, Receive(h)
  PROVE  CredentialsInv'
<1> USE DEF CredentialsInv
<1> DEFINE a == fetch.answer
<1>1. /\ at[h] = "fetching" /\ a # None
      /\ UNCHANGED <<now, kind, worldVars, queue, mutex>>
      /\ now \in Nat /\ now \in Time /\ Turn \in Nat
  BY ElapsedType DEF Receive, TypeInv
<1>2. Turned(h) /\ fetch # None
  BY <1>1 DEF QueueInv, Turned
<1>3. /\ fetch.start \in Nat /\ a.life \in Nat /\ a.content \in Nat
      /\ fetch.start <= now /\ now <= fetch.start + Turn
  BY <1>1, <1>2, TimeoutAssumption DEF TypeInv, Fetch, Answer, Time, FetchInv
<1>4. CASE ~Acceptable(a)
  <2>1. Unlock(h, "failed") /\ UNCHANGED <<cache, held>>
    BY <1>4 DEF Receive
  <2>2. QED
    BY <1>1, <1>2, <2>1, FailureKeeps DEF worldVars
<1>5. CASE Acceptable(a)
  <2>1. /\ cache' = [content |-> a.content, expires |-> ExpiryOf(a)]
        /\ Deliver(h, a.content)
    BY <1>5 DEF Receive
  <2>2. /\ kind # "keys" => fetch.start + a.life <= a.content
        /\ kind = "keys" => /\ MinAge <= CacheLifetime(a.life)
                            /\ CacheLifetime(a.life) <= MaxAge
        /\ CacheLifetime(a.life) \in Nat
    BY <1>1, <1>2, <1>3, Timeouts DEF FetchInv, CacheLifetime, TypeInv
  <2>3. /\ ExpiryOf(a) \in Nat
        /\ kind = "keys" => ExpiryOf(a) = fetch.start + CacheLifetime(a.life)
        /\ kind # "keys" => ExpiryOf(a) <= a.content + Turn
    <3>1. CASE kind = "keys"
      BY <1>3, <2>2, <3>1 DEF ExpiryOf
    <3>2. CASE kind = "metadata"
      BY <1>1, <1>3, <2>2, <3>2 DEF ExpiryOf
    <3>3. CASE kind = "installation"
      BY <1>1, <1>3, <3>3 DEF ExpiryOf
    <3>4. QED
      BY <3>1, <3>2, <3>3 DEF TypeInv, Kind
  <2>4. ASSUME kind # "keys" PROVE now + CallTimeout < a.content
    <3>1. fetch.start + Margin <= a.content
      <4>1. CASE kind = "metadata"
        BY <1>3, <1>5, <2>2, <2>4, <4>1, TimeoutAssumption DEF Acceptable
      <4>2. CASE kind = "installation"
        BY <1>3, <1>5, <4>2, TimeoutAssumption DEF Acceptable
      <4>3. QED
        BY <2>4, <4>1, <4>2 DEF TypeInv, Kind
    <3>2. Turn + CallTimeout < Margin /\ CallTimeout \in Nat /\ Margin \in Nat
      BY Timeouts DEF Turn, TypeInv
    <3>3. QED
      BY <1>1, <1>3, <3>1, <3>2
  <2>5. cache' \in [content : Nat \cup {None}, expires : Nat]
    BY <1>3, <2>1, <2>3
  <2>6. /\ TypeInv' /\ QueueInv' /\ HeldInv' /\ WorldInv'
        /\ FetchInv' /\ WaitInv' /\ AskedInv'
    BY <1>1, <1>2, <1>3, <2>1, <2>4, <2>5, DeliverKeeps
  <2>7. /\ cache'.content = a.content /\ cache'.expires = ExpiryOf(a)
        /\ MaxAge \in Nat
    BY <2>1, Timeouts DEF TypeInv
  <2>8. CacheInv'
    <3>1. CASE kind = "keys"
      <4>1. ExpiryOf(a) <= now + MaxAge
        BY <1>1, <1>3, <2>2, <2>3, <2>7, <3>1
      <4>2. ASSUME NEW k \in Key, k \in KeysOf(a.content), retired[k] # None
            PROVE  ExpiryOf(a) <= retired[k] + MaxAge
        <5>1. fetch.start <= retired[k] /\ retired[k] \in Nat
          BY <1>1, <1>2, <3>1, <4>2, TimeoutAssumption DEF FetchInv, TypeInv, Time
        <5>2. QED
          BY <1>3, <2>2, <2>3, <2>7, <3>1, <5>1
      <4>3. QED
        BY <1>1, <2>7, <3>1, <4>1, <4>2 DEF CacheInv, worldVars
    <3>2. CASE kind # "keys"
      BY <1>1, <2>3, <2>7, <3>2 DEF CacheInv, Turn
    <3>3. QED
      BY <3>1, <3>2
  <2>9. QED
    BY <2>6, <2>8
<1>6. QED
  BY <1>4, <1>5

\* A failed fetch hands the mutex on and leaves the cache.
LEMMA FetchFailsStep ==
  ASSUME CredentialsInv, NEW h \in Handler, FetchFails(h)
  PROVE  CredentialsInv'
<1>1. Turned(h)
  BY DEF FetchFails, Turned
<1>2. QED
  BY <1>1, FailureKeeps DEF FetchFails, worldVars

\* A handler that goes on with its request leaves the caches alone.
LEMMA DoneStep ==
  ASSUME CredentialsInv, NEW h \in Handler, Done(h)
  PROVE  CredentialsInv'
<1> USE DEF CredentialsInv
<1>1. /\ at[h] \notin {"waiting", "fetching"} /\ at'[h] = "idle"
      /\ \A g \in Handler : g # h => at'[g] = at[g] /\ held'[g] = held[g]
      /\ UNCHANGED <<now, kind, published, retired, cache, queue, mutex, fetch, asked>>
  BY DEF Done, TypeInv, worldVars
<1>2. TypeInv'
  BY <1>1 DEF Done, TypeInv, Place
<1>3. QueueInv'
  BY <1>1 DEF QueueInv, TypeInv
<1>4. HeldInv'
  BY <1>1 DEF HeldInv
<1>5. WorldInv' /\ CacheInv' /\ FetchInv' /\ AskedInv'
  BY <1>1 DEF WorldInv, CacheInv, FetchInv, AskedInv, Turn
<1>6. WaitInv'
  BY <1>1 DEF WaitInv, Elapsed, MaxTurns, Spare, Turn, Turns
<1>7. QED
  BY <1>2, <1>3, <1>4, <1>5, <1>6

\* A key that is withdrawn now is cached no longer than MaxAge from now.
LEMMA RotateStep ==
  ASSUME CredentialsInv, Rotate
  PROVE  CredentialsInv'
<1> USE DEF CredentialsInv
<1>1. /\ kind = "keys" /\ published <= MaxRotations
      /\ published' = published + 1
      /\ UNCHANGED <<now, kind, cache, queue, mutex, fetch, at, asked, held>>
      /\ now \in Nat /\ now \in Time /\ now # None
  BY ElapsedType, NoneAssumption DEF Rotate, handlerVars, TypeInv
<1>2. /\ published \in Nat /\ 1 <= published /\ published \in Edition
      /\ published' \in Edition /\ published - 1 \in Key
  BY <1>1, TimeoutAssumption DEF TypeInv, Edition, Key
<1>3. /\ retired' \in [Key -> Time \cup {None}]
      /\ retired'[published - 1] = now
      /\ \A k \in Key : k # published - 1 => retired'[k] = retired[k]
  BY <1>1, <1>2 DEF Rotate, TypeInv
<1>4. TypeInv'
  BY <1>1, <1>2, <1>3 DEF TypeInv
<1>5. QueueInv' /\ HeldInv' /\ AskedInv'
  BY <1>1 DEF QueueInv, HeldInv, AskedInv
<1>6. WorldInv'
  <2> SUFFICES ASSUME NEW k \in Key
               PROVE  /\ retired'[k] # None <=> k < published
                      /\ retired'[k] # None => retired'[k] <= now
    BY <1>1, <1>2 DEF WorldInv
  <2>1. k \in Nat
    BY DEF Key
  <2>2. CASE k = published - 1
    BY <1>1, <1>2, <1>3, <2>2
  <2>3. CASE k # published - 1
    BY <1>2, <1>3, <2>1, <2>3 DEF WorldInv
  <2>4. QED
    BY <2>2, <2>3
<1>7. CacheInv'
  <2>1. cache.expires <= now + MaxAge
    BY <1>1 DEF CacheInv
  <2>2. ASSUME cache.content # None, NEW k \in Key, k \in KeysOf(cache.content),
               retired'[k] # None
        PROVE  cache.expires <= retired'[k] + MaxAge
    <3>1. CASE k = published - 1
      BY <1>3, <2>1, <3>1
    <3>2. CASE k # published - 1
      BY <1>1, <1>3, <2>2, <3>2 DEF CacheInv
    <3>3. QED
      BY <3>1, <3>2
  <2>3. QED
    BY <1>1, <2>1, <2>2 DEF CacheInv
<1>8. FetchInv'
  <2> SUFFICES ASSUME fetch # None
               PROVE  FetchInv'
    BY <1>1 DEF FetchInv
  <2>1. /\ fetch.start <= now /\ now <= fetch.start + Turn
        /\ \A h \in Handler : at[h] = "fetching" => asked[h] <= fetch.start
    BY DEF FetchInv
  <2>2. ASSUME fetch.answer # None
        PROVE  /\ fetch.answer.content \in Edition
               /\ fetch.answer.content \in Nat
               /\ fetch.answer.content <= published
    BY <1>1, <2>2 DEF FetchInv, Edition
  <2>3. ASSUME fetch.answer # None
        PROVE  fetch.answer.content <= published'
    BY <1>1, <1>2, <2>2, <2>3
  <2>4. ASSUME fetch.answer # None, NEW k \in Key,
               k \in KeysOf(fetch.answer.content), retired'[k] # None
        PROVE  fetch.start <= retired'[k]
    <3>1. CASE k = published - 1
      BY <1>3, <2>1, <3>1
    <3>2. CASE k # published - 1
      BY <1>1, <1>3, <2>4, <3>2 DEF FetchInv
    <3>3. QED
      BY <3>1, <3>2
  <2>5. ASSUME fetch.answer # None, NEW k \in Key,
               k > 1, k > fetch.answer.content, k <= published'
        PROVE  fetch.start <= retired'[k - 2]
    <3>1. k \in Nat /\ k - 2 \in Key
      BY <2>5, TimeoutAssumption DEF Key
    <3>2. CASE k = published + 1
      <4>1. k - 2 = published - 1
        BY <1>2, <3>2
      <4>2. QED
        BY <1>3, <2>1, <4>1
    <3>3. CASE k # published + 1
      <4>1. k <= published /\ k - 2 # published - 1
        BY <1>1, <1>2, <2>5, <3>1, <3>3
      <4>2. fetch.start <= retired[k - 2]
        BY <1>1, <2>5, <4>1 DEF FetchInv
      <4>3. QED
        BY <1>3, <3>1, <4>1, <4>2
    <3>4. QED
      BY <3>2, <3>3
  <2>6. QED
    BY <1>1, <2>1, <2>2, <2>3, <2>4, <2>5 DEF FetchInv, Turn
<1>9. WaitInv'
  BY <1>1 DEF WaitInv, Elapsed, MaxTurns, Spare, Turn, Turns
<1>10. QED
  BY <1>4, <1>5, <1>6, <1>7, <1>8, <1>9

\* The clock stays within the timeouts of the fetch and the calls.
LEMMA TickStep ==
  ASSUME CredentialsInv, Tick
  PROVE  CredentialsInv'
<1> USE DEF CredentialsInv
<1>1. /\ now < MaxTime /\ InTime /\ now' = now + 1
      /\ UNCHANGED <<kind, published, retired, cache, queue, mutex, fetch, at, asked, held>>
      /\ now \in Nat /\ Turn \in Nat
  BY ElapsedType DEF Tick, worldVars, handlerVars
<1>2. TypeInv'
  BY <1>1, TimeoutAssumption DEF TypeInv, Time
<1>3. QueueInv'
  BY <1>1 DEF QueueInv
<1>4. HeldInv'
  <2>1. ASSUME NEW g \in Handler, at[g] = "calling"
        PROVE  now + 1 <= held[g].sent + CallTimeout
    <3>1. now < held[g].sent + CallTimeout /\ held[g].sent \in Nat /\ CallTimeout \in Nat
      BY <1>1, <2>1, TimeoutAssumption DEF InTime, HeldInv, Token, Time
    <3>2. QED
      BY <1>1, <3>1
  <2>2. QED
    BY <1>1, <2>1 DEF HeldInv
<1>5. WorldInv'
  <2>1. \A k \in Key : retired[k] # None => retired[k] \in Nat
    BY TimeoutAssumption DEF TypeInv, Time
  <2>2. QED
    BY <1>1, <2>1 DEF WorldInv
<1>6. CacheInv'
  <2>1. cache.expires \in Nat /\ MaxAge \in Nat
    BY TimeoutAssumption DEF TypeInv
  <2>2. kind = "keys" => cache.expires <= now + 1 + MaxAge
    BY <1>1, <2>1 DEF CacheInv
  <2>3. QED
    BY <1>1, <2>2 DEF CacheInv, Turn
<1>7. FetchInv'
  <2> SUFFICES ASSUME fetch # None PROVE FetchInv'
    BY <1>1 DEF FetchInv
  <2>1. /\ fetch.start \in Nat /\ now < fetch.start + Turn
        /\ fetch.start <= now
    BY <1>1, TimeoutAssumption DEF TypeInv, Fetch, Time, InTime, Turn, FetchInv
  <2>2. fetch.start <= now + 1 /\ now + 1 <= fetch.start + Turn
    BY <1>1, <2>1
  <2>3. ASSUME fetch.answer # None, kind # "keys"
        PROVE  fetch.answer.content <= now + 1 + fetch.answer.life
    <3>1. fetch.answer.content \in Nat /\ fetch.answer.life \in Nat
      BY <2>3 DEF TypeInv, Fetch, Answer
    <3>2. fetch.answer.content <= now + fetch.answer.life
      BY <2>3 DEF FetchInv
    <3>3. QED
      BY <1>1, <3>1, <3>2
  <2>4. QED
    BY <1>1, <2>2, <2>3 DEF FetchInv, Turn
<1>8. AskedInv'
  <2>1. ASSUME NEW h \in Handler PROVE asked[h] <= now + 1
    <3>1. asked[h] \in Nat /\ asked[h] <= now
      BY TimeoutAssumption DEF TypeInv, Time, AskedInv
    <3>2. QED
      BY <1>1, <3>1
  <2>2. \A h \in Handler : at[h] # "asking"
    BY <1>1 DEF InTime
  <2>3. QED
    BY <1>1, <2>1, <2>2 DEF AskedInv
<1>9. WaitInv'
  <2>1. \A h \in Handler : asked[h] \in Nat
    BY TimeoutAssumption DEF TypeInv, Time
  <2>2. ASSUME fetch # None
        PROVE  Elapsed' = Elapsed + 1 /\ Elapsed \in Int
    <3>1. fetch.start \in Nat
      BY <2>2, TimeoutAssumption DEF TypeInv, Fetch, Time
    <3>2. QED
      BY <1>1, <2>2, <3>1 DEF Elapsed
  <2>3. Turn' = Turn /\ Turns' = Turns /\ Spare' = Spare /\ Turns \in Nat /\ Spare \in 0..2
    BY <1>1, TurnsType DEF Turn, Turns, Spare
  <2>4. ASSUME NEW i \in 1..Len(queue)
        PROVE  (now + 1) - asked[queue[i]] <= Turn * (MaxTurns - i) + Elapsed'
    <3>1. queue[i] \in Handler /\ i \in Nat
      BY DEF TypeInv
    <3>2. fetch # None
      BY <1>1, <3>1 DEF QueueInv, InTime
    <3>3. now - asked[queue[i]] <= Turn * (MaxTurns - i) + Elapsed
      BY DEF WaitInv
    <3>4. Turn * (MaxTurns - i) \in Int
      BY <1>1, <2>3, <3>1 DEF MaxTurns
    <3>5. QED
      BY <1>1, <2>1, <2>2, <3>1, <3>2, <3>3, <3>4
  <2>5. ASSUME NEW h \in Handler, at[h] = "fetching"
        PROVE  (now + 1) - asked[h] <= Turn * Turns + Elapsed'
    <3>1. fetch # None
      BY <2>5 DEF QueueInv
    <3>2. now - asked[h] <= Turn * Turns + Elapsed /\ Turn * Turns \in Int
      BY <1>1, <2>3, <2>5 DEF WaitInv
    <3>3. QED
      BY <1>1, <2>1, <2>2, <3>1, <3>2
  <2>6. MaxTurns' = MaxTurns
    BY <2>3 DEF MaxTurns
  <2>7. now' = now + 1 /\ queue' = queue /\ at' = at /\ asked' = asked
    BY <1>1
  <2>8. \A i \in 1..Len(queue') :
            now' - asked'[queue'[i]] <= Turn' * (MaxTurns' - i) + Elapsed'
    BY <2>3, <2>4, <2>6, <2>7
  <2>9. \A h \in Handler : at'[h] = "fetching" =>
            now' - asked'[h] <= Turn' * Turns' + Elapsed'
    BY <2>3, <2>5, <2>7
  <2>10. QED
    BY <2>8, <2>9 DEF WaitInv
<1>10. QED
  BY <1>2, <1>3, <1>4, <1>5, <1>6, <1>7, <1>8, <1>9

\* What a process keeps is gone when it stops.
LEMMA StopStep ==
  ASSUME CredentialsInv, Stop
  PROVE  CredentialsInv'
<1> USE DEF CredentialsInv
<1>1. /\ UNCHANGED <<now, kind, published, retired>>
      /\ cache' = Empty /\ fetch' = None
      /\ queue' = <<>> /\ mutex' = "normal"
      /\ at' = [h \in Handler |-> "idle"]
      /\ asked' = [h \in Handler |-> 0]
      /\ held' = [h \in Handler |-> None]
      /\ now \in Nat
  BY ElapsedType DEF Stop, worldVars
<1>2. TypeInv'
  BY <1>1, Timeouts DEF TypeInv, Time, Empty, Place
<1>3. Len(queue') = 0
  BY <1>1
<1>4. QueueInv' /\ HeldInv' /\ FetchInv' /\ WaitInv'
  BY <1>1, <1>3 DEF QueueInv, HeldInv, FetchInv, WaitInv
<1>5. WorldInv' /\ AskedInv'
  BY <1>1, <1>3 DEF WorldInv, AskedInv
<1>6. CacheInv'
  <2>1. MaxAge \in Nat /\ cache'.content = None /\ cache'.expires = 0
    BY <1>1, TimeoutAssumption DEF Empty
  <2>2. cache'.expires <= now + MaxAge
    BY <1>1, <2>1
  <2>3. QED
    BY <1>1, <2>1, <2>2 DEF CacheInv
<1>7. QED
  BY <1>2, <1>4, <1>5, <1>6

\* The invariant is about the variables of Credentials only.
LEMMA StutterKeeps ==
  ASSUME CredentialsInv, UNCHANGED credentialVars
  PROVE  CredentialsInv'
<1> USE DEF CredentialsInv
<1>1. UNCHANGED <<now, kind, published, retired, cache, queue, mutex, fetch,
                  at, asked, held>>
  BY DEF credentialVars, worldVars, handlerVars
<1>2. TypeInv' /\ QueueInv' /\ HeldInv' /\ WorldInv' /\ AskedInv'
  BY <1>1 DEF TypeInv, QueueInv, HeldInv, WorldInv, AskedInv
<1>3. CacheInv' /\ FetchInv' /\ WaitInv'
  BY <1>1 DEF CacheInv, FetchInv, WaitInv, Elapsed, MaxTurns, Spare, Turn, Turns
<1>4. QED
  BY <1>2, <1>3

\* The invariant is inductive.
LEMMA NextKeeps ==
  ASSUME CredentialsInv, [Next]_vars
  PROVE  CredentialsInv'
<1>1. CASE Start
  BY <1>1, StutterKeeps DEF Start
<1>2. CASE Stop
  BY <1>2, StopStep
<1>3. CASE Serving /\ CredentialsNext
  <2>1. CASE \E h \in Handler : \/ Ask(h) \/ Park(h) \/ Lock(h)
                                \/ Receive(h) \/ FetchFails(h) \/ Done(h)
    BY <2>1, AskStep, ParkStep, LockStep, ReceiveStep, FetchFailsStep, DoneStep
  <2>2. CASE EndpointAnswers \/ Rotate \/ Tick
    BY <2>2, EndpointAnswersStep, RotateStep, TickStep
  <2>3. QED
    BY <1>3, <2>1, <2>2 DEF CredentialsNext
<1>4. CASE UNCHANGED vars
  BY <1>4, StutterKeeps DEF vars
<1>5. QED
  BY <1>1, <1>2, <1>3, <1>4 DEF Next

\* The invariant holds in every process that was started, for any number of
\* handlers and whatever the endpoints answer.
THEOREM CredentialsInvariant == Spec => []CredentialsInv
<1>1. Init => CredentialsInv
  BY InitInv DEF Init
<1>2. CredentialsInv /\ [Next]_vars => CredentialsInv'
  BY NextKeeps
<1>3. QED
  BY <1>1, <1>2, PTL DEF Spec

-----------------------------------------------------------------------------
(* What follows.                                                           *)

\* The types of Credentials, as TLC checks them.
THEOREM TypeCorrect == Spec => []CredentialsTypeOK
<1>1. CredentialsInv => CredentialsTypeOK
  <2> SUFFICES ASSUME CredentialsInv PROVE CredentialsTypeOK
    OBVIOUS
  <2> USE DEF CredentialsInv
  <2>1. DOMAIN queue = 1..Len(queue) /\ (queue = <<>> => Len(queue) = 0)
    BY DEF TypeInv
  <2>2. ASSUME NEW h \in Handler
        PROVE  /\ held[h] \in Assertion \cup Token \cup {None}
               /\ (\E i \in DOMAIN queue : queue[i] = h) <=> at[h] = "waiting"
               /\ at[h] = "fetching" =>
                    fetch # None /\ \A g \in Handler \ {h} : at[g] # "fetching"
    BY <2>1 DEF TypeInv, QueueInv
  <2>3. queue = <<>> => mutex = "normal"
    BY <2>1 DEF QueueInv
  <2>4. fetch # None => \E h \in Handler : at[h] = "fetching"
    BY DEF QueueInv
  <2>5. QED
    BY <2>2, <2>3, <2>4 DEF TypeInv, Place, CredentialsTypeOK
<1>2. QED
  BY <1>1, CredentialsInvariant, PTL

\* No token of either source expires during a call, as long as a fetch and a
\* call together take less than the margin.
THEOREM TokensOutliveCalls == Spec => []TokenOutlivesCall
<1>1. CredentialsInv => TokenOutlivesCall
  <2> SUFFICES ASSUME CredentialsInv, NEW h \in Handler, at[h] = "calling"
               PROVE  now < held[h].expires
    BY DEF TokenOutlivesCall
  <2>1. /\ held[h].expires \in Nat /\ held[h].sent \in Nat
        /\ now <= held[h].sent + CallTimeout
        /\ held[h].sent + CallTimeout < held[h].expires
    BY TimeoutAssumption DEF CredentialsInv, HeldInv, Token, Time
  <2>2. QED
    BY <2>1, ElapsedType, TimeoutAssumption DEF CredentialsInv
<1>2. QED
  BY <1>1, CredentialsInvariant, PTL

\* Whoever sleeps waits for no more fetches than there are handlers, and who
\* fetches has waited for no more before.
THEOREM WaitsAreBounded == Spec => []WaitBounded
<1>1. CredentialsInv => WaitBounded
  <2> SUFFICES ASSUME CredentialsInv PROVE WaitBounded
    OBVIOUS
  <2> USE DEF CredentialsInv
  <2>1. /\ Elapsed <= Turn /\ Elapsed \in Int /\ now \in Nat
        /\ Turn \in Nat /\ Turns \in Nat /\ \A h \in Handler : asked[h] \in Nat
        /\ fetch = None => Elapsed = 0
    BY ElapsedType, TurnsType, TimeoutAssumption DEF TypeInv, Time, Elapsed
  <2>2. ASSUME NEW i \in DOMAIN queue
        PROVE  now - asked[queue[i]] <= Turn * (Turns - i + 1)
    <3>1. i \in 1..Len(queue) /\ i \in Nat /\ queue[i] \in Handler
      BY DEF TypeInv
    <3>2. now - asked[queue[i]] <= Turn * (MaxTurns - i) + Elapsed
      BY <3>1 DEF WaitInv
    <3>3. MaxTurns - i \in Int /\ Turn * (MaxTurns - i) \in Int
      BY <2>1, <3>1 DEF MaxTurns, Spare
    <3>4. CASE fetch = None
      <4>1. MaxTurns - i <= Turns - i + 1
        BY <2>1, <3>1 DEF MaxTurns, Spare
      <4>2. /\ Turn * (MaxTurns - i) <= Turn * (Turns - i + 1)
            /\ Turn * (Turns - i + 1) \in Int
        BY <2>1, <3>1, <3>3, <4>1, MoreTurns
      <4>3. QED
        BY <2>1, <3>1, <3>2, <3>3, <3>4, <4>2
    <3>5. CASE fetch # None
      <4>1. MaxTurns - i + 1 <= Turns - i + 1
        BY <2>1, <3>1, <3>5 DEF MaxTurns, Spare
      <4>2. /\ Turn * (MaxTurns - i + 1) <= Turn * (Turns - i + 1)
            /\ Turn * (Turns - i + 1) \in Int
        BY <2>1, <3>1, <3>3, <4>1, MoreTurns
      <4>3. Turn * (MaxTurns - i + 1) = Turn * (MaxTurns - i) + Turn
        BY <2>1, <3>3
      <4>4. now - asked[queue[i]] \in Int /\ Elapsed <= Turn /\ Elapsed \in Int
            /\ Turn \in Int
        BY <2>1, <3>1
      <4>5. QED
        BY <3>2, <3>3, <4>2, <4>3, <4>4
    <3>6. QED
      BY <3>4, <3>5
  <2>3. ASSUME NEW h \in Handler, at[h] = "fetching"
        PROVE  now - asked[h] <= Turn * (Turns + 1)
    <3>1. now - asked[h] <= Turn * Turns + Elapsed
      BY <2>3 DEF WaitInv
    <3>2. Turn * (Turns + 1) = Turn * Turns + Turn /\ Turn * Turns \in Int
      BY <2>1
    <3>3. QED
      BY <2>1, <3>1, <3>2
  <2>4. QED
    BY <2>2, <2>3 DEF WaitBounded, Turn, Turns
<1>2. QED
  BY <1>1, CredentialsInvariant, PTL

\* Whoever becomes verified or unknown was given keys in this step.
LEMMA JudgedSteps ==
  ASSUME CredentialsInv, [Next]_vars, NEW h \in Handler,
         at'[h] \in {"verified", "unknown"}, at'[h] # at[h]
  PROVE  /\ kind = "keys" /\ at[h] \in {"asking", "waiting", "fetching"}
         /\ \/ Lock(h) /\ Usable(h) /\ Deliver(h, cache.content)
            \/ Receive(h) /\ Deliver(h, fetch.answer.content)
<1> USE DEF CredentialsInv
<1>1. Serving /\ CredentialsNext
  BY DEF Next, Start, Stop, vars, credentialVars, handlerVars
<1>2. PICK g \in Handler : \/ Ask(g) \/ Park(g) \/ Lock(g)
                          \/ Receive(g) \/ FetchFails(g) \/ Done(g)
  BY <1>1 DEF CredentialsNext, EndpointAnswers, Rotate, Tick, handlerVars
<1>3. g = h
  <2> SUFFICES ASSUME g # h PROVE FALSE
    OBVIOUS
  <2>1. at'[h] = at[h]
    BY <1>2 DEF Ask, Park, Lock, Receive, FetchFails, Done, Deliver, Unlock, TypeInv
  <2>2. QED
    BY <2>1
<1>4. /\ at[h] \in {"asking", "waiting", "fetching"}
      /\ Lock(h) \/ Receive(h)
  <2>1. Lock(h) \/ Receive(h)
    BY <1>2, <1>3 DEF Ask, Park, FetchFails, Done, Unlock, TypeInv
  <2>2. CASE Lock(h)
    BY <2>2, FirstWaits DEF Lock
  <2>3. CASE Receive(h)
    BY <2>3 DEF Receive
  <2>4. QED
    BY <2>1, <2>2, <2>3
<1>5. CASE Lock(h)
  <2>1. Usable(h) /\ Deliver(h, cache.content)
    BY <1>5 DEF Lock, TypeInv
  <2>2. kind = "keys"
    BY <2>1 DEF Deliver, Unlock, TypeInv
  <2>3. QED
    BY <1>4, <1>5, <2>1, <2>2
<1>6. CASE Receive(h)
  <2>1. Deliver(h, fetch.answer.content)
    BY <1>6 DEF Receive, Unlock, TypeInv
  <2>2. kind = "keys"
    BY <2>1 DEF Deliver, Unlock, TypeInv
  <2>3. QED
    BY <1>4, <1>6, <2>1, <2>2
<1>7. QED
  BY <1>4, <1>5, <1>6

\* A key that is trusted was withdrawn less than MaxAge ago, and an assertion
\* is trusted for no more than the skew after it expired.
THEOREM VerificationIsFresh == Spec => VerifiedInTime
<1> DEFINE Fresh == \A h \in Handler : at'[h] = "verified" /\ at[h] # "verified" =>
        LET k == held[h].key
        IN  /\ now < held[h].expires + ClockSkew
            /\ retired[k] # None => now < retired[k] + MaxAge
<1>1. ASSUME CredentialsInv, [Next]_vars PROVE [Fresh]_credentialVars
  <2> USE <1>1 DEF CredentialsInv
  <2> SUFFICES ASSUME NEW h \in Handler, at'[h] = "verified", at[h] # "verified"
               PROVE  /\ now < held[h].expires + ClockSkew
                      /\ retired[held[h].key] # None
                            => now < retired[held[h].key] + MaxAge
    OBVIOUS
  <2> DEFINE k == held[h].key
  <2>1. /\ kind = "keys" /\ at[h] \in {"asking", "waiting", "fetching"}
        /\ \/ Lock(h) /\ Usable(h) /\ Deliver(h, cache.content)
           \/ Receive(h) /\ Deliver(h, fetch.answer.content)
    BY JudgedSteps
  <2>2. held[h] \in Assertion /\ k \in Key /\ held[h].expires \in Nat
    BY <2>1 DEF HeldInv, Assertion
  <2>3. /\ now \in Nat /\ ClockSkew \in Nat /\ MaxAge \in Nat
        /\ retired[k] # None => retired[k] \in Nat
    BY <2>2, ElapsedType, TimeoutAssumption DEF TypeInv, Time
  <2>4. now < held[h].expires + ClockSkew
    <3>1. Window(held[h]) = "verified"
      BY <2>1 DEF Deliver, Unlock, TypeInv
    <3>2. now - ClockSkew < held[h].expires
      BY <3>1 DEF Window
    <3>3. QED
      BY <2>2, <2>3, <3>2
  <2>5. ASSUME retired[k] # None PROVE now < retired[k] + MaxAge
    <3>1. CASE Lock(h) /\ Usable(h)
      <4>1. /\ k \in KeysOf(cache.content) /\ now < cache.expires
            /\ cache.content # None /\ cache.expires \in Nat
        BY <2>1, <3>1 DEF Usable, KeyUsable, TypeInv
      <4>2. cache.expires <= retired[k] + MaxAge
        BY <2>1, <2>2, <2>5, <4>1 DEF CacheInv
      <4>3. QED
        BY <2>3, <2>5, <4>1, <4>2
    <3>2. CASE Receive(h) /\ Deliver(h, fetch.answer.content)
      <4>1. fetch # None /\ fetch.answer # None /\ k \in KeysOf(fetch.answer.content)
        BY <2>1, <3>2 DEF Receive, Deliver, Unlock, QueueInv, TypeInv
      <4>2. /\ fetch.start <= retired[k] /\ now <= fetch.start + Turn
            /\ fetch.start \in Nat
        BY <2>1, <2>2, <2>5, <4>1, TimeoutAssumption
           DEF FetchInv, TypeInv, Fetch, Time
      <4>3. Turn \in Nat /\ Turn < MaxAge
        BY <2>1, Timeouts DEF Turn, Kind
      <4>4. QED
        BY <2>3, <2>5, <4>2, <4>3
    <3>3. QED
      BY <2>1, <3>1, <3>2
  <2>6. QED
    BY <2>4, <2>5
<1>2. QED
  BY <1>1, CredentialsInvariant, PTL DEF Spec, VerifiedInTime

\* Whoever is told that its key is unknown holds a key that was not there
\* when it asked, or no longer is.
THEOREM KnownKeysAreFound == Spec => KnownKeyIsFound
<1> DEFINE Found == \A h \in Handler : at'[h] = "unknown" /\ at[h] # "unknown" =>
        LET k == held[h].key
        IN  \/ k \notin KeysOf(published)
            \/ k > 1 /\ retired[k - 2] >= asked[h]
<1>1. ASSUME CredentialsInv, [Next]_vars PROVE [Found]_credentialVars
  <2> USE <1>1 DEF CredentialsInv
  <2> SUFFICES ASSUME NEW h \in Handler, at'[h] = "unknown", at[h] # "unknown",
                      held[h].key \in KeysOf(published)
               PROVE  held[h].key > 1 /\ retired[held[h].key - 2] >= asked[h]
    OBVIOUS
  <2> DEFINE k == held[h].key
             content == fetch.answer.content
  <2>1. /\ kind = "keys" /\ at[h] \in {"asking", "waiting", "fetching"}
        /\ \/ Lock(h) /\ Usable(h) /\ Deliver(h, cache.content)
           \/ Receive(h) /\ Deliver(h, content)
    BY JudgedSteps
  <2>2. held[h] \in Assertion /\ k \in Key /\ k \in Nat
    BY <2>1 DEF HeldInv, Assertion, Key
  <2>3. Receive(h) /\ Deliver(h, content) /\ k \notin KeysOf(content)
    BY <2>1 DEF Usable, KeyUsable, Deliver, Window, Unlock, TypeInv
  <2>4. fetch # None /\ fetch.answer # None
    BY <2>3 DEF Receive, QueueInv
  <2>5. /\ content \in Nat /\ 1 <= content /\ content <= published
        /\ published \in Nat
    BY <2>1, <2>4, TimeoutAssumption DEF FetchInv, TypeInv, Edition
  <2>6. k > content /\ k > 1 /\ k <= published
    BY <2>2, <2>3, <2>5 DEF KeysOf
  <2>7. fetch.start <= retired[k - 2]
    BY <2>1, <2>2, <2>4, <2>6 DEF FetchInv
  <2>8. asked[h] <= fetch.start
    BY <2>3, <2>4 DEF FetchInv, Receive
  <2>9. fetch.start \in Nat /\ asked[h] \in Nat
    BY <2>4, TimeoutAssumption DEF TypeInv, Fetch, Time
  <2>10. retired[k - 2] \in Nat
    <3>1. k - 2 \in Key /\ k - 2 < published - 1
      BY <2>2, <2>5, <2>6, TimeoutAssumption DEF Key
    <3>2. retired[k - 2] # None
      BY <3>1 DEF WorldInv
    <3>3. QED
      BY <3>1, <3>2, TimeoutAssumption DEF TypeInv, Time
  <2>11. QED
    BY <2>6, <2>7, <2>8, <2>9, <2>10
<1>2. QED
  BY <1>1, CredentialsInvariant, PTL DEF Spec, KnownKeyIsFound

\* What a process was built from.
SetupInv ==
    /\ process = "starting" => setup \in Environments
    /\ process = "serving" =>
            \E e \in Environments : Starts(e) /\ setup = Built(e)

\* In the mode that dispatches nothing no operation is admitted.
LEMMA SourceReadyAdmitsNothing ==
  ASSUME NEW e, Starts(e), e.mode = "source-ready"
  PROVE  ~Admits(e.catalog)
<1>1. ~e.catalog.connected
  BY DEF Starts, ServerAllows
<1>2. ASSUME NEW intent PROVE Authorize(e.catalog, intent) = "unavailable"
  BY <1>1 DEF Authorize
<1>3. QED
  BY <1>2 DEF Admits

\* What is built of an environment that starts is wired safely.
LEMMA BuiltSafely ==
  ASSUME NEW e, Starts(e), process = "serving" => setup = Built(e)
  PROVE  WiredSafely
<1> SUFFICES ASSUME process = "serving" PROVE WiredSafely
  BY DEF WiredSafely
<1>1. e.mode \in {"development", "source-ready", "connected"}
  BY DEF Starts, ModeAllows
<1>2. /\ setup.dispatcher = Dispatcher(e)
      /\ setup.validator = IF e.mode = "development" THEN "local" ELSE "iap"
      /\ setup.storage = IF e.mode = "development" THEN "memory" ELSE "buckets"
      /\ setup.secure = (e.mode # "development")
      /\ setup.separate = (e.mode = "connected" /\ AppsSeparate(e))
      /\ setup.admits = Admits(e.catalog)
  BY DEF Built
<1>3. CASE e.mode = "development"
  BY <1>2, <1>3 DEF WiredSafely, Dispatcher
<1>4. CASE e.mode = "source-ready"
  BY <1>2, <1>4, SourceReadyAdmitsNothing DEF WiredSafely, Dispatcher
<1>5. CASE e.mode = "connected"
  <2>1. AppsSeparate(e)
    BY <1>5 DEF Starts, ModeAllows
  <2>2. QED
    BY <1>2, <1>5, <2>1 DEF WiredSafely, Dispatcher
<1>6. QED
  BY <1>1, <1>3, <1>4, <1>5

\* Whatever the environment, a process that serves is wired safely.
THEOREM WiringIsSafe == Spec => []WiredSafely
<1>1. Init => SetupInv
  BY DEF Init, SetupInv
<1>2. SetupInv /\ [Next]_vars => SetupInv'
  <2> SUFFICES ASSUME SetupInv, [Next]_vars PROVE SetupInv'
    OBVIOUS
  <2>1. CASE Start
    BY <2>1 DEF Start, SetupInv
  <2>2. CASE Stop
    BY <2>2 DEF Stop, SetupInv
  <2>3. CASE UNCHANGED replicaVars
    BY <2>3 DEF replicaVars, SetupInv
  <2>4. QED
    BY <2>1, <2>2, <2>3 DEF Next, Serving, vars
<1>3. SetupInv => WiredSafely
  <2> SUFFICES ASSUME SetupInv, process = "serving" PROVE WiredSafely
    BY DEF WiredSafely
  <2>1. PICK e \in Environments : Starts(e) /\ setup = Built(e)
    BY DEF SetupInv
  <2>2. QED
    BY <2>1, BuiltSafely
<1>4. QED
  BY <1>1, <1>2, <1>3, PTL DEF Spec
=============================================================================
