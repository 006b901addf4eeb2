------------------------ MODULE WorkspaceRolesProofs ------------------------
(***************************************************************************)
(* What holds of WorkspaceRoles for any number of lookups, addresses,      *)
(* groups and entries, and any lengths of time.                            *)
(***************************************************************************)
EXTENDS WorkspaceRoles, FiniteSetTheorems, TLAPS

Cached == {e \in Email : cache[e] # None}

\* e was in a group with role r at time t or later.
Held(e, r, t) == \E g \in Group : RoleOf[g] = r /\ LastIn(e, g) >= t

\* A membership that was found was one when the call began; an entry is no
\* older than one call when it is written; an answer is what it says.
SampleInv(l) ==
    pc[l] = "sampled" /\ sampled[l] => LastIn(email[l], bindings[next[l]]) >= asked[l]

CallInv(l) ==
    pc[l] \in {"asking", "sampled"} => asked[l] <= clock /\ clock <= asked[l] + CallTime

EntryInv(e) ==
    cache[e] # None /\ cache[e].role # RoleNone =>
        Held(e, cache[e].role, cache[e].expires - (TTL + CallTime))

AnswerInv(l) ==
    pc[l] = "answered" /\ role[l] # RoleNone =>
        Held(email[l], role[l], clock - (TTL + CallTime))

HistoryInv == \A e \in Email, g \in Group : since[e][g] <= clock

RolesInv ==
    /\ RolesTypeOK
    /\ HistoryInv
    /\ \A l \in Lookup : SampleInv(l) /\ CallInv(l) /\ AnswerInv(l)
    /\ \A e \in Email : EntryInv(e)

-----------------------------------------------------------------------------
\* There are finitely many groups.
LEMMA CountType == Cardinality(Group) \in Nat
  BY GroupAssumption, FS_CardinalityType

\* There are finitely many cached addresses.
LEMMA CachedFinite == IsFiniteSet(Cached)
  BY EmailAssumption, FS_Subset DEF Cached

-----------------------------------------------------------------------------
(* Type correctness                                                        *)

\* Everything but the size of the cache.
Typed ==
    /\ bindings \in [Position -> Group]
    /\ cache \in [Email -> CachedRole \cup {None}]
    /\ clock \in Nat
    /\ member \in [Email -> SUBSET Group]
    /\ since \in [Email -> [Group -> Int]]
    /\ pc \in [Lookup -> {"idle", "asking", "sampled", "answered"}]
    /\ email \in [Lookup -> Email \cup {None}]
    /\ next \in [Lookup -> Nat]
    /\ \A l \in Lookup :
        /\ pc[l] # "idle" => email[l] \in Email
        /\ pc[l] \in {"asking", "sampled"} => next[l] \in Position
    /\ asked \in [Lookup -> Nat]
    /\ sampled \in [Lookup -> BOOLEAN]
    /\ role \in [Lookup -> Role]

\* The limit of the cache is proved apart from the types.
LEMMA TypedParts == RolesTypeOK <=> Typed /\ Cardinality(Cached) <= MaxEntries
  BY DEF RolesTypeOK, Typed, Cached

\* What a Store leaves in the cache: its own entry, and of the others some.
LEMMA StoreEntries ==
  ASSUME Typed, NEW l \in Lookup, NEW found \in Role, email[l] \in Email,
         Store(l, found)
  PROVE  /\ cache' \in [Email -> CachedRole \cup {None}]
         /\ cache'[email[l]] = [role |-> found, expires |-> clock + TTL]
         /\ \A e \in Email : e # email[l] => cache'[e] \in {None, cache[e]}
<1> DEFINE full == Cardinality({e \in Email : cache[e] # None}) >= MaxEntries
           kept == IF full THEN [e \in Email |-> None] ELSE cache
           entry == [role |-> found, expires |-> clock + TTL]
<1>1. cache' = [kept EXCEPT ![email[l]] = entry]
  BY Zenon DEF Store
<1>2. kept \in [Email -> CachedRole \cup {None}]
  BY DEF Typed
<1>3. entry \in CachedRole
  BY TimeAssumption DEF Typed, CachedRole
<1>4. \A e \in Email : kept[e] \in {None, cache[e]}
  OBVIOUS
<1> HIDE DEF kept, entry
<1>5. QED
  BY <1>1, <1>2, <1>3, <1>4 DEF entry

\* A Store keeps the cache within its limit, which it empties when it is full.
LEMMA StoreSize ==
  ASSUME Typed, Cardinality(Cached) <= MaxEntries,
         NEW l \in Lookup, NEW found \in Role, email[l] \in Email,
         Store(l, found)
  PROVE  Cardinality(Cached') <= MaxEntries
<1> DEFINE own == email[l]
<1>1. CASE Cardinality(Cached) >= MaxEntries
  <2>1. cache' = [[e \in Email |-> None] EXCEPT ![own] = [role |-> found, expires |-> clock + TTL]]
    BY <1>1, Zenon DEF Store, Cached
  <2>2. Cached' \subseteq {own}
    BY <2>1 DEF Cached
  <2>3. IsFiniteSet({own}) /\ Cardinality({own}) = 1
    BY FS_Singleton
  <2>4. Cardinality(Cached') <= Cardinality({own})
    BY <2>2, <2>3, FS_Subset
  <2>5. QED
    BY <2>3, <2>4, <2>2, FS_Subset, FS_CardinalityType, SizeAssumption
<1>2. CASE ~(Cardinality(Cached) >= MaxEntries)
  <2>1. Cached' \subseteq Cached \cup {own}
    BY StoreEntries DEF Cached, Typed
  <2>2. IsFiniteSet(Cached \cup {own}) /\ Cardinality(Cached \cup {own}) <= Cardinality(Cached) + 1
    <3>1. /\ IsFiniteSet(Cached \cup {own})
          /\ Cardinality(Cached \cup {own}) = IF own \in Cached
                THEN Cardinality(Cached) ELSE Cardinality(Cached) + 1
      BY CachedFinite, FS_AddElement
    <3>2. Cardinality(Cached) \in Nat
      BY CachedFinite, FS_CardinalityType
    <3>3. QED
      BY <3>1, <3>2
  <2>3. IsFiniteSet(Cached') /\ Cardinality(Cached') <= Cardinality(Cached \cup {own})
    BY <2>1, <2>2, FS_Subset
  <2>4. QED
    BY <1>2, <2>2, <2>3, CachedFinite, FS_CardinalityType, SizeAssumption
<1>3. QED
  BY <1>1, <1>2

\* The initial states have the types.
LEMMA TypeInit == Init => RolesTypeOK
<1> SUFFICES ASSUME Init PROVE RolesTypeOK
  OBVIOUS
<1>1. Horizon \in Int
  BY CountType, TimeAssumption DEF Horizon
<1>2. Cached = {}
  BY DEF Init, Cached
<1>3. Cardinality(Cached) <= MaxEntries
  BY <1>2, FS_EmptySet, SizeAssumption
<1>4. Typed
  BY <1>1 DEF Init, Typed, Role, RoleNone
<1>5. QED
  BY <1>3, <1>4, TypedParts

\* A call that ends in an answer writes the cache.
LEMMA ConcludeType ==
  ASSUME Typed, Cardinality(Cached) <= MaxEntries,
         NEW l \in Lookup, NEW found \in Role, pc[l] = "sampled",
         Conclude(l, found),
         UNCHANGED <<bindings, clock, member, since, email, sampled>>
  PROVE  Typed' /\ Cardinality(Cached') <= MaxEntries
<1>1. email[l] \in Email
  BY DEF Typed
<1>2. Store(l, found) /\ Answer(l, found) /\ UNCHANGED <<next, asked>>
  BY DEF Conclude
<1>3. cache' \in [Email -> CachedRole \cup {None}]
  BY <1>1, <1>2, StoreEntries
<1>4. Cardinality(Cached') <= MaxEntries
  BY <1>1, <1>2, StoreSize
<1>5. Typed'
  BY <1>1, <1>2, <1>3 DEF Typed, Answer, At
<1>6. QED
  BY <1>4, <1>5

\* A membership that was found gives a role.
LEMMA FoundRole ==
  ASSUME Typed, NEW l \in Lookup, pc[l] = "sampled"
  PROVE  /\ bindings[next[l]] \in Group
         /\ RoleOf[bindings[next[l]]] \in Role \ {RoleNone}
  BY GroupAssumption DEF Typed

\* Every step keeps the types and the limit of the cache.
LEMMA TypeNext == RolesTypeOK /\ [Next]_vars => RolesTypeOK'
<1> SUFFICES ASSUME Typed, Cardinality(Cached) <= MaxEntries, [Next]_vars
             PROVE  Typed' /\ Cardinality(Cached') <= MaxEntries
  BY TypedParts DEF RolesTypeOK, Typed, Cached
<1> USE DEF Cached
<1>1. ASSUME NEW l \in Lookup, Begin(l)
      PROVE  Typed' /\ Cardinality(Cached') <= MaxEntries
  <2>1. PICK e \in Email :
          /\ email' = [email EXCEPT ![l] = e]
          /\ \/ FromCache(l, e)
             \/ ~Fresh(e) /\ Ask(l, 1) /\ UNCHANGED <<cache, sampled, role>>
    BY <1>1 DEF Begin
  <2>2. pc[l] = "idle" /\ UNCHANGED <<bindings, clock, member, since>>
    BY <1>1 DEF Begin
  <2>3. CASE FromCache(l, e)
    BY <2>1, <2>2, <2>3 DEF Typed, FromCache, Fresh, Answer, At, CachedRole
  <2>4. CASE ~Fresh(e) /\ Ask(l, 1) /\ UNCHANGED <<cache, sampled, role>>
    <3>1. 1 \in Position
      BY CountType, FS_EmptySet, GroupAssumption DEF Position
    <3>2. QED
      BY <3>1, <2>1, <2>2, <2>4 DEF Typed, Ask, At
  <2>5. QED
    BY <2>1, <2>3, <2>4
<1>2. ASSUME NEW l \in Lookup, Evaluate(l)
      PROVE  Typed' /\ Cardinality(Cached') <= MaxEntries
  BY <1>2 DEF Evaluate, Typed, At
<1>3. ASSUME NEW l \in Lookup, Receive(l)
      PROVE  Typed' /\ Cardinality(Cached') <= MaxEntries
  <2>1. pc[l] = "sampled" /\ UNCHANGED <<bindings, clock, member, since, email, sampled>>
    BY <1>3 DEF Receive
  <2>2. CASE Conclude(l, RoleOf[bindings[next[l]]])
    BY <2>1, <2>2, FoundRole, ConcludeType
  <2>3. CASE Conclude(l, RoleNone)
    BY <2>1, <2>3, ConcludeType DEF Role, RoleNone
  <2>4. CASE next[l] < Cardinality(Group) /\ Ask(l, next[l] + 1) /\ UNCHANGED <<cache, role>>
    <3>1. next[l] + 1 \in Position
      BY <2>1, <2>4, CountType DEF Typed, Position
    <3>2. QED
      BY <3>1, <2>1, <2>4 DEF Typed, Ask, At
  <2>5. QED
    BY <1>3, <2>2, <2>3, <2>4 DEF Receive
<1>4. ASSUME NEW l \in Lookup, Return(l)
      PROVE  Typed' /\ Cardinality(Cached') <= MaxEntries
  BY <1>4 DEF Return, Typed, At, Role, RoleNone
<1>5. ASSUME NEW e \in Mover, NEW g \in Group, MembershipChange(e, g)
      PROVE  Typed' /\ Cardinality(Cached') <= MaxEntries
  BY <1>5, EmailAssumption DEF MembershipChange, Typed, lookupVars
<1>6. ASSUME Tick
      PROVE  Typed' /\ Cardinality(Cached') <= MaxEntries
  BY <1>6 DEF Tick, Typed, lookupVars
<1>7. CASE UNCHANGED vars
  BY <1>7 DEF Typed, vars, lookupVars
<1>8. QED
  BY <1>1, <1>2, <1>3, <1>4, <1>5, <1>6, <1>7 DEF Next, Fail, Use

-----------------------------------------------------------------------------
(* Memberships only become more recent.                                    *)

LEMMA HistoryStep ==
  ASSUME Typed, HistoryInv, [Next]_vars
  PROVE  /\ HistoryInv'
         /\ clock' >= clock
         /\ \A e \in Email, g \in Group : LastIn(e, g)' >= LastIn(e, g)
<1> USE DEF HistoryInv, LastIn, Typed
<1>1. CASE UNCHANGED <<clock, member, since>>
  BY <1>1
<1>2. ASSUME NEW e \in Mover, NEW g \in Group, MembershipChange(e, g)
      PROVE  /\ HistoryInv'
             /\ clock' >= clock
             /\ \A d \in Email, k \in Group : LastIn(d, k)' >= LastIn(d, k)
  <2>1. e \in Email /\ clock' = clock
    BY <1>2, EmailAssumption DEF MembershipChange
  <2>2. \A d \in Email, k \in Group : d # e \/ k # g =>
            since'[d][k] = since[d][k] /\ (k \in member'[d] <=> k \in member[d])
    BY <1>2, <2>1 DEF MembershipChange
  <2>3. since'[e][g] = clock
    BY <1>2, <2>1 DEF MembershipChange
  <2>4. LastIn(e, g)' = clock /\ LastIn(e, g) <= clock
    BY <2>1, <2>3
  <2>5. ASSUME NEW d \in Email, NEW k \in Group
        PROVE  since'[d][k] <= clock' /\ LastIn(d, k)' >= LastIn(d, k)
    <3>1. CASE d = e /\ k = g
      BY <2>1, <2>3, <2>4, <3>1
    <3>2. CASE d # e \/ k # g
      BY <2>1, <2>2, <3>2
    <3>3. QED
      BY <3>1, <3>2
  <2>6. QED
    BY <2>1, <2>5
<1>3. CASE Tick
  BY <1>3 DEF Tick
<1>4. QED
  BY <1>1, <1>2, <1>3 DEF Next, vars, Begin, Evaluate, Receive, Fail, Use, Return

\* What was held stays held.
LEMMA HeldStep ==
  ASSUME RolesTypeOK, HistoryInv, [Next]_vars,
         NEW e \in Email, NEW r, NEW t \in Int, Held(e, r, t)
  PROVE  Held(e, r, t)'
<1>1. PICK g \in Group : RoleOf[g] = r /\ LastIn(e, g) >= t
  BY DEF Held
<1>2. LastIn(e, g) \in Int /\ LastIn(e, g)' \in Int
  BY TypeNext DEF RolesTypeOK, LastIn
<1>3. LastIn(e, g)' >= LastIn(e, g)
  BY TypedParts, HistoryStep
<1>4. LastIn(e, g)' >= t
  BY <1>1, <1>2, <1>3
<1>5. QED
  BY <1>1, <1>4 DEF Held

-----------------------------------------------------------------------------
(* The inductive invariant                                                 *)

LEMMA RolesInvInit == Init => RolesInv
<1> SUFFICES ASSUME Init PROVE RolesInv
  OBVIOUS
<1>1. -1 - Horizon <= 0
  BY CountType, TimeAssumption DEF Horizon
<1>2. HistoryInv
  BY <1>1 DEF Init, HistoryInv
<1>3. \A l \in Lookup : SampleInv(l) /\ CallInv(l) /\ AnswerInv(l)
  BY DEF Init, SampleInv, CallInv, AnswerInv
<1>4. \A e \in Email : EntryInv(e)
  BY DEF Init, EntryInv
<1>5. QED
  BY TypeInit, <1>2, <1>3, <1>4 DEF RolesInv

\* An answer that ends a call: it was found, if it is a role, during the call.
LEMMA ConcludeInv ==
  ASSUME RolesInv, NEW l \in Lookup, NEW found \in Role, pc[l] = "sampled",
         Conclude(l, found),
         UNCHANGED <<bindings, clock, member, since, email, sampled>>,
         found # RoleNone => Held(email[l], found, clock - CallTime)
  PROVE  /\ \A e \in Email : EntryInv(e)'
         /\ \A k \in Lookup : SampleInv(k)' /\ CallInv(k)' /\ AnswerInv(k)'
<1> DEFINE own == email[l]
<1>1. Typed /\ own \in Email
  BY TypedParts DEF RolesInv, Typed
<1>2. Store(l, found) /\ Answer(l, found) /\ UNCHANGED <<next, asked>>
  BY DEF Conclude
<1>3. \A e \in Email : \A r, t : Held(e, r, t)' = Held(e, r, t)
  BY DEF Held, LastIn
<1>4. found # RoleNone =>
        /\ Held(own, found, clock + TTL - (TTL + CallTime))
        /\ Held(own, found, clock - (TTL + CallTime))
  <2>1. clock + TTL - (TTL + CallTime) = clock - CallTime
    BY <1>1, TimeAssumption DEF Typed
  <2>2. \A g \in Group : LastIn(own, g) \in Int
    BY <1>1 DEF Typed, LastIn
  <2>3. \A g \in Group : LastIn(own, g) >= clock - CallTime
                        => LastIn(own, g) >= clock - (TTL + CallTime)
    BY <1>1, <2>2, TimeAssumption DEF Typed
  <2>4. QED
    BY <2>1, <2>3 DEF Held
<1>5. ASSUME NEW e \in Email
      PROVE  EntryInv(e)'
  <2>1. CASE e = own
    <3>1. cache'[e] = [role |-> found, expires |-> clock + TTL]
      BY <1>1, <1>2, <2>1, StoreEntries
    <3>2. UNCHANGED <<clock, member, since>>
      OBVIOUS
    <3>3. cache'[e].role = found /\ cache'[e].expires = clock + TTL
      BY <3>1
    <3>4. found # RoleNone => \E g \in Group :
            RoleOf[g] = found /\ LastIn(e, g)' >= clock + TTL - (TTL + CallTime)
      BY <1>4, <2>1, <3>2 DEF Held, LastIn
    <3>5. cache'[e].role # RoleNone => \E g \in Group :
            /\ RoleOf[g] = cache'[e].role
            /\ LastIn(e, g)' >= cache'[e].expires - (TTL + CallTime)
      BY <1>1, <3>2, <3>3, <3>4, TimeAssumption DEF LastIn, Typed
    <3>6. QED
      BY <3>5, Zenon DEF EntryInv, Held
  <2>2. CASE e # own
    <3>1. cache'[e] \in {None, cache[e]}
      BY <1>1, <1>2, <2>2, StoreEntries
    <3>2. EntryInv(e)
      BY DEF RolesInv
    <3>3. QED
      BY <1>3, <3>1, <3>2 DEF EntryInv
  <2>3. QED
    BY <2>1, <2>2
<1>6. ASSUME NEW k \in Lookup
      PROVE  SampleInv(k)' /\ CallInv(k)' /\ AnswerInv(k)'
  <2>1. SampleInv(k) /\ CallInv(k) /\ AnswerInv(k)
    BY DEF RolesInv
  <2>2. CASE k = l
    <3>1. pc'[l] = "answered" /\ role'[l] = found
      BY <1>1, <1>2 DEF Answer, At, Typed
    <3>2. AnswerInv(l)'
      BY <1>1, <1>3, <1>4, <3>1 DEF AnswerInv
    <3>3. QED
      BY <2>2, <3>1, <3>2 DEF SampleInv, CallInv
  <2>3. CASE k # l
    <3>1. pc'[k] = pc[k] /\ role'[k] = role[k] /\ next' = next /\ asked' = asked
      BY <1>1, <1>2, <2>3 DEF Answer, At, Typed
    <3>2. pc[k] = "answered" => email[k] \in Email
      BY <1>1 DEF Typed
    <3>3. AnswerInv(k)'
      BY <2>1, <1>3, <3>1, <3>2 DEF AnswerInv
    <3>4. QED
      BY <2>1, <3>1, <3>3 DEF SampleInv, CallInv, LastIn
  <2>4. QED
    BY <2>2, <2>3
<1>7. QED
  BY <1>5, <1>6

\* Steps that leave the cache alone keep its entries right.
LEMMA EntryStep ==
  ASSUME RolesInv, [Next]_vars, UNCHANGED cache, NEW e \in Email
  PROVE  EntryInv(e)'
<1>1. EntryInv(e) /\ RolesTypeOK /\ HistoryInv
  BY DEF RolesInv
<1> DEFINE t == cache[e].expires - (TTL + CallTime)
<1>2. cache[e] # None => t \in Int
  BY <1>1, TimeAssumption DEF RolesTypeOK, CachedRole
<1>3. cache[e] # None /\ cache[e].role # RoleNone => Held(e, cache[e].role, t)'
  BY <1>1, <1>2, HeldStep DEF EntryInv
<1>4. QED
  BY <1>3 DEF EntryInv, Held, LastIn

\* So does a lookup that a step leaves alone, as long as no time passes.
LEMMA LookupStep ==
  ASSUME RolesInv, [Next]_vars, clock' = clock, bindings' = bindings,
         NEW k \in Lookup,
         pc'[k] = pc[k], email'[k] = email[k], next'[k] = next[k],
         asked'[k] = asked[k], sampled'[k] = sampled[k], role'[k] = role[k]
  PROVE  SampleInv(k)' /\ CallInv(k)' /\ AnswerInv(k)'
<1>1. SampleInv(k) /\ CallInv(k) /\ AnswerInv(k) /\ RolesTypeOK /\ HistoryInv
  BY DEF RolesInv
<1>2. CallInv(k)'
  BY <1>1 DEF CallInv
<1>3. SampleInv(k)'
  <2>1. SUFFICES ASSUME pc[k] = "sampled", sampled[k]
                 PROVE  LastIn(email[k], bindings[next[k]])' >= asked[k]
    BY DEF SampleInv
  <2>2. email[k] \in Email /\ bindings[next[k]] \in Group
    BY <1>1, <2>1 DEF RolesTypeOK
  <2>3. LastIn(email[k], bindings[next[k]]) >= asked[k]
    BY <1>1, <2>1 DEF SampleInv
  <2>4. QED
    BY <2>2, <2>3, <1>1, TypedParts, TypeNext, HistoryStep DEF RolesTypeOK, LastIn
<1>4. AnswerInv(k)'
  <2>1. SUFFICES ASSUME pc[k] = "answered", role[k] # RoleNone
                 PROVE  Held(email[k], role[k], clock - (TTL + CallTime))'
    BY DEF AnswerInv, Held, LastIn
  <2>2. email[k] \in Email /\ clock - (TTL + CallTime) \in Int
    BY <1>1, <2>1, TimeAssumption DEF RolesTypeOK
  <2>3. Held(email[k], role[k], clock - (TTL + CallTime))
    BY <1>1, <2>1 DEF AnswerInv
  <2>4. QED
    BY <1>1, <2>2, <2>3, HeldStep
<1>5. QED
  BY <1>2, <1>3, <1>4

\* Every step preserves the invariant.
LEMMA RolesInvNext == RolesInv /\ [Next]_vars => RolesInv'
<1> SUFFICES ASSUME RolesInv, [Next]_vars
             PROVE  /\ \A e \in Email : EntryInv(e)'
                    /\ \A k \in Lookup : SampleInv(k)' /\ CallInv(k)' /\ AnswerInv(k)'
  BY TypedParts, TypeNext, HistoryStep DEF RolesInv
<1>1. Typed
  BY TypedParts DEF RolesInv
<1>2. ASSUME NEW l \in Lookup, Begin(l)
      PROVE  /\ \A e \in Email : EntryInv(e)'
             /\ \A k \in Lookup : SampleInv(k)' /\ CallInv(k)' /\ AnswerInv(k)'
  <2>1. PICK e \in Email :
          /\ email' = [email EXCEPT ![l] = e]
          /\ \/ FromCache(l, e)
             \/ ~Fresh(e) /\ Ask(l, 1) /\ UNCHANGED <<cache, sampled, role>>
    BY <1>2 DEF Begin
  <2>2. UNCHANGED <<bindings, clock, member, since, cache, sampled>>
    BY <1>2, <2>1 DEF Begin, FromCache
  <2>3. \A d \in Email : EntryInv(d)'
    BY <2>2, EntryStep
  <2>4. \A k \in Lookup \ {l} : SampleInv(k)' /\ CallInv(k)' /\ AnswerInv(k)'
    <3> SUFFICES ASSUME NEW k \in Lookup \ {l}
                 PROVE  SampleInv(k)' /\ CallInv(k)' /\ AnswerInv(k)'
      OBVIOUS
    <3>1. /\ pc'[k] = pc[k] /\ email'[k] = email[k] /\ next'[k] = next[k]
          /\ asked'[k] = asked[k] /\ sampled'[k] = sampled[k] /\ role'[k] = role[k]
      BY <1>1, <2>1, <2>2 DEF FromCache, Answer, Ask, At, Typed
    <3>2. QED
      BY <2>2, <3>1, LookupStep
  <2>5. CASE FromCache(l, e)
    <3>1. pc'[l] = "answered" /\ role'[l] = cache[e].role /\ email'[l] = e
      BY <1>1, <2>1, <2>5 DEF FromCache, Answer, At, Typed
    <3>2. cache[e] # None /\ clock < cache[e].expires /\ cache[e].expires \in Int
      BY <1>1, <2>5 DEF FromCache, Fresh, Typed, CachedRole
    <3>3. cache[e].role # RoleNone =>
            Held(e, cache[e].role, cache[e].expires - (TTL + CallTime))
      BY <3>2 DEF RolesInv, EntryInv
    <3>4. \A g \in Group : LastIn(e, g) \in Int
      BY <1>1 DEF Typed, LastIn
    <3>5. cache[e].role # RoleNone => Held(e, cache[e].role, clock - (TTL + CallTime))
      BY <1>1, <3>2, <3>3, <3>4, TimeAssumption DEF Held, Typed
    <3>6. AnswerInv(l)'
      BY <2>2, <3>1, <3>5 DEF AnswerInv, Held, LastIn
    <3>7. SampleInv(l)' /\ CallInv(l)'
      BY <3>1 DEF SampleInv, CallInv
    <3>8. QED
      BY <2>3, <2>4, <3>6, <3>7
  <2>6. CASE Ask(l, 1)
    <3>1. pc'[l] = "asking" /\ asked'[l] = clock
      BY <1>1, <2>6 DEF Ask, At, Typed
    <3>2. SampleInv(l)' /\ CallInv(l)' /\ AnswerInv(l)'
      BY <1>1, <2>2, <3>1, TimeAssumption DEF SampleInv, CallInv, AnswerInv, Typed
    <3>3. QED
      BY <2>3, <2>4, <3>2
  <2>7. QED
    BY <2>1, <2>5, <2>6
<1>3. ASSUME NEW l \in Lookup, Evaluate(l)
      PROVE  /\ \A e \in Email : EntryInv(e)'
             /\ \A k \in Lookup : SampleInv(k)' /\ CallInv(k)' /\ AnswerInv(k)'
  <2>1. \A d \in Email : EntryInv(d)'
    BY <1>3, EntryStep DEF Evaluate
  <2>2. \A k \in Lookup \ {l} : SampleInv(k)' /\ CallInv(k)' /\ AnswerInv(k)'
    BY <1>1, <1>3, LookupStep DEF Evaluate, At, Typed
  <2>3. pc[l] = "asking" /\ pc'[l] = "sampled"
    BY <1>1, <1>3 DEF Evaluate, At, Typed
  <2>4. CallInv(l)' /\ AnswerInv(l)'
    BY <1>3, <2>3 DEF Evaluate, RolesInv, CallInv, AnswerInv
  <2>5. sampled'[l] = (bindings[next[l]] \in member[email[l]])
    BY <1>1, <1>3 DEF Evaluate, Typed
  <2>6. asked[l] <= clock
    BY <2>3 DEF RolesInv, CallInv
  <2>7. SampleInv(l)'
    BY <1>1, <1>3, <2>5, <2>6 DEF SampleInv, Evaluate, LastIn, Typed
  <2>8. QED
    BY <2>1, <2>2, <2>4, <2>7
<1>4. ASSUME NEW l \in Lookup, Receive(l)
      PROVE  /\ \A e \in Email : EntryInv(e)'
             /\ \A k \in Lookup : SampleInv(k)' /\ CallInv(k)' /\ AnswerInv(k)'
  <2>1. pc[l] = "sampled" /\ UNCHANGED <<bindings, clock, member, since, email, sampled>>
    BY <1>4 DEF Receive
  <2>2. CASE sampled[l] /\ Conclude(l, RoleOf[bindings[next[l]]])
    <3>1. LastIn(email[l], bindings[next[l]]) >= asked[l]
      BY <2>1, <2>2 DEF RolesInv, SampleInv
    <3>2. clock <= asked[l] + CallTime
      BY <2>1 DEF RolesInv, CallInv
    <3>3. bindings[next[l]] \in Group /\ email[l] \in Email
      BY <1>1, <2>1, FoundRole DEF Typed
    <3>4. LastIn(email[l], bindings[next[l]]) >= clock - CallTime
      BY <1>1, <3>1, <3>2, <3>3, TimeAssumption DEF Typed, LastIn
    <3>5. Held(email[l], RoleOf[bindings[next[l]]], clock - CallTime)
      BY <3>3, <3>4 DEF Held
    <3>6. QED
      BY <1>1, <2>1, <2>2, <3>5, FoundRole, ConcludeInv
  <2>3. CASE Conclude(l, RoleNone)
    BY <2>1, <2>3, ConcludeInv DEF Role, RoleNone
  <2>4. CASE Ask(l, next[l] + 1) /\ UNCHANGED <<cache, role>>
    <3>1. \A d \in Email : EntryInv(d)'
      BY <2>4, EntryStep
    <3>2. \A k \in Lookup \ {l} : SampleInv(k)' /\ CallInv(k)' /\ AnswerInv(k)'
      BY <1>1, <2>1, <2>4, LookupStep DEF Ask, At, Typed
    <3>3. pc'[l] = "asking" /\ asked'[l] = clock
      BY <1>1, <2>4 DEF Ask, At, Typed
    <3>4. SampleInv(l)' /\ CallInv(l)' /\ AnswerInv(l)'
      BY <1>1, <2>1, <3>3, TimeAssumption DEF SampleInv, CallInv, AnswerInv, Typed
    <3>5. QED
      BY <3>1, <3>2, <3>4
  <2>5. QED
    BY <1>4, <2>2, <2>3, <2>4 DEF Receive
<1>5. ASSUME NEW l \in Lookup, Return(l)
      PROVE  /\ \A e \in Email : EntryInv(e)'
             /\ \A k \in Lookup : SampleInv(k)' /\ CallInv(k)' /\ AnswerInv(k)'
  <2>1. \A d \in Email : EntryInv(d)'
    BY <1>5, EntryStep DEF Return
  <2>2. \A k \in Lookup \ {l} : SampleInv(k)' /\ CallInv(k)' /\ AnswerInv(k)'
    BY <1>1, <1>5, LookupStep DEF Return, At, Typed
  <2>3. SampleInv(l)' /\ CallInv(l)' /\ AnswerInv(l)'
    BY <1>1, <1>5 DEF Return, At, Typed, SampleInv, CallInv, AnswerInv
  <2>4. QED
    BY <2>1, <2>2, <2>3
<1>6. ASSUME NEW e \in Mover, NEW g \in Group, MembershipChange(e, g)
      PROVE  /\ \A d \in Email : EntryInv(d)'
             /\ \A k \in Lookup : SampleInv(k)' /\ CallInv(k)' /\ AnswerInv(k)'
  BY <1>6, EntryStep, LookupStep DEF MembershipChange, lookupVars
<1>7. CASE Tick
  <2>1. \A d \in Email : EntryInv(d)'
    BY <1>7, EntryStep DEF Tick
  <2>2. ASSUME NEW k \in Lookup
        PROVE  SampleInv(k)' /\ CallInv(k)' /\ AnswerInv(k)'
    <3>1. SampleInv(k) /\ CallInv(k)
      BY DEF RolesInv
    <3>2. AnswerInv(k)'
      BY <1>7 DEF Tick, lookupVars, AnswerInv
    <3>3. CallInv(k)'
      BY <1>1, <1>7, <3>1, TimeAssumption DEF Tick, lookupVars, CallInv, Typed
    <3>4. SampleInv(k)'
      BY <1>1, <1>7, <3>1 DEF Tick, lookupVars, SampleInv, LastIn, Typed
    <3>5. QED
      BY <3>2, <3>3, <3>4
  <2>3. QED
    BY <2>1, <2>2
<1>8. CASE UNCHANGED vars
  BY <1>8, EntryStep, LookupStep DEF vars, lookupVars
<1>9. QED
  BY <1>2, <1>3, <1>4, <1>5, <1>6, <1>7, <1>8 DEF Next, Fail, Use

-----------------------------------------------------------------------------
\* The inductive invariant holds in every reachable state.
THEOREM RolesInvariance == Spec => []RolesInv
<1>1. Init => RolesInv
  BY RolesInvInit
<1>2. RolesInv /\ [Next]_vars => RolesInv'
  BY RolesInvNext
<1>3. QED
  BY <1>1, <1>2, PTL DEF Spec

\* Variables have their types and the cache never grows beyond its limit,
\* whatever lookups do at the same time (RoleFor, NewWorkspaceRoleResolver).
THEOREM RolesTypeCorrect == Spec => []RolesTypeOK
<1>1. RolesInv => RolesTypeOK
  BY DEF RolesInv
<1>2. QED
  BY <1>1, RolesInvariance, PTL

\* No role is answered that was last held longer ago than the lifetime of an
\* entry and the time limit of one call (RoleFor).
THEOREM RoleIsRecent == Spec => []RoleNotStale
<1>1. RolesInv => RoleNotStale
  BY DEF RolesInv, AnswerInv, Held, RoleNotStale
<1>2. QED
  BY <1>1, RolesInvariance, PTL

-----------------------------------------------------------------------------
(* Members are granted                                                     *)

\* e was not in g just before t: if e is in g now, then only since t or later.
Absent(e, g, t) == g \in member[e] => since[e][g] >= t

\* No later than this the first group was asked about.
Began(l) == asked[l] - (next[l] - 1) * CallTime

\* The groups a lookup has gone past did not have its address when it began.
PassedInv(l) ==
    pc[l] \in {"asking", "sampled"} =>
        \A j \in Position : j < next[l] => Absent(email[l], bindings[j], Began(l))

\* Neither does the one it has just been told so of.
NotFoundInv(l) ==
    pc[l] = "sampled" /\ ~sampled[l] => Absent(email[l], bindings[next[l]], asked[l])

\* An entry withholds the stronger roles from those only who were not in a
\* group with one of them when its lookup began, and it does not live too long.
WithheldInv(e) ==
    cache[e] # None =>
        /\ cache[e].expires <= clock + TTL
        /\ \A g \in Group : RoleOf[g] > cache[e].role =>
                Absent(e, g, cache[e].expires - Horizon)

\* So does an answer, which is used at once.
DeniedInv(l) ==
    pc[l] = "answered" => \A g \in Group : RoleOf[g] > role[l] =>
        Absent(email[l], g, clock - Horizon + 1)

GrantInv ==
    /\ Sorted(bindings)
    /\ \A l \in Lookup : PassedInv(l) /\ NotFoundInv(l) /\ DeniedInv(l)
    /\ \A e \in Email : WithheldInv(e)

Groups == Cardinality(Group)

\* The horizon is a time of its own.
LEMMA HorizonType ==
  /\ Groups \in Nat
  /\ Groups * CallTime \in Nat
  /\ Horizon = TTL + Groups * CallTime
  /\ Horizon \in Nat \ {0}
<1>1. Groups \in Nat
  BY CountType DEF Groups
<1>2. Groups * CallTime \in Nat
  BY <1>1, TimeAssumption
<1>3. QED
  BY <1>1, <1>2, TimeAssumption DEF Horizon, Groups

\* A product of numbers is a number.
LEMMA ProductType ==
  ASSUME NEW m \in Nat, NEW c \in Nat
  PROVE  m * c \in Nat
  OBVIOUS

\* A lookup that has got to the nth group began no more than the time of all
\* calls ago.
LEMMA Window ==
  ASSUME NEW n \in Position, NEW a \in Int, NEW c \in Int, c <= a + CallTime
  PROVE  /\ a - (n - 1) * CallTime \in Int
         /\ a - (n - 1) * CallTime <= a
         /\ c - Groups * CallTime <= a - (n - 1) * CallTime
<1>1. n \in Nat /\ n - 1 \in Nat /\ Groups - n \in Nat
  BY HorizonType DEF Position, Groups
<1>2. (n - 1) * CallTime \in Nat /\ (Groups - n) * CallTime \in Nat
  BY <1>1, TimeAssumption, ProductType
<1>3. Groups * CallTime = (Groups - n) * CallTime + (n - 1) * CallTime + CallTime
  BY <1>1, HorizonType, TimeAssumption
<1>4. QED
  BY <1>2, <1>3, HorizonType, TimeAssumption

\* Every group is asked about: the bindings are all of them.
LEMMA AllBound ==
  ASSUME bindings \in [Position -> Group], Sorted(bindings)
  PROVE  \A g \in Group : \E j \in Position : bindings[j] = g
<1>1. bindings \in Injection(Position, Group)
  <2>1. \A i, j \in Position : bindings[i] = bindings[j] => i = j
    BY HorizonType DEF Sorted, Position
  <2>2. QED
    BY <2>1, Zenon DEF Injection, IsInjective
<1>2. IsFiniteSet(Position) /\ Cardinality(Position) = Cardinality(Group)
  BY CountType, FS_Interval DEF Position
<1>3. bindings \in Surjection(Position, Group)
  BY <1>1, <1>2, GroupAssumption, FS_Injection
<1>4. QED
  BY <1>3 DEF Surjection

\* The stronger groups come first.
LEMMA StrongerFirst ==
  ASSUME Typed, Sorted(bindings), NEW n \in Position,
         NEW g \in Group, RoleOf[g] > RoleOf[bindings[n]]
  PROVE  \E j \in Position : j < n /\ bindings[j] = g
<1>1. PICK j \in Position : bindings[j] = g
  BY AllBound DEF Typed
<1>2. RoleOf[g] \in Int /\ RoleOf[bindings[n]] \in Int
  BY GroupAssumption DEF Typed, Role
<1>3. ~(n < j) /\ n # j
  BY <1>1, <1>2 DEF Sorted
<1>4. QED
  BY <1>1, <1>3, HorizonType DEF Position

\* Who was absent stays so: nobody joins in the past.
LEMMA AbsentStep ==
  ASSUME Typed, [Next]_vars, NEW e \in Email, NEW g \in Group,
         NEW t \in Int, t <= clock, Absent(e, g, t)
  PROVE  Absent(e, g, t)'
<1>1. CASE UNCHANGED <<member, since>>
  BY <1>1 DEF Absent
<1>2. ASSUME NEW d \in Mover, NEW k \in Group, MembershipChange(d, k)
      PROVE  Absent(e, g, t)'
  <2>1. CASE d = e /\ k = g
    BY <1>2, <2>1 DEF MembershipChange, Typed, Absent
  <2>2. CASE d # e \/ k # g
    <3>1. since'[e][g] = since[e][g] /\ (g \in member'[e] <=> g \in member[e])
      BY <1>2, <2>2, EmailAssumption DEF MembershipChange, Typed
    <3>2. QED
      BY <3>1 DEF Absent
  <2>3. QED
    BY <2>1, <2>2
<1>3. QED
  BY <1>1, <1>2 DEF Next, vars, Begin, Evaluate, Receive, Fail, Use, Return, Tick

\* From earlier on is a weaker claim.
LEMMA AbsentEarlier ==
  ASSUME Typed, NEW e \in Email, NEW g \in Group, NEW s \in Int, NEW t \in Int,
         Absent(e, g, t), s <= t
  PROVE  Absent(e, g, s)
  BY DEF Absent, Typed

\* At first nobody is asked about and nothing is cached.
LEMMA GrantInvInit == Init => GrantInv
<1> SUFFICES ASSUME Init PROVE GrantInv
  OBVIOUS
<1>1. Sorted(bindings)
  BY DEF Init
<1>2. \A l \in Lookup : PassedInv(l) /\ NotFoundInv(l) /\ DeniedInv(l)
  BY DEF Init, PassedInv, NotFoundInv, DeniedInv
<1>3. \A e \in Email : WithheldInv(e)
  BY DEF Init, WithheldInv
<1>4. QED
  BY <1>1, <1>2, <1>3 DEF GrantInv

\* Steps that leave the cache alone keep what its entries withhold.
LEMMA WithheldStep ==
  ASSUME RolesInv, GrantInv, [Next]_vars, UNCHANGED cache, NEW e \in Email
  PROVE  WithheldInv(e)'
<1>1. Typed /\ clock' >= clock /\ clock \in Int /\ clock' \in Int
  <2>1. Typed
    BY TypedParts DEF RolesInv
  <2>2. clock \in Int /\ clock' \in Int
    BY TypeNext DEF RolesInv, RolesTypeOK
  <2>3. QED
    BY <2>1, <2>2, HistoryStep DEF RolesInv
<1>2. SUFFICES ASSUME cache[e] # None
               PROVE  /\ cache[e].expires <= clock' + TTL
                      /\ \A g \in Group : RoleOf[g] > cache[e].role =>
                            Absent(e, g, cache[e].expires - Horizon)'
  BY HorizonType DEF WithheldInv, Absent, Horizon
<1>3. cache[e].expires \in Int
  BY <1>1, <1>2 DEF Typed, CachedRole
<1>4. /\ cache[e].expires <= clock + TTL
      /\ \A g \in Group : RoleOf[g] > cache[e].role =>
            Absent(e, g, cache[e].expires - Horizon)
  BY <1>2 DEF GrantInv, WithheldInv
<1>5. cache[e].expires - Horizon <= clock /\ cache[e].expires - Horizon \in Int
  BY <1>1, <1>3, <1>4, HorizonType, TimeAssumption
<1>6. ASSUME NEW g \in Group, RoleOf[g] > cache[e].role
      PROVE  Absent(e, g, cache[e].expires - Horizon)'
  BY <1>1, <1>2, <1>4, <1>5, <1>6, AbsentStep
<1>7. QED
  BY <1>1, <1>3, <1>4, <1>6, TimeAssumption

\* So does a lookup that a step leaves alone, as long as no time passes while
\* its answer is used.
LEMMA GrantLookupStep ==
  ASSUME RolesInv, GrantInv, [Next]_vars, bindings' = bindings, NEW k \in Lookup,
         pc[k] = "answered" => clock' = clock,
         pc'[k] = pc[k], email'[k] = email[k], next'[k] = next[k],
         asked'[k] = asked[k], sampled'[k] = sampled[k], role'[k] = role[k]
  PROVE  PassedInv(k)' /\ NotFoundInv(k)' /\ DeniedInv(k)'
<1>1. Typed /\ PassedInv(k) /\ NotFoundInv(k) /\ DeniedInv(k) /\ CallInv(k)
  BY TypedParts DEF RolesInv, GrantInv
<1>2. asked[k] \in Int /\ clock \in Int
  BY <1>1 DEF Typed
<1>3. PassedInv(k)'
  <2>1. SUFFICES ASSUME pc[k] \in {"asking", "sampled"},
                        NEW j \in Position, j < next[k]
                 PROVE  Absent(email[k], bindings[j], Began(k))'
    BY DEF PassedInv
  <2>2. email[k] \in Email /\ next[k] \in Position /\ bindings[j] \in Group
    BY <1>1, <2>1 DEF Typed
  <2>3. asked[k] <= clock /\ clock <= asked[k] + CallTime
    BY <1>1, <2>1 DEF CallInv
  <2>4. Began(k) \in Int /\ Began(k) <= clock
    BY <1>2, <2>2, <2>3, Window DEF Began
  <2>5. PICK t \in Int : t = Began(k)
    BY <2>4
  <2>6. Absent(email[k], bindings[j], t)
    BY <1>1, <2>1, <2>5 DEF PassedInv
  <2>7. PICK e \in Email : e = email[k]
    BY <2>2
  <2>8. PICK g \in Group : g = bindings[j]
    BY <2>2
  <2>9. Absent(e, g, t)'
    BY <1>1, <2>4, <2>5, <2>6, <2>7, <2>8, AbsentStep
  <2>10. QED
    BY <2>5, <2>7, <2>8, <2>9 DEF Absent, Began
<1>4. NotFoundInv(k)'
  <2>1. SUFFICES ASSUME pc[k] = "sampled", ~sampled[k]
                 PROVE  Absent(email[k], bindings[next[k]], asked[k])'
    BY DEF NotFoundInv
  <2>2. asked[k] <= clock
    BY <1>1, <2>1 DEF CallInv
  <2>3. PICK t \in Int : t = asked[k]
    BY <1>2
  <2>4. PICK e \in Email : e = email[k]
    BY <1>1, <2>1 DEF Typed
  <2>5. PICK g \in Group : g = bindings[next[k]]
    BY <1>1, <2>1 DEF Typed
  <2>6. Absent(e, g, t)'
    BY <1>1, <2>1, <2>2, <2>3, <2>4, <2>5, AbsentStep DEF NotFoundInv
  <2>7. QED
    BY <2>3, <2>4, <2>5, <2>6 DEF Absent
<1>5. DeniedInv(k)'
  <2>1. SUFFICES ASSUME pc[k] = "answered", NEW g \in Group, RoleOf[g] > role[k]
                 PROVE  Absent(email[k], g, clock - Horizon + 1)'
    BY DEF DeniedInv
  <2>2. PICK t \in Int : t = clock - Horizon + 1
    BY <1>2, HorizonType
  <2>3. t <= clock
    BY <1>2, <2>2, HorizonType
  <2>4. PICK e \in Email : e = email[k]
    BY <1>1, <2>1 DEF Typed
  <2>5. Absent(e, g, t)'
    BY <1>1, <2>1, <2>2, <2>3, <2>4, AbsentStep DEF DeniedInv
  <2>6. QED
    BY <2>1, <2>2, <2>4, <2>5 DEF Absent, Horizon
<1>6. QED
  BY <1>3, <1>4, <1>5

\* A lookup that ends is right if those who were in a stronger group were not
\* when it began.
LEMMA ConcludeGrants ==
  ASSUME RolesInv, GrantInv, [Next]_vars, NEW l \in Lookup, NEW found \in Role,
         pc[l] = "sampled", Conclude(l, found),
         UNCHANGED <<bindings, clock, member, since, email, sampled>>,
         \A g \in Group : RoleOf[g] > found =>
            Absent(email[l], g, clock - Groups * CallTime)
  PROVE  /\ \A e \in Email : WithheldInv(e)'
         /\ \A k \in Lookup : PassedInv(k)' /\ NotFoundInv(k)' /\ DeniedInv(k)'
<1> DEFINE own == email[l]
<1>1. Typed /\ own \in Email /\ clock \in Int
  BY TypedParts DEF RolesInv, Typed
<1>2. Store(l, found) /\ Answer(l, found) /\ UNCHANGED <<next, asked>>
  BY DEF Conclude
<1>3. \A e, g, t : Absent(e, g, t)' <=> Absent(e, g, t)
  BY DEF Absent
<1>4. \A g \in Group : RoleOf[g] > found =>
        /\ Absent(own, g, clock + TTL - Horizon)
        /\ Absent(own, g, clock - Horizon + 1)
  <2>1. clock + TTL - Horizon = clock - Groups * CallTime
    BY <1>1, HorizonType, TimeAssumption
  <2>2. /\ clock - Horizon + 1 <= clock - Groups * CallTime
        /\ clock - Horizon + 1 \in Int /\ clock - Groups * CallTime \in Int
    BY <1>1, HorizonType, TimeAssumption
  <2>3. QED
    BY <1>1, <2>1, <2>2, AbsentEarlier
<1>5. ASSUME NEW e \in Email
      PROVE  WithheldInv(e)'
  <2>1. CASE e = own
    <3>1. cache'[e] = [role |-> found, expires |-> clock + TTL]
      BY <1>1, <1>2, <2>1, StoreEntries
    <3>2. cache'[e].role = found /\ cache'[e].expires = clock + TTL
      BY <3>1
    <3>3. cache'[e].expires <= clock' + TTL
      BY <1>1, <3>2, TimeAssumption
    <3>4. \A g \in Group : RoleOf[g] > cache'[e].role =>
            (g \in member'[e] => since'[e][g] >= cache'[e].expires - Horizon)
      <4> SUFFICES ASSUME NEW g \in Group, RoleOf[g] > cache'[e].role, g \in member'[e]
                   PROVE  since'[e][g] >= cache'[e].expires - Horizon
        OBVIOUS
      <4>1. Absent(own, g, clock + TTL - Horizon)
        BY <1>4, <3>2
      <4>2. since'[e][g] >= clock + TTL - Horizon
        BY <2>1, <4>1 DEF Absent
      <4>3. QED
        BY <1>1, <3>2, <4>2, HorizonType, TimeAssumption
    <3>5. Horizon' = Horizon
      BY DEF Horizon
    <3>6. QED
      BY <3>3, <3>4, <3>5, Zenon DEF WithheldInv, Absent
  <2>2. CASE e # own
    <3>1. cache'[e] \in {None, cache[e]}
      BY <1>1, <1>2, <2>2, StoreEntries
    <3>2. WithheldInv(e)
      BY DEF GrantInv
    <3>3. QED
      BY <3>1, <3>2 DEF WithheldInv, Absent, Horizon
  <2>3. QED
    BY <2>1, <2>2
<1>6. ASSUME NEW k \in Lookup
      PROVE  PassedInv(k)' /\ NotFoundInv(k)' /\ DeniedInv(k)'
  <2>1. CASE k = l
    <3>1. pc'[l] = "answered" /\ role'[l] = found
      BY <1>1, <1>2 DEF Answer, At, Typed
    <3>2. DeniedInv(l)'
      BY <1>4, <3>1 DEF DeniedInv, Absent, Horizon
    <3>3. QED
      BY <2>1, <3>1, <3>2 DEF PassedInv, NotFoundInv
  <2>2. CASE k # l
    <3>1. pc'[k] = pc[k] /\ role'[k] = role[k] /\ next' = next /\ asked' = asked
      BY <1>1, <1>2, <2>2 DEF Answer, At, Typed
    <3>2. QED
      BY <3>1, GrantLookupStep
  <2>3. QED
    BY <2>1, <2>2
<1>7. QED
  BY <1>5, <1>6

\* The bindings are configured once.
LEMMA SortedStep == Sorted(bindings) /\ [Next]_vars => Sorted(bindings)'
<1> SUFFICES ASSUME Sorted(bindings), [Next]_vars PROVE Sorted(bindings)'
  OBVIOUS
<1>1. bindings' = bindings
  BY DEF Next, vars, Begin, Evaluate, Receive, Fail, Use, Return,
         MembershipChange, Tick
<1>2. QED
  BY <1>1 DEF Sorted

\* Every step preserves the second part.
LEMMA GrantInvNext == RolesInv /\ GrantInv /\ [Next]_vars => GrantInv'
<1> SUFFICES ASSUME RolesInv, GrantInv, [Next]_vars
             PROVE  /\ \A e \in Email : WithheldInv(e)'
                    /\ \A k \in Lookup : PassedInv(k)' /\ NotFoundInv(k)' /\ DeniedInv(k)'
  BY SortedStep DEF GrantInv
<1>1. Typed /\ clock \in Int
  BY TypedParts DEF RolesInv, Typed
<1>2. ASSUME NEW l \in Lookup, Begin(l)
      PROVE  /\ \A e \in Email : WithheldInv(e)'
             /\ \A k \in Lookup : PassedInv(k)' /\ NotFoundInv(k)' /\ DeniedInv(k)'
  <2>1. PICK e \in Email :
          /\ email' = [email EXCEPT ![l] = e]
          /\ \/ FromCache(l, e)
             \/ ~Fresh(e) /\ Ask(l, 1) /\ UNCHANGED <<cache, sampled, role>>
    BY <1>2 DEF Begin
  <2>2. UNCHANGED <<bindings, clock, member, since, cache, sampled>>
    BY <1>2, <2>1 DEF Begin, FromCache
  <2>3. \A d \in Email : WithheldInv(d)'
    BY <2>2, WithheldStep
  <2>4. ASSUME NEW k \in Lookup \ {l}
        PROVE  PassedInv(k)' /\ NotFoundInv(k)' /\ DeniedInv(k)'
    <3>1. /\ pc'[k] = pc[k] /\ email'[k] = email[k] /\ next'[k] = next[k]
          /\ asked'[k] = asked[k] /\ sampled'[k] = sampled[k] /\ role'[k] = role[k]
      BY <1>1, <2>1, <2>2 DEF FromCache, Answer, Ask, At, Typed
    <3>2. QED
      BY <2>2, <3>1, GrantLookupStep
  <2>5. CASE FromCache(l, e)
    <3>1. pc'[l] = "answered" /\ role'[l] = cache[e].role /\ email'[l] = e
      BY <1>1, <2>1, <2>5 DEF FromCache, Answer, At, Typed
    <3>2. cache[e] # None /\ clock < cache[e].expires /\ cache[e].expires \in Int
      BY <1>1, <2>5 DEF FromCache, Fresh, Typed, CachedRole
    <3>3. /\ clock - Horizon + 1 <= cache[e].expires - Horizon
          /\ clock - Horizon + 1 \in Int /\ cache[e].expires - Horizon \in Int
      BY <1>1, <3>2, HorizonType
    <3>4. \A g \in Group : RoleOf[g] > cache[e].role => Absent(e, g, clock - Horizon + 1)
      BY <1>1, <3>2, <3>3, AbsentEarlier DEF GrantInv, WithheldInv
    <3>5. DeniedInv(l)'
      BY <2>2, <3>1, <3>4 DEF DeniedInv, Absent, Horizon
    <3>6. PassedInv(l)' /\ NotFoundInv(l)'
      BY <3>1 DEF PassedInv, NotFoundInv
    <3>7. QED
      BY <2>3, <2>4, <3>5, <3>6
  <2>6. CASE Ask(l, 1)
    <3>1. pc'[l] = "asking" /\ next'[l] = 1
      BY <1>1, <2>6 DEF Ask, At, Typed
    <3>2. PassedInv(l)' /\ NotFoundInv(l)' /\ DeniedInv(l)'
      BY <3>1, HorizonType DEF PassedInv, NotFoundInv, DeniedInv, Position
    <3>3. QED
      BY <2>3, <2>4, <3>2
  <2>7. QED
    BY <2>1, <2>5, <2>6
<1>3. ASSUME NEW l \in Lookup, Evaluate(l)
      PROVE  /\ \A e \in Email : WithheldInv(e)'
             /\ \A k \in Lookup : PassedInv(k)' /\ NotFoundInv(k)' /\ DeniedInv(k)'
  <2>1. \A d \in Email : WithheldInv(d)'
    BY <1>3, WithheldStep DEF Evaluate
  <2>2. \A k \in Lookup \ {l} : PassedInv(k)' /\ NotFoundInv(k)' /\ DeniedInv(k)'
    BY <1>1, <1>3, GrantLookupStep DEF Evaluate, At, Typed
  <2>3. /\ pc[l] = "asking" /\ pc'[l] = "sampled"
        /\ sampled'[l] = (bindings[next[l]] \in member[email[l]])
    BY <1>1, <1>3 DEF Evaluate, At, Typed
  <2>4. PassedInv(l)'
    BY <1>3, <2>3 DEF Evaluate, GrantInv, PassedInv, Began, Absent
  <2>5. NotFoundInv(l)'
    BY <1>3, <2>3 DEF Evaluate, NotFoundInv, Absent
  <2>6. DeniedInv(l)'
    BY <2>3 DEF DeniedInv
  <2>7. QED
    BY <2>1, <2>2, <2>4, <2>5, <2>6
<1>4. ASSUME NEW l \in Lookup, Receive(l)
      PROVE  /\ \A e \in Email : WithheldInv(e)'
             /\ \A k \in Lookup : PassedInv(k)' /\ NotFoundInv(k)' /\ DeniedInv(k)'
  <2>1. pc[l] = "sampled" /\ UNCHANGED <<bindings, clock, member, since, email, sampled>>
    BY <1>4 DEF Receive
  <2>2. /\ email[l] \in Email /\ next[l] \in Position /\ asked[l] \in Int
        /\ bindings[next[l]] \in Group
    BY <1>1, <2>1 DEF Typed
  <2>3. clock <= asked[l] + CallTime /\ asked[l] <= clock
    BY <2>1 DEF RolesInv, CallInv
  <2>4. /\ Began(l) \in Int /\ Began(l) <= asked[l]
        /\ clock - Groups * CallTime <= Began(l)
        /\ clock - Groups * CallTime \in Int
    BY <1>1, <2>2, <2>3, Window, HorizonType DEF Began
  <2>5. \A j \in Position : j < next[l] => Absent(email[l], bindings[j], Began(l))
    BY <2>1 DEF GrantInv, PassedInv
  <2>6. \A j \in Position : bindings[j] \in Group
    BY <1>1 DEF Typed
  <2>7. CASE sampled[l] /\ Conclude(l, RoleOf[bindings[next[l]]])
    <3>1. ASSUME NEW g \in Group, RoleOf[g] > RoleOf[bindings[next[l]]]
          PROVE  Absent(email[l], g, clock - Groups * CallTime)
      <4>1. PICK j \in Position : j < next[l] /\ bindings[j] = g
        BY <1>1, <2>2, <3>1, StrongerFirst DEF GrantInv
      <4>2. QED
        BY <1>1, <2>2, <2>4, <2>5, <4>1, AbsentEarlier
    <3>2. QED
      BY <1>1, <2>1, <2>7, <3>1, FoundRole, ConcludeGrants
  <2>8. CASE ~sampled[l] /\ next[l] = Groups /\ Conclude(l, RoleNone)
    <3>1. ASSUME NEW g \in Group
          PROVE  Absent(email[l], g, clock - Groups * CallTime)
      <4>1. PICK j \in Position : bindings[j] = g
        BY <1>1, AllBound DEF GrantInv, Typed
      <4>2. CASE j = next[l]
        <5>1. Absent(email[l], g, asked[l])
          BY <2>1, <2>8, <4>1, <4>2 DEF GrantInv, NotFoundInv
        <5>2. clock - Groups * CallTime <= asked[l]
          BY <2>2, <2>4
        <5>3. QED
          BY <1>1, <2>2, <2>4, <5>1, <5>2, AbsentEarlier
      <4>3. CASE j # next[l]
        <5>1. j < next[l]
          BY <2>8, <4>3, HorizonType DEF Position, Groups
        <5>2. QED
          BY <1>1, <2>2, <2>4, <2>5, <4>1, <5>1, AbsentEarlier
      <4>4. QED
        BY <4>2, <4>3
    <3>2. QED
      BY <2>1, <2>8, <3>1, ConcludeGrants DEF Role, RoleNone
  <2>9. CASE /\ ~sampled[l] /\ next[l] < Groups
             /\ Ask(l, next[l] + 1) /\ UNCHANGED <<cache, role>>
    <3>1. \A d \in Email : WithheldInv(d)'
      BY <2>9, WithheldStep
    <3>2. \A k \in Lookup \ {l} : PassedInv(k)' /\ NotFoundInv(k)' /\ DeniedInv(k)'
      BY <1>1, <2>1, <2>9, GrantLookupStep DEF Ask, At, Typed
    <3>3. pc'[l] = "asking" /\ asked'[l] = clock /\ next'[l] = next[l] + 1
      BY <1>1, <2>9 DEF Ask, At, Typed
    <3>4. Began(l)' \in Int /\ Began(l)' <= Began(l)
      <4>1. next[l] \in Nat /\ next[l] - 1 \in Nat
        BY <2>2, HorizonType DEF Position, Groups
      <4>2. (next[l] - 1) * CallTime \in Nat
        BY <4>1, TimeAssumption, ProductType
      <4>3. (next[l] + 1 - 1) * CallTime = (next[l] - 1) * CallTime + CallTime
        BY <4>1, TimeAssumption
      <4>4. Began(l)' = clock - (next[l] + 1 - 1) * CallTime
        <5>1. Began(l)' = asked'[l] - (next'[l] - 1) * CallTime
          BY DEF Began
        <5>2. next'[l] - 1 = next[l] + 1 - 1 /\ asked'[l] = clock
          BY <2>2, <3>3, HorizonType DEF Position, Groups
        <5>3. QED
          BY <5>1, <5>2, Zenon
      <4>5. QED
        BY <1>1, <2>2, <2>3, <4>2, <4>3, <4>4, TimeAssumption DEF Began
    <3>5. ASSUME NEW j \in Position, j < next'[l]
          PROVE  Absent(email[l], bindings[j], Began(l)')
      <4>1. CASE j = next[l]
        <5>1. Absent(email[l], bindings[j], asked[l])
          BY <2>1, <2>9, <4>1 DEF GrantInv, NotFoundInv
        <5>2. Began(l)' <= asked[l]
          BY <2>2, <2>4, <3>4
        <5>3. QED
          BY <1>1, <2>2, <2>6, <3>4, <5>1, <5>2, AbsentEarlier
      <4>2. CASE j # next[l]
        <5>1. j < next[l]
          BY <2>2, <3>3, <3>5, <4>2, HorizonType DEF Position, Groups
        <5>2. QED
          BY <1>1, <2>2, <2>4, <2>5, <2>6, <3>4, <5>1, AbsentEarlier
      <4>3. QED
        BY <4>1, <4>2
    <3>6. PassedInv(l)'
      BY <2>1, <3>5 DEF PassedInv, Absent
    <3>7. NotFoundInv(l)' /\ DeniedInv(l)'
      BY <3>3 DEF NotFoundInv, DeniedInv
    <3>8. QED
      BY <3>1, <3>2, <3>6, <3>7
  <2>10. QED
    BY <1>4, <2>7, <2>8, <2>9 DEF Receive, Groups
<1>5. ASSUME NEW l \in Lookup, Return(l)
      PROVE  /\ \A e \in Email : WithheldInv(e)'
             /\ \A k \in Lookup : PassedInv(k)' /\ NotFoundInv(k)' /\ DeniedInv(k)'
  <2>1. \A d \in Email : WithheldInv(d)'
    BY <1>5, WithheldStep DEF Return
  <2>2. \A k \in Lookup \ {l} : PassedInv(k)' /\ NotFoundInv(k)' /\ DeniedInv(k)'
    BY <1>1, <1>5, GrantLookupStep DEF Return, At, Typed
  <2>3. PassedInv(l)' /\ NotFoundInv(l)' /\ DeniedInv(l)'
    BY <1>1, <1>5 DEF Return, At, Typed, PassedInv, NotFoundInv, DeniedInv
  <2>4. QED
    BY <2>1, <2>2, <2>3
<1>6. ASSUME NEW e \in Mover, NEW g \in Group, MembershipChange(e, g)
      PROVE  /\ \A d \in Email : WithheldInv(d)'
             /\ \A k \in Lookup : PassedInv(k)' /\ NotFoundInv(k)' /\ DeniedInv(k)'
  BY <1>6, WithheldStep, GrantLookupStep DEF MembershipChange, lookupVars
<1>7. CASE Tick
  BY <1>7, WithheldStep, GrantLookupStep DEF Tick, lookupVars
<1>8. CASE UNCHANGED vars
  BY <1>8, WithheldStep, GrantLookupStep DEF vars, lookupVars
<1>9. QED
  BY <1>2, <1>3, <1>4, <1>5, <1>6, <1>7, <1>8 DEF Next, Fail, Use

\* The second part of the invariant, which rests on the first.
THEOREM GrantInvariance == Spec => []GrantInv
<1>1. Init => GrantInv
  BY GrantInvInit
<1>2. RolesInv /\ GrantInv /\ [Next]_vars => GrantInv'
  BY GrantInvNext
<1>3. QED
  BY <1>1, <1>2, RolesInvariance, PTL DEF Spec

\* Whoever has been a member for longer than an entry lives and all calls of
\* a lookup last is granted the group's role or a stronger one, whatever
\* lookups run at the same time and however often the cache is emptied
\* (RoleFor, NewWorkspaceRoleResolver).
THEOREM MemberGetsRole == Spec => []MemberIsGranted
<1>1. ASSUME RolesInv, GrantInv
      PROVE  MemberIsGranted
  <2>1. Typed /\ clock \in Int
    BY <1>1, TypedParts DEF RolesInv, Typed
  <2>2. SUFFICES ASSUME NEW l \in Lookup, NEW g \in Group, pc[l] = "answered",
                        InSince(email[l], g, clock - Horizon)
                 PROVE  role[l] >= RoleOf[g]
    BY DEF MemberIsGranted
  <2>3. email[l] \in Email /\ role[l] \in Int /\ RoleOf[g] \in Int
    BY <2>1, <2>2, GroupAssumption DEF Typed, Role
  <2>4. since[email[l]][g] \in Int
    BY <2>1, <2>3 DEF Typed
  <2>5. g \in member[email[l]] /\ since[email[l]][g] <= clock - Horizon
    BY <2>2 DEF InSince
  <2>6. ~Absent(email[l], g, clock - Horizon + 1)
    BY <2>1, <2>4, <2>5, HorizonType DEF Absent
  <2>7. ~(RoleOf[g] > role[l])
    BY <1>1, <2>2, <2>6 DEF GrantInv, DeniedInv
  <2>8. QED
    BY <2>3, <2>7
<1>2. QED
  BY <1>1, GrantInvariance, RolesInvariance, PTL
=============================================================================
