--------------------------- MODULE WorkspaceRoles ---------------------------
(***************************************************************************)
(* The role resolver of one replica (src/internal/auth/roles.go).  Lookups *)
(* of concurrent requests share a cache; a lookup that misses asks Cloud   *)
(* Identity about one group after the other without holding the lock,      *)
(* while people join and leave the groups.                                 *)
(***************************************************************************)
EXTENDS Integers, FiniteSets

CONSTANTS
    Lookup,       \* goroutines inside RoleFor
    Email,        \* addresses that are looked up, already normalised
    Group,        \* groups with a binding
    RoleOf,       \* the role each group is bound to
    TTL,          \* how long an entry of the cache counts, two minutes
    CallTime,     \* the time limit of one call to Cloud Identity
    MaxEntries,   \* the size at which the cache is emptied, 10000
    MaxTime,      \* bound: when the clock stops
    Mover,        \* bound: those who join and leave groups
    None

RoleNone == 0
Role == 0 .. 4   \* none, viewer, operator, approver, admin

ASSUME GroupAssumption ==
    IsFiniteSet(Group) /\ Group # {} /\ RoleOf \in [Group -> Role \ {RoleNone}]
ASSUME EmailAssumption == IsFiniteSet(Email) /\ Mover \subseteq Email
ASSUME TimeAssumption == TTL \in Nat \ {0} /\ CallTime \in Nat /\ MaxTime \in Nat
ASSUME SizeAssumption == MaxEntries \in Nat \ {0}

VARIABLES
    bindings,   \* resolver.bindings
    cache,      \* resolver.cache
    clock,      \* what resolver.now reads
    member,     \* who is in which group
    since,      \* since when that has been so
    pc,         \* where each lookup is
    email,      \* whom it is about
    next,       \* the binding it asks about
    asked,      \* when it asked
    sampled,    \* what Cloud Identity found
    role        \* its answer

lookupVars == <<pc, email, next, asked, sampled, role>>
vars == <<bindings, cache, clock, member, since, lookupVars>>

CachedRole == [role : Role, expires : Int]
Position == 1 .. Cardinality(Group)

-----------------------------------------------------------------------------
\* Variant: the bindings stay as they are configured.
Unsorted(b) == \A i, j \in Position : i # j => b[i] # b[j]

\* NewWorkspaceRoleResolver: each group once, the strongest role first.
Sorted(b) ==
    \A i, j \in Position : i < j => b[i] # b[j] /\ RoleOf[b[i]] >= RoleOf[b[j]]

\* The longest that an answer can lag behind.
Horizon == TTL + Cardinality(Group) * CallTime

Init ==
    /\ bindings \in {b \in [Position -> Group] : Sorted(b)}
    /\ cache = [e \in Email |-> None]
    /\ clock = 0
    /\ member \in [Email -> SUBSET Group]
    /\ since = [e \in Email |-> [g \in Group |-> -1 - Horizon]]
    /\ pc = [l \in Lookup |-> "idle"]
    /\ email = [l \in Lookup |-> None]
    /\ next = [l \in Lookup |-> 0]
    /\ asked = [l \in Lookup |-> 0]
    /\ sampled = [l \in Lookup |-> FALSE]
    /\ role = [l \in Lookup |-> RoleNone]

At(l, label) == pc' = [pc EXCEPT ![l] = label]

Answer(l, answer) ==
    /\ role' = [role EXCEPT ![l] = answer]
    /\ At(l, "answered")

Fresh(e) == cache[e] # None /\ clock < cache[e].expires

\* Variant: an entry that is used lives on.
FromCacheKeeping(l, e) ==
    /\ Fresh(e)
    /\ Answer(l, cache[e].role)
    /\ cache' = [cache EXCEPT ![e].expires = clock + TTL]
    /\ UNCHANGED <<next, asked, sampled>>

FromCache(l, e) ==
    /\ Fresh(e)
    /\ Answer(l, cache[e].role)
    /\ UNCHANGED <<cache, next, asked, sampled>>

\* One call to HasTransitiveMembership.
Ask(l, position) ==
    /\ next' = [next EXCEPT ![l] = position]
    /\ asked' = [asked EXCEPT ![l] = clock]
    /\ At(l, "asking")

Begin(l) ==
    /\ pc[l] = "idle"
    /\ \E e \in Email :
        /\ email' = [email EXCEPT ![l] = e]
        /\ \/ FromCache(l, e)
           \/ ~Fresh(e) /\ Ask(l, 1) /\ UNCHANGED <<cache, sampled, role>>
    /\ UNCHANGED <<bindings, clock, member, since>>

\* Cloud Identity looks at the group at some moment of the call.
Evaluate(l) ==
    /\ pc[l] = "asking"
    /\ sampled' = [sampled EXCEPT ![l] = bindings[next[l]] \in member[email[l]]]
    /\ At(l, "sampled")
    /\ UNCHANGED <<bindings, cache, clock, member, since, email, next, asked, role>>

\* Variant: the cache is never emptied.
StoreForever(l, found) ==
    cache' = [cache EXCEPT ![email[l]] = [role |-> found, expires |-> clock + TTL]]

\* The full cache is emptied, then the entry is written; it may replace one
\* that another lookup of the same address wrote meanwhile.
Store(l, found) ==
    LET full == Cardinality({e \in Email : cache[e] # None}) >= MaxEntries
        kept == IF full THEN [e \in Email |-> None] ELSE cache
    IN  cache' = [kept EXCEPT ![email[l]] = [role |-> found, expires |-> clock + TTL]]

Conclude(l, found) == Store(l, found) /\ Answer(l, found) /\ UNCHANGED <<next, asked>>

Receive(l) ==
    /\ pc[l] = "sampled"
    /\ \/ sampled[l] /\ Conclude(l, RoleOf[bindings[next[l]]])
       \/ ~sampled[l] /\ next[l] = Cardinality(Group) /\ Conclude(l, RoleNone)
       \/ ~sampled[l] /\ next[l] < Cardinality(Group) /\ Ask(l, next[l] + 1)
            /\ UNCHANGED <<cache, role>>
    /\ UNCHANGED <<bindings, clock, member, since, email, sampled>>

Return(l) ==
    /\ At(l, "idle")
    /\ email' = [email EXCEPT ![l] = None]
    /\ next' = [next EXCEPT ![l] = 0]
    /\ asked' = [asked EXCEPT ![l] = 0]
    /\ sampled' = [sampled EXCEPT ![l] = FALSE]
    /\ role' = [role EXCEPT ![l] = RoleNone]
    /\ UNCHANGED <<bindings, cache, clock, member, since>>

\* The call fails, or the request that needs the role is cancelled.
Fail(l) == pc[l] \in {"asking", "sampled"} /\ Return(l)

\* The caller goes on with the answer.
Use(l) == pc[l] = "answered" /\ Return(l)

\* Somebody joins or leaves a group.
MembershipChange(e, g) ==
    /\ member' = [member EXCEPT ![e] = IF g \in @ THEN @ \ {g} ELSE @ \cup {g}]
    /\ since' = [since EXCEPT ![e][g] = clock]
    /\ UNCHANGED <<bindings, cache, clock, lookupVars>>

\* The client gives up a call after CallTime; nothing else takes time.
Tick ==
    /\ clock < MaxTime
    /\ \A l \in Lookup :
        /\ pc[l] # "answered"
        /\ pc[l] \in {"asking", "sampled"} => clock < asked[l] + CallTime
    /\ clock' = clock + 1
    /\ UNCHANGED <<bindings, cache, member, since, lookupVars>>

Next ==
    \/ \E l \in Lookup : Begin(l) \/ Evaluate(l) \/ Receive(l) \/ Fail(l) \/ Use(l)
    \/ \E e \in Mover, g \in Group : MembershipChange(e, g)
    \/ Tick

Spec == Init /\ [][Next]_vars

-----------------------------------------------------------------------------
(* Properties                                                              *)

\* Variables have their types, and the cache its size.
RolesTypeOK ==
    /\ bindings \in [Position -> Group]
    /\ cache \in [Email -> CachedRole \cup {None}]
    /\ Cardinality({e \in Email : cache[e] # None}) <= MaxEntries
    /\ clock \in Nat
    /\ member \in [Email -> SUBSET Group]
    /\ since \in [Email -> [Group -> Int]]
    /\ pc \in [Lookup -> {"idle", "asking", "sampled", "answered"}]
    /\ email \in [Lookup -> Email \cup {None}]
    /\ next \in [Lookup -> Nat]
    /\ \A l \in Lookup :
        /\ pc[l] # "idle" => email[l] \in Email
        /\ pc[l] \in {"asking", "sampled"} => next[l] \in Position
    /\ asked \in [Lookup -> Nat]
    /\ sampled \in [Lookup -> BOOLEAN]
    /\ role \in [Lookup -> Role]

\* The last moment at which e was in g, and whether e has been in g since t.
LastIn(e, g) == IF g \in member[e] THEN clock ELSE since[e][g]
InSince(e, g, t) == g \in member[e] /\ since[e][g] <= t

\* Whoever gets a role was in a group with this role when one call before
\* the entry was written began, so no longer ago than the entry lives and a
\* call lasts: also when a slow lookup replaces a newer entry.
RoleNotStale ==
    \A l \in Lookup : pc[l] = "answered" /\ role[l] # RoleNone =>
        \E g \in Group :
            /\ RoleOf[g] = role[l]
            /\ LastIn(email[l], g) >= clock - (TTL + CallTime)

\* Whoever has been in a group for longer than the entry lives and all calls
\* last gets the group's role or a stronger one.
MemberIsGranted ==
    \A l \in Lookup, g \in Group :
        /\ pc[l] = "answered"
        /\ InSince(email[l], g, clock - Horizon)
        => role[l] >= RoleOf[g]
=============================================================================
