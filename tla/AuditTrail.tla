----------------------------- MODULE AuditTrail -----------------------------
(***************************************************************************)
(* How receipts and health snapshots are read (src/internal/storage/gcs.go *)
(* and the read routes of src/internal/api/server.go): a listing of names, *)
(* then one request for each object, while handlers add receipts, the      *)
(* collector adds snapshots and the lifecycle rules of the buckets remove  *)
(* what is past its retention.  And how they are read in development, from *)
(* memory and at once (src/internal/storage/repository.go).                *)
(***************************************************************************)
EXTENDS Integers, FiniteSets, SequencesExt

CONSTANTS
    Reader,       \* requests to the read routes
    ID,           \* receipt and snapshot identities
    Retention,    \* how long an object is kept, 400 and 90 days
    ListBound,    \* the 1000 objects a listing may have
    MaxLimit,     \* the most that is answered, 100
    Limits,       \* values of the limit parameter
    MaxTime,      \* bound: when the clock stops
    None,
    Failed,       \* the answer 503
    NotFound      \* the answer 404

Time == 0..MaxTime
Kind == {"receipt", "snapshot"}

\* An object: its identity, the timestamp in its text (RecordedAt,
\* ObservedAt), when it was written, and whether it is a sealed record.
Object == [kind : Kind, id : ID, at : Time, created : Time, sealed : BOOLEAN]

\* list: ListReceipts, ListSnapshots.  latest: LatestSnapshot.
\* get: GetReceipt.
Query == [op : {"list"}, kind : Kind, limit : Limits]
    \cup [op : {"latest"}, kind : {"snapshot"}, limit : {MaxLimit}]
    \cup [op : {"get"}, kind : {"receipt"}, id : ID]

ASSUME BoundAssumption ==
    /\ MaxLimit \in Nat \ {0} /\ Limits \subseteq 1..MaxLimit
    /\ ListBound \in Nat /\ MaxLimit <= ListBound
    /\ Retention \in Nat \ {0} /\ MaxTime \in Nat
ASSUME AnswerAssumption ==
    {None, Failed, NotFound} \cap Object = {} /\ None \notin Query

VARIABLES
    clock,
    backend,    \* the repository of this behaviour
    objects,    \* what it holds
    query,      \* what each reader asks for
    pc,         \* where it is
    names,      \* the objects it has listed and not read yet
    values,     \* those it has read
    answer,     \* what it was answered
    before,     \* what was stored when it began
    seen        \* the latest snapshot it was ever answered

readerVars == <<query, pc, names, values, answer, before, seen>>
vars == <<clock, backend, objects, readerVars>>

-----------------------------------------------------------------------------
(* Reading.                                                                *)

Begin(r) ==
    /\ pc[r] = "idle"
    /\ \E q \in Query : query' = [query EXCEPT ![r] = q]
    /\ pc' = [pc EXCEPT ![r] = "list"]
    /\ before' = [before EXCEPT ![r] = objects]
    /\ answer' = [answer EXCEPT ![r] = None]
    /\ UNCHANGED <<clock, backend, objects, names, values, seen>>

\* Variant: what was read for one answer is kept for the next.
ReturnKeeping(r, value) ==
    /\ pc' = [pc EXCEPT ![r] = "idle"]
    /\ answer' = [answer EXCEPT ![r] = value]
    /\ names' = [names EXCEPT ![r] = <<>>]
    /\ query' = [query EXCEPT ![r] = None]
    /\ before' = [before EXCEPT ![r] = {}]
    /\ UNCHANGED values

\* The end of a request, whose listing is local to it.
Return(r, value) ==
    /\ pc' = [pc EXCEPT ![r] = "idle"]
    /\ answer' = [answer EXCEPT ![r] = value]
    /\ names' = [names EXCEPT ![r] = <<>>]
    /\ values' = [values EXCEPT ![r] = <<>>]
    /\ query' = [query EXCEPT ![r] = None]
    /\ before' = [before EXCEPT ![r] = {}]

\* The order of the names: receipts are filed by day, and under their
\* identity, snapshots under whatever name the collector gave them.
InNameOrder(a, b) == a.kind = "snapshot" \/ a.at <= b.at

\* GCSObjectStore.List, the names: one page, which must be all there is.
List(r) ==
    LET listed == {o \in objects : o.kind = query[r].kind}
    IN  /\ backend = "buckets" /\ pc[r] = "list"
        /\ \/ Return(r, Failed)
           \/ /\ Cardinality(listed) <= ListBound
              /\ \E s \in SetToSeqs(listed) :
                    /\ \A i \in 1..(Len(s) - 1) : InNameOrder(s[i], s[i + 1])
                    /\ names' = [names EXCEPT ![r] = s]
              /\ pc' = [pc EXCEPT ![r] = "read"]
              /\ UNCHANGED <<query, values, answer, before>>
        /\ UNCHANGED <<clock, backend, objects, seen>>

\* GCSObjectStore.List, the loop over the names.  An object that is gone by
\* now is an object that is not found, for the listing as a whole.
Read(r) ==
    /\ pc[r] = "read" /\ names[r] # <<>>
    /\ \/ Return(r, Failed)
       \/ Head(names[r]) \notin objects /\ Return(r, NotFound)
       \/ /\ Head(names[r]) \in objects
          /\ values' = [values EXCEPT ![r] = Append(@, Head(names[r]))]
          /\ names' = [names EXCEPT ![r] = Tail(@)]
          /\ UNCHANGED <<query, pc, answer, before>>
    /\ UNCHANGED <<clock, backend, objects, seen>>

\* sort.Slice: newest first, those of the same time in any order.
NewestFirst(s) ==
    {p \in {[i \in DOMAIN s |-> s[f[i]]] : f \in SetToSeqs(DOMAIN s)} :
        \A i, j \in DOMAIN s : i < j => p[i].at >= p[j].at}

Cut(s, limit) == IF Len(s) > limit THEN SubSeq(s, 1, limit) ELSE s

\* Variant: the page is cut before it is sorted.
NewestCutFirst(s, limit) == NewestFirst(Cut(s, limit))

\* What may be listed: newest first, and no more than the limit.
Newest(s, limit) == {Cut(p, limit) : p \in NewestFirst(s)}

\* Variant: any receipt of the listing will do.
FindAny(s, id) == IF s = <<>> THEN {NotFound} ELSE Range(s)

\* The loop of GetReceipt: the first that has the name, if it is sealed.
Find(s, id) ==
    LET found == {i \in DOMAIN s : s[i].id = id}
        first == {i \in found : \A j \in found : i <= j}
    IN  IF found = {} THEN {NotFound}
        ELSE {IF s[i].sealed THEN s[i] ELSE Failed : i \in first}

\* Variant: the oldest of the page is taken for the latest.
LatestOldest(s, limit) ==
    IF \E i \in DOMAIN s : ~s[i].sealed THEN {Failed}
    ELSE IF s = <<>> THEN {NotFound}
    ELSE {p[Len(p)] : p \in Newest(s, limit)}

\* LatestSnapshot
Latest(s, limit) ==
    IF \E i \in DOMAIN s : ~s[i].sealed THEN {Failed}
    ELSE IF s = <<>> THEN {NotFound}
    ELSE {p[1] : p \in Newest(s, limit)}

\* ListReceipts and ListSnapshots: all must be sealed, also those that the
\* limit cuts off.
Listing(s, limit) ==
    IF \E i \in DOMAIN s : ~s[i].sealed THEN {Failed} ELSE Newest(s, limit)

\* What may be answered to a query for which these objects were read.
Responses(q, s) ==
    CASE q.op = "list"   -> Listing(s, q.limit)
      [] q.op = "get"    -> Find(s, q.id)
      [] q.op = "latest" -> Latest(s, q.limit)

\* A client keeps the latest snapshot it was answered.
Respond(r, value) ==
    /\ Return(r, value)
    /\ seen' = [seen EXCEPT ![r] =
            IF query[r].op = "latest" /\ value \notin {Failed, NotFound}
            THEN value ELSE @]

\* The answer once everything is read.
Conclude(r) ==
    /\ pc[r] = "read" /\ names[r] = <<>>
    /\ \E value \in Responses(query[r], values[r]) : Respond(r, value)
    /\ UNCHANGED <<clock, backend, objects>>

\* MemoryRepository answers at once, from a map without an order.
ReadAtOnce(r) ==
    /\ backend = "memory" /\ pc[r] = "list"
    /\ \E s \in SetToSeqs({o \in objects : o.kind = query[r].kind}) :
        \E value \in Responses(query[r], s) : Respond(r, value)
    /\ UNCHANGED <<clock, backend, objects>>

-----------------------------------------------------------------------------
(* Writing.                                                                *)

FreshIDs == {id \in ID : \A o \in objects \cup UNION {before[r] : r \in Reader} :
                            o.id # id}

\* Service.finalize: a receipt bears the time of its result, which a retry
\* may have found stored much earlier.
PutReceipt ==
    /\ \E id \in FreshIDs, at \in 0..clock :
        objects' = objects \cup {[kind |-> "receipt", id |-> id, at |-> at,
                                  created |-> clock, sealed |-> TRUE]}
    /\ UNCHANGED <<clock, backend, readerVars>>

\* The collector, which is not part of the repository, writes a snapshot.
PutSnapshot ==
    /\ backend = "buckets"
    /\ \E id \in FreshIDs, at \in 0..clock, sealed \in BOOLEAN :
        objects' = objects \cup {[kind |-> "snapshot", id |-> id, at |-> at,
                                  created |-> clock, sealed |-> sealed]}
    /\ UNCHANGED <<clock, backend, readerVars>>

\* The lifecycle rule of the bucket.
Expire ==
    /\ backend = "buckets"
    /\ \E o \in objects : /\ clock - o.created >= Retention
                          /\ objects' = objects \ {o}
    /\ UNCHANGED <<clock, backend, readerVars>>

Tick ==
    /\ clock < MaxTime
    /\ clock' = clock + 1
    /\ UNCHANGED <<backend, objects, readerVars>>

\* What seedDevelopment leaves in memory.
Seeded ==
    {{[kind |-> "snapshot", id |-> id, at |-> 0, created |-> 0, sealed |-> TRUE]} :
        id \in ID}

Init ==
    /\ clock = 0
    /\ \/ backend = "buckets" /\ objects = {}
       \/ backend = "memory" /\ objects \in Seeded
    /\ query = [r \in Reader |-> None]
    /\ pc = [r \in Reader |-> "idle"]
    /\ names = [r \in Reader |-> <<>>]
    /\ values = [r \in Reader |-> <<>>]
    /\ answer = [r \in Reader |-> None]
    /\ before = [r \in Reader |-> {}]
    /\ seen = [r \in Reader |-> None]

Next ==
    \/ \E r \in Reader : Begin(r) \/ List(r) \/ Read(r) \/ Conclude(r)
        \/ ReadAtOnce(r)
    \/ PutReceipt \/ PutSnapshot \/ Expire \/ Tick

Spec == Init /\ [][Next]_vars

-----------------------------------------------------------------------------
(* Properties.                                                             *)

\* What was stored when the reader began and still is.
Throughout(r) == before[r] \cap objects

\* Every variable has its type.  Identities are drawn once.
TrailTypeOK ==
    /\ clock \in Time
    /\ backend \in {"buckets", "memory"}
    /\ objects \subseteq Object
    /\ \A a, b \in objects : a.id = b.id => a = b
    /\ query \in [Reader -> Query \cup {None}]
    /\ pc \in [Reader -> {"idle", "list", "read"}]
    /\ names \in [Reader -> Seq(Object)] /\ values \in [Reader -> Seq(Object)]
    /\ \A r \in Reader :
        /\ pc[r] = "idle" <=> query[r] = None
        /\ pc[r] # "read" => names[r] = <<>> /\ values[r] = <<>>
    /\ DOMAIN answer = Reader
    /\ before \in [Reader -> SUBSET Object]
    /\ seen \in [Reader -> Object \cup {None}]

\* A list is in order and has no gap: what was stored all the while the list
\* was made is in it, or the list is full of what is at least as recent,
\* whatever was added or removed meanwhile (gcs.go:164-187, 339-360).
ListHasNoGap ==
    [][\A r \in Reader :
        (/\ pc[r] # "idle" /\ pc'[r] = "idle" /\ query[r].op = "list"
         /\ answer'[r] \notin {Failed, NotFound})
        => LET s == answer'[r]
           IN  /\ \A i \in 1..(Len(s) - 1) : s[i].at >= s[i + 1].at
               /\ \A o \in Throughout(r) : o.kind = query[r].kind =>
                    \/ o \in Range(s)
                    \/ /\ Len(s) = query[r].limit
                       /\ \A x \in Range(s) : x.at >= o.at]_vars

\* A receipt that is answered is the one that was asked for, and one that
\* was stored all the while is missed only if another one expired between
\* the listing and its turn to be read (gcs.go:322-337).
GetIsRight ==
    [][\A r \in Reader :
        (/\ pc[r] # "idle" /\ pc'[r] = "idle" /\ query[r].op = "get"
         /\ answer'[r] # Failed)
        => IF answer'[r] = NotFound
           THEN \/ \A o \in Throughout(r) : <<o.kind, o.id>> # <<"receipt", query[r].id>>
                \/ Range(names[r]) \ objects # {}
           ELSE answer'[r].id = query[r].id]_vars

\* A client that asks again once it is answered never gets an older snapshot
\* while the one it got before is still stored (gcs.go:155-162).
SnapshotsMoveOn ==
    [][\A r \in Reader :
        (seen[r] # None /\ seen[r] \in objects /\ seen'[r] # seen[r])
        => seen'[r].at >= seen[r].at]_vars
=============================================================================
