-------------------------- MODULE AuditTrailProofs --------------------------
(***************************************************************************)
(* What holds of AuditTrail for any number of readers and objects, any     *)
(* limits and any lengths of time.                                         *)
(***************************************************************************)
EXTENDS AuditTrail, FiniteSetTheorems, SequenceTheorems, TLAPS

\* What a reader has heard of.
Known(r) ==
    before[r] \cup Range(names[r]) \cup Range(values[r]) \cup ({seen[r]} \ {None})

\* What is stored was written by now; what a reader has heard of and is not
\* stored any more was written earlier, so it is not written again.
StoredInv ==
    /\ IsFiniteSet(objects)
    /\ \A o \in objects : o.created <= clock
GoneInv(r) == \A o \in Known(r) : o \in objects \/ o.created < clock

\* A reader has listed or read whatever is stored all the while.
CompleteInv(r) ==
    pc[r] = "read" =>
        /\ \A o \in Throughout(r) : o.kind = query[r].kind =>
                o \in Range(names[r]) \cup Range(values[r])
        /\ \A o \in Range(names[r]) \cup Range(values[r]) : o.kind = query[r].kind

\* The snapshot that a reader got earlier was there when it began, if it is
\* still there.
LatestInv(r) ==
    seen[r] # None =>
        /\ seen[r].kind = "snapshot"
        /\ pc[r] # "idle" /\ seen[r] \in objects => seen[r] \in before[r]

ReaderInv(r) == GoneInv(r) /\ CompleteInv(r) /\ LatestInv(r)

TrailInv == TrailTypeOK /\ StoredInv /\ \A r \in Reader : ReaderInv(r)

-----------------------------------------------------------------------------
(* Sequences                                                               *)

\* An order of the members of a finite set.
LEMMA OrdersOfSet ==
  ASSUME NEW S, IsFiniteSet(S), NEW s \in SetToSeqs(S)
  PROVE  s \in Seq(S) /\ Range(s) = S /\ DOMAIN s = 1..Cardinality(S)
<1> DEFINE D == 1..Cardinality(S)
<1>1. Cardinality(S) \in Nat
  BY FS_CardinalityType
<1>2. s \in [D -> S] /\ \A i, j \in D : i # j => s[i] # s[j]
  BY DEF SetToSeqs
<1>3. s \in Injection(D, S)
  BY <1>2, Zenon DEF Injection, IsInjective
<1>4. Cardinality(D) = Cardinality(S)
  BY <1>1, FS_Interval
<1>5. s \in Surjection(D, S)
  BY <1>3, <1>4, FS_Injection
<1>6. Range(s) = S
  BY <1>2, <1>5 DEF Surjection, Range
<1>7. s \in Seq(S)
  BY <1>1, <1>2
<1>8. QED
  BY <1>2, <1>6, <1>7

\* The members of a sequence are what stands at its places.
LEMMA RangeMember ==
  ASSUME NEW S, NEW s \in Seq(S)
  PROVE  /\ Range(s) \subseteq S
         /\ \A x : x \in Range(s) <=> \E i \in 1..Len(s) : s[i] = x
  BY DEF Range

\* Append adds one member.
LEMMA RangeOfAppend ==
  ASSUME NEW S, NEW s \in Seq(S), NEW x \in S
  PROVE  Append(s, x) \in Seq(S) /\ Range(Append(s, x)) = Range(s) \cup {x}
<1>1. /\ Append(s, x) \in Seq(S) /\ Len(Append(s, x)) = Len(s) + 1
      /\ \A i \in 1..Len(s) : Append(s, x)[i] = s[i]
      /\ Append(s, x)[Len(s) + 1] = x
  BY AppendProperties
<1>2. Len(s) \in Nat
  OBVIOUS
<1>3. PICK t \in Seq(S) : t = Append(s, x)
  BY <1>1
<1>4. ASSUME NEW y \in Range(t)
      PROVE  y \in Range(s) \cup {x}
  <2>1. PICK i \in 1..Len(t) : t[i] = y
    BY RangeMember
  <2>2. i \in 1..Len(s) \/ i = Len(s) + 1
    BY <1>1, <1>2, <1>3, <2>1
  <2>3. QED
    BY <1>1, <1>3, <2>1, <2>2, RangeMember
<1>5. ASSUME NEW y \in Range(s)
      PROVE  y \in Range(t)
  <2>1. PICK i \in 1..Len(s) : s[i] = y
    BY RangeMember
  <2>2. i \in 1..Len(t) /\ t[i] = y
    BY <1>1, <1>2, <1>3, <2>1
  <2>3. QED
    BY <2>2, RangeMember
<1>6. x \in Range(t)
  <2>1. Len(s) + 1 \in 1..Len(t) /\ t[Len(s) + 1] = x
    BY <1>1, <1>2, <1>3
  <2>2. QED
    BY <2>1, RangeMember
<1>7. QED
  BY <1>1, <1>3, <1>4, <1>5, <1>6

\* Tail removes the first place, and with it at most that member.
LEMMA RangeOfTail ==
  ASSUME NEW S, NEW s \in Seq(S), s # <<>>
  PROVE  /\ Tail(s) \in Seq(S) /\ Head(s) \in S
         /\ Range(s) = Range(Tail(s)) \cup {Head(s)}
<1>1. /\ Tail(s) \in Seq(S) /\ Head(s) \in S /\ Head(s) = s[1]
      /\ Len(s) \in Nat /\ Len(s) >= 1 /\ Len(Tail(s)) = Len(s) - 1
      /\ \A i \in 1..Len(Tail(s)) : Tail(s)[i] = s[i + 1]
  BY HeadTailProperties
<1>2. ASSUME NEW y \in Range(s)
      PROVE  y \in Range(Tail(s)) \cup {Head(s)}
  <2>1. PICK i \in 1..Len(s) : s[i] = y
    BY RangeMember
  <2>2. CASE i = 1
    BY <1>1, <2>1, <2>2
  <2>3. CASE i # 1
    <3>1. i - 1 \in 1..Len(Tail(s)) /\ (i - 1) + 1 = i
      BY <1>1, <2>1, <2>3
    <3>2. PICK j \in 1..Len(Tail(s)) : j + 1 = i
      BY <3>1
    <3>3. Tail(s)[j] = y
      BY <1>1, <2>1, <3>2
    <3>4. QED
      BY <1>1, <3>2, <3>3, RangeMember
  <2>4. QED
    BY <2>2, <2>3
<1>3. ASSUME NEW y \in Range(Tail(s)) \cup {Head(s)}
      PROVE  y \in Range(s)
  <2>1. CASE y = Head(s)
    BY <1>1, <2>1, RangeMember
  <2>2. CASE y \in Range(Tail(s))
    <3>1. PICK i \in 1..Len(Tail(s)) : Tail(s)[i] = y
      BY <1>1, <2>2, RangeMember
    <3>2. i + 1 \in 1..Len(s) /\ s[i + 1] = y
      BY <1>1, <3>1
    <3>3. QED
      BY <3>2, RangeMember
  <2>3. QED
    BY <1>3, <2>1, <2>2
<1>4. QED
  BY <1>1, <1>2, <1>3

Descending(s) == \A i, j \in 1..Len(s) : i < j => s[i].at >= s[j].at

\* A sort loses nothing and adds nothing.
LEMMA Sorting ==
  ASSUME NEW s \in Seq(Object), NEW p \in NewestFirst(s)
  PROVE  /\ p \in Seq(Object) /\ Len(p) = Len(s) /\ Range(p) = Range(s)
         /\ Descending(p)
<1>1. PICK f \in SetToSeqs(DOMAIN s) : p = [i \in DOMAIN s |-> s[f[i]]]
  BY DEF NewestFirst
<1>2. \A i, j \in DOMAIN s : i < j => p[i].at >= p[j].at
  BY DEF NewestFirst
<1>3. DOMAIN s = 1..Len(s) /\ Len(s) \in Nat
  OBVIOUS
<1>4. IsFiniteSet(DOMAIN s)
  BY <1>3, FS_Interval
<1>5. Cardinality(DOMAIN s) = Len(s)
  BY <1>3, FS_Interval
<1>6. Range(f) = DOMAIN s /\ DOMAIN f = DOMAIN s
  BY <1>3, <1>4, <1>5, OrdersOfSet
<1>7. /\ \A i \in DOMAIN s : f[i] \in DOMAIN s
      /\ \A j \in DOMAIN s : \E i \in DOMAIN s : f[i] = j
  BY <1>6 DEF Range
<1>8. p \in [1..Len(s) -> Object]
  BY <1>1, <1>3, <1>7, ElementOfSeq
<1>9. p \in Seq(Object) /\ Len(p) = Len(s)
  BY <1>3, <1>8
<1>10. Range(p) = Range(s)
  BY <1>1, <1>7 DEF Range
<1>11. Descending(p)
  BY <1>2, <1>3, <1>9 DEF Descending
<1>12. QED
  BY <1>9, <1>10, <1>11

\* The times of an object can be compared.
LEMMA ObjectAt ==
  ASSUME NEW o \in Object
  PROVE  o.at \in Int /\ o.created \in Int
  BY BoundAssumption DEF Object, Time

\* What is cut off is no newer than what is left.
LEMMA Cutting ==
  ASSUME NEW p \in Seq(Object), Descending(p), NEW limit \in Nat \ {0}
  PROVE  /\ Cut(p, limit) \in Seq(Object)
         /\ Range(Cut(p, limit)) \subseteq Range(p)
         /\ Descending(Cut(p, limit))
         /\ \A o \in Range(p) :
                \/ o \in Range(Cut(p, limit))
                \/ /\ Len(Cut(p, limit)) = limit
                   /\ \A x \in Range(Cut(p, limit)) : x.at >= o.at
<1>1. CASE Len(p) <= limit
  BY <1>1 DEF Cut
<1>2. CASE Len(p) > limit
  <2>1. PICK q : q = SubSeq(p, 1, limit)
    OBVIOUS
  <2>2. Cut(p, limit) = q
    BY <1>2, <2>1 DEF Cut
  <2>3. /\ q \in Seq(Object) /\ Len(q) = limit
        /\ \A i \in 1..limit : q[i] = p[i] /\ i \in 1..Len(p)
    BY <1>2, <2>1
  <2>4. Range(q) \subseteq Range(p)
    BY <2>3, RangeMember
  <2>5. Descending(q)
    BY <2>3 DEF Descending
  <2>6. ASSUME NEW o \in Range(p), o \notin Range(q)
        PROVE  \A x \in Range(q) : x.at >= o.at
    <3>1. PICK j \in 1..Len(p) : p[j] = o
      BY RangeMember
    <3>2. ~(j \in 1..limit)
      BY <2>3, <2>6, <3>1, RangeMember
    <3>3. ASSUME NEW x \in Range(q)
          PROVE  x.at >= o.at
      <4>1. PICK i \in 1..limit : q[i] = x
        BY <2>3, RangeMember
      <4>2. i \in 1..Len(p) /\ p[i] = x /\ i < j
        BY <2>3, <3>1, <3>2, <4>1
      <4>3. QED
        BY <3>1, <4>2 DEF Descending
    <3>4. QED
      BY <3>3
  <2>7. QED
    BY <2>2, <2>3, <2>4, <2>5, <2>6
<1>3. QED
  BY <1>1, <1>2

\* A page is in order, holds only what was read, and what was read and is not
\* in it is no newer than what is.
LEMMA Paging ==
  ASSUME NEW s \in Seq(Object), NEW limit \in Nat \ {0}, NEW q \in Newest(s, limit)
  PROVE  /\ q \in Seq(Object)
         /\ Range(q) \subseteq Range(s)
         /\ Descending(q)
         /\ \A o \in Range(s) :
                \/ o \in Range(q)
                \/ Len(q) = limit /\ \A x \in Range(q) : x.at >= o.at
<1>1. PICK p \in NewestFirst(s) : q = Cut(p, limit)
  BY DEF Newest
<1>2. p \in Seq(Object) /\ Range(p) = Range(s) /\ Descending(p)
  BY Sorting
<1>3. QED
  BY <1>1, <1>2, Cutting

\* The first of a page is as new as everything that was read.
LEMMA FirstIsNewest ==
  ASSUME NEW s \in Seq(Object), s # <<>>, NEW limit \in Nat \ {0},
         NEW q \in Newest(s, limit)
  PROVE  /\ q[1] \in Range(s)
         /\ \A o \in Range(s) : q[1].at >= o.at
<1>1. PICK p \in NewestFirst(s) : q = Cut(p, limit)
  BY DEF Newest
<1>2. p \in Seq(Object) /\ Len(p) = Len(s) /\ Range(p) = Range(s) /\ Descending(p)
  BY Sorting
<1>3. Len(p) \in Nat /\ 1 \in 1..Len(p)
  BY <1>2, EmptySeq
<1>4. q[1] = p[1]
  BY <1>1, <1>2, <1>3 DEF Cut
<1>5. p[1] \in Range(p) /\ p[1] \in Object
  BY <1>2, <1>3, RangeMember
<1>6. ASSUME NEW o \in Range(p)
      PROVE  p[1].at >= o.at
  <2>1. PICK j \in 1..Len(p) : p[j] = o
    BY <1>2, RangeMember
  <2>2. CASE j = 1
    BY <1>5, <2>1, <2>2, ObjectAt
  <2>3. CASE j # 1
    BY <1>2, <1>3, <2>1, <2>3 DEF Descending
  <2>4. QED
    BY <2>2, <2>3
<1>7. QED
  BY <1>2, <1>4, <1>5, <1>6

-----------------------------------------------------------------------------
(* Readers                                                                 *)

\* What each read route asks for, and that its limit is positive.
LEMMA QueryFields ==
  ASSUME NEW q \in Query
  PROVE  /\ q # None
         /\ q.op \in {"list", "latest", "get"} /\ q.kind \in Kind
         /\ q.op = "list" => q.limit \in Nat \ {0}
         /\ q.op = "latest" => q.kind = "snapshot" /\ q.limit \in Nat \ {0}
         /\ q.op = "get" => q.kind = "receipt"
<1>1. q # None
  BY AnswerAssumption
<1>2. CASE q \in [op : {"list"}, kind : Kind, limit : Limits]
  <2>1. q.op = "list" /\ q.kind \in Kind /\ q.limit \in Limits
    BY <1>2
  <2>2. \A n \in 1..MaxLimit : n \in Nat \ {0}
    BY BoundAssumption
  <2>3. QED
    BY <1>1, <2>1, <2>2, BoundAssumption
<1>3. CASE q \in [op : {"latest"}, kind : {"snapshot"}, limit : {MaxLimit}]
  BY <1>1, <1>3, BoundAssumption DEF Kind
<1>4. CASE q \in [op : {"get"}, kind : {"receipt"}, id : ID]
  BY <1>1, <1>4 DEF Kind
<1>5. QED
  BY <1>2, <1>3, <1>4 DEF Query

\* Times are natural numbers, and the first one is zero.
LEMMA TimeType == Time \subseteq Nat /\ 0 \in Time
  BY BoundAssumption DEF Time

\* The objects a reader could list.
Listed(r) == {o \in objects : o.kind = query[r].kind}

\* A listing has each object of its kind that is stored, and no other.
LEMMA ListedOrder ==
  ASSUME TrailTypeOK, StoredInv, NEW r \in Reader, NEW s \in SetToSeqs(Listed(r))
  PROVE  s \in Seq(Object) /\ Range(s) = Listed(r)
<1>1. Listed(r) \subseteq objects /\ objects \subseteq Object /\ IsFiniteSet(objects)
  BY DEF Listed, TrailTypeOK, StoredInv
<1>2. IsFiniteSet(Listed(r))
  BY <1>1, FS_Subset
<1>3. s \in Seq(Listed(r)) /\ Range(s) = Listed(r)
  BY <1>2, OrdersOfSet
<1>4. s \in Seq(Object)
  BY <1>1, <1>3
<1>5. QED
  BY <1>3, <1>4

\* A step of one reader leaves the others alone.
LEMMA OneReader ==
  ASSUME TrailInv, TrailTypeOK', UNCHANGED <<clock, backend, objects>>,
         NEW r \in Reader, ReaderInv(r)',
         \A k \in Reader \ {r} :
            /\ query'[k] = query[k] /\ pc'[k] = pc[k] /\ names'[k] = names[k]
            /\ values'[k] = values[k] /\ before'[k] = before[k] /\ seen'[k] = seen[k]
  PROVE  TrailInv'
<1>1. ASSUME NEW k \in Reader
      PROVE  ReaderInv(k)'
  <2>1. CASE k = r
    BY <2>1
  <2>2. CASE k # r
    <3>1. ReaderInv(k)
      BY DEF TrailInv
    <3>2. /\ query'[k] = query[k] /\ pc'[k] = pc[k] /\ names'[k] = names[k]
          /\ values'[k] = values[k] /\ before'[k] = before[k] /\ seen'[k] = seen[k]
      BY <2>2
    <3>3. GoneInv(k)'
      BY <3>1, <3>2 DEF ReaderInv, GoneInv, Known
    <3>4. CompleteInv(k)'
      BY <3>1, <3>2 DEF ReaderInv, CompleteInv, Throughout
    <3>5. LatestInv(k)'
      BY <3>1, <3>2 DEF ReaderInv, LatestInv
    <3>6. QED
      BY <3>3, <3>4, <3>5 DEF ReaderInv
  <2>3. QED
    BY <2>1, <2>2
<1>2. StoredInv'
  BY DEF TrailInv, StoredInv
<1>3. QED
  BY <1>1, <1>2 DEF TrailInv

\* A request that begins has heard of what is stored, and of nothing else new.
LEMMA BeginStep ==
  ASSUME TrailInv, NEW r \in Reader, Begin(r)
  PROVE  TrailInv'
<1>1. TrailTypeOK /\ ReaderInv(r) /\ StoredInv
  BY DEF TrailInv
<1>2. PICK q \in Query : query' = [query EXCEPT ![r] = q]
  BY DEF Begin
<1>3. q # None
  BY QueryFields
<1>4. /\ pc[r] = "idle" /\ pc' = [pc EXCEPT ![r] = "list"]
      /\ before' = [before EXCEPT ![r] = objects]
      /\ answer' = [answer EXCEPT ![r] = None]
      /\ UNCHANGED <<clock, backend, objects, names, values, seen>>
  BY DEF Begin
<1>5. TrailTypeOK'
  BY <1>1, <1>2, <1>3, <1>4 DEF TrailTypeOK
<1>6. /\ pc'[r] = "list" /\ before'[r] = objects
      /\ names'[r] = names[r] /\ values'[r] = values[r] /\ seen'[r] = seen[r]
  BY <1>1, <1>4 DEF TrailTypeOK
<1>7. ReaderInv(r)'
  BY <1>1, <1>4, <1>6 DEF ReaderInv, GoneInv, Known, CompleteInv, LatestInv
<1>8. QED
  BY <1>1, <1>2, <1>4, <1>5, <1>7, OneReader DEF TrailTypeOK

\* The end of a request, with the snapshot that was kept or the one that was
\* answered now.
LEMMA ReturnStep ==
  ASSUME TrailInv, NEW r \in Reader, NEW value, Return(r, value),
         UNCHANGED <<clock, backend, objects>>,
         NEW kept \in Object \cup {None}, seen' = [seen EXCEPT ![r] = kept],
         kept # None => /\ kept.kind = "snapshot"
                        /\ kept \in objects \/ kept.created < clock
  PROVE  TrailInv'
<1>1. TrailTypeOK
  BY DEF TrailInv
<1>2. /\ pc' = [pc EXCEPT ![r] = "idle"] /\ answer' = [answer EXCEPT ![r] = value]
      /\ names' = [names EXCEPT ![r] = <<>>] /\ values' = [values EXCEPT ![r] = <<>>]
      /\ query' = [query EXCEPT ![r] = None] /\ before' = [before EXCEPT ![r] = {}]
  BY DEF Return
<1>3. <<>> \in Seq(Object) /\ Range(<<>>) = {}
  BY RangeMember DEF Range
<1>4. TrailTypeOK'
  BY <1>1, <1>2, <1>3 DEF TrailTypeOK
<1>5. /\ pc'[r] = "idle" /\ names'[r] = <<>> /\ values'[r] = <<>>
      /\ before'[r] = {} /\ seen'[r] = kept
  BY <1>1, <1>2 DEF TrailTypeOK
<1>6. ReaderInv(r)'
  BY <1>3, <1>5 DEF ReaderInv, GoneInv, Known, CompleteInv, LatestInv
<1>7. QED
  BY <1>1, <1>2, <1>4, <1>6, OneReader DEF TrailTypeOK

\* A request that ends without a new snapshot keeps the one it had.
LEMMA ReturnKeeps ==
  ASSUME TrailInv, NEW r \in Reader, NEW value, Return(r, value),
         UNCHANGED <<clock, backend, objects, seen>>
  PROVE  TrailInv'
<1>1. seen \in [Reader -> Object \cup {None}] /\ GoneInv(r) /\ LatestInv(r)
  BY DEF TrailInv, TrailTypeOK, ReaderInv
<1>2. PICK kept \in Object \cup {None} : kept = seen[r]
  BY <1>1
<1>3. seen' = [seen EXCEPT ![r] = kept]
  BY <1>1, <1>2
<1>4. kept # None => /\ kept.kind = "snapshot"
                     /\ kept \in objects \/ kept.created < clock
  BY <1>1, <1>2 DEF GoneInv, Known, LatestInv
<1>5. QED
  BY <1>3, <1>4, ReturnStep

\* The listing of the names: all that is stored, or nothing.
LEMMA ListStep ==
  ASSUME TrailInv, NEW r \in Reader, List(r)
  PROVE  TrailInv'
<1>1. TrailTypeOK /\ StoredInv /\ ReaderInv(r)
  BY DEF TrailInv
<1>2. CASE Return(r, Failed)
  BY <1>2, ReturnKeeps DEF List
<1>3. CASE ~Return(r, Failed)
  <2>1. PICK s \in SetToSeqs(Listed(r)) : names' = [names EXCEPT ![r] = s]
    BY <1>3 DEF List, Listed
  <2>2. /\ pc[r] = "list" /\ pc' = [pc EXCEPT ![r] = "read"]
        /\ UNCHANGED <<clock, backend, objects, query, values, answer, before, seen>>
    BY <1>3 DEF List
  <2>3. s \in Seq(Object) /\ Range(s) = Listed(r)
    BY <1>1, ListedOrder
  <2>4. TrailTypeOK'
    BY <1>1, <2>1, <2>2, <2>3 DEF TrailTypeOK
  <2>5. /\ pc'[r] = "read" /\ names'[r] = s /\ values'[r] = <<>>
        /\ query'[r] = query[r] /\ before'[r] = before[r] /\ seen'[r] = seen[r]
    BY <1>1, <2>1, <2>2 DEF TrailTypeOK
  <2>6. Range(<<>>) = {}
    BY DEF Range
  <2>7. GoneInv(r)'
    BY <1>1, <2>2, <2>3, <2>5, <2>6 DEF ReaderInv, GoneInv, Known, Listed
  <2>8. CompleteInv(r)'
    BY <2>2, <2>3, <2>5, <2>6 DEF CompleteInv, Throughout, Listed
  <2>9. LatestInv(r)'
    BY <1>1, <2>2, <2>5 DEF ReaderInv, LatestInv
  <2>10. QED
    BY <1>1, <2>1, <2>2, <2>4, <2>7, <2>8, <2>9, OneReader DEF ReaderInv, TrailTypeOK
<1>4. QED
  BY <1>2, <1>3

\* The reading of one object: it passes from the names to the values.
LEMMA ReadStep ==
  ASSUME TrailInv, NEW r \in Reader, Read(r)
  PROVE  TrailInv'
<1>1. TrailTypeOK /\ ReaderInv(r)
  BY DEF TrailInv
<1>2. CASE Return(r, Failed) \/ Return(r, NotFound)
  BY <1>2, ReturnKeeps DEF Read
<1>3. CASE ~(Return(r, Failed) \/ Return(r, NotFound))
  <2>1. /\ pc[r] = "read" /\ names[r] # <<>> /\ Head(names[r]) \in objects
        /\ values' = [values EXCEPT ![r] = Append(values[r], Head(names[r]))]
        /\ names' = [names EXCEPT ![r] = Tail(names[r])]
        /\ UNCHANGED <<clock, backend, objects, query, pc, answer, before, seen>>
    BY <1>3 DEF Read
  <2>2. names[r] \in Seq(Object) /\ values[r] \in Seq(Object)
    BY <1>1 DEF TrailTypeOK
  <2>3. PICK n \in Seq(Object), v \in Seq(Object) :
            /\ n = Tail(names[r]) /\ v = Append(values[r], Head(names[r]))
            /\ Range(n) \cup Range(v) = Range(names[r]) \cup Range(values[r])
    <3>1. /\ Tail(names[r]) \in Seq(Object) /\ Head(names[r]) \in Object
          /\ Range(names[r]) = Range(Tail(names[r])) \cup {Head(names[r])}
      BY <2>1, <2>2, RangeOfTail
    <3>2. /\ Append(values[r], Head(names[r])) \in Seq(Object)
          /\ Range(Append(values[r], Head(names[r]))) = Range(values[r]) \cup {Head(names[r])}
      BY <2>2, <3>1, RangeOfAppend
    <3>3. PICK n \in Seq(Object) : n = Tail(names[r])
      BY <3>1
    <3>4. PICK v \in Seq(Object) : v = Append(values[r], Head(names[r]))
      BY <3>2
    <3>5. Range(n) \cup Range(v) = Range(names[r]) \cup Range(values[r])
      BY <3>1, <3>2, <3>3, <3>4
    <3>6. QED
      BY <3>3, <3>4, <3>5
  <2>4. names' = [names EXCEPT ![r] = n] /\ values' = [values EXCEPT ![r] = v]
    BY <2>1, <2>3
  <2>5. TrailTypeOK'
    BY <1>1, <2>1, <2>4 DEF TrailTypeOK
  <2>6. /\ pc'[r] = "read" /\ names'[r] = n /\ values'[r] = v
        /\ query'[r] = query[r] /\ before'[r] = before[r] /\ seen'[r] = seen[r]
    BY <1>1, <2>1, <2>4 DEF TrailTypeOK
  <2>7. GoneInv(r)'
    BY <1>1, <2>1, <2>3, <2>6 DEF ReaderInv, GoneInv, Known
  <2>8. CompleteInv(r)'
    BY <1>1, <2>1, <2>3, <2>6 DEF ReaderInv, CompleteInv, Throughout
  <2>9. LatestInv(r)'
    BY <1>1, <2>1, <2>6 DEF ReaderInv, LatestInv
  <2>10. QED
    BY <1>1, <2>1, <2>4, <2>5, <2>7, <2>8, <2>9, OneReader DEF ReaderInv, TrailTypeOK
<1>4. QED
  BY <1>2, <1>3

-----------------------------------------------------------------------------
(* Answers                                                                 *)

\* A list that is answered is a page.
LEMMA ListAnswer ==
  ASSUME NEW q \in Query, q.op = "list", NEW s, NEW value \in Responses(q, s),
         value # Failed
  PROVE  value \in Newest(s, q.limit)
<1>1. Responses(q, s) = Listing(s, q.limit)
  BY DEF Responses
<1>2. QED
  BY <1>1 DEF Listing

\* The latest snapshot is one that was read and as new as all of them.
LEMMA LatestAnswer ==
  ASSUME NEW q \in Query, q.op = "latest", NEW s \in Seq(Object),
         NEW value \in Responses(q, s), value \notin {Failed, NotFound}
  PROVE  /\ value \in Range(s)
         /\ \A o \in Range(s) : value.at >= o.at
<1>1. Responses(q, s) = Latest(s, q.limit)
  BY DEF Responses
<1>2. s # <<>> /\ \E p \in Newest(s, q.limit) : value = p[1]
  BY <1>1 DEF Latest
<1>3. PICK p \in Newest(s, q.limit) : value = p[1]
  BY <1>2
<1>4. q.limit \in Nat \ {0}
  BY QueryFields
<1>5. QED
  BY <1>2, <1>3, <1>4, FirstIsNewest

\* The receipt that is found was read and has the name; if none is found,
\* none that was read has it.
LEMMA GetAnswer ==
  ASSUME NEW q \in Query, q.op = "get", NEW s \in Seq(Object),
         NEW value \in Responses(q, s), value # Failed
  PROVE  IF value = NotFound THEN \A o \in Range(s) : o.id # q.id
         ELSE value \in Range(s) /\ value.id = q.id
<1>1. value \in Find(s, q.id)
  BY DEF Responses
<1> DEFINE found == {i \in DOMAIN s : s[i].id = q.id}
<1>2. CASE found = {}
  <2>1. value = NotFound
    BY <1>1, <1>2 DEF Find
  <2>2. \A o \in Range(s) : o.id # q.id
    BY <1>2 DEF Range
  <2>3. QED
    BY <2>1, <2>2
<1>3. CASE found # {}
  <2>1. PICK i \in found : value = IF s[i].sealed THEN s[i] ELSE Failed
    BY <1>1, <1>3 DEF Find
  <2>2. value = s[i] /\ value \in Object
    BY <2>1
  <2>3. value \in Range(s) /\ value.id = q.id
    BY <2>1, <2>2 DEF Range
  <2>4. QED
    BY <2>2, <2>3, AnswerAssumption
<1>4. QED
  BY <1>2, <1>3

\* A request that is answered from these objects.
LEMMA RespondStep ==
  ASSUME TrailInv, NEW r \in Reader, pc[r] # "idle", NEW s \in Seq(Object),
         \A o \in Range(s) : /\ o.kind = query[r].kind
                             /\ o \in objects \/ o.created < clock,
         NEW value \in Responses(query[r], s), Respond(r, value),
         UNCHANGED <<clock, backend, objects>>
  PROVE  TrailInv'
<1>1. TrailTypeOK /\ Return(r, value)
  BY DEF TrailInv, Respond
<1>2. query[r] \in Query
  BY <1>1 DEF TrailTypeOK
<1>3. CASE query[r].op = "latest" /\ value \notin {Failed, NotFound}
  <2>1. seen' = [seen EXCEPT ![r] = value]
    BY <1>3 DEF Respond
  <2>2. value \in Range(s)
    BY <1>2, <1>3, LatestAnswer
  <2>3. value \in Object /\ value.kind = query[r].kind
    BY <2>2, RangeMember
  <2>4. query[r].kind = "snapshot"
    BY <1>2, <1>3, QueryFields
  <2>5. value \in objects \/ value.created < clock
    BY <2>2
  <2>6. QED
    BY <1>1, <2>1, <2>3, <2>4, <2>5, ReturnStep
<1>4. CASE ~(query[r].op = "latest" /\ value \notin {Failed, NotFound})
  <2>1. seen' = [seen EXCEPT ![r] = seen[r]]
    BY <1>4 DEF Respond
  <2>2. seen' = seen
    BY <1>1, <2>1 DEF TrailTypeOK
  <2>3. QED
    BY <1>1, <2>2, ReturnKeeps
<1>5. QED
  BY <1>3, <1>4

\* What a request is answered from: all it has read, or all there is.
LEMMA ConcludeSource ==
  ASSUME TrailInv, NEW r \in Reader, Conclude(r)
  PROVE  /\ pc[r] # "idle" /\ UNCHANGED <<clock, backend, objects>>
         /\ \E s \in Seq(Object) : \E value \in Responses(query[r], s) :
                /\ Respond(r, value)
                /\ \A o \in Throughout(r) : o.kind = query[r].kind => o \in Range(s)
                /\ \A o \in Range(s) : /\ o.kind = query[r].kind
                                       /\ o \in objects \/ o.created < clock
<1>1. /\ pc[r] = "read" /\ names[r] = <<>>
      /\ UNCHANGED <<clock, backend, objects>>
  BY DEF Conclude
<1>2. PICK value \in Responses(query[r], values[r]) : Respond(r, value)
  BY DEF Conclude
<1>3. values[r] \in Seq(Object) /\ CompleteInv(r) /\ GoneInv(r)
  BY DEF TrailInv, TrailTypeOK, ReaderInv
<1>4. Range(names[r]) = {}
  BY <1>1 DEF Range
<1>5. QED
  BY <1>1, <1>2, <1>3, <1>4 DEF CompleteInv, GoneInv, Known

\* The same for memory, where everything is read in one step.
LEMMA AtOnceSource ==
  ASSUME TrailInv, NEW r \in Reader, ReadAtOnce(r)
  PROVE  /\ pc[r] # "idle" /\ UNCHANGED <<clock, backend, objects>>
         /\ \E s \in Seq(Object) : \E value \in Responses(query[r], s) :
                /\ Respond(r, value)
                /\ \A o \in Throughout(r) : o.kind = query[r].kind => o \in Range(s)
                /\ \A o \in Range(s) : /\ o.kind = query[r].kind
                                       /\ o \in objects \/ o.created < clock
<1>1. pc[r] = "list" /\ UNCHANGED <<clock, backend, objects>>
  BY DEF ReadAtOnce
<1>2. PICK s \in SetToSeqs(Listed(r)) :
        \E value \in Responses(query[r], s) : Respond(r, value)
  BY DEF ReadAtOnce, Listed
<1>3. s \in Seq(Object) /\ Range(s) = Listed(r)
  BY ListedOrder DEF TrailInv
<1>4. QED
  BY <1>1, <1>2, <1>3 DEF Listed, Throughout

\* A request that is concluded is answered.
LEMMA AnsweredStep ==
  ASSUME TrailInv, NEW r \in Reader, Conclude(r) \/ ReadAtOnce(r)
  PROVE  TrailInv'
<1>1. PICK s \in Seq(Object) : \E value \in Responses(query[r], s) :
        /\ Respond(r, value)
        /\ \A o \in Range(s) : /\ o.kind = query[r].kind
                               /\ o \in objects \/ o.created < clock
  BY ConcludeSource, AtOnceSource
<1>2. PICK value \in Responses(query[r], s) : Respond(r, value)
  BY <1>1
<1>3. pc[r] # "idle" /\ UNCHANGED <<clock, backend, objects>>
  BY ConcludeSource, AtOnceSource
<1>4. QED
  BY <1>1, <1>2, <1>3, RespondStep

-----------------------------------------------------------------------------
(* The stored objects                                                      *)

\* What is stored changes by objects that are written now and objects that
\* were written earlier, and no reader takes part.
LEMMA WorldStep ==
  ASSUME TrailInv, UNCHANGED <<backend, readerVars>>,
         clock' \in Time, clock <= clock',
         objects' \subseteq Object, IsFiniteSet(objects'),
         \A a, b \in objects' : a.id = b.id => a = b,
         \A o \in objects' \ objects :
            /\ o.created = clock /\ clock' = clock
            /\ \A r \in Reader : o \notin before[r],
         \A o \in objects \ objects' : o.created < clock
  PROVE  TrailInv'
<1>1. TrailTypeOK /\ StoredInv
  BY DEF TrailInv
<1>2. clock \in Int /\ clock' \in Int
  BY <1>1, TimeType DEF TrailTypeOK
<1>3. TrailTypeOK'
  BY <1>1 DEF TrailTypeOK, readerVars
<1>4. StoredInv'
  <2>1. ASSUME NEW o \in objects'
        PROVE  o.created <= clock'
    <3>1. o.created \in Int
      BY ObjectAt
    <3>2. CASE o \in objects
      BY <1>1, <1>2, <3>1, <3>2 DEF StoredInv
    <3>3. CASE o \notin objects
      BY <1>2, <3>3
    <3>4. QED
      BY <3>2, <3>3
  <2>2. QED
    BY <2>1 DEF StoredInv
<1>5. ASSUME NEW r \in Reader
      PROVE  ReaderInv(r)'
  <2>1. ReaderInv(r)
    BY DEF TrailInv
  <2>2. Known(r) \subseteq Object /\ Known(r)' = Known(r)
    <3>1. names[r] \in Seq(Object) /\ values[r] \in Seq(Object)
      BY <1>1 DEF TrailTypeOK
    <3>2. Range(names[r]) \subseteq Object /\ Range(values[r]) \subseteq Object
      BY <3>1, RangeMember
    <3>3. before[r] \subseteq Object /\ seen[r] \in Object \cup {None}
      BY <1>1 DEF TrailTypeOK
    <3>4. QED
      BY <3>2, <3>3 DEF Known, readerVars
  <2>3. GoneInv(r)'
    <3>1. ASSUME NEW o \in Known(r), o \notin objects'
          PROVE  o.created < clock'
      <4>1. o.created \in Int
        BY <2>2, ObjectAt
      <4>2. o.created < clock
        BY <2>1, <3>1 DEF ReaderInv, GoneInv
      <4>3. QED
        BY <1>2, <4>1, <4>2
    <3>2. QED
      BY <2>2, <3>1 DEF GoneInv
  <2>4. Throughout(r)' \subseteq Throughout(r)
    BY DEF Throughout, readerVars
  <2>5. CompleteInv(r)'
    BY <2>1, <2>4 DEF ReaderInv, CompleteInv, readerVars
  <2>6. LatestInv(r)'
    <3>1. CASE seen[r] = None
      BY <3>1 DEF LatestInv, readerVars
    <3>2. CASE seen[r] # None
      <4>1. seen[r] \in Known(r)
        BY <3>2 DEF Known
      <4>2. seen[r] \in objects' => seen[r] \in objects
        <5>1. CASE seen[r] \in objects
          BY <5>1
        <5>2. CASE seen[r] \notin objects
          <6>1. seen[r].created < clock /\ seen[r].created \in Int
            BY <2>1, <2>2, <4>1, <5>2, ObjectAt DEF ReaderInv, GoneInv
          <6>2. QED
            BY <1>2, <5>2, <6>1
        <5>3. QED
          BY <5>1, <5>2
      <4>3. QED
        BY <2>1, <4>2 DEF ReaderInv, LatestInv, readerVars
    <3>3. QED
      BY <3>1, <3>2
  <2>7. QED
    BY <2>3, <2>5, <2>6 DEF ReaderInv
<1>6. QED
  BY <1>3, <1>4, <1>5 DEF TrailInv

\* An object that is written, under an identity that was never drawn.
LEMMA PutStep ==
  ASSUME TrailInv, NEW o \in Object, o.id \in FreshIDs, o.created = clock,
         objects' = objects \cup {o}, UNCHANGED <<clock, backend, readerVars>>
  PROVE  TrailInv'
<1>1. TrailTypeOK /\ StoredInv
  BY DEF TrailInv
<1>2. clock' \in Time /\ clock <= clock'
  BY <1>1, TimeType DEF TrailTypeOK
<1>3. \A x \in objects : x.id # o.id
  BY DEF FreshIDs
<1>4. \A r \in Reader : o \notin before[r]
  BY DEF FreshIDs
<1>5. IsFiniteSet(objects')
  BY <1>1, FS_AddElement DEF StoredInv
<1>6. objects' \subseteq Object
  BY <1>1 DEF TrailTypeOK
<1>7. \A a, b \in objects' : a.id = b.id => a = b
  BY <1>1, <1>3 DEF TrailTypeOK
<1>8. QED
  BY <1>2, <1>4, <1>5, <1>6, <1>7, WorldStep

\* The service writes a receipt.
LEMMA PutReceiptStep ==
  ASSUME TrailInv, PutReceipt
  PROVE  TrailInv'
<1>1. PICK id \in FreshIDs, at \in 0..clock :
        objects' = objects \cup {[kind |-> "receipt", id |-> id, at |-> at,
                                  created |-> clock, sealed |-> TRUE]}
  BY DEF PutReceipt
<1>2. clock \in Time /\ at \in Time
  BY BoundAssumption DEF TrailInv, TrailTypeOK, Time
<1>3. PICK o : o = [kind |-> "receipt", id |-> id, at |-> at,
                    created |-> clock, sealed |-> TRUE]
  OBVIOUS
<1>4. o \in Object /\ o.id \in FreshIDs /\ o.created = clock
  BY <1>2, <1>3 DEF Object, Kind, FreshIDs
<1>5. UNCHANGED <<clock, backend, readerVars>> /\ objects' = objects \cup {o}
  BY <1>1, <1>3 DEF PutReceipt
<1>6. QED
  BY <1>4, <1>5, PutStep

\* The collector writes a snapshot.
LEMMA PutSnapshotStep ==
  ASSUME TrailInv, PutSnapshot
  PROVE  TrailInv'
<1>1. PICK id \in FreshIDs, at \in 0..clock, sealed \in BOOLEAN :
        objects' = objects \cup {[kind |-> "snapshot", id |-> id, at |-> at,
                                  created |-> clock, sealed |-> sealed]}
  BY DEF PutSnapshot
<1>2. clock \in Time /\ at \in Time
  BY BoundAssumption DEF TrailInv, TrailTypeOK, Time
<1>3. PICK o : o = [kind |-> "snapshot", id |-> id, at |-> at,
                    created |-> clock, sealed |-> sealed]
  OBVIOUS
<1>4. o \in Object /\ o.id \in FreshIDs /\ o.created = clock
  BY <1>2, <1>3 DEF Object, Kind, FreshIDs
<1>5. UNCHANGED <<clock, backend, readerVars>> /\ objects' = objects \cup {o}
  BY <1>1, <1>3 DEF PutSnapshot
<1>6. QED
  BY <1>4, <1>5, PutStep

\* What expires was written at least one unit of time ago.
LEMMA ExpireStep ==
  ASSUME TrailInv, Expire
  PROVE  TrailInv'
<1>1. PICK o \in objects : clock - o.created >= Retention /\ objects' = objects \ {o}
  BY DEF Expire
<1>2. TrailTypeOK /\ StoredInv /\ UNCHANGED <<clock, backend, readerVars>>
  BY DEF TrailInv, Expire
<1>3. clock' \in Time /\ clock <= clock' /\ clock \in Int
  BY <1>2, TimeType DEF TrailTypeOK
<1>4. o \in Object /\ objects' \subseteq objects /\ objects \subseteq Object
  BY <1>1, <1>2 DEF TrailTypeOK
<1>5. o.created < clock
  BY <1>1, <1>3, <1>4, ObjectAt, BoundAssumption
<1>6. IsFiniteSet(objects')
  BY <1>2, <1>4, FS_Subset DEF StoredInv
<1>7. \A a, b \in objects' : a.id = b.id => a = b
  BY <1>2, <1>4 DEF TrailTypeOK
<1>8. \A x \in objects \ objects' : x.created < clock
  BY <1>1, <1>5
<1>9. QED
  BY <1>2, <1>3, <1>4, <1>6, <1>7, <1>8, WorldStep

\* Time passes: what was gone earlier stays so.
LEMMA TickStep ==
  ASSUME TrailInv, Tick
  PROVE  TrailInv'
<1>1. TrailTypeOK /\ StoredInv
  BY DEF TrailInv
<1>2. clock < MaxTime /\ clock' = clock + 1 /\ UNCHANGED <<backend, objects, readerVars>>
  BY DEF Tick
<1>3. clock' \in Time /\ clock <= clock'
  BY <1>1, <1>2, BoundAssumption DEF TrailTypeOK, Time
<1>4. QED
  BY <1>1, <1>2, <1>3, WorldStep DEF TrailTypeOK, StoredInv

-----------------------------------------------------------------------------
(* The invariant                                                           *)

\* A store that is empty, or seeded with one snapshot, and nobody reading.
LEMMA TrailInit == Init => TrailInv
<1> SUFFICES ASSUME Init
             PROVE  TrailInv
  OBVIOUS
<1>1. /\ objects \subseteq Object /\ IsFiniteSet(objects)
      /\ \A a, b \in objects : a = b /\ a.created = 0
  <2>1. CASE objects = {}
    BY <2>1, FS_EmptySet
  <2>2. CASE objects \in Seeded
    <3>1. PICK id \in ID : objects = {[kind |-> "snapshot", id |-> id, at |-> 0,
                                       created |-> 0, sealed |-> TRUE]}
      BY <2>2 DEF Seeded
    <3>2. PICK o : o = [kind |-> "snapshot", id |-> id, at |-> 0,
                        created |-> 0, sealed |-> TRUE]
      OBVIOUS
    <3>3. o \in Object /\ o.created = 0
      BY <3>2, TimeType DEF Object, Kind
    <3>4. objects = {o}
      BY <3>1, <3>2
    <3>5. QED
      BY <3>3, <3>4, FS_Singleton
  <2>3. QED
    BY <2>1, <2>2 DEF Init
<1>2. <<>> \in Seq(Object) /\ Range(<<>>) = {}
  BY DEF Range
<1>3. TrailTypeOK
  BY <1>1, <1>2, TimeType DEF Init, TrailTypeOK
<1>4. StoredInv
  BY <1>1 DEF StoredInv, Init
<1>5. ASSUME NEW r \in Reader
      PROVE  ReaderInv(r)
  <2>1. Known(r) = {}
    BY <1>2 DEF Known, Init
  <2>2. QED
    BY <2>1 DEF ReaderInv, GoneInv, CompleteInv, LatestInv, Init
<1>6. QED
  BY <1>3, <1>4, <1>5 DEF TrailInv

\* Every step preserves the invariant.
LEMMA TrailInvNext == TrailInv /\ [Next]_vars => TrailInv'
<1> SUFFICES ASSUME TrailInv, [Next]_vars
             PROVE  TrailInv'
  OBVIOUS
<1>1. ASSUME NEW r \in Reader,
             Begin(r) \/ List(r) \/ Read(r) \/ Conclude(r) \/ ReadAtOnce(r)
      PROVE  TrailInv'
  BY <1>1, BeginStep, ListStep, ReadStep, AnsweredStep
<1>2. CASE PutReceipt \/ PutSnapshot \/ Expire \/ Tick
  BY <1>2, PutReceiptStep, PutSnapshotStep, ExpireStep, TickStep
<1>3. CASE UNCHANGED vars
  BY <1>3 DEF vars, readerVars, TrailInv, TrailTypeOK, StoredInv, ReaderInv, GoneInv,
     Known, CompleteInv, LatestInv, Throughout
<1>4. QED
  BY <1>1, <1>2, <1>3 DEF Next

\* What a reader lists and reads, and what it was answered earlier, is what
\* was stored, and what is gone is never written again (gcs.go).
THEOREM TrailInvariance == Spec => []TrailInv
<1>1. QED
  BY TrailInit, TrailInvNext, PTL DEF Spec

\* Every variable has its type, and no identity is drawn twice.
THEOREM TrailTyped == Spec => []TrailTypeOK
<1>1. TrailInv => TrailTypeOK
  BY DEF TrailInv
<1>2. QED
  BY <1>1, TrailInvariance, PTL

-----------------------------------------------------------------------------
(* What a step may answer                                                  *)

\* A request ends because the store failed, because a name that was listed
\* is gone, or with an answer.
LEMMA EndStep ==
  ASSUME TrailInv, [Next]_vars, NEW r \in Reader, pc[r] # "idle", pc'[r] = "idle"
  PROVE  \/ answer'[r] = Failed
         \/ answer'[r] = NotFound /\ Range(names[r]) \ objects # {}
         \/ Conclude(r) \/ ReadAtOnce(r)
<1>1. TrailTypeOK
  BY DEF TrailInv
<1>2. PICK k \in Reader :
        Begin(k) \/ List(k) \/ Read(k) \/ Conclude(k) \/ ReadAtOnce(k)
  BY DEF Next, PutReceipt, PutSnapshot, Expire, Tick, vars, readerVars
<1>3. k = r
  BY <1>1, <1>2 DEF TrailTypeOK, Begin, List, Read, Conclude, ReadAtOnce, Respond, Return
<1>4. ASSUME NEW value, Return(r, value)
      PROVE  answer'[r] = value
  BY <1>1, <1>4 DEF TrailTypeOK, Return
<1>5. CASE Begin(r)
  BY <1>1, <1>5 DEF TrailTypeOK, Begin
<1>6. CASE List(r)
  <2>1. Return(r, Failed)
    BY <1>1, <1>6 DEF TrailTypeOK, List
  <2>2. QED
    BY <1>4, <2>1
<1>7. CASE Read(r)
  <2>1. \/ Return(r, Failed)
        \/ Return(r, NotFound) /\ names[r] # <<>> /\ Head(names[r]) \notin objects
    BY <1>7 DEF Read
  <2>2. names[r] # <<>> /\ Head(names[r]) \notin objects
           => Range(names[r]) \ objects # {}
    BY <1>1, RangeOfTail DEF TrailTypeOK
  <2>3. QED
    BY <1>4, <2>1, <2>2
<1>8. QED
  BY <1>2, <1>3, <1>5, <1>6, <1>7

\* The answer is made from objects among which is all that was stored
\* throughout.
LEMMA AnswerSource ==
  ASSUME TrailInv, NEW r \in Reader, Conclude(r) \/ ReadAtOnce(r)
  PROVE  /\ query[r] \in Query
         /\ \E s \in Seq(Object) :
                /\ answer'[r] \in Responses(query[r], s)
                /\ Respond(r, answer'[r])
                /\ \A o \in Throughout(r) : o.kind = query[r].kind => o \in Range(s)
<1>1. TrailTypeOK
  BY DEF TrailInv
<1>2. PICK s \in Seq(Object) : \E value \in Responses(query[r], s) :
        /\ Respond(r, value)
        /\ \A o \in Throughout(r) : o.kind = query[r].kind => o \in Range(s)
  BY ConcludeSource, AtOnceSource
<1>3. PICK value \in Responses(query[r], s) : Respond(r, value)
  BY <1>2
<1>4. answer'[r] = value
  BY <1>1, <1>3 DEF TrailTypeOK, Respond, Return
<1>5. query[r] \in Query
  BY <1>1, ConcludeSource, AtOnceSource DEF TrailTypeOK
<1>6. QED
  BY <1>2, <1>3, <1>4, <1>5

\* A list is in order and misses nothing that was stored all the while it was
\* made, unless it is full of what is at least as recent.
THEOREM ListIsWhole == Spec => ListHasNoGap
<1> DEFINE Step ==
      \A r \in Reader :
        (/\ pc[r] # "idle" /\ pc'[r] = "idle" /\ query[r].op = "list"
         /\ answer'[r] \notin {Failed, NotFound})
        => LET s == answer'[r]
           IN  /\ \A i \in 1..(Len(s) - 1) : s[i].at >= s[i + 1].at
               /\ \A o \in Throughout(r) : o.kind = query[r].kind =>
                    \/ o \in Range(s)
                    \/ /\ Len(s) = query[r].limit
                       /\ \A x \in Range(s) : x.at >= o.at
<1>1. ASSUME TrailInv, [Next]_vars PROVE Step
  <2> SUFFICES ASSUME NEW r \in Reader, pc[r] # "idle", pc'[r] = "idle",
                      query[r].op = "list", answer'[r] \notin {Failed, NotFound}
               PROVE  LET s == answer'[r]
                      IN  /\ \A i \in 1..(Len(s) - 1) : s[i].at >= s[i + 1].at
                          /\ \A o \in Throughout(r) : o.kind = query[r].kind =>
                               \/ o \in Range(s)
                               \/ /\ Len(s) = query[r].limit
                                  /\ \A x \in Range(s) : x.at >= o.at
    OBVIOUS
  <2>1. Conclude(r) \/ ReadAtOnce(r)
    BY <1>1, EndStep
  <2>2. PICK s \in Seq(Object) :
          /\ answer'[r] \in Responses(query[r], s)
          /\ \A o \in Throughout(r) : o.kind = query[r].kind => o \in Range(s)
    BY <1>1, <2>1, AnswerSource
  <2>3. query[r] \in Query
    BY <1>1, <2>1, AnswerSource
  <2>4. PICK limit \in Nat \ {0} : limit = query[r].limit
    BY <2>3, QueryFields
  <2>5. PICK q \in Newest(s, limit) : q = answer'[r]
    BY <2>2, <2>3, <2>4, ListAnswer
  <2>6. /\ q \in Seq(Object) /\ Descending(q)
        /\ \A o \in Range(s) :
              \/ o \in Range(q)
              \/ Len(q) = limit /\ \A x \in Range(q) : x.at >= o.at
    BY Paging
  <2>7. \A i \in 1..(Len(q) - 1) : q[i].at >= q[i + 1].at
    BY <2>6 DEF Descending
  <2>8. QED
    BY <2>2, <2>4, <2>5, <2>6, <2>7
<1>2. TrailInv /\ [Next]_vars => [Step]_vars
  BY <1>1
<1>3. QED
  BY <1>2, TrailInvariance, PTL DEF Spec, ListHasNoGap

\* The receipt that is answered is the one asked for, and one that was stored
\* all the while is missed only if another has expired under the listing.
THEOREM ReceiptIsRight == Spec => GetIsRight
<1> DEFINE Step ==
      \A r \in Reader :
        (/\ pc[r] # "idle" /\ pc'[r] = "idle" /\ query[r].op = "get"
         /\ answer'[r] # Failed)
        => IF answer'[r] = NotFound
           THEN \/ \A o \in Throughout(r) : <<o.kind, o.id>> # <<"receipt", query[r].id>>
                \/ Range(names[r]) \ objects # {}
           ELSE answer'[r].id = query[r].id
<1>1. ASSUME TrailInv, [Next]_vars PROVE Step
  <2> SUFFICES ASSUME NEW r \in Reader, pc[r] # "idle", pc'[r] = "idle",
                      query[r].op = "get", answer'[r] # Failed
               PROVE  IF answer'[r] = NotFound
                      THEN \/ \A o \in Throughout(r) :
                                <<o.kind, o.id>> # <<"receipt", query[r].id>>
                           \/ Range(names[r]) \ objects # {}
                      ELSE answer'[r].id = query[r].id
    OBVIOUS
  <2>1. CASE Conclude(r) \/ ReadAtOnce(r)
    <3>1. PICK s \in Seq(Object) :
            /\ answer'[r] \in Responses(query[r], s)
            /\ \A o \in Throughout(r) : o.kind = query[r].kind => o \in Range(s)
      BY <1>1, <2>1, AnswerSource
    <3>2. query[r] \in Query
      BY <1>1, <2>1, AnswerSource
    <3>3. query[r].kind = "receipt"
      BY <3>2, QueryFields
    <3>4. PICK value \in Responses(query[r], s) : value = answer'[r]
      BY <3>1
    <3>5. IF value = NotFound THEN \A o \in Range(s) : o.id # query[r].id
          ELSE value \in Range(s) /\ value.id = query[r].id
      BY <3>2, <3>4, GetAnswer
    <3>6. QED
      BY <3>1, <3>3, <3>4, <3>5
  <2>2. CASE ~(Conclude(r) \/ ReadAtOnce(r))
    BY <1>1, <2>2, EndStep
  <2>3. QED
    BY <2>1, <2>2
<1>2. TrailInv /\ [Next]_vars => [Step]_vars
  BY <1>1
<1>3. QED
  BY <1>2, TrailInvariance, PTL DEF Spec, GetIsRight

\* A client is never answered an older snapshot while the one it was answered
\* before is still stored.
THEOREM SnapshotIsNoOlder == Spec => SnapshotsMoveOn
<1> DEFINE Step ==
      \A r \in Reader :
        (seen[r] # None /\ seen[r] \in objects /\ seen'[r] # seen[r])
        => seen'[r].at >= seen[r].at
<1>1. ASSUME TrailInv, [Next]_vars PROVE Step
  <2> SUFFICES ASSUME NEW r \in Reader, seen[r] # None, seen[r] \in objects,
                      seen'[r] # seen[r]
               PROVE  seen'[r].at >= seen[r].at
    OBVIOUS
  <2>1. TrailTypeOK /\ LatestInv(r)
    BY <1>1 DEF TrailInv, ReaderInv
  <2>2. PICK k \in Reader : Conclude(k) \/ ReadAtOnce(k)
    BY <1>1 DEF Next, Begin, List, Read, PutReceipt, PutSnapshot, Expire, Tick, vars,
       readerVars
  <2>3. PICK s \in Seq(Object) :
          /\ answer'[k] \in Responses(query[k], s)
          /\ Respond(k, answer'[k])
          /\ \A o \in Throughout(k) : o.kind = query[k].kind => o \in Range(s)
    BY <1>1, <2>2, AnswerSource
  <2>4. PICK value : value = answer'[k]
    OBVIOUS
  <2>5. k = r /\ query[r].op = "latest" /\ value \notin {Failed, NotFound}
        /\ seen'[r] = value
    BY <2>1, <2>3, <2>4 DEF Respond, TrailTypeOK
  <2>6. query[r] \in Query
    BY <1>1, <2>2, <2>5, AnswerSource
  <2>7. pc[r] # "idle"
    BY <1>1, <2>2, <2>5, ConcludeSource, AtOnceSource
  <2>8. query[r].kind = "snapshot"
    BY <2>5, <2>6, QueryFields
  <2>9. seen[r] \in Throughout(r) /\ seen[r].kind = "snapshot"
    BY <2>1, <2>7 DEF LatestInv, Throughout
  <2>10. seen[r] \in Range(s)
    BY <2>3, <2>5, <2>8, <2>9
  <2>11. \A o \in Range(s) : value.at >= o.at
    BY <2>3, <2>4, <2>5, <2>6, LatestAnswer
  <2>12. QED
    BY <2>5, <2>10, <2>11
<1>2. TrailInv /\ [Next]_vars => [Step]_vars
  BY <1>1
<1>3. QED
  BY <1>2, TrailInvariance, PTL DEF Spec, SnapshotsMoveOn
=============================================================================
