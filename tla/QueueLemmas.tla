---------------------------- MODULE QueueLemmas ----------------------------
(***************************************************************************)
(* Queues as sequences: what joining and leaving one does to the data that *)
(* it holds, and what is left of a list when some of its places are kept.  *)
(* FirstPlace and LastPlace stand for induction over the places of a list. *)
(***************************************************************************)
EXTENDS Functions, Sublist, SequenceTheorems, FiniteSetTheorems, TLAPS

\* What a push does.
LEMMA Enqueue ==
  ASSUME NEW S, NEW q \in Seq(S), NEW e \in S
  PROVE  /\ Append(q, e) \in Seq(S)
         /\ Range(Append(q, e)) = Range(q) \cup {e}
<1>1. <<e>> \in Seq(S) /\ Append(q, e) = q \o <<e>> /\ Append(q, e) \in Seq(S)
  BY AppendIsConcat, AppendProperties
<1>2. Range(q \o <<e>>) = Range(q) \cup Range(<<e>>)
  BY <1>1, RangeConcatenation, Zenon
<1>3. Range(<<e>>) = {e}
  BY DEF Range
<1>4. QED
  BY <1>1, <1>2, <1>3

\* What the taking of a batch does.
LEMMA TakeFront ==
  ASSUME NEW S, NEW q \in Seq(S), NEW n \in Nat, n <= Len(q)
  PROVE  /\ SubSeq(q, 1, n) \in Seq(S)
         /\ SubSeq(q, n + 1, Len(q)) \in Seq(S)
         /\ Range(q) = Range(SubSeq(q, 1, n)) \cup Range(SubSeq(q, n + 1, Len(q)))
<1> DEFINE front == SubSeq(q, 1, n)
           rest == SubSeq(q, n + 1, Len(q))
<1>1. Len(q) \in Nat /\ \A i \in 1..Len(q) : q[i] \in S
  BY LenProperties, ElementOfSeq
<1>2. front \in Seq(S)
  BY <1>1, SubSeqProperties
<1>3. rest \in Seq(S)
  BY <1>1, SubSeqProperties
<1>4. q = front \o rest
  <2>1. /\ 1 \in 1..Len(q) + 1
        /\ n \in (1 - 1)..Len(q)
        /\ Len(q) \in n..Len(q)
    BY <1>1
  <2>2. front \o rest = SubSeq(q, 1, Len(q))
    BY <2>1, ConcatAdjacentSubSeq, Zenon
  <2>3. QED
    BY <2>2, SubSeqFull
<1>5. Range(front \o rest) = Range(front) \cup Range(rest)
  BY <1>2, <1>3, RangeConcatenation, Zenon
<1>6. QED
  BY <1>2, <1>3, <1>4, <1>5

\* What handling the first datum of a batch does.
LEMMA PopFront ==
  ASSUME NEW S, NEW q \in Seq(S), q # <<>>
  PROVE  /\ Head(q) \in S
         /\ Tail(q) \in Seq(S)
         /\ Range(q) = {Head(q)} \cup Range(Tail(q))
<1>1. Head(q) \in S /\ Tail(q) \in Seq(S)
  BY HeadTailProperties
<1>2. Len(q) \in Nat \ {0} /\ DOMAIN q = 1..Len(q) /\ Head(q) = q[1]
  BY LenProperties, EmptySeq
<1>3. Len(Tail(q)) = Len(q) - 1 /\ \A i \in 1..Len(Tail(q)) : Tail(q)[i] = q[i + 1]
  BY HeadTailProperties
<1>4. DOMAIN Tail(q) = 1..(Len(q) - 1)
  BY <1>1, <1>3, LenProperties
<1>5. \A i \in DOMAIN q : q[i] = Head(q) \/ \E j \in DOMAIN Tail(q) : q[i] = Tail(q)[j]
  <2> SUFFICES ASSUME NEW i \in DOMAIN q, i # 1
               PROVE  \E j \in DOMAIN Tail(q) : q[i] = Tail(q)[j]
    BY <1>2
  <2>1. i - 1 \in DOMAIN Tail(q) /\ Tail(q)[i - 1] = q[i]
    BY <1>2, <1>3, <1>4
  <2>2. QED
    BY <2>1
<1>6. \A j \in DOMAIN Tail(q) : \E i \in DOMAIN q : Tail(q)[j] = q[i]
  <2> TAKE j \in DOMAIN Tail(q)
  <2>1. j + 1 \in DOMAIN q /\ Tail(q)[j] = q[j + 1]
    BY <1>2, <1>3, <1>4
  <2>2. QED
    BY <2>1
<1>7. 1 \in DOMAIN q
  BY <1>2
<1>8. Head(q) \in Range(q) /\ Range(Tail(q)) \subseteq Range(q)
  BY <1>2, <1>6, <1>7 DEF Range
<1>9. Range(q) \subseteq {Head(q)} \cup Range(Tail(q))
  BY <1>5 DEF Range
<1>10. QED
  BY <1>1, <1>8, <1>9
-----------------------------------------------------------------------------
(***************************************************************************)
(* A datum is in one queue only, and there once.                           *)
(***************************************************************************)

\* No datum is in the queue twice.
Distinct(q) == \A i, j \in DOMAIN q : q[i] = q[j] => i = j

\* h is a family of queues; no two places of it hold the same datum.
Apart(h) ==
    \A p, q \in DOMAIN h : \A i \in DOMAIN h[p], j \in DOMAIN h[q] :
        h[p][i] = h[q][j] => p = q /\ i = j

\* The data in all queues of a family.
AllOf(h) == UNION {Range(h[p]) : p \in DOMAIN h}

\* How one step changes a family of queues: e joins the queue at p; the first
\* datum of p leaves; it joins the queue at q; or the first n data of p become
\* the content of q, an empty queue.
Elsewhere(h, h2, X) == \A r \in DOMAIN h : r \notin X => h2[r] = h[r]
Pushed(h, h2, p, e) ==
    DOMAIN h2 = DOMAIN h /\ h2[p] = Append(h[p], e) /\ Elsewhere(h, h2, {p})
Popped(h, h2, p) ==
    DOMAIN h2 = DOMAIN h /\ h[p] # <<>> /\ h2[p] = Tail(h[p]) /\ Elsewhere(h, h2, {p})
Shifted(h, h2, p, q) ==
    /\ DOMAIN h2 = DOMAIN h /\ p # q /\ h[p] # <<>>
    /\ h2[p] = Tail(h[p]) /\ h2[q] = Append(h[q], Head(h[p]))
    /\ Elsewhere(h, h2, {p, q})
Taken(h, h2, p, q, n) ==
    /\ DOMAIN h2 = DOMAIN h /\ p # q /\ h[q] = <<>> /\ n <= Len(h[p])
    /\ h2[q] = SubSeq(h[p], 1, n) /\ h2[p] = SubSeq(h[p], n + 1, Len(h[p]))
    /\ Elsewhere(h, h2, {p, q})

LEMMA EmptyIsDistinct == Distinct(<<>>) /\ Range(<<>>) = {}
<1>1. DOMAIN <<>> = {}
  BY EmptySeq
<1>2. QED
  BY <1>1 DEF Distinct, Range

LEMMA EnqueueDistinct ==
  ASSUME NEW S, NEW q \in Seq(S), NEW e \in S, Distinct(q), e \notin Range(q)
  PROVE  Distinct(Append(q, e))
<1>1. /\ Append(q, e) \in Seq(S) /\ Len(Append(q, e)) = Len(q) + 1
      /\ \A i \in 1..Len(q) : Append(q, e)[i] = q[i]
      /\ Append(q, e)[Len(q) + 1] = e
  BY AppendProperties
<1>2. DOMAIN q = 1..Len(q) /\ DOMAIN Append(q, e) = 1..(Len(q) + 1) /\ Len(q) \in Nat
  BY <1>1, LenProperties
<1>3. \A i \in DOMAIN q : q[i] # e
  BY DEF Range
<1>4. QED
  BY <1>1, <1>2, <1>3 DEF Distinct

LEMMA PopDistinct ==
  ASSUME NEW S, NEW q \in Seq(S), q # <<>>, Distinct(q)
  PROVE  Distinct(Tail(q)) /\ Head(q) \notin Range(Tail(q))
<1>1. Len(q) \in Nat \ {0} /\ DOMAIN q = 1..Len(q) /\ Head(q) = q[1]
  BY LenProperties, EmptySeq
<1>2. /\ Tail(q) \in Seq(S) /\ Len(Tail(q)) = Len(q) - 1
      /\ \A i \in 1..Len(Tail(q)) : Tail(q)[i] = q[i + 1]
  BY HeadTailProperties
<1>3. DOMAIN Tail(q) = 1..(Len(q) - 1)
  BY <1>2, LenProperties
<1>4. \A i \in DOMAIN Tail(q) : i \in Nat \ {0} /\ i + 1 \in DOMAIN q /\ Tail(q)[i] = q[i + 1]
  BY <1>1, <1>2, <1>3
<1>5. Distinct(Tail(q))
  <2> SUFFICES ASSUME NEW i \in DOMAIN Tail(q), NEW j \in DOMAIN Tail(q),
                      Tail(q)[i] = Tail(q)[j]
               PROVE  i = j
    BY DEF Distinct
  <2>1. i + 1 = j + 1
    BY <1>4 DEF Distinct
  <2>2. QED
    BY <2>1, <1>4
<1>6. ASSUME NEW i \in DOMAIN Tail(q), Tail(q)[i] = Head(q)
      PROVE  FALSE
  <2>1. i + 1 = 1
    BY <1>1, <1>4, <1>6 DEF Distinct
  <2>2. QED
    BY <2>1, <1>4
<1>7. QED
  BY <1>5, <1>6 DEF Range

\* What is behind the first n places of a list.
LEMMA RestOfList ==
  ASSUME NEW S, NEW q \in Seq(S), NEW n \in Nat, n <= Len(q)
  PROVE  /\ SubSeq(q, n + 1, Len(q)) \in Seq(S)
         /\ Len(SubSeq(q, n + 1, Len(q))) = Len(q) - n
         /\ \A i \in 1..(Len(q) - n) : SubSeq(q, n + 1, Len(q))[i] = q[i + n]
<1> DEFINE rest == SubSeq(q, n + 1, Len(q))
<1>1. Len(q) \in Nat /\ \A i \in 1..Len(q) : q[i] \in S
  BY LenProperties, ElementOfSeq
<1>2. n + 1 \in Int /\ \A i \in (n + 1)..Len(q) : q[i] \in S
  BY <1>1
<1>3. /\ rest \in Seq(S)
      /\ Len(rest) = IF n + 1 <= Len(q) THEN Len(q) - (n + 1) + 1 ELSE 0
      /\ \A i \in 1..(Len(q) - (n + 1) + 1) : rest[i] = q[(n + 1) + i - 1]
  BY <1>1, <1>2, SubSeqProperties
<1> HIDE DEF rest
<1>4. Len(rest) = Len(q) - n
  <2>1. Len(rest) = IF n + 1 <= Len(q) THEN Len(q) - (n + 1) + 1 ELSE 0
    BY <1>3
  <2>2. Len(q) \in Nat
    BY <1>1
  <2>3. QED
    BY <2>1, <2>2
<1>5. ASSUME NEW i \in 1..(Len(q) - n)
      PROVE  rest[i] = q[i + n]
  <2>1. i \in 1..(Len(q) - (n + 1) + 1) /\ (n + 1) + i - 1 = i + n
    BY <1>1
  <2>2. QED
    BY <1>3, <2>1
<1>6. QED
  BY <1>3, <1>4, <1>5 DEF rest

LEMMA FrontDistinct ==
  ASSUME NEW S, NEW q \in Seq(S), NEW n \in Nat, n <= Len(q), Distinct(q)
  PROVE  /\ Distinct(SubSeq(q, 1, n))
         /\ Distinct(SubSeq(q, n + 1, Len(q)))
         /\ Range(SubSeq(q, 1, n)) \cap Range(SubSeq(q, n + 1, Len(q))) = {}
<1> DEFINE front == SubSeq(q, 1, n)
           rest == SubSeq(q, n + 1, Len(q))
<1>1. Len(q) \in Nat /\ DOMAIN q = 1..Len(q) /\ \A i \in 1..Len(q) : q[i] \in S
  BY LenProperties, ElementOfSeq
<1>2. /\ front \in Seq(S) /\ Len(front) = n
      /\ \A i \in 1..n : front[i] = q[i]
  BY <1>1, SubSeqProperties
<1>3. /\ rest \in Seq(S) /\ Len(rest) = Len(q) - n
      /\ \A i \in 1..(Len(q) - n) : rest[i] = q[i + n]
  BY RestOfList
<1>4. DOMAIN front = 1..n /\ DOMAIN rest = 1..(Len(q) - n)
  BY <1>2, <1>3, LenProperties
<1> HIDE DEF front, rest
<1>5. \A i \in DOMAIN front : i \in DOMAIN q /\ i \in Nat /\ i <= n /\ front[i] = q[i]
  BY <1>1, <1>2, <1>4
<1>6. \A i \in DOMAIN rest : i \in Nat /\ i > 0 /\ i + n \in DOMAIN q /\ rest[i] = q[i + n]
  BY <1>1, <1>3, <1>4
<1>7. Distinct(front)
  BY <1>5 DEF Distinct
<1>8. Distinct(rest)
  <2> SUFFICES ASSUME NEW i \in DOMAIN rest, NEW j \in DOMAIN rest, rest[i] = rest[j]
               PROVE  i = j
    BY DEF Distinct
  <2>1. i + n = j + n
    BY <1>6 DEF Distinct
  <2>2. QED
    BY <2>1, <1>6
<1>9. ASSUME NEW i \in DOMAIN front, NEW j \in DOMAIN rest, front[i] = rest[j]
      PROVE  FALSE
  <2>1. i = j + n
    BY <1>5, <1>6, <1>9 DEF Distinct
  <2>2. QED
    BY <2>1, <1>5, <1>6
<1>10. Range(front) \cap Range(rest) = {}
  BY <1>9 DEF Range
<1>11. QED
  BY <1>7, <1>8, <1>10 DEF front, rest
-----------------------------------------------------------------------------
\* Apart, as the proofs about the queues' contents use it.
LEMMA ApartByRange ==
  ASSUME NEW h
  PROVE  Apart(h) <=> /\ \A p \in DOMAIN h : Distinct(h[p])
                      /\ \A p, q \in DOMAIN h : p # q => Range(h[p]) \cap Range(h[q]) = {}
<1>1. ASSUME Apart(h)
      PROVE  /\ \A p \in DOMAIN h : Distinct(h[p])
             /\ \A p, q \in DOMAIN h : p # q => Range(h[p]) \cap Range(h[q]) = {}
  <2>1. \A p \in DOMAIN h : Distinct(h[p])
    BY <1>1 DEF Apart, Distinct
  <2>2. ASSUME NEW p \in DOMAIN h, NEW q \in DOMAIN h, p # q, NEW e \in Range(h[p])
        PROVE  e \notin Range(h[q])
    <3>1. PICK i \in DOMAIN h[p] : h[p][i] = e
      BY DEF Range
    <3>2. \A j \in DOMAIN h[q] : h[q][j] # e
      BY <1>1, <2>2, <3>1 DEF Apart
    <3>3. QED
      BY <3>2 DEF Range
  <2>3. QED
    BY <2>1, <2>2
<1>2. ASSUME \A p \in DOMAIN h : Distinct(h[p]),
             \A p, q \in DOMAIN h : p # q => Range(h[p]) \cap Range(h[q]) = {}
      PROVE  Apart(h)
  <2> SUFFICES ASSUME NEW p \in DOMAIN h, NEW q \in DOMAIN h,
                      NEW i \in DOMAIN h[p], NEW j \in DOMAIN h[q], h[p][i] = h[q][j]
               PROVE  p = q /\ i = j
    BY DEF Apart
  <2>1. h[p][i] \in Range(h[p]) /\ h[q][j] \in Range(h[q])
    BY DEF Range
  <2>2. p = q
    BY <1>2, <2>1
  <2>3. QED
    BY <1>2, <2>2 DEF Distinct
<1>3. QED
  BY <1>1, <1>2

\* A datum that no queue has joins one.
LEMMA Arrives ==
  ASSUME NEW S, NEW P, NEW h \in [P -> Seq(S)], Apart(h),
         NEW p \in P, NEW e \in S, e \notin AllOf(h), NEW h2, Pushed(h, h2, p, e)
  PROVE  Apart(h2) /\ AllOf(h2) = AllOf(h) \cup {e}
<1>0. /\ DOMAIN h2 = P /\ h2[p] = Append(h[p], e)
      /\ \A q \in P : q # p => h2[q] = h[q]
  BY DEF Pushed, Elsewhere
<1>1. Range(h2[p]) = Range(h[p]) \cup {e}
  BY <1>0, Enqueue
<1>2. \A q \in P : e \notin Range(h[q])
  BY <1>0 DEF AllOf
<1>3. Distinct(h2[p])
  BY <1>0, <1>2, ApartByRange, EnqueueDistinct
<1>4. \A q \in P : Distinct(h2[q])
  BY <1>0, <1>3, ApartByRange
<1>5. \A q, r \in P : q # r => Range(h[q]) \cap Range(h[r]) = {}
  BY <1>0, ApartByRange
<1>6. \A q, r \in P : q # r => Range(h2[q]) \cap Range(h2[r]) = {}
  <2>1. ASSUME NEW q \in P, NEW r \in P, q # r, q # p
        PROVE  Range(h2[q]) \cap Range(h2[r]) = {}
    <3>1. Range(h2[q]) = Range(h[q])
      BY <1>0, <2>1
    <3>2. Range(h2[r]) \subseteq Range(h[r]) \cup {e}
      BY <1>0, <1>1
    <3>3. QED
      BY <1>0, <1>2, <1>5, <2>1, <3>1, <3>2
  <2>2. QED
    BY <1>0, <2>1
<1>7. Apart(h2)
  BY <1>0, <1>4, <1>6, ApartByRange
<1>8. AllOf(h2) = AllOf(h) \cup {e}
  BY <1>0, <1>1 DEF AllOf
<1>9. QED
  BY <1>0, <1>7, <1>8

\* The first datum of a queue leaves it.
LEMMA Leaves ==
  ASSUME NEW S, NEW P, NEW h \in [P -> Seq(S)], Apart(h),
         NEW p \in P, NEW h2, Popped(h, h2, p)
  PROVE  /\ Apart(h2)
         /\ Head(h[p]) \in S /\ Head(h[p]) \notin AllOf(h2)
         /\ AllOf(h) = AllOf(h2) \cup {Head(h[p])}
<1>0. /\ DOMAIN h2 = P /\ h[p] # <<>> /\ h2[p] = Tail(h[p])
      /\ \A q \in P : q # p => h2[q] = h[q]
  BY DEF Popped, Elsewhere
<1> DEFINE e == Head(h[p])
<1>1. e \in S /\ Range(h[p]) = {e} \cup Range(h2[p])
  BY <1>0, PopFront
<1>2. Distinct(h2[p]) /\ e \notin Range(h2[p])
  BY <1>0, ApartByRange, PopDistinct
<1> HIDE DEF e
<1>3. \A q \in P : Distinct(h2[q])
  BY <1>0, <1>2, ApartByRange
<1>4. \A q, r \in P : q # r => Range(h[q]) \cap Range(h[r]) = {}
  BY <1>0, ApartByRange
<1>5. \A q, r \in P : q # r => Range(h2[q]) \cap Range(h2[r]) = {}
  BY <1>0, <1>1, <1>4
<1>6. Apart(h2)
  BY <1>0, <1>3, <1>5, ApartByRange
<1>7. \A q \in P : e \notin Range(h2[q])
  BY <1>0, <1>1, <1>2, <1>4
<1>8. e \notin AllOf(h2) /\ AllOf(h) = AllOf(h2) \cup {e}
  BY <1>0, <1>1, <1>7 DEF AllOf
<1>9. QED
  BY <1>0, <1>1, <1>6, <1>8 DEF e

\* The first datum of one queue joins another.
LEMMA Moves ==
  ASSUME NEW S, NEW P, NEW h \in [P -> Seq(S)], Apart(h),
         NEW p \in P, NEW q \in P, NEW h2, Shifted(h, h2, p, q)
  PROVE  Apart(h2) /\ AllOf(h2) = AllOf(h)
<1>0. /\ DOMAIN h2 = P /\ p # q /\ h[p] # <<>>
      /\ h2[p] = Tail(h[p]) /\ h2[q] = Append(h[q], Head(h[p]))
      /\ \A r \in P : r # p /\ r # q => h2[r] = h[r]
  BY DEF Shifted, Elsewhere
<1> DEFINE e == Head(h[p])
<1>1. e \in S /\ Range(h[p]) = {e} \cup Range(h2[p])
  BY <1>0, PopFront
<1>2. Distinct(h2[p]) /\ e \notin Range(h2[p])
  BY <1>0, ApartByRange, PopDistinct
<1>3. Range(h2[q]) = Range(h[q]) \cup {e}
  BY <1>0, <1>1, Enqueue
<1>4. \A r, t \in P : r # t => Range(h[r]) \cap Range(h[t]) = {}
  BY <1>0, ApartByRange
<1>5. Distinct(h2[q])
  <2>1. e \notin Range(h[q]) /\ Distinct(h[q])
    BY <1>0, <1>1, <1>4, ApartByRange
  <2>2. QED
    BY <1>0, <1>1, <2>1, EnqueueDistinct
<1> HIDE DEF e
<1>6. \A r \in P : Distinct(h2[r])
  BY <1>0, <1>2, <1>5, ApartByRange
<1>7. \A r \in P : r # p /\ r # q => Range(h2[r]) = Range(h[r])
  BY <1>0
<1>8. \A r, t \in P : r # t => Range(h2[r]) \cap Range(h2[t]) = {}
  <2>1. ASSUME NEW r \in P, NEW t \in P, r # t, r # q
        PROVE  Range(h2[r]) \cap Range(h2[t]) = {}
    <3>1. e \notin Range(h2[r])
      BY <1>0, <1>1, <1>2, <1>4, <1>7, <2>1
    <3>2. Range(h2[r]) \subseteq Range(h[r]) /\ Range(h2[t]) \subseteq Range(h[t]) \cup {e}
      BY <1>0, <1>1, <1>3, <1>7, <2>1
    <3>3. QED
      BY <1>0, <1>4, <2>1, <3>1, <3>2
  <2>2. QED
    BY <1>0, <2>1
<1>9. Apart(h2)
  BY <1>0, <1>6, <1>8, ApartByRange
<1>10. AllOf(h2) = AllOf(h)
  BY <1>0, <1>1, <1>3, <1>7 DEF AllOf
<1>11. QED
  BY <1>0, <1>9, <1>10

\* The first data of one queue become the content of another, an empty one.
LEMMA Travels ==
  ASSUME NEW S, NEW P, NEW h \in [P -> Seq(S)], Apart(h),
         NEW p \in P, NEW q \in P, NEW n \in Nat, NEW h2, Taken(h, h2, p, q, n)
  PROVE  Apart(h2) /\ AllOf(h2) = AllOf(h)
<1>0. /\ DOMAIN h2 = P /\ p # q /\ h[q] = <<>> /\ n <= Len(h[p])
      /\ h2[q] = SubSeq(h[p], 1, n) /\ h2[p] = SubSeq(h[p], n + 1, Len(h[p]))
      /\ \A r \in P : r # p /\ r # q => h2[r] = h[r]
  BY DEF Taken, Elsewhere
<1>1. Range(h[p]) = Range(h2[q]) \cup Range(h2[p])
  BY <1>0, TakeFront
<1>2. Distinct(h2[q]) /\ Distinct(h2[p]) /\ Range(h2[q]) \cap Range(h2[p]) = {}
  BY <1>0, ApartByRange, FrontDistinct
<1>3. \A r \in P : Distinct(h2[r])
  BY <1>0, <1>2, ApartByRange
<1>4. \A r, t \in P : r # t => Range(h[r]) \cap Range(h[t]) = {}
  BY <1>0, ApartByRange
<1>5. Range(h[q]) = {} /\ \A r \in P : r # p /\ r # q => Range(h2[r]) = Range(h[r])
  BY <1>0, EmptyIsDistinct
<1>6. \A r, t \in P : r # t => Range(h2[r]) \cap Range(h2[t]) = {}
  <2>1. \A r \in P : r # p /\ r # q => Range(h2[r]) = Range(h[r])
    BY <1>0
  <2>2. \A r \in P : r = p \/ r = q => Range(h2[r]) \subseteq Range(h[p])
    BY <1>0, <1>1
  <2>3. ASSUME NEW r \in P, NEW t \in P, r # t, r # p, r # q
        PROVE  Range(h2[r]) \cap Range(h2[t]) = {}
    <3>1. Range(h2[r]) = Range(h[r])
      BY <1>0, <2>1, <2>3
    <3>2. Range(h2[t]) \subseteq Range(h[t]) \cup Range(h[p])
      BY <1>0, <2>1, <2>2
    <3>3. QED
      BY <1>0, <1>4, <2>3, <3>1, <3>2
  <2>4. ASSUME NEW r \in P, NEW t \in P, r # t, r = p \/ r = q, t = p \/ t = q
        PROVE  Range(h2[r]) \cap Range(h2[t]) = {}
    BY <1>2, <2>4
  <2>5. ASSUME NEW r \in P, NEW t \in P, r # t
        PROVE  Range(h2[r]) \cap Range(h2[t]) = {}
    <3>1. CASE r # p /\ r # q
      BY <2>3, <2>5, <3>1
    <3>2. CASE t # p /\ t # q
      <4>1. Range(h2[t]) \cap Range(h2[r]) = {}
        BY <2>3, <2>5, <3>2
      <4>2. QED
        BY <4>1
    <3>3. QED
      BY <2>4, <2>5, <3>1, <3>2
  <2>6. QED
    BY <2>5
<1>7. Apart(h2)
  BY <1>0, <1>3, <1>6, ApartByRange
<1>8. AllOf(h2) = AllOf(h)
  BY <1>0, <1>1, <1>5 DEF AllOf
<1>9. QED
  BY <1>0, <1>7, <1>8

LEMMA EmptyIsApart ==
  ASSUME NEW h, AllOf(h) = {}
  PROVE  Apart(h)
  BY DEF AllOf, Range, Apart
-----------------------------------------------------------------------------
(***************************************************************************)
(* A list of which some places are kept.                                   *)
(***************************************************************************)
Rank(places, i) == Cardinality({j \in places : j <= i})

\* Places are numbered by their rank: Nth and Rank are each other's inverse.
LEMMA Ranked ==
  ASSUME NEW n \in Nat, NEW places \in SUBSET (1..n)
  PROVE  /\ IsFiniteSet(places) /\ Cardinality(places) \in Nat
         /\ \A k \in 1..Cardinality(places) :
                Nth(places, k) \in places /\ Rank(places, Nth(places, k)) = k
         /\ \A i \in places :
                Rank(places, i) \in 1..Cardinality(places) /\ Nth(places, Rank(places, i)) = i
<1> DEFINE upto(i) == {j \in places : j <= i}
           card == Cardinality(places)
           rank == [i \in places |-> Cardinality(upto(i))]
<1>1. IsFiniteSet(places) /\ card \in Nat
  <2>1. IsFiniteSet(1..n)
    BY FS_Interval
  <2>2. IsFiniteSet(places)
    BY <2>1, FS_Subset
  <2>3. QED
    BY <2>2, FS_CardinalityType
<1>2. \A i \in places : i \in Nat
  OBVIOUS
<1>3. ASSUME NEW i \in places
      PROVE  /\ IsFiniteSet(upto(i)) /\ Cardinality(upto(i)) \in Nat
             /\ Cardinality(upto(i)) <= card /\ Cardinality(upto(i)) # 0
  <2>1. upto(i) \in SUBSET places /\ i \in upto(i)
    BY <1>2
  <2> HIDE DEF upto
  <2>2. IsFiniteSet(upto(i)) /\ Cardinality(upto(i)) <= card
    BY <1>1, <2>1, FS_Subset
  <2>3. Cardinality(upto(i)) \in Nat /\ Cardinality(upto(i)) # 0
    BY <2>1, <2>2, FS_CardinalityType, FS_EmptySet
  <2>4. QED
    BY <2>2, <2>3
<1>4. ASSUME NEW i \in places, NEW j \in places, i < j
      PROVE  Cardinality(upto(i)) # Cardinality(upto(j))
  <2>1. upto(i) \in SUBSET upto(j) /\ j \in upto(j) /\ j \notin upto(i)
    <3>1. i \in Nat /\ j \in Nat
      BY <1>2
    <3>2. \A l \in places : l <= i => l <= j
      BY <1>2, <1>4, <3>1
    <3>3. j <= j /\ ~(j <= i)
      BY <1>4, <3>1
    <3>4. QED
      BY <3>2, <3>3
  <2> HIDE DEF upto
  <2>2. QED
    BY <1>3, <2>1, FS_Subset
<1>5. rank \in [places -> 1..card]
  BY <1>1, <1>3
<1>6. \A i, j \in places : rank[i] = rank[j] => i = j
  <2> SUFFICES ASSUME NEW i \in places, NEW j \in places, i # j
               PROVE  rank[i] # rank[j]
    OBVIOUS
  <2>1. i < j \/ j < i
    BY <1>2
  <2>2. QED
    BY <1>4, <2>1
<1>7. rank \in Injection(places, 1..card)
  BY <1>5, <1>6 DEF Injection, IsInjective
<1>8. IsFiniteSet(1..card) /\ Cardinality(1..card) = card
  BY <1>1, FS_Interval
<1>9. rank \in Surjection(places, 1..card)
  BY <1>7, <1>8, FS_Injection
<1>10. \A i \in places : rank[i] = Cardinality({j \in places : j <= i})
  OBVIOUS
<1> HIDE DEF rank
<1>11. ASSUME NEW k \in 1..card
       PROVE  Nth(places, k) \in places /\ rank[Nth(places, k)] = k
  <2>1. \E i \in places : Cardinality({j \in places : j <= i}) = k
    BY <1>9, <1>10 DEF Surjection
  <2>2. /\ Nth(places, k) \in places
        /\ Cardinality({j \in places : j <= Nth(places, k)}) = k
    BY <2>1 DEF Nth
  <2>3. QED
    BY <1>10, <2>2
<1>12. ASSUME NEW i \in places
       PROVE  rank[i] \in 1..card /\ Nth(places, rank[i]) = i
  <2>1. rank[i] \in 1..card
    BY <1>5
  <2>2. Nth(places, rank[i]) = i
    BY <1>6, <1>11, <2>1
  <2>3. QED
    BY <2>1, <2>2
<1>13. \A i \in places : rank[i] = Rank(places, i)
  BY <1>10 DEF Rank
<1>14. QED
  BY <1>1, <1>11, <1>12, <1>13

\* Each of the places has a number, and every number up to their count is of
\* one place.
LEMMA Numbered ==
  ASSUME NEW n \in Nat, NEW places \in SUBSET (1..n)
  PROVE  /\ Cardinality(places) \in Nat
         /\ \A k \in 1..Cardinality(places) :
                /\ Nth(places, k) \in places
                /\ \A l \in 1..Cardinality(places) : Nth(places, k) = Nth(places, l) => k = l
         /\ \A i \in places : \E k \in 1..Cardinality(places) : Nth(places, k) = i
  BY Ranked

LEMMA KeptType ==
  ASSUME NEW S, NEW s \in Seq(S), NEW P \in SUBSET (1..Len(s))
  PROVE  /\ KeptAt(s, P) \in Seq(S)
         /\ Len(KeptAt(s, P)) = Cardinality(P)
         /\ Range(KeptAt(s, P)) \subseteq Range(s)
<1>1. Len(s) \in Nat /\ DOMAIN s = 1..Len(s)
  BY LenProperties
<1>2. Cardinality(P) \in Nat /\ \A k \in 1..Cardinality(P) : Nth(P, k) \in P
  BY <1>1, Numbered
<1>3. \A i \in P : i \in DOMAIN s /\ s[i] \in S /\ s[i] \in Range(s)
  BY <1>1, ElementOfSeq DEF Range
<1>4. KeptAt(s, P) \in [1..Cardinality(P) -> S]
  BY <1>2, <1>3 DEF KeptAt
<1>5. KeptAt(s, P) \in Seq(S) /\ Len(KeptAt(s, P)) = Cardinality(P)
  BY <1>2, <1>4, SeqDef
<1>6. Range(KeptAt(s, P)) \subseteq Range(s)
  BY <1>2, <1>3 DEF KeptAt, Range
<1>7. QED
  BY <1>5, <1>6

LEMMA KeptNone == ASSUME NEW S, NEW s \in Seq(S) PROVE KeptAt(s, {}) = <<>>
<1>1. Len(s) \in Nat
  BY LenProperties
<1>2. KeptAt(s, {}) \in Seq(S) /\ Len(KeptAt(s, {})) = 0
  BY <1>1, KeptType, FS_EmptySet
<1>3. QED
  BY <1>2, EmptySeq

\* A list that grows at its end, whether the new place is kept or not.
LEMMA KeptAppend ==
  ASSUME NEW S, NEW s \in Seq(S), NEW e \in S, NEW P \in SUBSET (1..Len(s))
  PROVE  /\ KeptAt(Append(s, e), P) = KeptAt(s, P)
         /\ KeptAt(Append(s, e), P \cup {Len(s) + 1}) = Append(KeptAt(s, P), e)
<1> DEFINE n == Len(s)
           c == Cardinality(P)
           Q == P \cup {n + 1}
<1>1. /\ n \in Nat /\ DOMAIN s = 1..n
      /\ Append(s, e) \in Seq(S) /\ Len(Append(s, e)) = n + 1
      /\ \A i \in 1..n : Append(s, e)[i] = s[i]
      /\ Append(s, e)[n + 1] = e
  BY LenProperties, AppendProperties
<1> HIDE DEF n
<1>2. P \in SUBSET (1..n)
  BY DEF n
<1>3. /\ IsFiniteSet(P) /\ c \in Nat
      /\ \A k \in 1..c : Nth(P, k) \in P /\ Rank(P, Nth(P, k)) = k
  BY <1>1, <1>2, Ranked
<1>4. /\ Q \in SUBSET (1..(n + 1))
      /\ \A i \in Q : Nth(Q, Rank(Q, i)) = i
  <2>1. Q \in SUBSET (1..(n + 1)) /\ n + 1 \in Nat
    BY <1>1, <1>2
  <2>2. QED
    BY <2>1, Ranked
<1>5. n + 1 \notin P
  BY <1>1, <1>2
<1>6. Cardinality(Q) = c + 1
  BY <1>3, <1>5, FS_AddElement
<1>7. \A i \in P : Rank(Q, i) = Rank(P, i)
  <2> SUFFICES ASSUME NEW i \in P PROVE Rank(Q, i) = Rank(P, i)
    OBVIOUS
  <2>1. {j \in Q : j <= i} = {j \in P : j <= i}
    BY <1>1, <1>2
  <2>2. QED
    BY <2>1 DEF Rank
<1>8. Rank(Q, n + 1) = c + 1
  <2>1. {j \in Q : j <= n + 1} = Q
    <3>1. \A j \in Q : j <= n + 1
      BY <1>1, <1>4
    <3>2. QED
      BY <3>1, Zenon
  <2>2. QED
    BY <1>6, <2>1 DEF Rank
<1>9. /\ \A k \in 1..c : Nth(Q, k) = Nth(P, k)
      /\ Nth(Q, c + 1) = n + 1
  <2>1. \A k \in 1..c : Nth(P, k) \in Q /\ Rank(Q, Nth(P, k)) = k
    BY <1>3, <1>7
  <2>2. n + 1 \in Q
    OBVIOUS
  <2>3. QED
    BY <1>4, <1>8, <2>1, <2>2
<1> HIDE DEF c, Q
<1>10. KeptAt(Append(s, e), P) = KeptAt(s, P)
  <2>1. \A k \in 1..c : Append(s, e)[Nth(P, k)] = s[Nth(P, k)]
    BY <1>1, <1>2, <1>3
  <2>2. QED
    BY <2>1 DEF KeptAt, c
<1>11. KeptAt(Append(s, e), Q) = Append(KeptAt(s, P), e)
  <2> DEFINE a == KeptAt(Append(s, e), Q)
             b == KeptAt(s, P)
  <2>1. a \in Seq(S) /\ Len(a) = c + 1
    BY <1>1, <1>4, <1>6, KeptType
  <2>2. b \in Seq(S) /\ Len(b) = c
    BY <1>2, KeptType DEF n, c
  <2>3. \A k \in 1..(c + 1) : a[k] = Append(s, e)[Nth(Q, k)]
    BY <1>6 DEF KeptAt
  <2>4. \A k \in 1..c : b[k] = s[Nth(P, k)]
    BY DEF KeptAt, c
  <2> HIDE DEF a, b
  <2>5. /\ Append(b, e) \in Seq(S) /\ Len(Append(b, e)) = c + 1
        /\ \A k \in 1..c : Append(b, e)[k] = b[k]
        /\ Append(b, e)[c + 1] = e
    BY <2>2, AppendProperties
  <2>6. \A k \in 1..c : a[k] = Append(b, e)[k]
    <3>1. ASSUME NEW k \in 1..c
          PROVE  Nth(Q, k) = Nth(P, k) /\ Nth(P, k) \in 1..n /\ k \in 1..(c + 1)
      <4>1. Nth(P, k) \in 1..n
        BY <1>2, <1>3
      <4>2. k \in 1..(c + 1)
        BY <1>3
      <4>3. QED
        BY <1>9, <4>1, <4>2
    <3>2. QED
      BY <1>1, <2>3, <2>4, <2>5, <3>1
  <2>7. a[c + 1] = Append(b, e)[c + 1]
    BY <1>1, <1>3, <1>9, <2>3, <2>5
  <2>8. \A k \in 1..(c + 1) : k \in 1..c \/ k = c + 1
    BY <1>3
  <2>9. \A k \in 1..Len(a) : a[k] = Append(b, e)[k]
    BY <2>1, <2>6, <2>7, <2>8
  <2>10. a = Append(b, e)
    BY <2>1, <2>5, <2>9, SeqEqual
  <2>11. QED
    BY <2>10 DEF a, b
<1>12. QED
  BY <1>10, <1>11 DEF Q, n

\* Two sets of numbers of which one is the other moved up by one.
LEMMA MovedUp ==
  ASSUME NEW A, IsFiniteSet(A), \A i \in A : i \in Nat, NEW B,
         \A i \in A : i + 1 \in B, \A j \in B : \E i \in A : j = i + 1
  PROVE  IsFiniteSet(B) /\ Cardinality(B) = Cardinality(A)
<1> DEFINE f == [i \in A |-> i + 1]
<1>1. f \in [A -> B]
  OBVIOUS
<1>2. \A i, j \in A : f[i] = f[j] => i = j
  OBVIOUS
<1>3. \A j \in B : \E i \in A : f[i] = j
  OBVIOUS
<1> HIDE DEF f
<1>4. f \in Bijection(A, B)
  BY <1>1, <1>2, <1>3 DEF Bijection, Injection, IsInjective, Surjection
<1>5. ExistsBijection(A, B)
  BY <1>4 DEF ExistsBijection
<1>6. QED
  BY <1>5, FS_Bijection

\* A list that grows at its front: the old places move up by one.
Behind(P, n) == {i \in 1..n : i + 1 \in P}

LEMMA KeptCons ==
  ASSUME NEW S, NEW t \in Seq(S), NEW e \in S, NEW P \in SUBSET (1..(Len(t) + 1))
  PROVE  KeptAt(<<e>> \o t, P) =
           IF 1 \in P THEN <<e>> \o KeptAt(t, Behind(P, Len(t))) ELSE KeptAt(t, Behind(P, Len(t)))
<1> DEFINE n == Len(t)
           s == <<e>> \o t
           Q == Behind(P, n)
           c == Cardinality(Q)
           one == IF 1 \in P THEN 1 ELSE 0
<1>1. /\ n \in Nat /\ s \in Seq(S) /\ Len(s) = n + 1
      /\ s[1] = e /\ \A i \in 1..n : s[i + 1] = t[i]
  <2>1. n \in Nat
    BY LenProperties
  <2>2. <<e>> \in Seq(S) /\ Len(<<e>>) = 1 /\ <<e>>[1] = e
    OBVIOUS
  <2>3. /\ s \in Seq(S) /\ Len(s) = 1 + n
        /\ \A i \in 1..(1 + n) : s[i] = IF i <= 1 THEN <<e>>[i] ELSE t[i - 1]
    BY <2>2, ConcatProperties
  <2> HIDE DEF n, s
  <2>4. QED
    BY <2>1, <2>2, <2>3
<1>2. P \in SUBSET (1..(n + 1)) /\ n + 1 \in Nat
  BY <1>1
<1> HIDE DEF n, s
<1>3. Q \in SUBSET (1..n) /\ \A i \in Nat : i \in Q <=> i # 0 /\ i + 1 \in P
  BY <1>1, <1>2 DEF Behind
<1>4. \A j \in P : j = 1 \/ (j - 1 \in Q /\ j = (j - 1) + 1)
  BY <1>1, <1>2, <1>3
<1>5. /\ IsFiniteSet(Q) /\ c \in Nat
      /\ \A k \in 1..c : Nth(Q, k) \in Q /\ Rank(Q, Nth(Q, k)) = k
  BY <1>1, <1>3, Ranked
<1>6. \A i \in P : Nth(P, Rank(P, i)) = i
  BY <1>2, Ranked
<1> HIDE DEF Q
\* The places behind the first, up to some place.
<1>7. ASSUME NEW X, NEW Y, IsFiniteSet(X), X \in SUBSET Q, \A i \in X : i + 1 \in Y,
             \A j \in Y : j \in P /\ (j # 1 => j - 1 \in X), 1 \in P => 1 \in Y
      PROVE  Cardinality(Y) = Cardinality(X) + one
  <2> DEFINE B == Y \ {1}
  <2>1. \A i \in X : i \in Nat /\ i # 0
    BY <1>1, <1>3, <1>7
  <2>2. \A i \in X : i + 1 \in B
    BY <1>7, <2>1
  <2>3. \A j \in B : \E i \in X : j = i + 1
    <3> SUFFICES ASSUME NEW j \in B PROVE \E i \in X : j = i + 1
      OBVIOUS
    <3>1. j \in P /\ j - 1 \in X
      BY <1>7
    <3>2. j = (j - 1) + 1
      BY <1>2, <3>1
    <3>3. QED
      BY <3>1, <3>2
  <2>4. IsFiniteSet(B) /\ Cardinality(B) = Cardinality(X)
    BY <1>7, <2>1, <2>2, <2>3, MovedUp
  <2>5. CASE 1 \in P
    <3>1. Y = B \cup {1} /\ 1 \notin B
      BY <1>7, <2>5
    <3>2. QED
      BY <2>4, <2>5, <3>1, FS_AddElement
  <2>6. CASE 1 \notin P
    <3>1. Y = B
      BY <1>7, <2>6
    <3>2. Cardinality(Y) = Cardinality(X)
      BY <2>4, <3>1
    <3>3. Cardinality(X) \in Nat /\ one = 0
      BY <1>7, <2>6, FS_CardinalityType
    <3> HIDE DEF one
    <3>4. QED
      BY <3>2, <3>3
  <2>7. QED
    BY <2>5, <2>6
<1>8. Cardinality(P) = c + one
  <2>1. Q \in SUBSET Q /\ (\A i \in Q : i + 1 \in P) /\ (\A j \in P : j # 1 => j - 1 \in Q)
    BY <1>1, <1>3, <1>4
  <2>2. QED
    BY <1>5, <1>7, <2>1
<1>9. ASSUME NEW i \in Q
      PROVE  Rank(P, i + 1) = Rank(Q, i) + one
  <2> DEFINE X == {j \in Q : j <= i}
             Y == {j \in P : j <= i + 1}
  <2>1. i \in Nat /\ i # 0
    BY <1>1, <1>3
  <2>2. IsFiniteSet(X) /\ X \in SUBSET Q
    BY <1>5, FS_Subset
  <2>3. ASSUME NEW j \in X
        PROVE  j + 1 \in Y
    <3>1. j \in Q /\ j <= i
      OBVIOUS
    <3>2. j \in Nat /\ j + 1 \in P
      BY <1>1, <1>3, <3>1
    <3>3. j + 1 <= i + 1
      BY <2>1, <3>1, <3>2
    <3>4. QED
      BY <3>2, <3>3
  <2>4. \A j \in Y : j \in P /\ (j # 1 => j - 1 \in X)
    BY <1>2, <1>4, <2>1
  <2>5. 1 \in P => 1 \in Y
    BY <2>1
  <2> HIDE DEF X, Y
  <2>6. Cardinality(Y) = Cardinality(X) + one
    BY <1>7, <2>2, <2>3, <2>4, <2>5
  <2>7. QED
    BY <2>6 DEF Rank, X, Y
<1>10. \A k \in 1..c : Nth(P, k + one) = Nth(Q, k) + 1
  <2> TAKE k \in 1..c
  <2>1. Nth(Q, k) \in Q /\ Rank(Q, Nth(Q, k)) = k
    BY <1>5
  <2>2. Nth(Q, k) + 1 \in P
    BY <1>1, <1>3, <2>1
  <2>3. Rank(P, Nth(Q, k) + 1) = k + one
    BY <1>9, <2>1
  <2>4. QED
    BY <1>6, <2>2, <2>3
<1>11. 1 \in P => Nth(P, 1) = 1
  <2> SUFFICES ASSUME 1 \in P PROVE Nth(P, 1) = 1
    OBVIOUS
  <2>1. {j \in P : j <= 1} = {1}
    <3>1. \A j \in P : j <= 1 => j = 1
      BY <1>1, <1>2
    <3>2. 1 <= 1
      OBVIOUS
    <3>3. QED
      BY <3>1, <3>2
  <2>2. Rank(P, 1) = 1
    BY <2>1, FS_Singleton DEF Rank
  <2>3. QED
    BY <1>6, <2>2
<1> DEFINE a == KeptAt(s, P)
           b == KeptAt(t, Q)
<1>12. a \in Seq(S) /\ Len(a) = c + one /\ \A k \in 1..(c + one) : a[k] = s[Nth(P, k)]
  <2>1. a \in Seq(S) /\ Len(a) = c + one
    BY <1>1, <1>2, <1>8, KeptType
  <2>2. QED
    BY <1>8, <2>1 DEF KeptAt
<1>13. b \in Seq(S) /\ Len(b) = c /\ \A k \in 1..c : b[k] = t[Nth(Q, k)]
  <2>1. b \in Seq(S) /\ Len(b) = c
    BY <1>3, KeptType DEF n
  <2>2. QED
    BY <2>1 DEF KeptAt
<1> HIDE DEF a, b, c
<1>14. \A k \in 1..c : a[k + one] = b[k]
  <2> TAKE k \in 1..c
  <2>1. k + one \in 1..(c + one)
    BY <1>5
  <2>2. Nth(Q, k) \in 1..n
    BY <1>3, <1>5
  <2>3. a[k + one] = s[Nth(Q, k) + 1]
    BY <1>10, <1>12, <2>1
  <2>4. QED
    BY <1>1, <1>13, <2>2, <2>3
<1>15. CASE 1 \in P
  <2> DEFINE eb == <<e>> \o b
  <2>1. <<e>> \in Seq(S) /\ Len(<<e>>) = 1 /\ <<e>>[1] = e
    OBVIOUS
  <2>2. /\ eb \in Seq(S) /\ Len(eb) = 1 + c
        /\ \A k \in 1..(1 + c) : eb[k] = IF k <= 1 THEN <<e>>[k] ELSE b[k - 1]
    BY <1>13, <2>1, ConcatProperties
  <2> HIDE DEF eb
  <2>3. a[1] = e
    BY <1>1, <1>5, <1>11, <1>12, <1>15
  <2>4. ASSUME NEW k \in 1..Len(a)
        PROVE  a[k] = eb[k]
    <3>1. k \in 1..(1 + c) /\ Len(a) = 1 + c
      BY <1>5, <1>12, <1>15
    <3>2. CASE k = 1
      BY <2>1, <2>2, <2>3, <3>1, <3>2
    <3>3. CASE k # 1
      <4>1. k - 1 \in 1..c /\ k = (k - 1) + 1 /\ ~(k <= 1)
        BY <1>5, <3>1, <3>3
      <4>2. a[(k - 1) + 1] = b[k - 1]
        BY <1>14, <1>15, <4>1
      <4>3. QED
        BY <2>2, <3>1, <4>1, <4>2
    <3>4. QED
      BY <3>2, <3>3
  <2>5. Len(a) = Len(eb)
    BY <1>5, <1>12, <1>15, <2>2
  <2>6. a = eb
    BY <1>12, <2>2, <2>4, <2>5, SeqEqual
  <2>7. QED
    BY <1>15, <2>6 DEF a, b, s, Q, n, eb
<1>16. CASE 1 \notin P
  <2>1. Len(a) = Len(b)
    BY <1>5, <1>12, <1>13, <1>16
  <2>2. ASSUME NEW k \in 1..Len(a)
        PROVE  a[k] = b[k]
    <3>1. k \in 1..c /\ k + 0 = k
      BY <1>5, <1>13, <2>1
    <3>2. QED
      BY <1>14, <1>16, <3>1
  <2>3. a = b
    BY <1>12, <1>13, <2>1, <2>2, SeqEqual
  <2>4. QED
    BY <1>16, <2>3 DEF a, b, s, Q, n
<1>17. QED
  BY <1>15, <1>16

\* One element put in front of a list whose elements are in a smaller set.
LEMMA Prepend ==
  ASSUME NEW S, NEW T \in SUBSET S, NEW e \in S, NEW s \in Seq(T)
  PROVE  /\ <<e>> \o s \in Seq(S)
         /\ Len(<<e>> \o s) = 1 + Len(s)
         /\ (<<e>> \o s)[1] = e
         /\ \A i \in 2..(1 + Len(s)) : (<<e>> \o s)[i] \in T
<1> DEFINE l == <<e>> \o s
<1>1. Len(s) \in Nat /\ s \in [1..Len(s) -> T]
  BY LenProperties
<1>2. s \in Seq(S)
  <2>1. s \in [1..Len(s) -> S]
    BY <1>1
  <2>2. QED
    BY <1>1, <2>1, SeqDef
<1>3. <<e>> \in Seq(S) /\ Len(<<e>>) = 1 /\ <<e>>[1] = e
  OBVIOUS
<1>4. /\ l \in Seq(S) /\ Len(l) = 1 + Len(s)
      /\ \A i \in 1..(1 + Len(s)) : l[i] = IF i <= 1 THEN <<e>>[i] ELSE s[i - 1]
  BY <1>2, <1>3, ConcatProperties
<1> HIDE DEF l
<1>5. l[1] = e
  <2>1. 1 \in 1..(1 + Len(s)) /\ 1 <= 1
    BY <1>1
  <2>2. QED
    BY <1>3, <1>4, <2>1
<1>6. ASSUME NEW i \in 2..(1 + Len(s))
      PROVE  l[i] \in T
  <2>1. i \in 1..(1 + Len(s)) /\ ~(i <= 1) /\ i - 1 \in 1..Len(s)
    BY <1>1
  <2>2. l[i] = s[i - 1]
    BY <1>4, <2>1
  <2>3. QED
    BY <1>1, <2>1, <2>2
<1>7. QED
  BY <1>4, <1>5, <1>6 DEF l

\* The first of two lists put together is the first of the first.
LEMMA FrontOfConcat ==
  ASSUME NEW S, NEW s \in Seq(S), NEW t \in Seq(S), s # <<>>
  PROVE  /\ s \o t # <<>>
         /\ Head(s \o t) = Head(s)
         /\ Tail(s \o t) = Tail(s) \o t
<1> DEFINE st == s \o t
           u == Tail(s) \o t
<1>1. Len(s) \in Nat \ {0} /\ Len(t) \in Nat
  BY EmptySeq, LenProperties
<1>2. /\ st \in Seq(S) /\ Len(st) = Len(s) + Len(t)
      /\ \A i \in 1..(Len(s) + Len(t)) : st[i] = IF i <= Len(s) THEN s[i] ELSE t[i - Len(s)]
  BY ConcatProperties
<1>3. /\ Tail(s) \in Seq(S) /\ Len(Tail(s)) = Len(s) - 1
      /\ \A i \in 1..Len(Tail(s)) : Tail(s)[i] = s[i + 1]
  BY HeadTailProperties
<1>4. /\ u \in Seq(S) /\ Len(u) = Len(Tail(s)) + Len(t)
      /\ \A i \in 1..(Len(Tail(s)) + Len(t)) :
            u[i] = IF i <= Len(Tail(s)) THEN Tail(s)[i] ELSE t[i - Len(Tail(s))]
  BY <1>3, ConcatProperties
<1> HIDE DEF st, u
<1>5. st # <<>>
  BY <1>1, <1>2, EmptySeq
<1>6. /\ Tail(st) \in Seq(S) /\ Len(Tail(st)) = Len(st) - 1
      /\ \A i \in 1..Len(Tail(st)) : Tail(st)[i] = st[i + 1]
  BY <1>2, <1>5, HeadTailProperties
<1>7. Head(st) = Head(s)
  <2>1. Head(st) = st[1] /\ Head(s) = s[1]
    OBVIOUS
  <2>2. 1 \in 1..(Len(s) + Len(t)) /\ 1 <= Len(s)
    BY <1>1
  <2>3. QED
    BY <1>2, <2>1, <2>2
<1>8. Len(Tail(st)) = Len(u)
  BY <1>1, <1>2, <1>3, <1>4, <1>6
<1>9. ASSUME NEW i \in 1..Len(Tail(st))
      PROVE  Tail(st)[i] = u[i]
  <2>1. /\ i + 1 \in 1..(Len(s) + Len(t)) /\ i \in 1..(Len(Tail(s)) + Len(t))
        /\ (i + 1 <= Len(s) <=> i <= Len(Tail(s)))
        /\ (i + 1) - Len(s) = i - Len(Tail(s))
    BY <1>1, <1>2, <1>3, <1>6
  <2>2. Tail(st)[i] = IF i + 1 <= Len(s) THEN s[i + 1] ELSE t[(i + 1) - Len(s)]
    BY <1>2, <1>6, <2>1
  <2>3. u[i] = IF i <= Len(Tail(s)) THEN Tail(s)[i] ELSE t[i - Len(Tail(s))]
    BY <1>4, <2>1
  <2>4. i <= Len(Tail(s)) => Tail(s)[i] = s[i + 1]
    BY <1>1, <1>3
  <2>5. QED
    BY <2>1, <2>2, <2>3, <2>4
<1>10. Tail(st) = u
  BY <1>4, <1>6, <1>8, <1>9, SeqEqual
<1>11. QED
  BY <1>5, <1>7, <1>10 DEF st, u
-----------------------------------------------------------------------------
(***************************************************************************)
(* Of a set of places there is a first, a last, and an order: what stands  *)
(* for induction over the places of a list.                                *)
(***************************************************************************)
LEMMA FirstPlace ==
  ASSUME NEW n \in Nat, NEW P \in SUBSET (1..n), P # {}
  PROVE  \E i \in P : \A j \in P : i <= j
<1>1. /\ IsFiniteSet(P) /\ Cardinality(P) \in Nat
      /\ \A k \in 1..Cardinality(P) : Nth(P, k) \in P /\ Rank(P, Nth(P, k)) = k
  BY Ranked
<1>2. 1 \in 1..Cardinality(P)
  BY <1>1, FS_EmptySet
<1>3. PICK i \in P : Rank(P, i) = 1
  BY <1>1, <1>2
<1>4. ASSUME NEW j \in P, ~(i <= j)
      PROVE  FALSE
  <2> DEFINE X == {l \in P : l <= i}
  <2>1. IsFiniteSet(X) /\ Cardinality(X) = 1
    BY <1>1, <1>3, FS_Subset DEF Rank
  <2>2. i \in X /\ j \in X /\ i # j
    BY <1>4
  <2> HIDE DEF X
  <2>3. PICK x : X = {x}
    BY <2>1, FS_Singleton
  <2>4. QED
    BY <2>2, <2>3
<1>5. QED
  BY <1>4

LEMMA LastPlace ==
  ASSUME NEW n \in Nat, NEW P \in SUBSET (1..n), P # {}
  PROVE  \E i \in P : \A j \in P : j <= i
<1> DEFINE Q == {n + 1 - i : i \in P}
<1>1. Q \in SUBSET (1..n) /\ Q # {}
  <2>1. \A i \in P : n + 1 - i \in 1..n
    OBVIOUS
  <2>2. QED
    BY <2>1
<1>2. PICK q \in Q : \A r \in Q : q <= r
  BY <1>1, FirstPlace
<1>3. PICK i \in P : q = n + 1 - i
  OBVIOUS
<1>4. ASSUME NEW j \in P
      PROVE  j <= i
  <2>1. n + 1 - j \in Q
    OBVIOUS
  <2>2. n + 1 - i <= n + 1 - j
    BY <1>2, <1>3, <2>1
  <2>3. i \in 1..n /\ j \in 1..n
    OBVIOUS
  <2>4. QED
    BY <2>2, <2>3
<1>5. QED
  BY <1>4

LEMMA PlacesInOrder ==
  ASSUME NEW n \in Nat, NEW P \in SUBSET (1..n),
         NEW k \in 1..Cardinality(P), NEW l \in 1..Cardinality(P), k < l
  PROVE  Nth(P, k) \in P /\ Nth(P, l) \in P /\ Nth(P, k) < Nth(P, l)
<1>1. /\ IsFiniteSet(P) /\ Cardinality(P) \in Nat
      /\ Nth(P, k) \in P /\ Rank(P, Nth(P, k)) = k
      /\ Nth(P, l) \in P /\ Rank(P, Nth(P, l)) = l
  BY Ranked
<1>2. PICK i \in P, j \in P : i = Nth(P, k) /\ j = Nth(P, l)
  BY <1>1
<1>3. ASSUME j <= i
      PROVE  FALSE
  <2> DEFINE X == {a \in P : a <= i}
             Y == {a \in P : a <= j}
  <2>1. \A a \in P : a <= j => a <= i
    BY <1>3
  <2>2. Y \in SUBSET X /\ IsFiniteSet(X)
    BY <1>1, <2>1, FS_Subset
  <2>3. Cardinality(X) = k /\ Cardinality(Y) = l
    BY <1>1, <1>2 DEF Rank
  <2> HIDE DEF X, Y
  <2>4. l <= k
    BY <2>2, <2>3, FS_Subset
  <2>5. QED
    BY <1>1, <2>4
<1>4. QED
  BY <1>1, <1>2, <1>3

\* What holds of 0 and goes from each place to the next holds of all.
LEMMA UpTo ==
  ASSUME NEW n \in Nat, NEW P, 0 \in P, \A i \in 1..n : i - 1 \in P => i \in P
  PROVE  \A i \in 0..n : i \in P
<1> DEFINE B == {i \in 1..n : i \notin P}
<1>1. ASSUME B # {}
      PROVE  FALSE
  <2>1. B \in SUBSET (1..n)
    OBVIOUS
  <2>2. PICK i \in B : \A j \in B : i <= j
    <3> HIDE DEF B
    <3>1. QED
      BY <1>1, <2>1, FirstPlace
  <2>3. i \in 1..n /\ i \notin P
    OBVIOUS
  <2>4. i - 1 \notin P
    BY <2>3
  <2>5. i - 1 \in 1..n \/ i - 1 = 0
    BY <2>3
  <2>6. i - 1 \in B
    BY <2>4, <2>5
  <2>7. QED
    BY <2>2, <2>3, <2>6
<1>2. \A i \in 0..n : i = 0 \/ i \in 1..n
  OBVIOUS
<1>3. QED
  BY <1>1, <1>2

\* A value made step by step, once for each place of a list.
Makes(f, base, step, m) == f[0] = base /\ \A i \in 1..m : f[i] = step[i][f[i - 1]]

LEMMA Iterates ==
  ASSUME NEW D, NEW base \in D, NEW n \in Nat, NEW step \in [1..n -> [D -> D]]
  PROVE  \E f \in [0..n -> D] : Makes(f, base, step, n)
<1> DEFINE P == {m \in 0..n : \E f \in [0..m -> D] : Makes(f, base, step, m)}
<1>1. 0 \in P
  <2> DEFINE f == [i \in 0..0 |-> base]
  <2>1. f \in [0..0 -> D] /\ f[0] = base /\ \A i \in 1..0 : FALSE
    OBVIOUS
  <2>2. Makes(f, base, step, 0)
    BY <2>1 DEF Makes
  <2>3. 0 \in 0..n
    OBVIOUS
  <2> HIDE DEF f
  <2>4. QED
    BY <2>1, <2>2, <2>3
<1>2. ASSUME NEW m \in 1..n, m - 1 \in P
      PROVE  m \in P
  <2>1. PICK f \in [0..(m - 1) -> D] : Makes(f, base, step, m - 1)
    BY <1>2
  <2> DEFINE g == [i \in 0..m |-> IF i = m THEN step[m][f[m - 1]] ELSE f[i]]
  <2>2. m - 1 \in 0..(m - 1) /\ \A i \in 0..m : i = m \/ i \in 0..(m - 1)
    OBVIOUS
  <2>3. f[m - 1] \in D
    BY <2>2
  <2>4. step[m][f[m - 1]] \in D
    BY <2>3
  <2>5. g \in [0..m -> D]
    BY <2>2, <2>4
  <2>6. g[0] = base
    <3>1. 0 \in 0..m /\ 0 # m
      OBVIOUS
    <3>2. QED
      BY <2>1, <3>1 DEF Makes
  <2>7. ASSUME NEW i \in 1..m
        PROVE  g[i] = step[i][g[i - 1]]
    <3>1. i \in 0..m /\ i - 1 \in 0..m /\ i - 1 # m
      OBVIOUS
    <3>2. g[i - 1] = f[i - 1]
      BY <3>1
    <3>3. CASE i = m
      BY <3>1, <3>2, <3>3
    <3>4. CASE i # m
      <4>1. i \in 1..(m - 1)
        BY <3>4
      <4>2. g[i] = f[i]
        BY <3>1, <3>4
      <4>3. QED
        BY <2>1, <3>2, <4>1, <4>2 DEF Makes
    <3>5. QED
      BY <3>3, <3>4
  <2>8. Makes(g, base, step, m)
    BY <2>6, <2>7 DEF Makes
  <2>9. m \in 0..n
    OBVIOUS
  <2> HIDE DEF g
  <2>10. QED
    BY <2>5, <2>8, <2>9
<1> HIDE DEF P
<1>3. \A i \in 1..n : i - 1 \in P => i \in P
  BY <1>2
<1>4. \A i \in 0..n : i \in P
  BY <1>1, <1>3, UpTo
<1>5. n \in P
  BY <1>4
<1>6. QED
  BY <1>5 DEF P
=============================================================================
