----------------------------- MODULE CacheProofs -----------------------------
(***************************************************************************)
(* What TLAPS proves of Cache, for any data, hashes, white list and        *)
(* timeouts, and any limit.                                                *)
(*                                                                         *)
(* The invariant: no line adds to the count, so the limit is never met; an *)
(* item's time is that of its datum's last insertion; and a datum that is  *)
(* not Exposed has its item as long as the full timeout has not run out,   *)
(* whatever else has been inserted meanwhile.                              *)
(***************************************************************************)
EXTENDS Cache, QueueLemmas

\* Each item is in the bucket of its hash, is as old as its datum's last
\* insertion, and is the only one of its datum.
Filed(h) ==
    \A i \in DOMAIN pool[h] :
        /\ HashOf[pool[h][i].data] = h
        /\ pool[h][i].create_time = last[pool[h][i].data]
        /\ \A j \in DOMAIN pool[h] : pool[h][i].data = pool[h][j].data => i = j

\* A datum inserted less than the full timeout ago still has its item.
Remembered(d) ==
    last[d] # Never /\ now - last[d] < Timeout
        => \E i \in DOMAIN pool[HashOf[d]] : pool[HashOf[d]][i].data = d

CacheInv ==
    /\ CacheTypeOK
    /\ cur = 0
    /\ \A d \in Data : last[d] <= now
    /\ \A h \in Hashes : Filed(h)
    /\ \A d \in Data \ Exposed : Remembered(d)
-----------------------------------------------------------------------------
(***************************************************************************)
(* Lists.                                                                  *)
(***************************************************************************)
\* Where the items of a list q come from, when the list was p: each from one
\* place of p, no two from the same.
Origin(src, p, q) ==
    /\ src \in [DOMAIN q -> DOMAIN p]
    /\ \A k, l \in DOMAIN q : src[k] = src[l] => k = l

\* q has the items of p that are not too old, and nothing else.
CleanedOf(S, p, d, q) ==
    /\ q \in Seq(S)
    /\ \E src : /\ Origin(src, p, q)
                /\ \A k \in DOMAIN q : q[k] = p[src[k]] /\ Alive(p[src[k]], d)
    /\ \A i \in DOMAIN p : Alive(p[i], d) => \E k \in DOMAIN q : q[k] = p[i]

\* The walk keeps exactly the items that are not too old.
LEMMA CleanedList ==
  ASSUME NEW S, NEW p \in Seq(S), NEW d
  PROVE  CleanedOf(S, p, d, Cleaned(p, d))
<1> DEFINE places == {i \in DOMAIN p : Alive(p[i], d)}
           card == Cardinality(places)
           q == Cleaned(p, d)
           src == [k \in 1..card |-> Nth(places, k)]
<1>1. DOMAIN p = 1..Len(p) /\ Len(p) \in Nat
  BY LenProperties
<1>2. places \in SUBSET (1..Len(p))
  BY <1>1
<1>3. q = [k \in 1..card |-> p[Nth(places, k)]]
  BY DEF Cleaned, KeptAt
<1>4. \A i \in places : i \in DOMAIN p /\ p[i] \in S /\ Alive(p[i], d)
  BY <1>1, ElementOfSeq
<1>5. \A i \in DOMAIN p : Alive(p[i], d) => i \in places
  OBVIOUS
<1> HIDE DEF places, q
<1>6. /\ card \in Nat
      /\ \A k \in 1..card :
             /\ Nth(places, k) \in places
             /\ \A l \in 1..card : Nth(places, k) = Nth(places, l) => k = l
      /\ \A i \in places : \E k \in 1..card : Nth(places, k) = i
  BY <1>1, <1>2, Numbered
<1> HIDE DEF card
<1>7. q \in Seq(S) /\ DOMAIN q = 1..card
  <2>1. q \in [1..card -> S]
    BY <1>3, <1>4, <1>6
  <2>2. QED
    BY <1>6, <2>1, SeqDef
<1>8. Origin(src, p, q) /\ \A k \in DOMAIN q : q[k] = p[src[k]] /\ Alive(p[src[k]], d)
  BY <1>3, <1>4, <1>6, <1>7 DEF Origin
<1>9. \A i \in DOMAIN p : Alive(p[i], d) => \E k \in DOMAIN q : q[k] = p[i]
  BY <1>3, <1>5, <1>6, <1>7
<1> HIDE DEF src
<1>10. CleanedOf(S, p, d, q)
  BY <1>7, <1>8, <1>9 DEF CleanedOf
<1>11. QED
  BY <1>10 DEF q

\* The list after a walk that stopped at i, as InsertHit has it.
AfterHit(p, i, d) == Cleaned(SubSeq(p, 1, i - 1), d)
                         \o <<Renewed(p[i])>>
                         \o SubSeq(p, i + 1, Len(p))

\* q has the items of p, the one at i renewed, but for some that are too old.
HitOf(p, i, d, q) ==
    /\ q \in Seq(Items)
    /\ \E src : /\ Origin(src, p, q)
                /\ \A k \in DOMAIN q : q[k] = IF src[k] = i THEN Renewed(p[i]) ELSE p[src[k]]
    /\ \E k \in DOMAIN q : q[k] = Renewed(p[i])
    /\ \A j \in DOMAIN p : j # i /\ Alive(p[j], d) => \E k \in DOMAIN q : q[k] = p[j]

LEMMA HitList ==
  ASSUME now \in Nat, NEW p \in Seq(Items), NEW i \in DOMAIN p, NEW d
  PROVE  HitOf(p, i, d, AfterHit(p, i, d))
<1> DEFINE front == SubSeq(p, 1, i - 1)
           kept == Cleaned(front, d)
           mid == <<Renewed(p[i])>>
           rest == SubSeq(p, i + 1, Len(p))
           q == AfterHit(p, i, d)
<1>1. DOMAIN p = 1..Len(p) /\ Len(p) \in Nat /\ \A j \in 1..Len(p) : p[j] \in Items
  BY LenProperties, ElementOfSeq
<1>2. i \in Nat /\ 1 <= i /\ i <= Len(p)
  BY <1>1
<1>3. Renewed(p[i]) \in Items
  BY <1>1 DEF Renewed, Items
<1>4. mid \in Seq(Items) /\ Len(mid) = 1 /\ mid[1] = Renewed(p[i])
  BY <1>3
<1>5. /\ front \in Seq(Items) /\ Len(front) = i - 1
      /\ \A j \in 1..(i - 1) : front[j] = p[j]
  <2>1. \A j \in 1..(i - 1) : p[j] \in Items
    BY <1>1, <1>2
  <2>2. /\ front \in Seq(Items) /\ Len(front) = IF 1 <= i - 1 THEN i - 1 - 1 + 1 ELSE 0
        /\ \A j \in 1..(i - 1 - 1 + 1) : front[j] = p[1 + j - 1]
    BY <1>2, <2>1, SubSeqProperties
  <2> HIDE DEF front
  <2>3. \A j \in 1..(i - 1) : j \in 1..(i - 1 - 1 + 1) /\ 1 + j - 1 = j
    BY <1>2
  <2>4. QED
    BY <1>2, <2>2, <2>3
<1>6. /\ rest \in Seq(Items) /\ Len(rest) = Len(p) - i
      /\ \A j \in 1..(Len(p) - i) : rest[j] = p[i + j]
  <2>1. i \in Nat /\ i <= Len(p)
    BY <1>2
  <2>2. /\ rest \in Seq(Items) /\ Len(rest) = Len(p) - i
        /\ \A j \in 1..(Len(p) - i) : rest[j] = p[j + i]
    BY <2>1, RestOfList
  <2> HIDE DEF rest
  <2>3. ASSUME NEW j \in 1..(Len(p) - i)
        PROVE  rest[j] = p[i + j]
    <3>1. j + i = i + j
      BY <1>1, <1>2
    <3>2. rest[j] = p[j + i]
      BY <2>2
    <3>3. QED
      BY <3>1, <3>2
  <2>4. QED
    BY <2>2, <2>3
<1>7. q = (kept \o mid) \o rest
  BY DEF AfterHit
<1> HIDE DEF front, kept, mid, rest, q
<1>8. /\ kept \in Seq(Items)
      /\ \E src : /\ Origin(src, front, kept)
                  /\ \A k \in DOMAIN kept : kept[k] = front[src[k]] /\ Alive(front[src[k]], d)
      /\ \A j \in DOMAIN front : Alive(front[j], d) => \E k \in DOMAIN kept : kept[k] = front[j]
  <2>1. front \in Seq(Items)
    BY <1>5
  <2>2. CleanedOf(Items, front, d, kept)
    BY <2>1, CleanedList DEF kept
  <2>3. QED
    BY <2>2 DEF CleanedOf
<1>9. DOMAIN kept = 1..Len(kept) /\ Len(kept) \in Nat /\ DOMAIN front = 1..(i - 1)
  BY <1>5, <1>8, LenProperties
<1>10. /\ q \in Seq(Items) /\ DOMAIN q = 1..(Len(kept) + 1 + (Len(p) - i))
       /\ \A k \in 1..Len(kept) : q[k] = kept[k]
       /\ q[Len(kept) + 1] = Renewed(p[i])
       /\ \A k \in 1..(Len(p) - i) : q[Len(kept) + 1 + k] = p[i + k]
  <2> DEFINE km == kept \o mid
  <2>1. /\ km \in Seq(Items) /\ Len(km) = Len(kept) + 1
        /\ \A k \in 1..(Len(kept) + 1) : km[k] = IF k <= Len(kept) THEN kept[k] ELSE mid[k - Len(kept)]
    <3>1. /\ kept \o mid \in Seq(Items) /\ Len(kept \o mid) = Len(kept) + Len(mid)
          /\ \A k \in 1..(Len(kept) + Len(mid)) :
                 (kept \o mid)[k] = IF k <= Len(kept) THEN kept[k] ELSE mid[k - Len(kept)]
      BY <1>4, <1>8, ConcatProperties
    <3>2. QED
      BY <1>4, <3>1
  <2> HIDE DEF km
  <2>2. /\ q \in Seq(Items) /\ Len(q) = Len(km) + Len(rest)
        /\ \A k \in 1..(Len(km) + Len(rest)) : q[k] = IF k <= Len(km) THEN km[k] ELSE rest[k - Len(km)]
    <3>1. q = km \o rest
      BY <1>7 DEF km
    <3>2. QED
      BY <1>6, <2>1, <3>1, ConcatProperties
  <2>3. DOMAIN q = 1..(Len(kept) + 1 + (Len(p) - i))
    BY <1>6, <2>1, <2>2, LenProperties
  <2>4. ASSUME NEW k \in 1..Len(kept)
        PROVE  q[k] = kept[k]
    <3>1. k \in 1..(Len(km) + Len(rest)) /\ k <= Len(km) /\ k \in 1..(Len(kept) + 1) /\ k <= Len(kept)
      BY <1>1, <1>2, <1>6, <1>9, <2>1
    <3>2. QED
      BY <2>1, <2>2, <3>1
  <2>5. q[Len(kept) + 1] = Renewed(p[i])
    <3>1. /\ Len(kept) + 1 \in 1..(Len(km) + Len(rest)) /\ Len(kept) + 1 <= Len(km)
          /\ Len(kept) + 1 \in 1..(Len(kept) + 1) /\ ~(Len(kept) + 1 <= Len(kept))
          /\ Len(kept) + 1 - Len(kept) = 1
      BY <1>1, <1>2, <1>6, <1>9, <2>1
    <3>2. QED
      BY <1>4, <2>1, <2>2, <3>1
  <2>6. ASSUME NEW k \in 1..(Len(p) - i)
        PROVE  q[Len(kept) + 1 + k] = p[i + k]
    <3>1. /\ Len(kept) + 1 + k \in 1..(Len(km) + Len(rest)) /\ ~(Len(kept) + 1 + k <= Len(km))
          /\ Len(kept) + 1 + k - Len(km) = k
      BY <1>1, <1>2, <1>6, <1>9, <2>1
    <3>2. QED
      BY <1>6, <2>2, <3>1
  <2>7. QED
    BY <2>2, <2>3, <2>4, <2>5, <2>6
<1>11. PICK from : /\ Origin(from, front, kept)
                   /\ \A k \in DOMAIN kept : kept[k] = front[from[k]] /\ Alive(front[from[k]], d)
  BY <1>8
<1>12. \A k \in 1..Len(kept) : /\ from[k] \in 1..(i - 1) /\ q[k] = p[from[k]]
                               /\ \A l \in 1..Len(kept) : from[k] = from[l] => k = l
  BY <1>5, <1>9, <1>10, <1>11 DEF Origin
<1> DEFINE src == [k \in DOMAIN q |-> CASE k <= Len(kept)     -> from[k]
                                        [] k = Len(kept) + 1 -> i
                                        [] OTHER             -> i + (k - Len(kept) - 1)]
<1>13. ASSUME NEW k \in DOMAIN q
       PROVE  \/ /\ k \in 1..Len(kept) /\ src[k] = from[k]
                 /\ src[k] \in 1..(i - 1) /\ q[k] = p[src[k]]
              \/ k = Len(kept) + 1 /\ src[k] = i /\ q[k] = Renewed(p[i])
              \/ /\ k \in Nat /\ k > Len(kept) + 1 /\ src[k] = i + (k - Len(kept) - 1)
                 /\ src[k] \in (i + 1)..Len(p) /\ q[k] = p[src[k]]
  <2>1. k \in Nat /\ 1 <= k /\ k <= Len(kept) + 1 + (Len(p) - i)
    BY <1>1, <1>2, <1>9, <1>10
  <2>2. CASE k <= Len(kept)
    BY <1>9, <1>12, <2>1, <2>2
  <2>3. CASE k = Len(kept) + 1
    BY <1>9, <1>10, <2>3
  <2>4. CASE k > Len(kept) + 1
    <3>1. /\ src[k] = i + (k - Len(kept) - 1)
          /\ k - Len(kept) - 1 \in 1..(Len(p) - i)
          /\ Len(kept) + 1 + (k - Len(kept) - 1) = k
          /\ i + (k - Len(kept) - 1) \in (i + 1)..Len(p)
      <4>1. src[k] = i + (k - Len(kept) - 1)
        BY <1>9, <2>1, <2>4
      <4> HIDE DEF src
      <4>2. Len(kept) \in Nat /\ Len(p) \in Nat /\ i \in Nat
        BY <1>1, <1>2, <1>9
      <4>3. k - Len(kept) - 1 \in Nat /\ 1 <= k - Len(kept) - 1 /\ k - Len(kept) - 1 <= Len(p) - i
        BY <2>1, <2>4, <4>2
      <4>4. Len(kept) + 1 + (k - Len(kept) - 1) = k
        BY <2>1, <4>2
      <4>5. QED
        BY <1>2, <4>1, <4>2, <4>3, <4>4
    <3>2. q[k] = p[i + (k - Len(kept) - 1)]
      BY <1>10, <3>1
    <3>3. QED
      BY <2>1, <2>4, <3>1, <3>2
  <2>5. QED
    BY <1>9, <2>1, <2>2, <2>3, <2>4
<1>14. src \in [DOMAIN q -> DOMAIN p] /\ \A k, l \in DOMAIN q : src[k] = src[l] => k = l
  <2> SUFFICES ASSUME NEW k \in DOMAIN q, NEW l \in DOMAIN q
               PROVE  src[k] \in DOMAIN p /\ (src[k] = src[l] => k = l)
    OBVIOUS
  <2> HIDE DEF src
  <2>1. src[k] \in DOMAIN p
    BY <1>1, <1>2, <1>13
  <2>2. src[k] = src[l] => k = l
    <3>1. CASE k \in 1..Len(kept) /\ l \in 1..Len(kept)
      BY <1>12, <1>13, <3>1
    <3>2. CASE ~(k \in 1..Len(kept) /\ l \in 1..Len(kept))
      <4>1. k \in Nat /\ l \in Nat
        BY <1>9, <1>13
      <4>2. QED
        BY <1>1, <1>2, <1>9, <1>13, <3>2, <4>1
    <3>3. QED
      BY <3>1, <3>2
  <2>3. QED
    BY <2>1, <2>2
<1>15. \A k \in DOMAIN q : q[k] = IF src[k] = i THEN Renewed(p[i]) ELSE p[src[k]]
  <2> HIDE DEF src
  <2>1. QED
    BY <1>1, <1>2, <1>13
<1> HIDE DEF src
<1>16. Len(kept) + 1 \in DOMAIN q
  BY <1>1, <1>2, <1>9, <1>10
<1>17. ASSUME NEW j \in DOMAIN p, j # i, Alive(p[j], d)
       PROVE  \E k \in DOMAIN q : q[k] = p[j]
  <2>1. CASE j < i
    <3>1. j \in DOMAIN front /\ front[j] = p[j]
      BY <1>1, <1>2, <1>5, <1>9, <2>1
    <3>2. PICK k \in DOMAIN kept : kept[k] = p[j]
      BY <1>8, <1>17, <3>1
    <3>3. k \in DOMAIN q /\ q[k] = kept[k]
      BY <1>1, <1>2, <1>9, <1>10
    <3>4. QED
      BY <3>2, <3>3
  <2>2. CASE j > i
    <3>1. /\ j - i \in 1..(Len(p) - i) /\ Len(kept) + 1 + (j - i) \in DOMAIN q /\ i + (j - i) = j
      BY <1>1, <1>2, <1>9, <1>10, <2>2
    <3>2. QED
      BY <1>10, <3>1
  <2>3. QED
    BY <1>1, <1>2, <1>17, <2>1, <2>2
<1>18. HitOf(p, i, d, q)
  BY <1>10, <1>14, <1>15, <1>16, <1>17 DEF HitOf, Origin
<1>19. QED
  BY <1>18 DEF q
-----------------------------------------------------------------------------
(***************************************************************************)
(* The invariant.                                                          *)
(***************************************************************************)
LEMMA CacheInit == Init => CacheInv
<1> SUFFICES ASSUME Init PROVE CacheInv
  OBVIOUS
<1>1. <<>> \in Seq(Items) /\ DOMAIN <<>> = {}
  BY EmptySeq
<1>2. now \in Nat
  BY CacheAssumption DEF Init
<1>3. CacheTypeOK
  BY <1>1, <1>2 DEF Init, CacheTypeOK
<1>4. \A h \in Hashes : Filed(h)
  BY <1>1 DEF Init, Filed
<1>5. (\A d \in Data : last[d] = Never) /\ Never <= now
  BY <1>2 DEF Init, Never
<1>6. QED
  BY <1>3, <1>4, <1>5 DEF Init, CacheInv, Remembered

\* Steps that leave the buckets alone; time may pass.
LEMMA CacheFrame ==
  ASSUME CacheInv, pool' = pool, cur' = cur, last' = last, reply' = reply,
         now' \in Nat, now <= now', white' \in {{}, WhiteListed}
  PROVE  CacheInv'
<1>1. CacheTypeOK'
  BY DEF CacheInv, CacheTypeOK
<1>2. \A h \in Hashes : Filed(h)'
  BY DEF CacheInv, Filed
<1>3. \A d \in Data : last[d] \in Int /\ now \in Nat /\ Timeout \in Nat
  BY CacheAssumption DEF CacheInv, CacheTypeOK, Never
<1>4. \A d \in Data : last'[d] <= now'
  BY <1>3 DEF CacheInv
<1>5. \A d \in Data \ Exposed : Remembered(d)'
  <2> SUFFICES ASSUME NEW d \in Data \ Exposed, last[d] # Never, now' - last[d] < Timeout
               PROVE  \E i \in DOMAIN pool[HashOf[d]] : pool[HashOf[d]][i].data = d
    BY DEF Remembered
  <2>1. now - last[d] < Timeout
    BY <1>3
  <2>2. QED
    BY <2>1 DEF CacheInv, Remembered
<1>6. QED
  BY <1>1, <1>2, <1>4, <1>5 DEF CacheInv

\* What an insertion of d makes of its bucket: the item of d, of now, and items
\* that were there, each once; and none is lost that was not too old.
Inserts(p, q, d) ==
    /\ q \in Seq(Items)
    /\ \A k \in DOMAIN q : q[k].data = d => q[k].create_time = now
    /\ \A k \in DOMAIN q : q[k].data # d => \E i \in DOMAIN p : q[k] = p[i]
    /\ \A k, l \in DOMAIN q : q[k].data = q[l].data => k = l
    /\ \E k \in DOMAIN q : q[k].data = d
    /\ \A i \in DOMAIN p : p[i].data # d /\ Alive(p[i], d) => \E k \in DOMAIN q : q[k] = p[i]

LEMMA InsertKeepsInv ==
  ASSUME CacheInv, NEW d \in Data, NEW q, Inserts(pool[HashOf[d]], q, d),
         pool' = [pool EXCEPT ![HashOf[d]] = q], last' = [last EXCEPT ![d] = now],
         reply' \in [data : Data, inserted : BOOLEAN], UNCHANGED <<cur, now, white>>
  PROVE  CacheInv'
<1> DEFINE h == HashOf[d]
<1>0. /\ h \in Hashes /\ pool \in [Hashes -> Seq(Items)] /\ now \in Nat /\ Timeout \in Nat
      /\ last \in [Data -> Nat \cup {Never}] /\ white \in {{}, WhiteListed}
  BY CacheAssumption DEF CacheInv, CacheTypeOK
<1>1. /\ pool'[h] = q /\ \A g \in Hashes : g # h => pool'[g] = pool[g]
      /\ last'[d] = now /\ \A e \in Data : e # d => last'[e] = last[e]
  BY <1>0
<1>2. CacheTypeOK'
  <2>1. q \in Seq(Items)
    BY DEF Inserts
  <2>2. pool' \in [Hashes -> Seq(Items)] /\ last' \in [Data -> Nat \cup {Never}]
    BY <1>0, <2>1
  <2>3. QED
    BY <2>2 DEF CacheInv, CacheTypeOK
<1>3. ASSUME NEW g \in Hashes, NEW i \in DOMAIN pool[g]
      PROVE  /\ pool[g][i] \in Items /\ pool[g][i].data \in Data
             /\ HashOf[pool[g][i].data] = g /\ pool[g][i].create_time = last[pool[g][i].data]
  <2>1. pool[g][i] \in Items
    BY <1>0, ElementOfSeq, LenProperties
  <2>2. QED
    BY <2>1 DEF CacheInv, Filed, Items
<1>4. Filed(h)'
  <2> SUFFICES ASSUME NEW k \in DOMAIN q
               PROVE  HashOf[q[k].data] = h /\ q[k].create_time = last'[q[k].data]
    BY <1>1 DEF Filed, Inserts
  <2>1. CASE q[k].data = d
    BY <1>1, <2>1 DEF Inserts
  <2>2. CASE q[k].data # d
    <3>1. PICK i \in DOMAIN pool[h] : q[k] = pool[h][i]
      BY <2>2 DEF Inserts
    <3>2. QED
      BY <1>0, <1>1, <1>3, <2>2, <3>1
  <2>3. QED
    BY <2>1, <2>2
<1>5. ASSUME NEW g \in Hashes, g # h
      PROVE  Filed(g)'
  <2>1. \A i \in DOMAIN pool[g] : pool[g][i].data # d /\ pool[g][i].data \in Data
    BY <1>3, <1>5
  <2>2. QED
    BY <1>1, <1>5, <2>1 DEF CacheInv, Filed
<1>6. ASSUME NEW e \in Data \ Exposed
      PROVE  Remembered(e)'
  <2> SUFFICES ASSUME last'[e] # Never, now - last'[e] < Timeout
               PROVE  \E k \in DOMAIN pool'[HashOf[e]] : pool'[HashOf[e]][k].data = e
    BY DEF Remembered
  <2>1. CASE e = d
    BY <1>1, <2>1 DEF Inserts
  <2>2. CASE e # d
    <3>1. last[e] # Never /\ now - last[e] < Timeout /\ HashOf[e] \in Hashes
      BY <1>1, <2>2, CacheAssumption
    <3>2. PICK i \in DOMAIN pool[HashOf[e]] : pool[HashOf[e]][i].data = e
      BY <3>1 DEF CacheInv, Remembered
    <3>3. CASE HashOf[e] # h
      BY <1>1, <3>1, <3>2, <3>3
    <3>4. CASE HashOf[e] = h
      <4>1. d \notin white
        BY <1>0, <2>2, <3>4 DEF Exposed
      <4>2. Alive(pool[h][i], d)
        BY <1>0, <1>3, <3>1, <3>2, <3>4, <4>1 DEF Alive, TimeoutOf
      <4>3. QED
        BY <1>1, <2>2, <3>2, <3>4, <4>2 DEF Inserts
    <3>5. QED
      BY <3>3, <3>4
  <2>3. QED
    BY <2>1, <2>2
<1>7. cur' = 0
  BY DEF CacheInv
<1>8. \A e \in Data : last'[e] <= now'
  BY <1>0, <1>1 DEF CacheInv
<1>9. QED
  BY <1>2, <1>4, <1>5, <1>6, <1>7, <1>8 DEF CacheInv

LEMMA HitInserts ==
  ASSUME CacheInv, NEW d \in Data, NEW i \in Hits(pool[HashOf[d]], d)
  PROVE  Inserts(pool[HashOf[d]], AfterHit(pool[HashOf[d]], i, d), d)
<1> DEFINE p == pool[HashOf[d]]
           q == AfterHit(p, i, d)
<1>1. p \in Seq(Items) /\ now \in Nat /\ HashOf[d] \in Hashes
  BY CacheAssumption DEF CacheInv, CacheTypeOK
<1>2. i \in DOMAIN p /\ p[i].data = d
  BY DEF Hits
<1>3. \A j, k \in DOMAIN p : p[j].data = p[k].data => j = k
  BY <1>1 DEF CacheInv, Filed
<1>4. p[i] \in Items
  BY <1>1, <1>2, ElementOfSeq, LenProperties
<1>5. Renewed(p[i]).data = d /\ Renewed(p[i]).create_time = now
  BY <1>2, <1>4 DEF Renewed, Items
<1> HIDE DEF p
<1>6. /\ q \in Seq(Items)
      /\ \E src : /\ Origin(src, p, q)
                  /\ \A k \in DOMAIN q : q[k] = IF src[k] = i THEN Renewed(p[i]) ELSE p[src[k]]
      /\ \E k \in DOMAIN q : q[k] = Renewed(p[i])
      /\ \A j \in DOMAIN p : j # i /\ Alive(p[j], d) => \E k \in DOMAIN q : q[k] = p[j]
  <2>1. now \in Nat /\ p \in Seq(Items) /\ i \in DOMAIN p
    BY <1>1, <1>2
  <2>2. HitOf(p, i, d, q)
    BY <2>1, HitList
  <2>3. QED
    BY <2>2 DEF HitOf
<1> HIDE DEF q
<1>7. PICK src : /\ Origin(src, p, q)
                 /\ \A k \in DOMAIN q : q[k] = IF src[k] = i THEN Renewed(p[i]) ELSE p[src[k]]
  BY <1>6
<1>8. \A k \in DOMAIN q : src[k] \in DOMAIN p /\ q[k].data = p[src[k]].data
  BY <1>2, <1>5, <1>7 DEF Origin
<1>9. \A k \in DOMAIN q : q[k].data = d => src[k] = i
  BY <1>2, <1>3, <1>8
<1>10. \A k, l \in DOMAIN q : q[k].data = q[l].data => k = l
  <2> SUFFICES ASSUME NEW k \in DOMAIN q, NEW l \in DOMAIN q, q[k].data = q[l].data
               PROVE  k = l
    OBVIOUS
  <2>1. src[k] = src[l]
    BY <1>3, <1>8
  <2>2. QED
    BY <1>7, <2>1 DEF Origin
<1>11. \A k \in DOMAIN q : q[k].data = d => q[k].create_time = now
  BY <1>5, <1>7, <1>9
<1>12. \A k \in DOMAIN q : q[k].data # d => \E j \in DOMAIN p : q[k] = p[j]
  BY <1>5, <1>7, <1>8
<1>13. \E k \in DOMAIN q : q[k].data = d
  BY <1>5, <1>6
<1>14. \A j \in DOMAIN p : p[j].data # d /\ Alive(p[j], d) => \E k \in DOMAIN q : q[k] = p[j]
  BY <1>2, <1>6
<1>15. Inserts(p, q, d)
  BY <1>6, <1>10, <1>11, <1>12, <1>13, <1>14 DEF Inserts
<1>16. QED
  BY <1>15 DEF p, q

LEMMA MissInserts ==
  ASSUME CacheInv, NEW d \in Data, Hits(pool[HashOf[d]], d) = {}
  PROVE  Inserts(pool[HashOf[d]],
                 Append(Cleaned(pool[HashOf[d]], d), [data |-> d, create_time |-> now]), d)
<1> DEFINE p == pool[HashOf[d]]
           kept == Cleaned(p, d)
           item == [data |-> d, create_time |-> now]
           q == Append(kept, item)
<1>1. p \in Seq(Items) /\ now \in Nat /\ HashOf[d] \in Hashes
  BY CacheAssumption DEF CacheInv, CacheTypeOK
<1>2. \A i \in DOMAIN p : Alive(p[i], d) => p[i].data # d
  BY DEF Hits
<1>3. \A j, k \in DOMAIN p : p[j].data = p[k].data => j = k
  BY <1>1 DEF CacheInv, Filed
<1>4. item \in Items /\ item.data = d /\ item.create_time = now
  BY <1>1 DEF Items
<1> HIDE DEF p, item
<1>5. /\ kept \in Seq(Items)
      /\ \E src : /\ Origin(src, p, kept)
                  /\ \A k \in DOMAIN kept : kept[k] = p[src[k]] /\ Alive(p[src[k]], d)
      /\ \A i \in DOMAIN p : Alive(p[i], d) => \E k \in DOMAIN kept : kept[k] = p[i]
  <2>1. p \in Seq(Items)
    BY <1>1
  <2> HIDE DEF kept
  <2>2. CleanedOf(Items, p, d, kept)
    BY <2>1, CleanedList DEF kept
  <2>3. QED
    BY <2>2 DEF CleanedOf
<1> HIDE DEF kept
<1>6. PICK src : /\ Origin(src, p, kept)
                 /\ \A k \in DOMAIN kept : kept[k] = p[src[k]] /\ Alive(p[src[k]], d)
  BY <1>5
<1>7. /\ Len(kept) \in Nat /\ DOMAIN kept = 1..Len(kept)
      /\ q \in Seq(Items) /\ DOMAIN q = 1..(Len(kept) + 1)
      /\ \A k \in DOMAIN kept : q[k] = kept[k]
      /\ q[Len(kept) + 1] = item
  BY <1>4, <1>5, AppendProperties, LenProperties
<1> HIDE DEF q
<1>8. \A k \in DOMAIN q : k \in DOMAIN kept \/ k = Len(kept) + 1
  BY <1>7
<1>9. \A k \in DOMAIN kept : /\ k \in DOMAIN q /\ src[k] \in DOMAIN p /\ q[k] = p[src[k]]
                             /\ q[k].data # d
  BY <1>2, <1>6, <1>7 DEF Origin
<1>10. \A k, l \in DOMAIN kept : q[k].data = q[l].data => k = l
  <2> SUFFICES ASSUME NEW k \in DOMAIN kept, NEW l \in DOMAIN kept, q[k].data = q[l].data
               PROVE  k = l
    OBVIOUS
  <2>1. src[k] = src[l]
    BY <1>3, <1>9
  <2>2. QED
    BY <1>6, <2>1 DEF Origin
<1>11. \A k, l \in DOMAIN q : q[k].data = q[l].data => k = l
  BY <1>4, <1>7, <1>8, <1>9, <1>10
<1>12. \A k \in DOMAIN q : q[k].data = d => q[k].create_time = now
  BY <1>4, <1>7, <1>8, <1>9
<1>13. \A k \in DOMAIN q : q[k].data # d => \E j \in DOMAIN p : q[k] = p[j]
  BY <1>4, <1>7, <1>8, <1>9
<1>14. \E k \in DOMAIN q : q[k].data = d
  BY <1>4, <1>7
<1>15. \A j \in DOMAIN p : p[j].data # d /\ Alive(p[j], d) => \E k \in DOMAIN q : q[k] = p[j]
  BY <1>5, <1>7, <1>9
<1>16. Inserts(p, q, d)
  BY <1>7, <1>11, <1>12, <1>13, <1>14, <1>15 DEF Inserts
<1>17. QED
  BY <1>16 DEF p, q, kept, item

\* The two ways an insertion ends, with the bucket it leaves.
LEMMA HitStep ==
  ASSUME CacheInv, NEW d \in Data, InsertHit(d)
  PROVE  /\ CacheInv'
         /\ \E i \in DOMAIN pool[HashOf[d]] : /\ pool[HashOf[d]][i].data = d
                                             /\ Alive(pool[HashOf[d]][i], d)
<1>1. PICK i \in Hits(pool[HashOf[d]], d) :
        /\ pool' = [pool EXCEPT ![HashOf[d]] = Cleaned(SubSeq(@, 1, i - 1), d)
                                                   \o <<Renewed(@[i])>>
                                                   \o SubSeq(@, i + 1, Len(@))]
        /\ reply' = [data |-> d, inserted |-> FALSE]
        /\ last' = [last EXCEPT ![d] = now]
        /\ UNCHANGED <<cur, now, white>>
  BY DEF InsertHit
<1>2. pool' = [pool EXCEPT ![HashOf[d]] = AfterHit(pool[HashOf[d]], i, d)]
  BY <1>1 DEF AfterHit
<1>3. Inserts(pool[HashOf[d]], AfterHit(pool[HashOf[d]], i, d), d)
  BY HitInserts
<1>4. PICK q : q = AfterHit(pool[HashOf[d]], i, d)
  OBVIOUS
<1>5. Inserts(pool[HashOf[d]], q, d) /\ pool' = [pool EXCEPT ![HashOf[d]] = q]
  BY <1>2, <1>3, <1>4
<1>6. CacheInv'
  BY <1>1, <1>5, InsertKeepsInv
<1>7. i \in DOMAIN pool[HashOf[d]] /\ pool[HashOf[d]][i].data = d /\ Alive(pool[HashOf[d]][i], d)
  BY DEF Hits
<1>8. QED
  BY <1>6, <1>7

LEMMA MissStep ==
  ASSUME CacheInv, NEW d \in Data, InsertMiss(d)
  PROVE  CacheInv' /\ UNCHANGED <<now, white>>
<1> DEFINE h == HashOf[d]
           cleaned == [pool EXCEPT ![h] = Cleaned(@, d)]
           item == [data |-> d, create_time |-> now]
<1>1. ~Full
  BY CacheAssumption DEF Full, CacheInv
<1>2. /\ Hits(pool[h], d) = {} /\ pool' = [cleaned EXCEPT ![h] = Append(@, item)] /\ cur' = cur
      /\ reply' = [data |-> d, inserted |-> TRUE] /\ last' = [last EXCEPT ![d] = now]
      /\ UNCHANGED <<now, white>>
  BY <1>1 DEF InsertMiss
<1>3. h \in Hashes /\ pool \in [Hashes -> Seq(Items)]
  BY CacheAssumption DEF CacheInv, CacheTypeOK
<1>4. cleaned[h] = Cleaned(pool[h], d)
  BY <1>3
<1>5. pool' = [pool EXCEPT ![h] = Append(Cleaned(pool[h], d), item)]
  BY <1>2, <1>3, <1>4
<1>6. PICK q : q = Append(Cleaned(pool[h], d), item)
  OBVIOUS
<1>7. Inserts(pool[h], q, d) /\ pool' = [pool EXCEPT ![h] = q]
  BY <1>2, <1>5, <1>6, MissInserts
<1>8. QED
  BY <1>2, <1>7, InsertKeepsInv

LEMMA CacheStep == CacheInv /\ [Next]_vars => CacheInv'
<1> SUFFICES ASSUME CacheInv, [Next]_vars PROVE CacheInv'
  OBVIOUS
<1>0. now \in Nat /\ white \in {{}, WhiteListed}
  BY DEF CacheInv, CacheTypeOK
<1>1. ASSUME NEW d \in Data, InsertHit(d) PROVE CacheInv'
  BY <1>1, HitStep
<1>2. ASSUME NEW d \in Data, InsertMiss(d) PROVE CacheInv'
  BY <1>2, MissStep
<1>3. CASE LoadWhiteList \/ ReplaceWhiteList
  BY <1>0, <1>3, CacheFrame DEF LoadWhiteList, ReplaceWhiteList
<1>4. CASE Tick
  <2>1. now' \in Nat /\ now <= now'
    BY <1>0, <1>4, CacheAssumption DEF Tick
  <2>2. QED
    BY <1>0, <1>4, <2>1, CacheFrame DEF Tick
<1>5. CASE UNCHANGED vars
  BY <1>0, <1>5, CacheFrame DEF vars
<1>6. QED
  BY <1>1, <1>2, <1>3, <1>4, <1>5 DEF Next

LEMMA CacheInvariant == Spec => []CacheInv
  BY CacheInit, CacheStep, PTL DEF Spec

\* Type correctness of the buckets, the count and the replies.
THEOREM CacheTypeCorrect == Spec => []CacheTypeOK
<1>1. CacheInv => CacheTypeOK
  BY DEF CacheInv
<1>2. QED
  BY <1>1, CacheInvariant, PTL

\* The walk's early return and its lazy erasing leave one item of a datum at
\* most, in the bucket of its hash, and none from the future.
THEOREM OneOfEach == Spec => []OneItemEach
<1>1. CacheInv => OneItemEach
  <2> SUFFICES ASSUME CacheInv, NEW h \in Hashes, NEW i \in DOMAIN pool[h],
                      NEW j \in DOMAIN pool[h]
               PROVE  /\ HashOf[pool[h][i].data] = h
                      /\ pool[h][i].create_time <= now
                      /\ pool[h][i].data = pool[h][j].data => i = j
    BY DEF OneItemEach
  <2>1. pool[h] \in Seq(Items)
    BY DEF CacheInv, CacheTypeOK
  <2>2. pool[h][i] \in Items
    BY <2>1, ElementOfSeq, LenProperties
  <2>3. QED
    BY <2>2 DEF CacheInv, Filed, Items
<1>2. QED
  BY <1>1, CacheInvariant, PTL
-----------------------------------------------------------------------------
(***************************************************************************)
(* Cache implements Recency.                                               *)
(***************************************************************************)
LEMMA RecencyStep == CacheInv /\ [Next]_vars => [RecencySet!Next]_(RecencySet!vars)
<1> SUFFICES ASSUME CacheInv, [Next]_vars
             PROVE  [RecencySet!Next]_(RecencySet!vars)
  OBVIOUS
<1>0. \A d \in Data : RecencySet!TimeoutOf(d) = TimeoutOf(d)
  BY DEF RecencySet!TimeoutOf, TimeoutOf
<1>1. ASSUME NEW d \in Data, InsertHit(d)
      PROVE  RecencySet!Insert(d)
  <2>1. PICK i \in DOMAIN pool[HashOf[d]] : /\ pool[HashOf[d]][i].data = d
                                           /\ Alive(pool[HashOf[d]][i], d)
    BY <1>1, HitStep
  <2>2. HashOf[d] \in Hashes /\ pool[HashOf[d]] \in Seq(Items)
    BY CacheAssumption DEF CacheInv, CacheTypeOK
  <2>3. pool[HashOf[d]][i] \in Items
    BY <2>2, ElementOfSeq, LenProperties
  <2>4. last[d] = pool[HashOf[d]][i].create_time /\ last[d] \in Nat
    BY <2>1, <2>2, <2>3 DEF CacheInv, Filed, Items
  <2>5. RecencySet!Recent(d)
    BY <1>0, <2>1, <2>4 DEF RecencySet!Recent, RecencySet!Never, Alive
  <2>6. /\ reply' = [data |-> d, inserted |-> FALSE] /\ last' = [last EXCEPT ![d] = now]
        /\ UNCHANGED <<now, white>>
    BY <1>1 DEF InsertHit
  <2>7. QED
    BY <2>5, <2>6 DEF RecencySet!Insert
<1>2. ASSUME NEW d \in Data, InsertMiss(d)
      PROVE  RecencySet!Insert(d)
  <2>1. /\ Hits(pool[HashOf[d]], d) = {}
        /\ reply' = [data |-> d, inserted |-> TRUE] /\ last' = [last EXCEPT ![d] = now]
        /\ UNCHANGED <<now, white>>
    BY <1>2 DEF InsertMiss
  <2>2. ASSUME RecencySet!Recent(d), d \notin Exposed
        PROVE  FALSE
    <3>1. last[d] # Never /\ now - last[d] < TimeoutOf(d)
      BY <1>0, <2>2 DEF RecencySet!Recent, RecencySet!Never, Never
    <3>2. now \in Nat /\ last[d] \in Nat /\ HashOf[d] \in Hashes /\ pool[HashOf[d]] \in Seq(Items)
      BY <3>1, CacheAssumption DEF CacheInv, CacheTypeOK
    <3>3. TimeoutOf(d) <= Timeout /\ TimeoutOf(d) \in Nat /\ Timeout \in Nat
      BY CacheAssumption DEF TimeoutOf
    <3>4. now - last[d] < Timeout
      BY <3>1, <3>2, <3>3
    <3>5. PICK i \in DOMAIN pool[HashOf[d]] : pool[HashOf[d]][i].data = d
      BY <2>2, <3>1, <3>4 DEF CacheInv, Remembered
    <3>6. pool[HashOf[d]][i].create_time = last[d]
      BY <3>2, <3>5 DEF CacheInv, Filed
    <3>7. i \in Hits(pool[HashOf[d]], d)
      BY <3>1, <3>5, <3>6 DEF Hits, Alive
    <3>8. QED
      BY <2>1, <3>7
  <2>3. QED
    BY <2>1, <2>2 DEF RecencySet!Insert
<1>3. CASE LoadWhiteList
  BY <1>3 DEF LoadWhiteList, RecencySet!LoadWhiteList, RecencySet!Next
<1>4. CASE ReplaceWhiteList
  BY <1>4 DEF ReplaceWhiteList, RecencySet!ReplaceWhiteList, RecencySet!Next
<1>5. CASE Tick
  BY <1>5 DEF Tick, RecencySet!Tick, RecencySet!Next
<1>6. CASE UNCHANGED vars
  BY <1>6 DEF vars, RecencySet!vars
<1>7. CASE \E d \in Data : InsertHit(d) \/ InsertMiss(d)
  BY <1>1, <1>2, <1>7 DEF RecencySet!Next
<1>8. QED
  BY <1>3, <1>4, <1>5, <1>6, <1>7 DEF Next

\* The buckets, the renewals and the erasing on the way answer as the plain
\* set of Recency: a datum is new exactly when it was not inserted within its
\* timeout, and only a neighbour of a white-listed datum is forgotten early.
THEOREM CacheIsARecencySet == Spec => ImplementsRecency
<1>1. Init => RecencySet!Init
  BY DEF Init, RecencySet!Init, RecencySet!Never, Never
<1>2. QED
  BY <1>1, RecencyStep, CacheInvariant, PTL
     DEF Spec, ImplementsRecency, RecencySet!Spec
=============================================================================
