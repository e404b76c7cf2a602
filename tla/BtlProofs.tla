----------------------------- MODULE BtlProofs -----------------------------
(***************************************************************************)
(* Theorems about module Btl, for any number of devices and crashes, any   *)
(* batch size and any length of a day.                                     *)
(*                                                                         *)
(* Ids and Known are what keeps btl an outbox although a refused INSERT    *)
(* gives a datum another row's id: the row that an UPDATE marks is the     *)
(* datum's own, or one of the doubtful.                                    *)
(***************************************************************************)
EXTENDS Btl, QueueLemmas, FiniteSetTheorems

Stored == {SightingOf(r) : r \in rows}

\* No process, no data; and a worker has data unless it is idle.
Shape ==
    /\ ~up => cache = NoneCached /\ hand = <<>> /\ queue = <<>> /\ batch = <<>>
    /\ pc = "idle" <=> batch = <<>>

\* A row's id is one the table has handed out and no other row's; a datum with
\* the id of a row is that row, or the row is doubtful.
Ids ==
    /\ IsFiniteSet(rows)
    /\ lastRowid < nextId
    /\ \A r \in rows : 0 < r.id /\ r.id < nextId
    /\ \A r, q \in rows : r.id = q.id => r = q
    /\ \A b \in Carried : b.id < nextId
    /\ \A b \in Carried, r \in rows : r.id = b.id => r = b \/ SightingOf(r) \in doubtful

\* Rows are from the past, and from an earlier second when btl does not run.
Past ==
    /\ \A r \in rows : r.time <= now
    /\ ~up => \A r \in rows : r.time < now

\* What the server takes and what an UPDATE marks has been stored, or is
\* doubtful; what the server took is stored until it is of the past.
Known ==
    /\ \A b \in Carried : SightingOf(b) \in Stored \cup doubtful
    /\ \A x \in taken \ doubtful : x \in Stored \/ x.time < now
    /\ pc = "update" => \A b \in Range(batch) : SightingOf(b) \in taken \cup doubtful

Inv == /\ BtlTypeOK /\ Shape /\ Ids /\ Past /\ Known
       /\ PendingIsHeldOrDropped /\ OneRowPerDay /\ CachedIsStored

LEMMA InitInv == Init => Inv
<1> SUFFICES ASSUME Init PROVE Inv
  OBVIOUS
<1>1. <<>> \in Seq(Blue) /\ Range(<<>>) = {}
  BY EmptySeq DEF Range
<1>2. Carried = {}
  BY <1>1 DEF Init, Carried
<1>3. IsFiniteSet(rows)
  BY FS_EmptySet DEF Init
<1>4. BtlTypeOK
  <2>1. now \in Times /\ crashes \in 0..MaxCrashes /\ nextId \in Nat /\ lastRowid \in 0..nextId
    BY BtlAssumption DEF Init, Times
  <2>2. cache \in [Devices -> Times \cup {Never}]
    BY DEF Init, NoneCached
  <2>3. QED
    BY <1>1, <2>1, <2>2 DEF Init, BtlTypeOK
<1>5. Shape /\ Ids /\ Past /\ Known
  BY <1>1, <1>2, <1>3 DEF Init, Shape, Ids, Past, Known
<1>6. PendingIsHeldOrDropped /\ OneRowPerDay /\ CachedIsStored
  BY DEF Init, PendingIsHeldOrDropped, OneRowPerDay, CachedIsStored, NoneCached
<1>7. QED
  BY <1>4, <1>5, <1>6 DEF Inv
-----------------------------------------------------------------------------
(***************************************************************************)
(* What the steps do to the data the process holds.                        *)
(***************************************************************************)
Fetched == hand' \in Seq(Blue) /\ Range(hand') = rows' \ uploaded'

LEMMA StartFetches ==
  ASSUME Inv, Start
  PROVE  Fetched /\ Carried' = rows' \ uploaded'
<1> DEFINE P == rows' \ uploaded'
<1>1. rows' \subseteq rows /\ rows \subseteq Blue
  BY DEF Start, Inv, BtlTypeOK
<1>2. Cardinality(P) \in Nat
  BY <1>1, FS_Subset, FS_CardinalityType DEF Inv, Ids
<1>3. hand' \in [1..Cardinality(P) -> P] /\ Range(hand') = P
  BY DEF Start, OldData
<1>5. hand' \in Seq(Blue)
  BY <1>1, <1>2, <1>3
<1>6. queue' = <<>> /\ batch' = <<>>
  BY DEF Start, Inv, Shape, worker
<1>7. QED
  BY <1>3, <1>5, <1>6 DEF Fetched, Carried, Range

LEMMA PushMoves ==
  ASSUME Inv, Push
  PROVE  hand' \in Seq(Blue) /\ queue' \in Seq(Blue) /\ Carried' = Carried
<1>1. hand \in Seq(Blue) /\ queue \in Seq(Blue) /\ hand # <<>>
  BY DEF Push, Inv, BtlTypeOK
<1>2. Head(hand) \in Blue /\ hand' \in Seq(Blue) /\ Range(hand) = {Head(hand)} \cup Range(hand')
  BY <1>1, PopFront DEF Push
<1>3. queue' \in Seq(Blue) /\ Range(queue') = Range(queue) \cup {Head(hand)}
  BY <1>1, <1>2, Enqueue DEF Push
<1>4. QED
  BY <1>2, <1>3 DEF Push, Carried, worker

\* The one datum of a device that is new.
LEMMA HandOne ==
  ASSUME Inv, NEW d \in Devices, NEW b \in Blue, Heard(d), hand' = <<b>>
  PROVE  hand' \in Seq(Blue) /\ Carried' = Carried \cup {b}
<1>1. <<b>> \in Seq(Blue) /\ Range(<<b>>) = {b}
  BY DEF Range
<1>2. Range(hand) = {}
  BY DEF Heard, Range
<1>3. QED
  BY <1>1, <1>2 DEF Heard, Carried, worker

LEMMA TakeBatchMoves ==
  ASSUME Inv, TakeBatch
  PROVE  batch' \in Seq(Blue) /\ queue' \in Seq(Blue) /\ batch' # <<>> /\ Carried' = Carried
<1> DEFINE n == IF BatchSize < Len(queue) THEN BatchSize ELSE Len(queue)
<1>1. queue \in Seq(Blue) /\ queue # <<>> /\ Range(batch) = {}
  BY DEF TakeBatch, Inv, BtlTypeOK, Shape, Range
<1>2. Len(queue) \in Nat \ {0}
  BY <1>1, LenProperties, EmptySeq
<1>3. n \in Nat \ {0} /\ n <= Len(queue)
  BY <1>2, BtlAssumption
<1>4. batch' = SubSeq(queue, 1, n) /\ queue' = SubSeq(queue, n + 1, Len(queue))
  BY DEF TakeBatch
<1>5. /\ batch' \in Seq(Blue) /\ queue' \in Seq(Blue)
      /\ Range(queue) = Range(batch') \cup Range(queue')
  BY <1>1, <1>3, <1>4, TakeFront
<1>6. batch' # <<>>
  <2>1. Len(batch') = n
    BY <1>1, <1>2, <1>3, <1>4, SubSeqProperties
  <2>2. QED
    BY <2>1, <1>3
<1>7. QED
  BY <1>1, <1>5, <1>6 DEF TakeBatch, Carried, main

LEMMA UpdateMoves ==
  ASSUME Inv, Update
  PROVE  /\ Head(batch) \in Range(batch) /\ batch' \in Seq(Blue)
         /\ Range(batch) = {Head(batch)} \cup Range(batch')
         /\ Carried = Carried' \cup {Head(batch)}
         /\ pc' = "idle" <=> batch' = <<>>
<1>1. batch \in Seq(Blue) /\ batch # <<>>
  BY DEF Update, Inv, BtlTypeOK, Shape
<1>2. batch' \in Seq(Blue) /\ Range(batch) = {Head(batch)} \cup Range(batch')
  BY <1>1, PopFront DEF Update
<1>3. Len(batch') = Len(batch) - 1 /\ Len(batch) \in Nat \ {0}
  BY <1>1, HeadTailProperties, LenProperties, EmptySeq DEF Update
<1>4. pc' = "idle" <=> batch' = <<>>
  <2>1. pc' = "idle" <=> Len(batch') = 0
    BY <1>3 DEF Update
  <2>2. QED
    BY <1>2, <2>1, EmptySeq
<1>5. Carried = Carried' \cup {Head(batch)}
  BY <1>2 DEF Update, Carried, main
<1>6. QED
  BY <1>2, <1>4, <1>5
-----------------------------------------------------------------------------
(***************************************************************************)
(* The parts of the invariant, step by step.                               *)
(***************************************************************************)
NewRow(d) == [id |-> nextId, dev |-> d, time |-> now]

\* The data of a device that is heard are well-formed.
LEMMA HeardTypes ==
  ASSUME Inv, NEW d \in Devices, Heard(d)
  PROVE  /\ cache' \in [Devices -> Times \cup {Never}]
         /\ NewRow(d) \in Blue
         /\ [id |-> lastRowid, dev |-> d, time |-> now] \in Blue
  BY DEF Heard, Inv, BtlTypeOK, Blue, NewRow

LEMMA TypeStep == Inv /\ [Next]_vars => BtlTypeOK'
<1> SUFFICES ASSUME Inv, [Next]_vars PROVE BtlTypeOK'
  OBVIOUS
<1>0. BtlTypeOK /\ Shape /\ Ids
  BY DEF Inv
<1>e. <<>> \in Seq(Blue)
  BY EmptySeq
<1> USE DEF disk, main, worker, history
<1>1. CASE Start
  BY <1>0, <1>1, StartFetches DEF Start, BtlTypeOK, Fetched
<1>2. CASE Push
  BY <1>0, <1>2, PushMoves DEF Push, BtlTypeOK
<1>3. ASSUME NEW d \in Devices, Hear(d)
      PROVE  BtlTypeOK'
  <2> USE <1>0
  <2>1. ASSUME HearKnown(d) PROVE BtlTypeOK'
    BY <2>1, HeardTypes DEF HearKnown, Heard, BtlTypeOK
  <2>2. ASSUME HearUnsure(d) PROVE BtlTypeOK'
    BY <2>2, HeardTypes DEF HearUnsure, Heard, BtlTypeOK
  <2>3. ASSUME HearNew(d) PROVE BtlTypeOK'
    <3>1. hand' = <<NewRow(d)>> /\ rows' = rows \cup {NewRow(d)}
      BY <2>3 DEF HearNew, NewRow
    <3>2. Heard(d) /\ NewRow(d) \in Blue
      BY <2>3, HeardTypes DEF HearNew
    <3>3. hand' \in Seq(Blue)
      BY <3>1, <3>2, HandOne
    <3>4. nextId' \in Nat /\ lastRowid' \in 0..nextId'
      BY <2>3 DEF HearNew, BtlTypeOK
    <3>5. QED
      BY <2>3, <3>1, <3>2, <3>3, <3>4, HeardTypes DEF HearNew, Heard, BtlTypeOK
  <2>4. ASSUME HearNewRefused(d) PROVE BtlTypeOK'
    <3> DEFINE b == [id |-> lastRowid, dev |-> d, time |-> now]
    <3>1. hand' = <<b>> /\ Heard(d)
      BY <2>4 DEF HearNewRefused
    <3>2. b \in Blue /\ SightingOf(b) \in Sightings
      BY <3>1, HeardTypes DEF Blue, SightingOf, Sightings
    <3>3. hand' \in Seq(Blue)
      BY <3>1, <3>2, HandOne
    <3>4. doubtful' \subseteq Sightings
      <4>1. \A r \in rows : SightingOf(r) \in Sightings
        BY DEF BtlTypeOK, Blue, SightingOf, Sightings
      <4>2. QED
        BY <2>4, <3>2, <4>1 DEF HearNewRefused, BtlTypeOK
    <3>5. QED
      BY <2>4, <3>1, <3>3, <3>4, HeardTypes DEF HearNewRefused, Heard, BtlTypeOK
  <2>5. QED
    BY <1>3, <2>1, <2>2, <2>3, <2>4 DEF Hear
<1>4. CASE TakeBatch
  BY <1>0, <1>4, TakeBatchMoves DEF TakeBatch, BtlTypeOK
<1>5. CASE PostAccepted \/ PostFailed \/ PostSilent
  <2>1. Range(batch) \subseteq Blue
    BY <1>0, ElementOfSeq, LenProperties DEF BtlTypeOK, Range
  <2>2. InBatch \subseteq Sightings
    BY <2>1 DEF InBatch, SightingOf, Blue, Sightings
  <2>3. QED
    BY <1>0, <1>e, <1>5, <2>1, <2>2 DEF PostAccepted, PostFailed, PostSilent, Posted, BtlTypeOK
<1>6. CASE Update
  <2>1. Head(batch) \in Blue /\ RowsOf(Head(batch)) \subseteq rows
    BY <1>0, <1>6, PopFront DEF Update, BtlTypeOK, Shape, RowsOf
  <2>2. QED
    BY <1>0, <1>6, <2>1, UpdateMoves DEF Update, BtlTypeOK
<1>7. CASE Tick
  BY <1>0, <1>7, BtlAssumption DEF Tick, BtlTypeOK, Times
<1>8. CASE Crash
  <2>1. now' \in Times /\ crashes' \in 0..MaxCrashes /\ lastRowid' \in 0..nextId'
    BY <1>0, <1>8, BtlAssumption DEF Crash, BtlTypeOK, Times
  <2>2. QED
    BY <1>0, <1>e, <1>8, <2>1 DEF Crash, BtlTypeOK, NoneCached
<1>9. CASE UNCHANGED vars
  BY <1>0, <1>9 DEF vars, BtlTypeOK
<1>10. QED
  BY <1>1, <1>2, <1>3, <1>4, <1>5, <1>6, <1>7, <1>8, <1>9 DEF Next

LEMMA ShapeStep == Inv /\ [Next]_vars => Shape'
<1> SUFFICES ASSUME Inv, [Next]_vars PROVE Shape'
  OBVIOUS
<1>0. BtlTypeOK /\ Shape
  BY DEF Inv
<1> USE DEF disk, main, worker, history, Shape
<1>1. CASE Start
  BY <1>0, <1>1 DEF Start
<1>2. CASE Push
  BY <1>0, <1>2 DEF Push
<1>3. ASSUME NEW d \in Devices, Hear(d)
      PROVE  Shape'
  BY <1>0, <1>3 DEF Hear, HearKnown, HearUnsure, HearNew, HearNewRefused, Heard
<1>4. CASE TakeBatch
  BY <1>0, <1>4, TakeBatchMoves DEF TakeBatch
<1>5. CASE PostAccepted \/ PostFailed \/ PostSilent
  BY <1>0, <1>5 DEF PostAccepted, PostFailed, PostSilent, Posted
<1>6. CASE Update
  BY <1>0, <1>6, UpdateMoves DEF Update
<1>7. CASE Tick
  BY <1>0, <1>7 DEF Tick
<1>8. CASE Crash
  BY <1>0, <1>8 DEF Crash
<1>9. CASE UNCHANGED vars
  BY <1>0, <1>9 DEF vars
<1>10. QED
  BY <1>1, <1>2, <1>3, <1>4, <1>5, <1>6, <1>7, <1>8, <1>9 DEF Next
-----------------------------------------------------------------------------
(***************************************************************************)
(* The properties, and Ids, Past and Known: a frame for the steps that     *)
(* leave the table alone and hold no new datum, and one step for each of   *)
(* the others.                                                             *)
(***************************************************************************)
Facts == Ids /\ Past /\ Known /\ PendingIsHeldOrDropped /\ OneRowPerDay /\ CachedIsStored

LEMMA StartFacts == Inv /\ Start => Facts'
<1> SUFFICES ASSUME Inv, Start PROVE Facts'
  OBVIOUS
<1>0. BtlTypeOK /\ Shape /\ Ids /\ Past /\ Known /\ OneRowPerDay
  BY DEF Inv
<1>1. Carried' = rows' \ uploaded'
  BY StartFetches
<1>2. /\ ~up /\ up' /\ rows' \subseteq rows
      /\ UNCHANGED <<nextId, now, cache, lastRowid, pc, batch, taken, doubtful, dropped, missed>>
  BY DEF Start, worker, history
<1>3. IsFiniteSet(rows')
  BY <1>0, <1>2, FS_Subset DEF Ids
<1>4. Ids'
  BY <1>0, <1>1, <1>2, <1>3 DEF Ids
<1>5. Past' /\ OneRowPerDay'
  BY <1>0, <1>2 DEF Past, OneRowPerDay, BtlTypeOK
<1>6. PendingIsHeldOrDropped'
  BY <1>1 DEF PendingIsHeldOrDropped, Pending
<1>7. Known'
  <2>1. \A b \in Carried' : SightingOf(b) \in Stored'
    BY <1>1 DEF Stored
  <2>2. pc' = "idle"
    BY <1>0, <1>2 DEF Shape
  <2>3. ASSUME NEW x \in taken' \ doubtful' PROVE x.time < now'
    <3>1. x \in Stored \/ x.time < now
      BY <1>0, <1>2, <2>3 DEF Known
    <3>2. CASE x \in Stored
      BY <1>0, <1>2, <3>2 DEF Stored, SightingOf, Past
    <3>3. QED
      BY <1>2, <3>1, <3>2
  <2>4. QED
    BY <2>1, <2>2, <2>3 DEF Known
<1>8. CachedIsStored'
  BY <1>0, <1>2 DEF CachedIsStored, Shape, NoneCached
<1>9. QED
  BY <1>4, <1>5, <1>6, <1>7, <1>8 DEF Facts

\* A step that leaves the table and what is known of it alone, and moves or
\* gives up data only.
LEMMA FrameFacts ==
  ASSUME Inv, UNCHANGED <<rows, nextId, lastRowid, now, up, doubtful, missed>>,
         Carried' \subseteq Carried,
         up => (rows' \ uploaded') \cap Carried \subseteq Carried' \cup dropped',
         uploaded \subseteq uploaded', dropped \subseteq dropped',
         cache' = cache \/ CachedIsStored',
         Known'
  PROVE  Facts'
<1>0. Ids /\ Past /\ PendingIsHeldOrDropped /\ OneRowPerDay /\ CachedIsStored
  BY DEF Inv
<1>1. Ids'
  BY <1>0 DEF Ids
<1>2. Past' /\ OneRowPerDay' /\ CachedIsStored'
  BY <1>0 DEF Past, OneRowPerDay, CachedIsStored
<1>3. PendingIsHeldOrDropped'
  BY <1>0 DEF PendingIsHeldOrDropped, Pending
<1>4. QED
  BY <1>1, <1>2, <1>3 DEF Facts

LEMMA HearFacts == ASSUME Inv, NEW d \in Devices, Hear(d) PROVE Facts'
<1>0. /\ BtlTypeOK /\ Shape /\ Ids /\ Past /\ Known
      /\ PendingIsHeldOrDropped /\ OneRowPerDay /\ CachedIsStored
  BY DEF Inv
<1>1. /\ Heard(d) /\ up /\ hand = <<>> /\ cache' = [cache EXCEPT ![d] = now]
      /\ UNCHANGED <<now, up, uploaded, queue, pc, batch, taken, dropped, crashes>>
  BY DEF Hear, HearKnown, HearUnsure, HearNew, HearNewRefused, Heard, worker
<1>2. \A e \in Devices : cache'[e] # Never => e = d \/ cache[e] # Never
  BY <1>0, <1>1 DEF BtlTypeOK
<1>3. now \in Nat /\ Day \in Nat \ {0} /\ \A r \in rows : r.time \in Nat
  BY <1>0, BtlAssumption DEF BtlTypeOK, Times, Blue
<1>4. CASE HearKnown(d)
  <2>1. UNCHANGED <<rows, nextId, lastRowid, hand, doubtful, missed>> /\ Carried' = Carried
    BY <1>1, <1>4 DEF HearKnown, Carried
  <2>2. d \in missed \/ \E r \in rows : r.dev = d
    BY <1>0, <1>4 DEF HearKnown, Recent, InDb, CachedIsStored
  <2>3. CachedIsStored'
    BY <1>0, <1>2, <2>1, <2>2 DEF CachedIsStored
  <2>4. Known'
    BY <1>0, <1>1, <2>1 DEF Known, Stored
  <2>5. QED
    BY <1>1, <2>1, <2>3, <2>4, FrameFacts
<1>5. CASE HearUnsure(d)
  <2>1. UNCHANGED <<rows, nextId, lastRowid, hand, doubtful>> /\ Carried' = Carried
        /\ missed' = missed \cup {d}
    BY <1>1, <1>5 DEF HearUnsure, Carried
  <2>2. Ids' /\ Past' /\ OneRowPerDay' /\ PendingIsHeldOrDropped'
    BY <1>0, <1>1, <2>1 DEF Ids, Past, OneRowPerDay, PendingIsHeldOrDropped, Pending
  <2>3. Known' /\ CachedIsStored'
    BY <1>0, <1>1, <1>2, <2>1 DEF Known, Stored, CachedIsStored
  <2>4. QED
    BY <2>2, <2>3 DEF Facts
<1>6. CASE HearNew(d)
  <2> DEFINE n == NewRow(d)
  <2>1. /\ rows' = rows \cup {n} /\ hand' = <<n>> /\ lastRowid' = nextId /\ nextId' = nextId + 1
        /\ UNCHANGED <<doubtful, missed>>
    BY <1>6 DEF HearNew, NewRow
  <2>2. n \in Blue /\ n.id = nextId /\ n.dev = d /\ n.time = now
    BY <1>1, HeardTypes DEF NewRow
  <2>3. Carried' = Carried \cup {n}
    BY <1>1, <2>1, <2>2, HandOne
  <2>4. nextId \in Nat /\ \A b \in Blue : b.id \in Nat
    BY <1>0 DEF BtlTypeOK, Blue
  <2>5. rows \subseteq Blue /\ Carried \subseteq Blue
    BY <1>0, ElementOfSeq, LenProperties DEF BtlTypeOK, Carried, Range
  <2>6. IsFiniteSet(rows')
    BY <1>0, <2>1, FS_AddElement DEF Ids
  <2>7. Ids'
    <3>1. 0 < nextId /\ lastRowid' < nextId'
      BY <1>0, <2>1, <2>4 DEF Ids, BtlTypeOK
    <3>2. \A r \in rows' : 0 < r.id /\ r.id < nextId'
      BY <1>0, <2>1, <2>2, <2>4, <2>5, <3>1 DEF Ids
    <3>3. \A r, q \in rows' : r.id = q.id => r = q
      BY <1>0, <2>1, <2>2, <2>4, <2>5 DEF Ids
    <3>4. \A b \in Carried' : b.id < nextId'
      BY <1>0, <2>1, <2>2, <2>3, <2>4, <2>5 DEF Ids
    <3>5. \A b \in Carried', r \in rows' : r.id = b.id => r = b \/ SightingOf(r) \in doubtful'
      BY <1>0, <2>1, <2>2, <2>3, <2>4, <2>5 DEF Ids
    <3>6. QED
      BY <2>6, <3>1, <3>2, <3>3, <3>4, <3>5 DEF Ids
  <2>8. Past'
    BY <1>0, <1>1, <1>3, <2>1, <2>2 DEF Past
  <2>9. OneRowPerDay'
    <3>1. \A r \in rows : r.dev = d => now - r.time >= Day
      BY <1>3, <1>6 DEF HearNew, InDb
    <3>2. QED
      BY <1>0, <2>1, <2>2, <3>1 DEF OneRowPerDay
  <2>10. CachedIsStored'
    BY <1>0, <1>2, <2>1, <2>2 DEF CachedIsStored
  <2>11. PendingIsHeldOrDropped'
    BY <1>0, <1>1, <2>1, <2>3 DEF PendingIsHeldOrDropped, Pending
  <2>12. Known'
    <3>1. Stored' = Stored \cup {SightingOf(n)}
      BY <2>1 DEF Stored
    <3>2. QED
      BY <1>0, <1>1, <2>1, <2>3, <3>1 DEF Known
  <2>13. QED
    BY <2>7, <2>8, <2>9, <2>10, <2>11, <2>12 DEF Facts
<1>7. CASE HearNewRefused(d)
  <2> DEFINE b == [id |-> lastRowid, dev |-> d, time |-> now]
  <2>1. /\ hand' = <<b>> /\ missed' = missed \cup {d}
        /\ doubtful' = doubtful \cup {SightingOf(b)}
                         \cup {SightingOf(r) : r \in {q \in rows : q.id = lastRowid}}
        /\ UNCHANGED <<rows, nextId, lastRowid>>
    BY <1>7 DEF HearNewRefused
  <2>2. b \in Blue /\ b.id = lastRowid
    BY <1>1, HeardTypes
  <2>3. Carried' = Carried \cup {b}
    BY <1>1, <2>1, <2>2, HandOne
  <2>4. Ids'
    <3>1. \A r \in rows : r.id = b.id => SightingOf(r) \in doubtful'
      BY <2>1, <2>2
    <3>2. doubtful \subseteq doubtful' /\ b.id < nextId
      BY <1>0, <2>1, <2>2 DEF Ids
    <3>3. QED
      BY <1>0, <2>1, <2>3, <3>1, <3>2 DEF Ids
  <2>5. Past' /\ OneRowPerDay'
    BY <1>0, <1>1, <2>1 DEF Past, OneRowPerDay
  <2>6. CachedIsStored'
    BY <1>0, <1>2, <2>1 DEF CachedIsStored
  <2>7. PendingIsHeldOrDropped'
    BY <1>0, <1>1, <2>1, <2>3 DEF PendingIsHeldOrDropped, Pending
  <2>8. Known'
    <3>1. Stored' = Stored /\ doubtful \cup {SightingOf(b)} \subseteq doubtful'
      BY <2>1 DEF Stored
    <3>2. QED
      BY <1>0, <1>1, <2>3, <3>1 DEF Known
  <2>9. QED
    BY <2>4, <2>5, <2>6, <2>7, <2>8 DEF Facts
<1>8. QED
  BY <1>4, <1>5, <1>6, <1>7 DEF Hear

LEMMA WorkerFacts ==
  ASSUME Inv, Push \/ TakeBatch \/ PostAccepted \/ PostFailed \/ PostSilent \/ Update
  PROVE  Facts'
<1>0. /\ BtlTypeOK /\ Shape /\ Ids /\ Past /\ Known
      /\ PendingIsHeldOrDropped /\ OneRowPerDay /\ CachedIsStored
  BY DEF Inv
<1> USE DEF disk, main, worker, history
<1>1. CASE Push
  <2>1. Carried' = Carried /\ UNCHANGED <<disk, now, up, cache, lastRowid, worker, history>>
    BY <1>1, PushMoves DEF Push
  <2>2. Known'
    BY <1>0, <2>1 DEF Known, Stored
  <2>3. QED
    BY <2>1, <2>2, FrameFacts
<1>2. CASE TakeBatch
  <2>1. Carried' = Carried /\ pc' = "post" /\ UNCHANGED <<disk, main, history>>
    BY <1>2, TakeBatchMoves DEF TakeBatch
  <2>2. Known'
    BY <1>0, <2>1 DEF Known, Stored
  <2>3. QED
    BY <2>1, <2>2, FrameFacts
<1>3. CASE PostAccepted \/ PostSilent
  <2>1. /\ batch' = batch /\ pc' = "update" /\ doubtful \subseteq doubtful'
        /\ UNCHANGED <<disk, main, queue, missed, dropped>>
        /\ taken' \subseteq taken \cup InBatch
        /\ taken \subseteq taken'
        /\ InBatch \subseteq taken' \cup doubtful'
    BY <1>3 DEF PostAccepted, PostSilent, Posted
  <2>2. Carried' = Carried /\ Stored' = Stored
    BY <2>1 DEF Carried, Stored
  <2>3. InBatch \subseteq Stored \cup doubtful
    BY <1>0 DEF InBatch, Known, Carried
  <2>4. Known'
    <3>1. \A b \in Carried' : SightingOf(b) \in Stored' \cup doubtful'
      BY <1>0, <2>1, <2>2 DEF Known
    <3>2. \A x \in taken' \ doubtful' : x \in Stored' \/ x.time < now'
      BY <1>0, <2>1, <2>2, <2>3 DEF Known
    <3>3. \A b \in Range(batch') : SightingOf(b) \in taken' \cup doubtful'
      BY <2>1 DEF InBatch
    <3>4. QED
      BY <3>1, <3>2, <3>3 DEF Known
  <2>5. Ids'
    BY <1>0, <2>1, <2>2 DEF Ids
  <2>6. Past' /\ OneRowPerDay' /\ CachedIsStored' /\ PendingIsHeldOrDropped'
    BY <1>0, <2>1, <2>2 DEF Past, OneRowPerDay, CachedIsStored, PendingIsHeldOrDropped, Pending
  <2>7. QED
    BY <2>4, <2>5, <2>6 DEF Facts
<1>4. CASE PostFailed
  <2>1. /\ batch' = <<>> /\ pc' = "idle" /\ dropped' = dropped \cup Range(batch)
        /\ UNCHANGED <<disk, main, queue, missed, taken, doubtful>>
    BY <1>4 DEF PostFailed, Posted
  <2>2. Carried' \subseteq Carried /\ Carried \subseteq Carried' \cup dropped'
    BY <2>1 DEF Carried, Range
  <2>3. Known'
    BY <1>0, <2>1, <2>2 DEF Known, Stored
  <2>4. QED
    BY <2>1, <2>2, <2>3, FrameFacts
<1>5. CASE Update
  <2> DEFINE b == Head(batch)
  <2>1. /\ \/ uploaded' = uploaded \cup RowsOf(b) /\ UNCHANGED dropped
           \/ dropped' = dropped \cup {b} /\ UNCHANGED uploaded
        /\ UNCHANGED <<rows, nextId, main, queue, taken, doubtful, missed, crashes>>
        /\ pc = "update"
    BY <1>5 DEF Update
  <2>2. Range(batch') \subseteq Range(batch) /\ Carried = Carried' \cup {b}
    BY <1>5, UpdateMoves
  <2>3. b \in rows => b \in RowsOf(b)
    BY DEF RowsOf
  <2>4. (rows' \ uploaded') \cap Carried \subseteq Carried' \cup dropped'
    BY <2>1, <2>2, <2>3
  <2>5. Known'
    BY <1>0, <2>1, <2>2 DEF Known, Stored
  <2>6. QED
    BY <2>1, <2>2, <2>4, <2>5, FrameFacts
<1>6. QED
  BY <1>1, <1>2, <1>3, <1>4, <1>5

LEMMA WorldFacts == Inv /\ (Tick \/ Crash \/ UNCHANGED vars) => Facts'
<1> SUFFICES ASSUME Inv, Tick \/ Crash \/ UNCHANGED vars PROVE Facts'
  OBVIOUS
<1>0. /\ BtlTypeOK /\ Shape /\ Ids /\ Past /\ Known
      /\ PendingIsHeldOrDropped /\ OneRowPerDay /\ CachedIsStored
  BY DEF Inv
<1>1. /\ now \in Nat /\ \A r \in rows : r.time \in Nat
      /\ \A x \in taken : x.time \in Nat
  BY <1>0 DEF BtlTypeOK, Blue, Sightings, Times
<1> USE DEF disk, main, worker, history
<1>2. CASE UNCHANGED vars
  BY <1>0, <1>2 DEF vars, Facts, Ids, Past, Known, Stored, Carried, PendingIsHeldOrDropped,
                    Pending, OneRowPerDay, CachedIsStored
<1>3. CASE Tick
  <2>1. now' = now + 1
        /\ UNCHANGED <<disk, up, cache, lastRowid, hand, queue, worker, history>>
    BY <1>3 DEF Tick
  <2>2. Carried' = Carried /\ Stored' = Stored
    BY <2>1 DEF Carried, Stored
  <2>3. Ids' /\ PendingIsHeldOrDropped' /\ OneRowPerDay' /\ CachedIsStored'
    BY <1>0, <2>1, <2>2 DEF Ids, PendingIsHeldOrDropped, Pending, OneRowPerDay, CachedIsStored
  <2>4. Past'
    BY <1>0, <1>1, <2>1 DEF Past
  <2>5. Known'
    BY <1>0, <1>1, <2>1, <2>2 DEF Known
  <2>6. QED
    BY <2>3, <2>4, <2>5 DEF Facts
<1>4. CASE Crash
  <2>1. /\ ~up' /\ cache' = NoneCached /\ lastRowid' = 0 /\ now' = now + 1 /\ pc' = "idle"
        /\ hand' = <<>> /\ queue' = <<>> /\ batch' = <<>>
        /\ UNCHANGED <<disk, taken, doubtful>>
    BY <1>4 DEF Crash
  <2>2. Carried' = {} /\ Stored' = Stored
    BY <2>1 DEF Carried, Stored, Range
  <2>3. Ids'
    <3>1. lastRowid' < nextId'
      BY <1>0, <2>1 DEF Ids, BtlTypeOK
    <3>2. QED
      BY <1>0, <2>1, <2>2, <3>1 DEF Ids
  <2>4. Past'
    BY <1>0, <1>1, <2>1 DEF Past
  <2>5. Known'
    BY <1>0, <1>1, <2>1, <2>2 DEF Known
  <2>6. PendingIsHeldOrDropped' /\ OneRowPerDay' /\ CachedIsStored'
    BY <1>0, <2>1 DEF PendingIsHeldOrDropped, OneRowPerDay, CachedIsStored, NoneCached
  <2>7. QED
    BY <2>3, <2>4, <2>5, <2>6 DEF Facts
<1>5. QED
  BY <1>2, <1>3, <1>4

LEMMA InvStep == Inv /\ [Next]_vars => Inv'
<1> SUFFICES ASSUME Inv, [Next]_vars PROVE Facts'
  BY TypeStep, ShapeStep DEF Inv, Facts
<1>1. QED
  BY StartFacts, HearFacts, WorkerFacts, WorldFacts DEF Next

\* The inductive invariant: the properties below, and that ids name rows and
\* that what the server took is stored or doubtful.
THEOREM BtlInvariant == Spec => []Inv
  BY InitInv, InvStep, PTL DEF Spec
-----------------------------------------------------------------------------
(***************************************************************************)
(* The theorems.                                                           *)
(***************************************************************************)

\* Type correctness of the table, the cache, the queue and the worker.
THEOREM BtlTypeCorrect == Spec => []BtlTypeOK
<1>1. Inv => BtlTypeOK
  BY DEF Inv
<1>2. QED
  BY <1>1, BtlInvariant, PTL

\* A row that waits for its upload is held by the process or was given up by a
\* failed post or a refused UPDATE (btl.cpp:132-137), whatever else happens.
THEOREM NothingPendingIsLost == Spec => []PendingIsHeldOrDropped
<1>1. Inv => PendingIsHeldOrDropped
  BY DEF Inv
<1>2. QED
  BY <1>1, BtlInvariant, PTL

\* The SELECT of in_db and the cache, which dies with the process, together
\* keep two rows of one device a day apart (btl.cpp:40, :154-157).
THEOREM RowsADayApart == Spec => []OneRowPerDay
<1>1. Inv => OneRowPerDay
  BY DEF Inv
<1>2. QED
  BY <1>1, BtlInvariant, PTL

\* What the cache has let through is in the table, unless the database refused
\* its SELECT or its INSERT (btl.cpp:48-50, :57).
THEOREM CachedHasARow == Spec => []CachedIsStored
<1>1. Inv => CachedIsStored
  BY DEF Inv
<1>2. QED
  BY <1>1, BtlInvariant, PTL
-----------------------------------------------------------------------------
(***************************************************************************)
(* The refinement: each step of btl is a step of the outbox, or none.      *)
(***************************************************************************)
Marked == {SightingOf(r) : r \in uploaded}

LEMMA BoxOfHear ==
  ASSUME Inv, Inv', NEW d \in Devices, Hear(d)
  PROVE  [Box!Next]_(Box!vars)
<1>0. BtlTypeOK /\ Ids /\ Known /\ OneRowPerDay
  BY DEF Inv
<1>1. UNCHANGED <<uploaded, taken>>
  BY DEF Hear, HearKnown, HearUnsure, HearNew, HearNewRefused, Heard
<1>2. CASE HearKnown(d) \/ HearUnsure(d)
  BY <1>1, <1>2 DEF HearKnown, HearUnsure, Box!vars
<1>3. CASE HearNew(d)
  <2> DEFINE x == SightingOf(NewRow(d))
  <2>1. rows' = rows \cup {NewRow(d)} /\ UNCHANGED doubtful
    BY <1>3 DEF HearNew, NewRow
  <2>2. x \in Sightings /\ x.dev = d /\ x.time = now
    BY <1>0 DEF NewRow, SightingOf, Sightings, BtlTypeOK
  <2>3. Stored' = Stored \cup {x}
    BY <2>1 DEF Stored
  <2>4. x \notin Stored
    <3>1. ~InDb(d) /\ \A r \in rows : r.time \in Int /\ now \in Int /\ Day \in Nat \ {0}
      BY <1>0, <1>3, BtlAssumption DEF HearNew, BtlTypeOK, Times, Blue
    <3>2. ASSUME NEW r \in rows, SightingOf(r) = x PROVE FALSE
      <4>1. r.dev = d /\ r.time = now
        BY <2>2, <3>2 DEF SightingOf
      <4>2. QED
        BY <3>1, <4>1 DEF InDb
    <3>3. QED
      BY <3>2 DEF Stored
  <2>5. x \notin taken \ doubtful
    BY <1>0, <2>2, <2>4 DEF Known, BtlTypeOK, Times
  <2>6. Box!Store(x)
    BY <1>1, <2>1, <2>3, <2>4, <2>5 DEF Box!Store, Stored
  <2>7. QED
    BY <2>2, <2>6 DEF Box!Next
<1>4. CASE HearNewRefused(d)
  <2> DEFINE b == [id |-> lastRowid, dev |-> d, time |-> now]
             S == {SightingOf(b)} \cup {SightingOf(r) : r \in {q \in rows : q.id = lastRowid}}
  <2>1. rows' = rows /\ doubtful' = doubtful \cup S
    BY <1>4 DEF HearNewRefused
  <2>2. S \subseteq Sightings
    BY <1>0 DEF SightingOf, Sightings, BtlTypeOK, Blue
  <2>3. Box!Mistake(S)
    BY <1>1, <2>1 DEF Box!Mistake
  <2>4. QED
    BY <2>2, <2>3 DEF Box!Next
<1>5. QED
  BY <1>2, <1>3, <1>4 DEF Hear

LEMMA BoxOfPost ==
  ASSUME Inv, PostAccepted \/ PostFailed \/ PostSilent
  PROVE  [Box!Next]_(Box!vars)
<1>0. BtlTypeOK /\ Known
  BY DEF Inv
<1>1. UNCHANGED <<rows, uploaded>>
  BY DEF PostAccepted, PostFailed, PostSilent, Posted, disk
<1>2. InBatch \subseteq Stored \cup doubtful
  BY <1>0 DEF InBatch, Known, Carried
<1>3. InBatch \subseteq Sightings
  BY <1>0, <1>2 DEF Stored, SightingOf, Sightings, BtlTypeOK, Blue
<1>4. CASE PostAccepted
  <2>1. Box!Accept(InBatch)
    BY <1>1, <1>2, <1>4 DEF PostAccepted, Box!Accept, Stored
  <2>2. QED
    BY <1>3, <2>1 DEF Box!Next
<1>5. CASE PostFailed
  BY <1>1, <1>5 DEF PostFailed, Box!vars
<1>6. CASE PostSilent
  <2>1. Box!Mistake(InBatch)
    BY <1>1, <1>6 DEF PostSilent, Box!Mistake
  <2>2. QED
    BY <1>3, <2>1 DEF Box!Next
<1>7. QED
  BY <1>4, <1>5, <1>6

LEMMA BoxOfUpdate ==
  ASSUME Inv, Update
  PROVE  [Box!Next]_(Box!vars)
<1> DEFINE b == Head(batch)
<1>0. BtlTypeOK /\ Ids /\ Known
  BY DEF Inv
<1>1. /\ UNCHANGED <<rows, taken, doubtful>> /\ pc = "update"
      /\ uploaded' = uploaded \cup RowsOf(b) \/ UNCHANGED uploaded
  BY DEF Update
<1>2. b \in Range(batch) /\ b \in Carried
  BY UpdateMoves DEF Carried
<1>3. CASE UNCHANGED uploaded
  BY <1>1, <1>3 DEF Box!vars
<1>4. CASE RowsOf(b) = {} /\ uploaded' = uploaded \cup RowsOf(b)
  BY <1>1, <1>4 DEF Box!vars
<1>5. ASSUME NEW r \in RowsOf(b), uploaded' = uploaded \cup RowsOf(b)
      PROVE  [Box!Next]_(Box!vars)
  <2> DEFINE x == SightingOf(r)
  <2>1. r \in rows /\ r.id = b.id
    BY DEF RowsOf
  <2>2. RowsOf(b) = {r}
    BY <1>0, <2>1 DEF Ids, RowsOf
  <2>3. x \in taken \cup doubtful
    BY <1>0, <1>1, <1>2, <2>1 DEF Ids, Known
  <2>4. Marked' = Marked \cup {x}
    BY <1>5, <2>2 DEF Marked
  <2>5. x \in Stored /\ x \in Sightings
    BY <1>0, <2>1 DEF Stored, SightingOf, Sightings, BtlTypeOK, Blue
  <2>6. Box!Mark(x)
    BY <1>1, <2>3, <2>4, <2>5 DEF Box!Mark, Stored, Marked
  <2>7. QED
    BY <2>5, <2>6 DEF Box!Next
<1>6. QED
  BY <1>1, <1>3, <1>4, <1>5

LEMMA BoxOfStart ==
  ASSUME Inv, Start
  PROVE  [Box!Next]_(Box!vars)
<1>0. BtlTypeOK /\ OneRowPerDay
  BY DEF Inv
<1>1. UNCHANGED <<taken, doubtful>>
  BY DEF Start, history
<1>2. CASE UNCHANGED <<rows, uploaded>>
  BY <1>1, <1>2 DEF Box!vars
<1>3. CASE rows' = rows \ uploaded /\ uploaded' = {}
  <2>1. \A r, q \in rows : SightingOf(r) = SightingOf(q) => r = q
    <3> SUFFICES ASSUME NEW r \in rows, NEW q \in rows, SightingOf(r) = SightingOf(q), r # q
                 PROVE  FALSE
      OBVIOUS
    <3>1. r.dev = q.dev /\ r.time = q.time
      BY DEF SightingOf
    <3>2. r.time \in Nat /\ Day \in Nat \ {0}
      BY <1>0, BtlAssumption DEF BtlTypeOK, Blue, Times
    <3>3. QED
      BY <1>0, <3>1, <3>2 DEF OneRowPerDay
  <2>2. Stored' = Stored \ Marked
    BY <1>0, <1>3, <2>1 DEF Stored, Marked, BtlTypeOK
  <2>3. Marked' = {}
    BY <1>3 DEF Marked
  <2>4. Box!Forget
    BY <1>1, <2>2, <2>3 DEF Box!Forget, Stored, Marked
  <2>5. QED
    BY <2>4 DEF Box!Next
<1>4. QED
  BY <1>2, <1>3 DEF Start

\* btl's table and its server are an outbox: nothing is marked before the
\* server has it and nothing is deleted before it is marked, but for the data
\* of a refused INSERT and of a connection closed without a reply.
THEOREM Refinement == Spec => ImplementsOutbox
<1>1. Init => Box!Init
  BY DEF Init, Box!Init
<1>2. Inv /\ Inv' /\ [Next]_vars => [Box!Next]_(Box!vars)
  <2> SUFFICES ASSUME Inv, Inv', [Next]_vars PROVE [Box!Next]_(Box!vars)
    OBVIOUS
  <2>1. CASE Push \/ TakeBatch \/ Tick \/ Crash \/ UNCHANGED vars
    BY <2>1 DEF Push, TakeBatch, Tick, Crash, vars, disk, history, Box!vars
  <2>2. QED
    BY <2>1, BoxOfHear, BoxOfPost, BoxOfUpdate, BoxOfStart DEF Next
<1>3. QED
  BY <1>1, <1>2, BtlInvariant, PTL DEF Spec, ImplementsOutbox, Box!Spec
=============================================================================
