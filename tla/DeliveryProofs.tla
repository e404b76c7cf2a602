--------------------------- MODULE DeliveryProofs ---------------------------
(***************************************************************************)
(* What TLAPS proves of Delivery, for any number of sightings, senders and *)
(* crashes and any batch sizes.                                            *)
(*                                                                         *)
(* Four invariants.  Accounting holds whatever fails: a row that waits for *)
(* its upload is somewhere.  Tracking and Budget hold whatever fails, too: *)
(* a datum is in one place of the process, and a start of the process      *)
(* gives its sighting one acceptance.  Honesty needs a database that is    *)
(* not busy and a server that always replies, and says that a flag, a      *)
(* place in the updater or a mark is only ever earned by the server's      *)
(* acceptance.  The four together give the refinement of Outbox.           *)
(***************************************************************************)
EXTENDS Delivery, QueueLemmas, SequenceTheorems, TLAPS

\* What the control state says of the data: no process, no data; the checker
\* holds one datum at most; a worker that asks for a batch has none; a cursor
\* only while a table is read.
Shape ==
    /\ phase = "down" => Carried = {}
    /\ hand = <<>> \/ Range(hand) = {Head(hand)}
    /\ \A s \in Senders : pc[s] = "idle" => batch[s] = <<>>
    /\ phase \in {"down", "run"} => cursor = 0

\* A row's id is one the table has handed out, and no other row of its table
\* has it.
RowIds ==
    \A r \in rows : /\ 0 < r.id /\ r.id < nextId[r.kind]
                    /\ \A q \in rows : q.kind = r.kind /\ q.id = r.id => q = r

Accounting == DeliveryTypeOK /\ Shape /\ RowIds /\ PendingIsAccountedFor

\* No lost replies and no busy database.
Reliable == ~SilentClose /\ ~DbBusy

Accepted(m) == accepts[m.sighting] > 0

\* What a sender's flag, a place in the updater's hands and a mark stand for.
Honesty ==
    /\ Carried \subseteq rows
    /\ \A s \in Senders, k \in Kinds : ok[s][k] => \A m \in Group(s, k) : Accepted(m)
    /\ \A m \in Range(updQ) \cup Range(updBatch) : Accepted(m)
    /\ \A r \in uploaded : Accepted(r)
-----------------------------------------------------------------------------
(***************************************************************************)
(* Types.                                                                  *)
(***************************************************************************)
LEMMA TypeInit == Init => DeliveryTypeOK
<1> SUFFICES ASSUME Init PROVE DeliveryTypeOK
  OBVIOUS
<1>1. <<>> \in Seq(Data)
  BY EmptySeq
<1>2. nextId \in [Kinds -> Nat \ {0}] /\ phase \in {"down", "run"} \cup Kinds
  BY DEF Init, Kinds
<1>3. pc \in [Senders -> {"idle", "route"} \cup Kinds] /\ ok \in [Senders -> [Kinds -> BOOLEAN]]
  BY DEF Init, NoFlags
<1>4. QED
  BY <1>1, <1>2, <1>3, DeliveryAssumption DEF Init, DeliveryTypeOK

LEMMA TypeStep == DeliveryTypeOK /\ [Next]_vars => DeliveryTypeOK'
<1> SUFFICES ASSUME DeliveryTypeOK, [Next]_vars
             PROVE  DeliveryTypeOK'
  OBVIOUS
<1> USE DEF DeliveryTypeOK, disk, startup, checkerVars, senderVars, updaterVars, history
<1>1. CASE Boot
  BY <1>1 DEF Boot, Kinds
<1>2. ASSUME NEW k \in Kinds, LoadRow(k)
      PROVE  DeliveryTypeOK'
  <2>1. PICK r \in Unread(k) : sendQ' = Append(sendQ, r) /\ cursor' = r.id
    BY <1>2 DEF LoadRow
  <2>2. r \in Data /\ r.id \in Nat
    BY <2>1 DEF Unread, Data
  <2>3. sendQ' \in Seq(Data)
    BY <2>1, <2>2, Enqueue
  <2>4. QED
    BY <1>2, <2>1, <2>2, <2>3 DEF LoadRow
<1>3. ASSUME NEW k \in Kinds, LoadDone(k)
      PROVE  DeliveryTypeOK'
  BY <1>3 DEF LoadDone, Kinds
<1>4. ASSUME NEW x \in Sightings, SyncDb(x)
      PROVE  DeliveryTypeOK'
  <2> DEFINE k == KindOf(x)
             row == [kind |-> k, id |-> nextId[k], sighting |-> x]
  <2>1. k \in Kinds /\ nextId[k] \in Nat \ {0} /\ row \in Data
    BY DEF KindOf, Kinds, Data
  <2>2. <<row>> \in Seq(Data)
    BY <2>1
  <2>3. nextId' \in [Kinds -> Nat \ {0}]
    BY <1>4, <2>1 DEF SyncDb
  <2>4. rows' = rows \cup {row} /\ lastRowid' = nextId[k] /\ hand' = <<row>>
    BY <1>4 DEF SyncDb
  <2> HIDE DEF row, k
  <2>5. QED
    BY <1>4, <2>1, <2>2, <2>3, <2>4 DEF SyncDb
<1>5. ASSUME NEW x \in Sightings, SyncDbBusy(x)
      PROVE  DeliveryTypeOK'
  <2>1. [kind |-> KindOf(x), id |-> lastRowid, sighting |-> x] \in Data
    BY DEF KindOf, Kinds, Data
  <2>2. hand' \in Seq(Data)
    BY <1>5, <2>1 DEF SyncDbBusy
  <2>3. QED
    BY <1>5, <2>2 DEF SyncDbBusy
<1>6. CASE PushToSender
  <2>1. Head(hand) \in Data /\ <<>> \in Seq(Data)
    BY <1>6, PopFront, EmptySeq DEF PushToSender
  <2>2. sendQ' \in Seq(Data)
    BY <1>6, <2>1, Enqueue DEF PushToSender
  <2>3. QED
    BY <1>6, <2>1, <2>2 DEF PushToSender
<1>7. ASSUME NEW s \in Senders, TakeBatch(s)
      PROVE  DeliveryTypeOK'
  <2> DEFINE n == Smaller(BatchSize, Len(sendQ))
  <2>1. n \in Nat /\ n <= Len(sendQ)
    BY DeliveryAssumption, LenProperties DEF Smaller
  <2>2. SubSeq(sendQ, 1, n) \in Seq(Data) /\ SubSeq(sendQ, n + 1, Len(sendQ)) \in Seq(Data)
    BY <2>1, TakeFront
  <2>3. /\ batch' = [batch EXCEPT ![s] = SubSeq(sendQ, 1, n)]
        /\ sendQ' = SubSeq(sendQ, n + 1, Len(sendQ))
    BY <1>7 DEF TakeBatch
  <2> HIDE DEF n
  <2>4. batch' \in [Senders -> Seq(Data)] /\ sendQ' \in Seq(Data)
    BY <2>2, <2>3
  <2>5. pc' \in [Senders -> {"idle", "route"} \cup Kinds] /\ ok' \in [Senders -> [Kinds -> BOOLEAN]]
    BY <1>7 DEF TakeBatch, NoFlags, Kinds
  <2>6. QED
    BY <1>7, <2>4, <2>5 DEF TakeBatch
<1>8. ASSUME NEW s \in Senders, NEW k \in Kinds, NoPost(s, k)
      PROVE  DeliveryTypeOK'
  BY <1>8 DEF NoPost, AfterPost, Kinds
<1>9. ASSUME NEW s \in Senders, NEW k \in Kinds, NEW o \in Outcomes, Post(s, k, o)
      PROVE  DeliveryTypeOK'
  <2>1. ok' \in [Senders -> [Kinds -> BOOLEAN]]
    BY <1>9 DEF Post
  <2>2. accepts' \in [Sightings -> Nat]
    BY <1>9 DEF Post
  <2>3. pc' \in [Senders -> {"idle", "route"} \cup Kinds]
    BY <1>9 DEF Post, AfterPost, Kinds
  <2>4. QED
    BY <1>9, <2>1, <2>2, <2>3 DEF Post
<1>10. ASSUME NEW s \in Senders, Route(s)
       PROVE  DeliveryTypeOK'
  <2>1. batch[s] \in Seq(Data) /\ batch[s] # <<>>
    BY <1>10 DEF Route
  <2>2. Head(batch[s]) \in Data /\ Tail(batch[s]) \in Seq(Data)
    BY <2>1, PopFront
  <2>3. batch' \in [Senders -> Seq(Data)]
    BY <1>10, <2>2 DEF Route
  <2>4. Append(updQ, Head(batch[s])) \in Seq(Data) /\ Append(sendQ, Head(batch[s])) \in Seq(Data)
    BY <2>2, Enqueue
  <2>5. updQ' \in Seq(Data) /\ sendQ' \in Seq(Data) /\ dropped' \subseteq Data
    BY <1>10, <2>2, <2>4 DEF Route
  <2>6. QED
    BY <1>10, <2>3, <2>5 DEF Route
<1>11. ASSUME NEW s \in Senders, BatchDone(s)
       PROVE  DeliveryTypeOK'
  <2>1. NoFlags \in [Kinds -> BOOLEAN]
    BY DEF NoFlags
  <2>2. ok' \in [Senders -> [Kinds -> BOOLEAN]]
    BY <1>11, <2>1 DEF BatchDone
  <2>3. QED
    BY <1>11, <2>2 DEF BatchDone
<1>12. CASE TakeUpdates
  <2> DEFINE n == Smaller(UpdateBatch, Len(updQ))
  <2>1. n \in Nat /\ n <= Len(updQ)
    BY DeliveryAssumption, LenProperties DEF Smaller
  <2>2. SubSeq(updQ, 1, n) \in Seq(Data) /\ SubSeq(updQ, n + 1, Len(updQ)) \in Seq(Data)
    BY <2>1, TakeFront
  <2>3. updBatch' = SubSeq(updQ, 1, n) /\ updQ' = SubSeq(updQ, n + 1, Len(updQ))
    BY <1>12 DEF TakeUpdates
  <2> HIDE DEF n
  <2>4. QED
    BY <1>12, <2>2, <2>3 DEF TakeUpdates
<1>13. CASE UpdateOne
  <2>1. Head(updBatch) \in Data /\ Tail(updBatch) \in Seq(Data)
    BY <1>13, PopFront DEF UpdateOne
  <2>2. uploaded' \subseteq rows /\ unmarked' \subseteq Data
    BY <1>13, <2>1 DEF UpdateOne, RowsOf
  <2>3. QED
    BY <1>13, <2>1, <2>2 DEF UpdateOne
<1>14. CASE Crash
  <2>1. <<>> \in Seq(Data)
    BY EmptySeq
  <2>2. crashes' \in 0..MaxCrashes
    BY <1>14, DeliveryAssumption DEF Crash
  <2>3. ok' \in [Senders -> [Kinds -> BOOLEAN]] /\ pc' \in [Senders -> {"idle", "route"} \cup Kinds]
    BY <1>14 DEF Crash, NoFlags
  <2>4. QED
    BY <1>14, <2>1, <2>2, <2>3 DEF Crash
<1>15. CASE UNCHANGED vars
  BY <1>15 DEF vars
<1>16. QED
  BY <1>1, <1>2, <1>3, <1>4, <1>5, <1>6, <1>7, <1>8, <1>9, <1>10, <1>11, <1>12,
     <1>13, <1>14, <1>15
     DEF Next, StartStep, CheckerStep, SenderStep, UpdaterStep

\* Type correctness of the database, the queues and the workers.
THEOREM DeliveryTypeCorrect == Spec => []DeliveryTypeOK
  BY TypeInit, TypeStep, PTL DEF Spec
-----------------------------------------------------------------------------
(***************************************************************************)
(* Accounting.  Each step moves data between the queues, and what leaves   *)
(* all of them is marked, dropped by a sender, or forgotten in a crash     *)
(* after which every row is read again.                                    *)
(***************************************************************************)
LEMMA AccountingInit == Init => Accounting
<1> SUFFICES ASSUME Init PROVE Accounting
  OBVIOUS
<1>1. DeliveryTypeOK
  BY TypeInit
<1>2. Carried = {}
  BY DEF Init, Carried, InBatches, Range
<1>3. Shape
  BY <1>2 DEF Init, Shape
<1>4. RowIds /\ PendingIsAccountedFor
  BY DEF Init, RowIds, PendingIsAccountedFor, Pending
<1>5. QED
  BY <1>1, <1>3, <1>4 DEF Accounting

\* Data that stays in its sequences stays carried.
LEMMA CarriedUnchanged ==
  ASSUME UNCHANGED <<hand, sendQ, batch, updQ, updBatch>>
  PROVE  Carried' = Carried
  BY DEF Carried, InBatches

LEMMA AccountingStep == Accounting /\ [Next]_vars => Accounting'
<1> SUFFICES ASSUME Accounting, [Next]_vars
             PROVE  Shape' /\ RowIds' /\ PendingIsAccountedFor'
  BY TypeStep DEF Accounting
<1> USE DEF Accounting, disk, startup, checkerVars, senderVars, updaterVars, history
<1>1. CASE Boot
  <2>1. Carried' = Carried /\ Carried = {}
    BY <1>1, CarriedUnchanged DEF Boot, Shape
  <2>2. Shape'
    BY <1>1, <2>1 DEF Boot, Shape
  <2>3. RowIds'
    BY <1>1 DEF Boot, RowIds
  <2>4. Pending' \subseteq ToLoad'
    BY <1>1 DEF Boot, Pending, ToLoad, Shape, RowIds, DeliveryTypeOK, Data, Kinds
  <2>5. QED
    BY <2>2, <2>3, <2>4 DEF PendingIsAccountedFor
<1>2. ASSUME NEW k \in Kinds, LoadRow(k)
      PROVE  Shape' /\ RowIds' /\ PendingIsAccountedFor'
  <2>1. PICK r \in Unread(k) : /\ \A q \in Unread(k) : r.id <= q.id
                               /\ sendQ' = Append(sendQ, r)
                               /\ cursor' = r.id
    BY <1>2 DEF LoadRow
  <2>2. r \in rows /\ r \in Data /\ r.kind = k
    BY <2>1 DEF Unread, DeliveryTypeOK
  <2>3. Range(sendQ') = Range(sendQ) \cup {r}
    BY <2>1, <2>2, Enqueue DEF DeliveryTypeOK
  <2>4. Carried' = Carried \cup {r}
    BY <1>2, <2>3 DEF LoadRow, Carried, InBatches
  <2>5. Shape'
    BY <1>2 DEF LoadRow, Shape, Kinds
  <2>6. RowIds'
    BY <1>2 DEF LoadRow, RowIds
  <2>7. ASSUME NEW q \in ToLoad, q # r
        PROVE  q \in ToLoad'
    <3>1. q \in rows /\ q.id \in Nat /\ q.kind \in Kinds /\ r.id \in Nat
      BY <2>2 DEF ToLoad, DeliveryTypeOK, Data
    <3>2. q.kind # k \/ q.id # r.id
      BY <2>2, <2>7, <3>1 DEF RowIds
    <3>3. q.kind = k => q \in Unread(k)
      BY <1>2 DEF LoadRow, ToLoad, Unread, Kinds
    <3>4. q.kind = k => q.id > r.id
      BY <2>1, <3>1, <3>2, <3>3
    <3>5. QED
      BY <1>2, <2>1, <3>1, <3>4 DEF LoadRow, ToLoad, Kinds
  <2>8. Pending' \subseteq Carried' \cup ToLoad' \cup dropped' \cup unmarked'
    BY <1>2, <2>4, <2>7 DEF LoadRow, PendingIsAccountedFor, Pending
  <2>9. QED
    BY <2>5, <2>6, <2>8 DEF PendingIsAccountedFor
<1>3. ASSUME NEW k \in Kinds, LoadDone(k)
      PROVE  Shape' /\ RowIds' /\ PendingIsAccountedFor'
  <2>1. Carried' = Carried
    BY <1>3, CarriedUnchanged DEF LoadDone
  <2>2. Shape'
    BY <1>3, <2>1 DEF LoadDone, Shape
  <2>3. RowIds'
    BY <1>3 DEF LoadDone, RowIds
  <2>4. ToLoad \subseteq ToLoad'
    BY <1>3 DEF LoadDone, ToLoad, Unread, RowIds, DeliveryTypeOK, Data, Kinds
  <2>5. QED
    BY <1>3, <2>1, <2>2, <2>3, <2>4 DEF LoadDone, PendingIsAccountedFor, Pending
<1>4. ASSUME NEW x \in Sightings, SyncDb(x)
      PROVE  Shape' /\ RowIds' /\ PendingIsAccountedFor'
  <2> DEFINE k == KindOf(x)
             row == [kind |-> k, id |-> nextId[k], sighting |-> x]
  <2>1. /\ rows' = rows \cup {row} /\ hand' = <<row>> /\ hand = <<>> /\ phase = "run"
        /\ nextId' = [nextId EXCEPT ![k] = @ + 1]
    BY <1>4 DEF SyncDb
  <2>2. k \in Kinds /\ nextId[k] \in Nat \ {0} /\ row.kind = k /\ row.id = nextId[k]
    BY DEF KindOf, Kinds, DeliveryTypeOK
  <2> HIDE DEF row, k
  <2>3. Carried' = Carried \cup {row}
    BY <1>4, <2>1 DEF SyncDb, Carried, InBatches, Range
  <2>4. Shape'
    BY <1>4, <2>1, <2>3 DEF SyncDb, Shape, Range
  <2>5. RowIds'
    <3>1. /\ \A r \in rows : r.kind \in Kinds /\ r.id \in Nat
          /\ \A r \in rows : 0 < r.id /\ r.id < nextId[r.kind]
          /\ \A r, q \in rows : q.kind = r.kind /\ q.id = r.id => q = r
      BY DEF RowIds, DeliveryTypeOK, Data
    <3>2. /\ \A j \in Kinds : nextId[j] \in Nat /\ nextId'[j] \in Nat /\ nextId[j] <= nextId'[j]
          /\ nextId'[k] = nextId[k] + 1
      BY <2>1, <2>2 DEF DeliveryTypeOK
    <3>3. \A r \in rows' : 0 < r.id /\ r.id < nextId'[r.kind]
      BY <2>1, <2>2, <3>1, <3>2
    <3>4. \A r, q \in rows' : q.kind = r.kind /\ q.id = r.id => q = r
      BY <2>1, <2>2, <3>1
    <3>5. QED
      BY <3>3, <3>4 DEF RowIds
  <2>6. Pending' \subseteq Pending \cup {row} /\ ToLoad \subseteq ToLoad'
    BY <1>4, <2>1 DEF SyncDb, Pending, ToLoad
  <2>7. QED
    BY <1>4, <2>3, <2>4, <2>5, <2>6 DEF SyncDb, PendingIsAccountedFor
<1>5. ASSUME NEW x \in Sightings, SyncDbBusy(x)
      PROVE  Shape' /\ RowIds' /\ PendingIsAccountedFor'
  <2>1. Carried \subseteq Carried'
    BY <1>5 DEF SyncDbBusy, Carried, InBatches, Range
  <2>2. Shape'
    BY <1>5 DEF SyncDbBusy, Shape, Range
  <2>3. RowIds'
    BY <1>5 DEF SyncDbBusy, RowIds
  <2>4. QED
    BY <1>5, <2>1, <2>2, <2>3 DEF SyncDbBusy, PendingIsAccountedFor, Pending, ToLoad
<1>6. CASE PushToSender
  <2>1. Head(hand) \in Data /\ Range(hand) = {Head(hand)}
    BY <1>6, PopFront DEF PushToSender, DeliveryTypeOK, Shape
  <2>2. Range(sendQ') = Range(sendQ) \cup {Head(hand)}
    BY <1>6, <2>1, Enqueue DEF PushToSender, DeliveryTypeOK
  <2>3. Range(hand') = {}
    BY <1>6 DEF PushToSender, Range
  <2>4. Carried' = Carried
    BY <1>6, <2>1, <2>2, <2>3 DEF PushToSender, Carried, InBatches
  <2>5. Shape' /\ RowIds'
    BY <1>6, <2>4 DEF PushToSender, Shape, RowIds
  <2>6. QED
    BY <1>6, <2>4, <2>5 DEF PushToSender, PendingIsAccountedFor, Pending, ToLoad
<1>7. ASSUME NEW s \in Senders, TakeBatch(s)
      PROVE  Shape' /\ RowIds' /\ PendingIsAccountedFor'
  <2> DEFINE n == Smaller(BatchSize, Len(sendQ))
  <2>1. n \in Nat /\ n <= Len(sendQ)
    BY DeliveryAssumption, LenProperties DEF Smaller, DeliveryTypeOK
  <2>2. /\ batch' = [batch EXCEPT ![s] = SubSeq(sendQ, 1, n)]
        /\ sendQ' = SubSeq(sendQ, n + 1, Len(sendQ))
    BY <1>7 DEF TakeBatch
  <2>3. Range(sendQ) = Range(SubSeq(sendQ, 1, n)) \cup Range(SubSeq(sendQ, n + 1, Len(sendQ)))
    BY <2>1, TakeFront DEF DeliveryTypeOK
  <2> HIDE DEF n
  <2>4. Range(sendQ) = Range(batch'[s]) \cup Range(sendQ') /\ batch[s] = <<>>
    BY <1>7, <2>2, <2>3 DEF TakeBatch, Shape, DeliveryTypeOK
  <2>5. Range(batch[s]) = {} /\ \A t \in Senders \ {s} : batch'[t] = batch[t]
    BY <2>2, <2>4 DEF Range, DeliveryTypeOK
  <2>6. InBatches' = InBatches \cup Range(batch'[s])
    BY <2>5 DEF InBatches
  <2>7. Carried' = Carried
    BY <1>7, <2>4, <2>6 DEF TakeBatch, Carried
  <2>8. Shape' /\ RowIds'
    BY <1>7, <2>5, <2>7 DEF TakeBatch, Shape, RowIds, DeliveryTypeOK
  <2>9. QED
    BY <1>7, <2>7, <2>8 DEF TakeBatch, PendingIsAccountedFor, Pending, ToLoad
<1>8. ASSUME NEW s \in Senders, NEW k \in Kinds, NoPost(s, k)
      PROVE  Shape' /\ RowIds' /\ PendingIsAccountedFor'
  <2>1. Carried' = Carried
    BY <1>8, CarriedUnchanged DEF NoPost
  <2>2. Shape' /\ RowIds'
    BY <1>8, <2>1 DEF NoPost, AfterPost, Shape, RowIds, DeliveryTypeOK
  <2>3. QED
    BY <1>8, <2>1, <2>2 DEF NoPost, PendingIsAccountedFor, Pending, ToLoad
<1>9. ASSUME NEW s \in Senders, NEW k \in Kinds, NEW o \in Outcomes, Post(s, k, o)
      PROVE  Shape' /\ RowIds' /\ PendingIsAccountedFor'
  <2>1. Carried' = Carried
    BY <1>9, CarriedUnchanged DEF Post
  <2>2. Shape' /\ RowIds'
    BY <1>9, <2>1 DEF Post, AfterPost, Shape, RowIds, DeliveryTypeOK
  <2>3. QED
    BY <1>9, <2>1, <2>2 DEF Post, PendingIsAccountedFor, Pending, ToLoad
<1>10. ASSUME NEW s \in Senders, Route(s)
       PROVE  Shape' /\ RowIds' /\ PendingIsAccountedFor'
  <2> DEFINE m == Head(batch[s])
  <2>1. batch[s] \in Seq(Data) /\ batch[s] # <<>> /\ pc[s] = "route"
    BY <1>10 DEF Route, DeliveryTypeOK
  <2>2. /\ m \in Data
        /\ Range(batch[s]) = {m} \cup Range(Tail(batch[s]))
    BY <2>1, PopFront
  <2>3. batch' = [batch EXCEPT ![s] = Tail(@)]
    BY <1>10 DEF Route
  <2> HIDE DEF m
  <2>4. /\ batch'[s] = Tail(batch[s])
        /\ \A t \in Senders \ {s} : batch'[t] = batch[t]
    BY <2>3 DEF DeliveryTypeOK
  <2>5. InBatches \subseteq InBatches' \cup {m}
    BY <2>2, <2>4 DEF InBatches
  <2>6. /\ Range(Append(updQ, m)) = Range(updQ) \cup {m}
        /\ Range(Append(sendQ, m)) = Range(sendQ) \cup {m}
    BY <2>2, Enqueue DEF DeliveryTypeOK
  <2>7. Carried \subseteq Carried' \cup dropped' /\ dropped \subseteq dropped'
    BY <1>10, <2>5, <2>6 DEF Route, Carried, m
  <2>8. phase # "down"
    BY <2>1, <2>2 DEF Shape, Carried, InBatches
  <2>9. Shape' /\ RowIds'
    BY <1>10, <2>1, <2>4, <2>8 DEF Route, Shape, RowIds
  <2>10. QED
    BY <1>10, <2>7, <2>9 DEF Route, PendingIsAccountedFor, Pending, ToLoad
<1>11. ASSUME NEW s \in Senders, BatchDone(s)
       PROVE  Shape' /\ RowIds' /\ PendingIsAccountedFor'
  <2>1. Carried' = Carried
    BY <1>11, CarriedUnchanged DEF BatchDone
  <2>2. Shape' /\ RowIds'
    BY <1>11, <2>1 DEF BatchDone, Shape, RowIds, DeliveryTypeOK
  <2>3. QED
    BY <1>11, <2>1, <2>2 DEF BatchDone, PendingIsAccountedFor, Pending, ToLoad
<1>12. CASE TakeUpdates
  <2> DEFINE n == Smaller(UpdateBatch, Len(updQ))
  <2>1. n \in Nat /\ n <= Len(updQ)
    BY DeliveryAssumption, LenProperties DEF Smaller, DeliveryTypeOK
  <2>2. updBatch' = SubSeq(updQ, 1, n) /\ updQ' = SubSeq(updQ, n + 1, Len(updQ))
    BY <1>12 DEF TakeUpdates
  <2>3. Range(updQ) = Range(updBatch') \cup Range(updQ')
    BY <2>1, <2>2, TakeFront DEF DeliveryTypeOK
  <2>4. Range(updBatch) = {}
    BY <1>12 DEF TakeUpdates, Range
  <2>5. Carried' = Carried
    BY <1>12, <2>3, <2>4 DEF TakeUpdates, Carried, InBatches
  <2>6. Shape' /\ RowIds'
    BY <1>12, <2>5 DEF TakeUpdates, Shape, RowIds
  <2>7. QED
    BY <1>12, <2>5, <2>6 DEF TakeUpdates, PendingIsAccountedFor, Pending, ToLoad
<1>13. CASE UpdateOne
  <2> DEFINE m == Head(updBatch)
  <2>1. m \in Data /\ Range(updBatch) = {m} \cup Range(updBatch')
    BY <1>13, PopFront DEF UpdateOne, DeliveryTypeOK
  <2>2. Carried = Carried' \cup {m}
    BY <1>13, <2>1 DEF UpdateOne, Carried, InBatches
  <2>3. \/ uploaded' = uploaded \cup RowsOf(m) /\ unmarked' = unmarked
        \/ uploaded' = uploaded /\ unmarked' = unmarked \cup {m}
    BY <1>13, Zenon DEF UpdateOne
  <2>4. rows' = rows
    BY <1>13 DEF UpdateOne
  <2> HIDE DEF m
  <2>5. m \in rows => m \in RowsOf(m)
    BY DEF RowsOf
  <2>6. Pending' \subseteq Pending /\ (m \in Pending' => m \in unmarked')
    <3>1. CASE uploaded' = uploaded \cup RowsOf(m)
      BY <2>4, <2>5, <3>1 DEF Pending
    <3>2. CASE uploaded' = uploaded /\ unmarked' = unmarked \cup {m}
      BY <2>4, <3>2 DEF Pending
    <3>3. QED
      BY <2>3, <3>1, <3>2
  <2>7. ToLoad \cap Pending' \subseteq ToLoad'
    BY <1>13 DEF UpdateOne, ToLoad, Pending
  <2>8. phase # "down"
    BY <2>2 DEF Shape
  <2>9. Shape' /\ RowIds'
    BY <1>13, <2>8 DEF UpdateOne, Shape, RowIds
  <2>10. dropped' = dropped /\ unmarked \subseteq unmarked'
    BY <1>13, <2>3 DEF UpdateOne
  <2>11. QED
    BY <2>2, <2>6, <2>7, <2>9, <2>10 DEF PendingIsAccountedFor
<1>14. CASE Crash
  <2>1. Carried' = {}
    BY <1>14 DEF Crash, Carried, InBatches, Range
  <2>2. Shape'
    BY <1>14, <2>1 DEF Crash, Shape
  <2>3. RowIds'
    BY <1>14 DEF Crash, RowIds
  <2>4. Pending' \subseteq ToLoad'
    BY <1>14 DEF Crash, Pending, ToLoad
  <2>5. QED
    BY <2>2, <2>3, <2>4 DEF PendingIsAccountedFor
<1>15. CASE UNCHANGED vars
  <2>1. Carried' = Carried
    BY <1>15, CarriedUnchanged DEF vars
  <2>2. QED
    BY <1>15, <2>1 DEF vars, Shape, RowIds, PendingIsAccountedFor, Pending, ToLoad
<1>16. QED
  BY <1>1, <1>2, <1>3, <1>4, <1>5, <1>6, <1>7, <1>8, <1>9, <1>10, <1>11, <1>12,
     <1>13, <1>14, <1>15
     DEF Next, StartStep, CheckerStep, SenderStep, UpdaterStep

\* No row that waits for its upload is ever forgotten by all parts of the
\* program, whatever fails and whenever the process crashes, except the aps
\* that core.cpp:84 only logs and the failed UPDATEs of core.cpp:122.
THEOREM NothingIsForgotten == Spec => []PendingIsAccountedFor
<1>1. Accounting => PendingIsAccountedFor
  BY DEF Accounting
<1>2. QED
  BY <1>1, AccountingInit, AccountingStep, PTL DEF Spec
-----------------------------------------------------------------------------
(***************************************************************************)
(* Honesty.  The acceptance of a datum is recorded by the flag of its kind *)
(* in the worker that posted it, travels with the datum to the updater and *)
(* ends in a mark; RowIds makes the mark hit that datum's row only.        *)
(***************************************************************************)
LEMMA HonestyInit == Init => Honesty
<1> SUFFICES ASSUME Init PROVE Honesty
  OBVIOUS
<1>1. Carried = {}
  BY DEF Init, Carried, InBatches, Range
<1>2. \A s \in Senders, k \in Kinds : ~ok[s][k]
  BY DEF Init, NoFlags
<1>3. uploaded = {} /\ Range(updQ) = {} /\ Range(updBatch) = {}
  BY DEF Init, Range
<1>4. QED
  BY <1>1, <1>2, <1>3 DEF Honesty

\* A step that touches none of the data and takes back no acceptance.
LEMMA HonestyFrame ==
  ASSUME Honesty, UNCHANGED <<rows, uploaded, hand, sendQ, batch, ok, updQ, updBatch, accepts>>
  PROVE  Honesty'
  BY CarriedUnchanged DEF Honesty, Group, Accepted

LEMMA HonestyStep ==
  ASSUME Reliable, Accounting, Honesty, [Next]_vars
  PROVE  Honesty'
<1> USE DEF disk, startup, checkerVars, senderVars, updaterVars, history
<1>0. DeliveryTypeOK /\ Shape /\ RowIds
  BY DEF Accounting
<1>1. CASE Boot
  <2>1. Carried' = {}
    BY <1>0, <1>1, CarriedUnchanged DEF Boot, Shape
  <2>2. uploaded' = {}
    BY <1>1 DEF Boot, Reliable
  <2>3. QED
    BY <1>1, <2>1, <2>2 DEF Boot, Honesty, Group, Accepted
<1>2. ASSUME NEW k \in Kinds, LoadRow(k)
      PROVE  Honesty'
  <2>1. PICK r \in Unread(k) : sendQ' = Append(sendQ, r)
    BY <1>2 DEF LoadRow
  <2>2. r \in rows /\ r \in Data
    BY <1>0, <2>1 DEF Unread, DeliveryTypeOK
  <2>3. Range(sendQ') = Range(sendQ) \cup {r}
    BY <1>0, <2>1, <2>2, Enqueue DEF DeliveryTypeOK
  <2>4. Carried' = Carried \cup {r}
    BY <1>2, <2>3 DEF LoadRow, Carried, InBatches
  <2>5. QED
    BY <1>2, <2>2, <2>4 DEF LoadRow, Honesty, Group, Accepted
<1>3. ASSUME NEW k \in Kinds, LoadDone(k)
      PROVE  Honesty'
  BY <1>3, HonestyFrame DEF LoadDone
<1>4. ASSUME NEW x \in Sightings, SyncDb(x)
      PROVE  Honesty'
  <2> DEFINE k == KindOf(x)
             row == [kind |-> k, id |-> nextId[k], sighting |-> x]
  <2>1. rows' = rows \cup {row} /\ hand' = <<row>>
    BY <1>4 DEF SyncDb
  <2> HIDE DEF row, k
  <2>2. Carried' \subseteq Carried \cup {row}
    BY <1>4, <2>1 DEF SyncDb, Carried, InBatches, Range
  <2>3. QED
    BY <1>4, <2>1, <2>2 DEF SyncDb, Honesty, Group, Accepted
<1>5. ASSUME NEW x \in Sightings, SyncDbBusy(x)
      PROVE  Honesty'
  BY <1>5 DEF SyncDbBusy, Reliable
<1>6. CASE PushToSender
  <2>1. hand # <<>> /\ hand \in Seq(Data)
    BY <1>0, <1>6 DEF PushToSender, DeliveryTypeOK
  <2>2. Head(hand) \in Data /\ Head(hand) \in Range(hand)
    BY <2>1, PopFront
  <2>3. Range(sendQ') = Range(sendQ) \cup {Head(hand)}
    BY <1>0, <1>6, <2>2, Enqueue DEF PushToSender, DeliveryTypeOK
  <2>4. Range(hand') = {}
    BY <1>6 DEF PushToSender, Range
  <2>5. Carried' \subseteq Carried
    BY <1>6, <2>2, <2>3, <2>4 DEF PushToSender, Carried, InBatches
  <2>6. QED
    BY <1>6, <2>5 DEF PushToSender, Honesty, Group, Accepted
<1>7. ASSUME NEW s \in Senders, TakeBatch(s)
      PROVE  Honesty'
  <2> DEFINE n == Smaller(BatchSize, Len(sendQ))
  <2>1. n \in Nat /\ n <= Len(sendQ)
    BY <1>0, DeliveryAssumption, LenProperties DEF Smaller, DeliveryTypeOK
  <2>2. /\ batch' = [batch EXCEPT ![s] = SubSeq(sendQ, 1, n)]
        /\ sendQ' = SubSeq(sendQ, n + 1, Len(sendQ))
    BY <1>7 DEF TakeBatch
  <2>3. Range(sendQ) = Range(SubSeq(sendQ, 1, n)) \cup Range(SubSeq(sendQ, n + 1, Len(sendQ)))
    BY <1>0, <2>1, TakeFront DEF DeliveryTypeOK
  <2> HIDE DEF n
  <2>4. Range(sendQ) = Range(batch'[s]) \cup Range(sendQ')
    BY <1>0, <2>2, <2>3 DEF DeliveryTypeOK
  <2>5. \A t \in Senders \ {s} : batch'[t] = batch[t]
    BY <1>0, <2>2 DEF DeliveryTypeOK
  <2>6. Carried' \subseteq Carried
    BY <1>7, <2>4, <2>5 DEF TakeBatch, Carried, InBatches
  <2>7. \A t \in Senders, k \in Kinds :
          /\ t # s => ok'[t][k] = ok[t][k] /\ Group(t, k)' = Group(t, k)
          /\ t = s => ~ok'[t][k]
    BY <1>0, <1>7, <2>5 DEF TakeBatch, NoFlags, DeliveryTypeOK, Group
  <2>8. QED
    BY <1>7, <2>6, <2>7 DEF TakeBatch, Honesty, Accepted
<1>8. ASSUME NEW s \in Senders, NEW k \in Kinds, NoPost(s, k)
      PROVE  Honesty'
  BY <1>8, HonestyFrame DEF NoPost
<1>9. ASSUME NEW s \in Senders, NEW k \in Kinds, NEW o \in Outcomes, Post(s, k, o)
      PROVE  Honesty'
  <2>1. o \in {"accepted", "refused", "unreachable"}
    BY DEF Outcomes, Reliable
  <2>2. Status(o) < 400 => ServerKeeps(o)
    BY <2>1 DEF Status, ServerKeeps
  <2>3. /\ accepts' = [x \in Sightings |->
                         IF ServerKeeps(o) /\ \E m \in Group(s, k) : m.sighting = x
                         THEN accepts[x] + 1 ELSE accepts[x]]
        /\ ok' = [ok EXCEPT ![s][k] = Status(o) < 400]
        /\ UNCHANGED <<rows, uploaded, hand, sendQ, batch, updQ, updBatch>>
    BY <1>9 DEF Post
  <2>4. \A m \in Data : /\ Accepted(m) => Accepted(m)'
                        /\ ServerKeeps(o) /\ m \in Group(s, k) => Accepted(m)'
    BY <1>0, <2>3 DEF Accepted, DeliveryTypeOK, Data
  <2>5. \A t \in Senders, j \in Kinds :
          /\ Group(t, j)' = Group(t, j) /\ Group(t, j) \subseteq Data
          /\ ok'[t][j] => ok[t][j] \/ (t = s /\ j = k /\ Status(o) < 400)
    <3>1. \A t \in Senders : Range(batch[t]) \subseteq Data
      BY <1>0, RangeOfSeq DEF DeliveryTypeOK
    <3>2. \A t \in Senders, j \in Kinds : ok'[t][j] => ok[t][j] \/ (t = s /\ j = k /\ Status(o) < 400)
      <4> DEFINE good == Status(o) < 400
      <4>1. ok' = [ok EXCEPT ![s][k] = good] /\ ok \in [Senders -> [Kinds -> BOOLEAN]]
        BY <1>0, <2>3 DEF DeliveryTypeOK
      <4> HIDE DEF good
      <4>2. \A t \in Senders, j \in Kinds : ok'[t][j] = IF t = s /\ j = k THEN good ELSE ok[t][j]
        BY <4>1, Zenon
      <4>3. QED
        BY <4>2, Zenon DEF good
    <3>3. \A t \in Senders, j \in Kinds : Group(t, j)' = Group(t, j) /\ Group(t, j) \subseteq Data
      BY <2>3, <3>1 DEF Group
    <3>4. QED
      BY <3>2, <3>3
  <2>6. Range(updQ) \subseteq Data /\ Range(updBatch) \subseteq Data /\ uploaded \subseteq Data
    BY <1>0, RangeOfSeq DEF DeliveryTypeOK
  <2>7. \A t \in Senders, j \in Kinds : ok'[t][j] => \A m \in Group(t, j)' : Accepted(m)'
    BY <2>2, <2>4, <2>5 DEF Honesty
  <2>8. Carried' = Carried
    BY <2>3, CarriedUnchanged
  <2>9. QED
    BY <2>3, <2>4, <2>6, <2>7, <2>8 DEF Honesty
<1>10. ASSUME NEW s \in Senders, Route(s)
       PROVE  Honesty'
  <2> DEFINE m == Head(batch[s])
  <2>1. batch[s] \in Seq(Data) /\ batch[s] # <<>>
    BY <1>0, <1>10 DEF Route, DeliveryTypeOK
  <2>2. m \in Data /\ Range(batch[s]) = {m} \cup Range(Tail(batch[s]))
    BY <2>1, PopFront
  <2>3. /\ batch' = [batch EXCEPT ![s] = Tail(@)]
        /\ \/ ok[s][m.kind] /\ updQ' = Append(updQ, m)
           \/ updQ' = updQ
        /\ \/ sendQ' = Append(sendQ, m)
           \/ sendQ' = sendQ
    <3>1. batch' = [batch EXCEPT ![s] = Tail(@)]
      BY <1>10 DEF Route
    <3>2. \/ ok[s][m.kind] /\ updQ' = Append(updQ, m)
          \/ updQ' = updQ
      BY <1>10, Zenon DEF Route
    <3>3. \/ sendQ' = Append(sendQ, m)
          \/ sendQ' = sendQ
      BY <1>10, Zenon DEF Route
    <3>4. QED
      BY <3>1, <3>2, <3>3
  <2> HIDE DEF m
  <2>4. \A t \in Senders : Range(batch'[t]) \subseteq Range(batch[t])
    BY <1>0, <2>2, <2>3 DEF DeliveryTypeOK
  <2>5. m \in InBatches /\ InBatches' \subseteq InBatches
    BY <2>2, <2>4 DEF InBatches
  <2>6. /\ Range(Append(updQ, m)) = Range(updQ) \cup {m}
        /\ Range(Append(sendQ, m)) = Range(sendQ) \cup {m}
    BY <1>0, <2>2, Enqueue DEF DeliveryTypeOK
  <2>7. Carried' \subseteq Carried
    BY <1>10, <2>3, <2>5, <2>6 DEF Route, Carried
  <2>8. ok[s][m.kind] => Accepted(m)
    BY <2>2 DEF Honesty, Group, Data
  <2>9. \A t \in Senders, k \in Kinds : Group(t, k)' \subseteq Group(t, k)
    BY <2>4 DEF Group
  <2>10. Range(updQ') = Range(updQ) \/ (Range(updQ') = Range(updQ) \cup {m} /\ Accepted(m))
    BY <2>3, <2>6, <2>8
  <2>11. QED
    BY <1>10, <2>7, <2>9, <2>10 DEF Route, Honesty, Accepted
<1>11. ASSUME NEW s \in Senders, BatchDone(s)
       PROVE  Honesty'
  <2>1. Carried' = Carried
    BY <1>11, CarriedUnchanged DEF BatchDone
  <2>2. \A t \in Senders, k \in Kinds : ok'[t][k] => ok[t][k]
    BY <1>0, <1>11 DEF BatchDone, NoFlags, DeliveryTypeOK
  <2>3. QED
    BY <1>11, <2>1, <2>2 DEF BatchDone, Honesty, Group, Accepted
<1>12. CASE TakeUpdates
  <2> DEFINE n == Smaller(UpdateBatch, Len(updQ))
  <2>1. n \in Nat /\ n <= Len(updQ)
    BY <1>0, DeliveryAssumption, LenProperties DEF Smaller, DeliveryTypeOK
  <2>2. updBatch' = SubSeq(updQ, 1, n) /\ updQ' = SubSeq(updQ, n + 1, Len(updQ))
    BY <1>12 DEF TakeUpdates
  <2>3. Range(updQ) = Range(updBatch') \cup Range(updQ')
    BY <1>0, <2>1, <2>2, TakeFront DEF DeliveryTypeOK
  <2>4. Carried' \subseteq Carried
    BY <1>12, <2>3 DEF TakeUpdates, Carried, InBatches
  <2>5. QED
    BY <1>12, <2>3, <2>4 DEF TakeUpdates, Honesty, Group, Accepted
<1>13. CASE UpdateOne
  <2> DEFINE m == Head(updBatch)
  <2>1. m \in Data /\ Range(updBatch) = {m} \cup Range(updBatch')
    BY <1>0, <1>13, PopFront DEF UpdateOne, DeliveryTypeOK
  <2>2. uploaded' = uploaded \cup RowsOf(m) /\ rows' = rows
    BY <1>13 DEF UpdateOne, Reliable
  <2> HIDE DEF m
  <2>3. m \in rows /\ Accepted(m)
    BY <2>1 DEF Honesty, Carried
  <2>4. RowsOf(m) \subseteq {m}
    BY <1>0, <2>3 DEF RowsOf, RowIds
  <2>5. Carried' \subseteq Carried
    BY <1>13, <2>1 DEF UpdateOne, Carried, InBatches
  <2>6. QED
    BY <1>13, <2>1, <2>2, <2>3, <2>4, <2>5 DEF UpdateOne, Honesty, Group, Accepted
<1>14. CASE Crash
  <2>1. Carried' = {}
    BY <1>14 DEF Crash, Carried, InBatches, Range
  <2>2. \A s \in Senders, k \in Kinds : ~ok'[s][k]
    BY <1>14 DEF Crash, NoFlags
  <2>3. Range(updQ') = {} /\ Range(updBatch') = {}
    BY <1>14 DEF Crash, Range
  <2>4. QED
    BY <1>14, <2>1, <2>2, <2>3 DEF Crash, Honesty, Accepted
<1>15. CASE UNCHANGED vars
  BY <1>15, HonestyFrame DEF vars
<1>16. QED
  BY <1>1, <1>2, <1>3, <1>4, <1>5, <1>6, <1>7, <1>8, <1>9, <1>10, <1>11, <1>12,
     <1>13, <1>14, <1>15
     DEF Next, StartStep, CheckerStep, SenderStep, UpdaterStep

LEMMA HonestyInvariant ==
  ASSUME Reliable
  PROVE  Spec => [](Accounting /\ Honesty)
<1>1. Accounting /\ Honesty /\ [Next]_vars => (Accounting /\ Honesty)'
  BY AccountingStep, HonestyStep
<1>2. QED
  BY <1>1, AccountingInit, HonestyInit, PTL DEF Spec

\* When every request is answered and no statement meets a busy database,
\* a row is only marked as uploaded after the server has taken its sighting:
\* the two flags of core.cpp:34-35 never let one kind pass for the other, and
\* an id never names another row.
THEOREM MarksAreEarned ==
  ASSUME Reliable
  PROVE  Spec => []MarkedWasAccepted
<1>1. Honesty => MarkedWasAccepted
  BY DEF Honesty, MarkedWasAccepted, Accepted
<1>2. QED
  BY <1>1, HonestyInvariant, PTL

\* Under the same assumption, everything on its way to the server is stored.
THEOREM StoredBeforeSent ==
  ASSUME Reliable
  PROVE  Spec => []CarriedIsStored
<1>1. Honesty => CarriedIsStored
  BY DEF Honesty, CarriedIsStored
<1>2. QED
  BY <1>1, HonestyInvariant, PTL

\* Under the same assumption, no step deletes a row whose sighting the server
\* has not taken.
THEOREM DeletionIsEarned ==
  ASSUME Reliable
  PROVE  Spec => OnlyAcceptedIsDeleted
<1> DEFINE A == \A r \in rows : r \notin rows' => accepts[r.sighting] > 0
<1>1. Honesty /\ [Next]_vars => [A]_vars
  <2> SUFFICES ASSUME Honesty, Next, NEW r \in rows, r \notin rows'
               PROVE  accepts[r.sighting] > 0
    BY DEF A
  <2>1. CASE Boot
    BY <2>1 DEF Boot, Honesty, Accepted
  <2>2. CASE Next /\ ~Boot
    BY <2>2 DEF Next, StartStep, CheckerStep, SenderStep, UpdaterStep, LoadRow, LoadDone,
       SyncDb, SyncDbBusy, PushToSender, TakeBatch, NoPost, Post, Route, BatchDone,
       TakeUpdates, UpdateOne, Crash, disk, startup, checkerVars, senderVars,
       updaterVars, history
  <2>3. QED
    BY <2>1, <2>2
<1>2. QED
  BY <1>1, HonestyInvariant, PTL DEF Spec, OnlyAcceptedIsDeleted
-----------------------------------------------------------------------------
(***************************************************************************)
(* Tracking.  Where each datum is.  The queues are seen as one family, so  *)
(* that a step is a push, a pop, a move or a batch of QueueLemmas.         *)
(***************************************************************************)
\* The places by name, and the queues as one family.
HandAt == <<"hand">>
SendAt == <<"sendQ">>
UpdAt == <<"updQ">>
MarkAt == <<"updBatch">>
BatchAt(s) == <<"batch", s>>
Queues == [p \in Places |-> Held(p)]

LEMMA PlaceNames ==
  /\ HandAt \in Places /\ SendAt \in Places /\ UpdAt \in Places /\ MarkAt \in Places
  /\ \A s \in Senders : BatchAt(s) \in Places
  /\ \A p \in Places : p \in {HandAt, SendAt, UpdAt, MarkAt} \/ \E s \in Senders : p = BatchAt(s)
  /\ HandAt # SendAt /\ HandAt # UpdAt /\ HandAt # MarkAt
  /\ SendAt # UpdAt /\ SendAt # MarkAt /\ UpdAt # MarkAt
  /\ \A s : BatchAt(s) \notin {HandAt, SendAt, UpdAt, MarkAt}
  /\ \A s, t : BatchAt(s) = BatchAt(t) => s = t
<1> USE DEF HandAt, SendAt, UpdAt, MarkAt, BatchAt
<1>1. /\ HandAt[1] = "hand" /\ SendAt[1] = "sendQ" /\ UpdAt[1] = "updQ" /\ MarkAt[1] = "updBatch"
      /\ \A s : BatchAt(s)[1] = "batch" /\ BatchAt(s)[2] = s
  OBVIOUS
<1>2. /\ HandAt \in Places /\ SendAt \in Places /\ UpdAt \in Places /\ MarkAt \in Places
      /\ \A s \in Senders : BatchAt(s) \in Places
      /\ \A p \in Places : p \in {HandAt, SendAt, UpdAt, MarkAt} \/ \E s \in Senders : p = BatchAt(s)
  BY DEF Places
<1> HIDE DEF HandAt, SendAt, UpdAt, MarkAt, BatchAt
<1>3. /\ HandAt # SendAt /\ HandAt # UpdAt /\ HandAt # MarkAt
      /\ SendAt # UpdAt /\ SendAt # MarkAt /\ UpdAt # MarkAt
      /\ \A s : BatchAt(s) \notin {HandAt, SendAt, UpdAt, MarkAt}
  BY <1>1
<1>4. \A s, t : BatchAt(s) = BatchAt(t) => s = t
  BY <1>1
<1>5. QED
  BY <1>2, <1>3, <1>4

\* What the family is, place by place and all together.
FamilyFacts ==
    /\ Queues = [p \in Places |-> Queues[p]] /\ DOMAIN Queues = Places
    /\ Queues[HandAt] = hand /\ Queues[SendAt] = sendQ
    /\ Queues[UpdAt] = updQ /\ Queues[MarkAt] = updBatch
    /\ \A s \in Senders : Queues[BatchAt(s)] = batch[s]
    /\ AllOf(Queues) = Carried
    /\ Apart(Queues) <=> NeverCarriedTwice
    /\ DeliveryTypeOK => Queues \in [Places -> Seq(Data)]

LEMMA Family == FamilyFacts
<1>1. /\ Held(HandAt) = hand /\ Held(SendAt) = sendQ
      /\ Held(UpdAt) = updQ /\ Held(MarkAt) = updBatch
      /\ \A s \in Senders : Held(BatchAt(s)) = batch[s]
  BY DEF Held, HandAt, SendAt, UpdAt, MarkAt, BatchAt
<1>2. /\ Queues = [p \in Places |-> Queues[p]] /\ DOMAIN Queues = Places
      /\ Queues[HandAt] = hand /\ Queues[SendAt] = sendQ
      /\ Queues[UpdAt] = updQ /\ Queues[MarkAt] = updBatch
      /\ \A s \in Senders : Queues[BatchAt(s)] = batch[s]
  BY <1>1, PlaceNames DEF Queues
<1>3. AllOf(Queues) = Carried
  <2>1. \A e : e \in AllOf(Queues) => e \in Carried
    BY <1>2, PlaceNames DEF AllOf, Carried, InBatches
  <2>2. \A e : e \in Carried => e \in AllOf(Queues)
    BY <1>2, PlaceNames DEF AllOf, Carried, InBatches
  <2>3. QED
    BY <2>1, <2>2
<1>4. Apart(Queues) <=> NeverCarriedTwice
  BY DEF Apart, NeverCarriedTwice, Queues
<1>5. DeliveryTypeOK => Queues \in [Places -> Seq(Data)]
  <2> SUFFICES ASSUME DeliveryTypeOK, NEW p \in Places
               PROVE  Queues[p] \in Seq(Data)
    BY <1>2
  <2>1. /\ hand \in Seq(Data) /\ sendQ \in Seq(Data) /\ updQ \in Seq(Data) /\ updBatch \in Seq(Data)
        /\ \A s \in Senders : batch[s] \in Seq(Data)
    BY DEF DeliveryTypeOK
  <2>2. QED
    BY <1>2, <2>1, PlaceNames
<1>6. QED
  BY <1>2, <1>3, <1>4, <1>5 DEF FamilyFacts

LEMMA FamilyNext == FamilyFacts'
  BY Family, PTL

\* Where each datum is: in one place of the process, and not also in front of
\* the start-up's SELECT; and whose it is: no two rows or data in flight hold
\* one sighting, and the checker has let each through.
Tracking ==
    /\ NeverCarriedTwice
    /\ ToLoad \cap Carried = {}
    /\ \A m \in rows \cup Carried :
        /\ m.sighting \in passed
        /\ \A q \in rows \cup Carried : q.sighting = m.sighting => q = m

\* Steps that bring nothing new.
LEMMA TrackingFrame ==
  ASSUME Tracking, NeverCarriedTwice', Carried' \subseteq Carried, ToLoad' \subseteq ToLoad,
         rows' \subseteq rows, passed \subseteq passed'
  PROVE  Tracking'
  BY DEF Tracking

LEMMA TrackingInit == Init => Tracking
<1> SUFFICES ASSUME Init PROVE Tracking
  OBVIOUS
<1>1. Carried = {} /\ rows = {}
  BY DEF Init, Carried, InBatches, Range
<1>2. DeliveryTypeOK
  BY TypeInit
<1>3. AllOf(Queues) = {} /\ Queues \in [Places -> Seq(Data)]
  BY <1>1, <1>2, Family DEF FamilyFacts
<1>4. QED
  BY <1>1, <1>3, EmptyIsApart, Family DEF Tracking, FamilyFacts, ToLoad

\* What a step leaves alone, place by place.
LEMMA TheRest ==
  ASSUME NEW X,
         HandAt \in X \/ hand' = hand, SendAt \in X \/ sendQ' = sendQ,
         UpdAt \in X \/ updQ' = updQ, MarkAt \in X \/ updBatch' = updBatch,
         \A s \in Senders : BatchAt(s) \in X \/ batch'[s] = batch[s]
  PROVE  DOMAIN Queues' = DOMAIN Queues /\ Elsewhere(Queues, Queues', X)
<1>1. /\ Queues[HandAt] = hand /\ Queues'[HandAt] = hand'
      /\ Queues[SendAt] = sendQ /\ Queues'[SendAt] = sendQ'
      /\ Queues[UpdAt] = updQ /\ Queues'[UpdAt] = updQ'
      /\ Queues[MarkAt] = updBatch /\ Queues'[MarkAt] = updBatch'
      /\ DOMAIN Queues = Places /\ DOMAIN Queues' = Places
  BY Family, FamilyNext DEF FamilyFacts
<1>2. \A s \in Senders : Queues[BatchAt(s)] = batch[s] /\ Queues'[BatchAt(s)] = batch'[s]
  BY Family, FamilyNext DEF FamilyFacts
<1>3. ASSUME NEW p \in Places, p \notin X
      PROVE  Queues'[p] = Queues[p]
  <2>1. CASE p \in {HandAt, SendAt, UpdAt, MarkAt}
    BY <1>1, <1>3, <2>1
  <2>2. CASE \E s \in Senders : p = BatchAt(s)
    BY <1>2, <1>3, <2>2
  <2>3. QED
    BY <2>1, <2>2, PlaceNames
<1>4. QED
  BY <1>1, <1>3 DEF Elsewhere

\* A step that leaves every queue alone.
LEMMA QueuesUnchanged ==
  ASSUME UNCHANGED <<hand, sendQ, batch, updQ, updBatch>>
  PROVE  Queues' = Queues
<1>1. DOMAIN Queues' = DOMAIN Queues /\ Elsewhere(Queues, Queues', {})
  BY TheRest
<1>2. \A p \in Places : Queues'[p] = Queues[p]
  BY <1>1, Family DEF Elsewhere, FamilyFacts
<1>3. QED
  BY <1>2, Family, FamilyNext DEF FamilyFacts

\* The lemmas about families of queues, for this family.
LEMMA OneArrives ==
  ASSUME DeliveryTypeOK, NeverCarriedTwice, NEW p \in Places, NEW e \in Data, e \notin Carried,
         Pushed(Queues, Queues', p, e)
  PROVE  NeverCarriedTwice' /\ Carried' = Carried \cup {e}
<1>1. PICK h : h = Queues
  OBVIOUS
<1>2. PICK h2 : h2 = Queues'
  OBVIOUS
<1>3. h \in [Places -> Seq(Data)] /\ Apart(h) /\ AllOf(h) = Carried
  BY <1>1, Family DEF FamilyFacts
<1>4. AllOf(h2) = Carried' /\ (Apart(h2) => NeverCarriedTwice')
  BY <1>2, FamilyNext DEF FamilyFacts
<1>5. Pushed(h, h2, p, e)
  BY <1>1, <1>2
<1>6. Apart(h2) /\ AllOf(h2) = AllOf(h) \cup {e}
  BY <1>3, <1>5, Arrives
<1>7. QED
  BY <1>1, <1>3, <1>4, <1>6

LEMMA OneLeaves ==
  ASSUME DeliveryTypeOK, NeverCarriedTwice, NEW p \in Places,
         Popped(Queues, Queues', p)
  PROVE  /\ NeverCarriedTwice' /\ Head(Queues[p]) \notin Carried'
         /\ Carried = Carried' \cup {Head(Queues[p])}
<1>1. PICK h : h = Queues
  OBVIOUS
<1>2. PICK h2 : h2 = Queues'
  OBVIOUS
<1>3. h \in [Places -> Seq(Data)] /\ Apart(h) /\ AllOf(h) = Carried
  BY <1>1, Family DEF FamilyFacts
<1>4. AllOf(h2) = Carried' /\ (Apart(h2) => NeverCarriedTwice')
  BY <1>2, FamilyNext DEF FamilyFacts
<1>5. Popped(h, h2, p)
  BY <1>1, <1>2
<1>6. Apart(h2) /\ Head(h[p]) \notin AllOf(h2) /\ AllOf(h) = AllOf(h2) \cup {Head(h[p])}
  BY <1>3, <1>5, Leaves
<1>7. QED
  BY <1>1, <1>3, <1>4, <1>6

LEMMA OneMoves ==
  ASSUME DeliveryTypeOK, NeverCarriedTwice, NEW p \in Places, NEW q \in Places,
         Shifted(Queues, Queues', p, q)
  PROVE  NeverCarriedTwice' /\ Carried' = Carried
<1>1. PICK h : h = Queues
  OBVIOUS
<1>2. PICK h2 : h2 = Queues'
  OBVIOUS
<1>3. h \in [Places -> Seq(Data)] /\ Apart(h) /\ AllOf(h) = Carried
  BY <1>1, Family DEF FamilyFacts
<1>4. AllOf(h2) = Carried' /\ (Apart(h2) => NeverCarriedTwice')
  BY <1>2, FamilyNext DEF FamilyFacts
<1>5. Shifted(h, h2, p, q)
  BY <1>1, <1>2
<1>6. Apart(h2) /\ AllOf(h2) = AllOf(h)
  BY <1>3, <1>5, Moves
<1>7. QED
  BY <1>1, <1>3, <1>4, <1>6

LEMMA SomeTravel ==
  ASSUME DeliveryTypeOK, NeverCarriedTwice, NEW p \in Places, NEW q \in Places, NEW n \in Nat,
         Taken(Queues, Queues', p, q, n)
  PROVE  NeverCarriedTwice' /\ Carried' = Carried
<1>1. PICK h : h = Queues
  OBVIOUS
<1>2. PICK h2 : h2 = Queues'
  OBVIOUS
<1>3. h \in [Places -> Seq(Data)] /\ Apart(h) /\ AllOf(h) = Carried
  BY <1>1, Family DEF FamilyFacts
<1>4. AllOf(h2) = Carried' /\ (Apart(h2) => NeverCarriedTwice')
  BY <1>2, FamilyNext DEF FamilyFacts
<1>5. Taken(h, h2, p, q, n)
  BY <1>1, <1>2
<1>6. Apart(h2) /\ AllOf(h2) = AllOf(h)
  BY <1>3, <1>5, Travels
<1>7. QED
  BY <1>1, <1>3, <1>4, <1>6

\* The queues and the data after a push, a pop, a move and a batch.
LEMMA TrackingStep == Accounting /\ Tracking /\ [Next]_vars => Tracking'
<1> SUFFICES ASSUME Accounting, Tracking, [Next]_vars
             PROVE  Tracking'
  OBVIOUS
<1> USE DEF disk, startup, checkerVars, senderVars, updaterVars, history
<1>0. DeliveryTypeOK /\ Shape /\ RowIds /\ NeverCarriedTwice
  BY DEF Accounting, Tracking
<1>a. /\ Queues \in [Places -> Seq(Data)] /\ Apart(Queues) /\ AllOf(Queues) = Carried
      /\ Queues[HandAt] = hand /\ Queues[SendAt] = sendQ
      /\ Queues[UpdAt] = updQ /\ Queues[MarkAt] = updBatch
      /\ \A s \in Senders : Queues[BatchAt(s)] = batch[s]
  BY <1>0, Family DEF FamilyFacts, Tracking
<1>b. /\ DOMAIN Queues' = Places
      /\ AllOf(Queues') = Carried' /\ (Apart(Queues') <=> NeverCarriedTwice')
      /\ Queues'[HandAt] = hand' /\ Queues'[SendAt] = sendQ'
      /\ Queues'[UpdAt] = updQ' /\ Queues'[MarkAt] = updBatch'
      /\ \A s \in Senders : Queues'[BatchAt(s)] = batch'[s]
  BY FamilyNext DEF FamilyFacts
<1>c. Carried \subseteq Data /\ rows \subseteq Data
  BY <1>0, RangeOfSeq DEF DeliveryTypeOK, Carried, InBatches
<1>1. CASE Boot
  <2>1. Queues' = Queues /\ Carried = {}
    BY <1>0, <1>1, QueuesUnchanged DEF Boot, Shape
  <2>2. ToLoad' \subseteq ToLoad
    BY <1>1 DEF Boot, ToLoad
  <2>3. QED
    BY <1>1, <1>a, <1>b, <2>1, <2>2, TrackingFrame DEF Boot
<1>2. ASSUME NEW k \in Kinds, LoadRow(k)
      PROVE  Tracking'
  <2>1. PICK r \in Unread(k) : /\ \A q \in Unread(k) : r.id <= q.id
                               /\ sendQ' = Append(sendQ, r)
                               /\ cursor' = r.id
    BY <1>2 DEF LoadRow
  <2>2. r \in rows /\ r \in Data /\ r.kind = k
    BY <1>c, <2>1 DEF Unread
  <2>3. r \in ToLoad
    BY <1>2, <2>1 DEF LoadRow, Unread, ToLoad
  <2>4. r \notin Carried
    BY <2>3 DEF Tracking
  <2>5. DOMAIN Queues' = DOMAIN Queues /\ Elsewhere(Queues, Queues', {SendAt})
    BY <1>2, TheRest DEF LoadRow
  <2>6. Pushed(Queues, Queues', SendAt, r)
    BY <1>a, <1>b, <2>1, <2>5 DEF Pushed
  <2>7. NeverCarriedTwice' /\ Carried' = Carried \cup {r}
    BY <1>0, <1>a, <2>2, <2>4, <2>6, PlaceNames, OneArrives
  <2>8. ToLoad' \subseteq ToLoad \ {r}
    <3> SUFFICES ASSUME NEW q \in ToLoad'
                 PROVE  q \in ToLoad /\ q # r
      OBVIOUS
    <3>1. q \in rows /\ q \in Data /\ q \notin uploaded /\ phase' = phase /\ phase = k
      BY <1>2, <1>c DEF ToLoad, LoadRow
    <3>2. r.id > cursor
      BY <2>1 DEF Unread
    <3>3. (q.kind = k /\ q.id > r.id) \/ (k = "ap" /\ q.kind = "apstation")
      BY <2>1, <3>1 DEF ToLoad, Kinds
    <3>4. q.id \in Nat /\ r.id \in Nat /\ cursor \in Nat
      BY <1>0, <2>2, <3>1 DEF Data, DeliveryTypeOK
    <3>5. QED
      BY <2>2, <3>1, <3>2, <3>3, <3>4 DEF ToLoad
  <2>9. rows' = rows /\ passed' = passed
    BY <1>2 DEF LoadRow
  <2>10. QED
    BY <2>2, <2>7, <2>8, <2>9 DEF Tracking
<1>3. ASSUME NEW k \in Kinds, LoadDone(k)
      PROVE  Tracking'
  <2>1. Queues' = Queues
    BY <1>3, QueuesUnchanged DEF LoadDone
  <2>2. ToLoad' \subseteq ToLoad
    <3> SUFFICES ASSUME NEW q \in ToLoad'
                 PROVE  q \in ToLoad
      OBVIOUS
    <3>1. /\ q \in rows /\ q \notin uploaded /\ q.kind \in Kinds /\ phase = k /\ cursor' = 0
          /\ phase' = IF k = "ap" THEN "apstation" ELSE "run"
      BY <1>3, <1>c DEF LoadDone, ToLoad, Data
    <3>2. k = "ap" /\ q.kind = "apstation"
      BY <3>1 DEF ToLoad, Kinds
    <3>3. QED
      BY <3>1, <3>2 DEF ToLoad
  <2>3. QED
    BY <1>3, <1>a, <1>b, <2>1, <2>2, TrackingFrame DEF LoadDone
<1>4. ASSUME NEW x \in Sightings, SyncDb(x)
      PROVE  Tracking'
  <2> DEFINE k == KindOf(x)
             row == [kind |-> k, id |-> nextId[k], sighting |-> x]
  <2>1. /\ rows' = rows \cup {row} /\ hand' = <<row>> /\ hand = <<>> /\ phase = "run"
        /\ passed' = passed \cup {x} /\ x \notin passed
    BY <1>4 DEF SyncDb
  <2>2. row \in Data /\ row.sighting = x
    BY <1>0 DEF KindOf, Kinds, DeliveryTypeOK, Data
  <2> HIDE DEF row, k
  <2>3. \A m \in rows \cup Carried : m.sighting # x
    BY <2>1 DEF Tracking
  <2>4. row \notin Carried
    BY <2>2, <2>3
  <2>5. DOMAIN Queues' = DOMAIN Queues /\ Elsewhere(Queues, Queues', {HandAt})
    BY <1>4, TheRest DEF SyncDb
  <2>6. Pushed(Queues, Queues', HandAt, row)
    <3>1. Append(<<>>, row) = <<row>>
      OBVIOUS
    <3>2. QED
      BY <1>a, <1>b, <2>1, <2>5, <3>1 DEF Pushed
  <2>7. NeverCarriedTwice' /\ Carried' = Carried \cup {row}
    BY <1>0, <1>a, <2>2, <2>4, <2>6, PlaceNames, OneArrives
  <2>8. ToLoad' = {}
    BY <1>4, <2>1, <1>c, <2>2 DEF SyncDb, ToLoad, Data, Kinds
  <2>9. QED
    BY <2>1, <2>2, <2>3, <2>7, <2>8 DEF Tracking
<1>5. ASSUME NEW x \in Sightings, SyncDbBusy(x)
      PROVE  Tracking'
  <2> DEFINE m == [kind |-> KindOf(x), id |-> lastRowid, sighting |-> x]
  <2>1. /\ rows' = rows /\ hand' = <<m>> /\ hand = <<>> /\ phase = "run"
        /\ passed' = passed \cup {x} /\ x \notin passed
    BY <1>5 DEF SyncDbBusy
  <2>2. m \in Data /\ m.sighting = x
    BY <1>0 DEF KindOf, Kinds, DeliveryTypeOK, Data
  <2> HIDE DEF m
  <2>3. \A q \in rows \cup Carried : q.sighting # x
    BY <2>1 DEF Tracking
  <2>4. m \notin Carried
    BY <2>2, <2>3
  <2>5. DOMAIN Queues' = DOMAIN Queues /\ Elsewhere(Queues, Queues', {HandAt})
    BY <1>5, TheRest DEF SyncDbBusy
  <2>6. Pushed(Queues, Queues', HandAt, m)
    <3>1. Append(<<>>, m) = <<m>>
      OBVIOUS
    <3>2. QED
      BY <1>a, <1>b, <2>1, <2>5, <3>1 DEF Pushed
  <2>7. NeverCarriedTwice' /\ Carried' = Carried \cup {m}
    BY <1>0, <1>a, <2>2, <2>4, <2>6, PlaceNames, OneArrives
  <2>8. ToLoad' = {}
    BY <1>5, <2>1, <1>c DEF SyncDbBusy, ToLoad, Data, Kinds
  <2>9. QED
    BY <2>1, <2>2, <2>3, <2>7, <2>8 DEF Tracking
<1>6. CASE PushToSender
  <2>1. hand \in Seq(Data) /\ hand # <<>> /\ Range(hand) = {Head(hand)}
    BY <1>0, <1>6 DEF PushToSender, DeliveryTypeOK, Shape
  <2>2. Distinct(hand)
    BY <1>a, PlaceNames, ApartByRange
  <2>3. Tail(hand) \in Seq(Data) /\ Range(Tail(hand)) = {}
    BY <2>1, <2>2, PopFront, PopDistinct
  <2>4. Tail(hand) = <<>>
    <3>1. DOMAIN Tail(hand) = 1..Len(Tail(hand)) /\ Len(Tail(hand)) \in Nat
      BY <2>3, LenProperties
    <3>2. DOMAIN Tail(hand) = {}
      BY <2>3 DEF Range
    <3>3. QED
      BY <2>3, <3>1, <3>2, EmptySeq
  <2>5. DOMAIN Queues' = DOMAIN Queues /\ Elsewhere(Queues, Queues', {HandAt, SendAt})
    BY <1>6, TheRest DEF PushToSender
  <2>6. Shifted(Queues, Queues', HandAt, SendAt)
    BY <1>6, <1>a, <1>b, <2>4, <2>5, PlaceNames DEF PushToSender, Shifted
  <2>7. NeverCarriedTwice' /\ Carried' = Carried
    BY <1>0, <1>a, <2>6, PlaceNames, OneMoves
  <2>8. QED
    BY <1>6, <2>7, TrackingFrame DEF PushToSender, ToLoad
<1>7. ASSUME NEW s \in Senders, TakeBatch(s)
      PROVE  Tracking'
  <2> DEFINE n == Smaller(BatchSize, Len(sendQ))
  <2>1. n \in Nat /\ n <= Len(sendQ)
    BY <1>0, DeliveryAssumption, LenProperties DEF Smaller, DeliveryTypeOK
  <2>2. /\ batch' = [batch EXCEPT ![s] = SubSeq(sendQ, 1, n)]
        /\ sendQ' = SubSeq(sendQ, n + 1, Len(sendQ))
        /\ batch[s] = <<>>
    BY <1>0, <1>7 DEF TakeBatch, Shape
  <2> HIDE DEF n
  <2>3. batch'[s] = SubSeq(sendQ, 1, n) /\ \A t \in Senders : t # s => batch'[t] = batch[t]
    BY <1>0, <2>2 DEF DeliveryTypeOK
  <2>4. DOMAIN Queues' = DOMAIN Queues /\ Elsewhere(Queues, Queues', {SendAt, BatchAt(s)})
    BY <1>7, <2>3, TheRest DEF TakeBatch
  <2>5. Taken(Queues, Queues', SendAt, BatchAt(s), n)
    BY <1>a, <1>b, <2>1, <2>2, <2>3, <2>4, PlaceNames DEF Taken
  <2>6. NeverCarriedTwice' /\ Carried' = Carried
    BY <1>0, <1>a, <2>1, <2>5, PlaceNames, SomeTravel
  <2>7. QED
    BY <1>7, <2>6, TrackingFrame DEF TakeBatch, ToLoad
<1>8. ASSUME NEW s \in Senders, NEW k \in Kinds, NoPost(s, k)
      PROVE  Tracking'
  <2>1. Queues' = Queues
    BY <1>8, QueuesUnchanged DEF NoPost
  <2>2. QED
    BY <1>8, <1>a, <1>b, <2>1, TrackingFrame DEF NoPost, ToLoad
<1>9. ASSUME NEW s \in Senders, NEW k \in Kinds, NEW o \in Outcomes, Post(s, k, o)
      PROVE  Tracking'
  <2>1. Queues' = Queues
    BY <1>9, QueuesUnchanged DEF Post
  <2>2. QED
    BY <1>9, <1>a, <1>b, <2>1, TrackingFrame DEF Post, ToLoad
<1>10. ASSUME NEW s \in Senders, Route(s)
       PROVE  Tracking'
  <2> DEFINE m == Head(batch[s])
  <2>1. /\ batch[s] # <<>> /\ batch'[s] = Tail(batch[s])
        /\ \A t \in Senders : t # s => batch'[t] = batch[t]
        /\ hand' = hand /\ updBatch' = updBatch
    BY <1>0, <1>10 DEF Route, DeliveryTypeOK
  <2>2. \/ updQ' = Append(updQ, m) /\ sendQ' = sendQ
        \/ updQ' = updQ /\ sendQ' = Append(sendQ, m)
        \/ updQ' = updQ /\ sendQ' = sendQ
    BY <1>10, Zenon DEF Route
  <2>3. CASE updQ' = Append(updQ, m) /\ sendQ' = sendQ
    <3>1. DOMAIN Queues' = DOMAIN Queues /\ Elsewhere(Queues, Queues', {BatchAt(s), UpdAt})
      BY <2>1, <2>3, TheRest
    <3>2. Shifted(Queues, Queues', BatchAt(s), UpdAt)
      BY <1>a, <1>b, <2>1, <2>3, <3>1, PlaceNames DEF Shifted
    <3>3. NeverCarriedTwice' /\ Carried' = Carried
      BY <1>0, <1>a, <3>2, PlaceNames, OneMoves
    <3>4. QED
      BY <1>10, <3>3, TrackingFrame DEF Route, ToLoad
  <2>4. CASE updQ' = updQ /\ sendQ' = Append(sendQ, m)
    <3>1. DOMAIN Queues' = DOMAIN Queues /\ Elsewhere(Queues, Queues', {BatchAt(s), SendAt})
      BY <2>1, <2>4, TheRest
    <3>2. Shifted(Queues, Queues', BatchAt(s), SendAt)
      BY <1>a, <1>b, <2>1, <2>4, <3>1, PlaceNames DEF Shifted
    <3>3. NeverCarriedTwice' /\ Carried' = Carried
      BY <1>0, <1>a, <3>2, PlaceNames, OneMoves
    <3>4. QED
      BY <1>10, <3>3, TrackingFrame DEF Route, ToLoad
  <2>5. CASE updQ' = updQ /\ sendQ' = sendQ
    <3>1. DOMAIN Queues' = DOMAIN Queues /\ Elsewhere(Queues, Queues', {BatchAt(s)})
      BY <2>1, <2>5, TheRest
    <3>2. Popped(Queues, Queues', BatchAt(s))
      BY <1>a, <1>b, <2>1, <3>1 DEF Popped
    <3>3. NeverCarriedTwice' /\ Carried' \subseteq Carried
      BY <1>0, <1>a, <3>2, PlaceNames, OneLeaves
    <3>4. QED
      BY <1>10, <3>3, TrackingFrame DEF Route, ToLoad
  <2>6. QED
    BY <2>2, <2>3, <2>4, <2>5
<1>11. ASSUME NEW s \in Senders, BatchDone(s)
       PROVE  Tracking'
  <2>1. Queues' = Queues
    BY <1>11, QueuesUnchanged DEF BatchDone
  <2>2. QED
    BY <1>11, <1>a, <1>b, <2>1, TrackingFrame DEF BatchDone, ToLoad
<1>12. CASE TakeUpdates
  <2> DEFINE n == Smaller(UpdateBatch, Len(updQ))
  <2>1. n \in Nat /\ n <= Len(updQ)
    BY <1>0, DeliveryAssumption, LenProperties DEF Smaller, DeliveryTypeOK
  <2>2. /\ updBatch' = SubSeq(updQ, 1, n)
        /\ updQ' = SubSeq(updQ, n + 1, Len(updQ))
        /\ updBatch = <<>>
    BY <1>12 DEF TakeUpdates
  <2> HIDE DEF n
  <2>3. DOMAIN Queues' = DOMAIN Queues /\ Elsewhere(Queues, Queues', {UpdAt, MarkAt})
    BY <1>12, TheRest DEF TakeUpdates
  <2>4. Taken(Queues, Queues', UpdAt, MarkAt, n)
    BY <1>a, <1>b, <2>1, <2>2, <2>3, PlaceNames DEF Taken
  <2>5. NeverCarriedTwice' /\ Carried' = Carried
    BY <1>0, <1>a, <2>1, <2>4, PlaceNames, SomeTravel
  <2>6. QED
    BY <1>12, <2>5, TrackingFrame DEF TakeUpdates, ToLoad
<1>13. CASE UpdateOne
  <2>1. DOMAIN Queues' = DOMAIN Queues /\ Elsewhere(Queues, Queues', {MarkAt})
    BY <1>13, TheRest DEF UpdateOne
  <2>2. Popped(Queues, Queues', MarkAt)
    BY <1>13, <1>a, <1>b, <2>1 DEF UpdateOne, Popped
  <2>3. NeverCarriedTwice' /\ Carried' \subseteq Carried
    BY <1>0, <1>a, <2>2, PlaceNames, OneLeaves
  <2>4. ToLoad' \subseteq ToLoad
    BY <1>13 DEF UpdateOne, ToLoad
  <2>5. QED
    BY <1>13, <2>3, <2>4, TrackingFrame DEF UpdateOne
<1>14. CASE Crash
  <2>1. Carried' = {}
    BY <1>14 DEF Crash, Carried, InBatches, Range
  <2>2. NeverCarriedTwice'
    BY <1>b, <2>1, EmptyIsApart
  <2>3. QED
    BY <1>14, <2>1, <2>2 DEF Crash, Tracking
<1>15. CASE UNCHANGED vars
  <2>1. Queues' = Queues
    BY <1>15, QueuesUnchanged DEF vars
  <2>2. QED
    BY <1>15, <1>a, <1>b, <2>1, TrackingFrame DEF vars, ToLoad
<1>16. QED
  BY <1>1, <1>2, <1>3, <1>4, <1>5, <1>6, <1>7, <1>8, <1>9, <1>10, <1>11, <1>12,
     <1>13, <1>14, <1>15
     DEF Next, StartStep, CheckerStep, SenderStep, UpdaterStep

LEMMA TrackingInvariant == Spec => [](Accounting /\ Tracking)
  BY AccountingInit, AccountingStep, TrackingInit, TrackingStep, PTL DEF Spec

\* No row is in two places of the process or twice in one queue, whatever the
\* server and the database refuse, and however often the process restarts: the
\* start-up's SELECT and the senders it feeds never meet on one row, and
\* neither of two senders has what the other has.
THEOREM NoDatumTwice == Spec => []NeverCarriedTwice
<1>1. Tracking => NeverCarriedTwice
  BY DEF Tracking
<1>2. QED
  BY <1>1, TrackingInvariant, PTL
-----------------------------------------------------------------------------
(***************************************************************************)
(* Budget.  Each start of the process allows a sighting one acceptance.    *)
(***************************************************************************)
\* A worker about to post a kind has not posted it: the flags of a batch
\* begin at FALSE.
Flags ==
    \A s \in Senders : /\ pc[s] = "ap" => \A k \in Kinds : ~ok[s][k]
                       /\ pc[s] = "apstation" => ~ok[s]["apstation"]

\* The data in flight that no post has taken since the last start.
Unposted == Range(hand) \cup Range(sendQ) \cup ToLoad
              \cup {m \in InBatches :
                      \E s \in Senders : m \in Range(batch[s]) /\ ~ok[s][m.kind]}

Budget ==
    /\ \A x \in Sightings : accepts[x] <= 1 + crashes
    /\ \A x \in Sightings : x \notin passed => accepts[x] = 0
    /\ phase = "down" => \A x \in Sightings : accepts[x] <= crashes
    /\ \A m \in Unposted : accepts[m.sighting] <= crashes

LEMMA BudgetInit == Init => Flags /\ Budget
<1> SUFFICES ASSUME Init PROVE Flags /\ Budget
  OBVIOUS
<1>1. Carried = {} /\ rows = {}
  BY DEF Init, Carried, InBatches, Range
<1>2. Unposted = {}
  BY <1>1 DEF Unposted, Carried, ToLoad
<1>3. QED
  BY <1>2 DEF Init, Flags, Budget

LEMMA FlagsStep == DeliveryTypeOK /\ Flags /\ [Next]_vars => Flags'
<1> SUFFICES ASSUME DeliveryTypeOK, Flags, [Next]_vars
             PROVE  Flags'
  OBVIOUS
<1> USE DEF disk, startup, checkerVars, senderVars, updaterVars, history
<1>0. pc \in [Senders -> {"idle", "route"} \cup Kinds] /\ ok \in [Senders -> [Kinds -> BOOLEAN]]
  BY DEF DeliveryTypeOK
<1>1. ASSUME NEW s \in Senders, TakeBatch(s) \/ BatchDone(s)
      PROVE  Flags'
  <2>1. /\ ok' = [ok EXCEPT ![s] = NoFlags]
        /\ pc' = [pc EXCEPT ![s] = "ap"] \/ pc' = [pc EXCEPT ![s] = "idle"]
    BY <1>1 DEF TakeBatch, BatchDone
  <2>2. \A k \in Kinds : ~ok'[s][k]
    BY <1>0, <2>1 DEF NoFlags
  <2>3. \A t \in Senders : t # s => ok'[t] = ok[t] /\ pc'[t] = pc[t]
    BY <1>0, <2>1
  <2>4. QED
    BY <2>2, <2>3 DEF Flags, Kinds
<1>2. ASSUME NEW s \in Senders, NEW k \in Kinds, NoPost(s, k)
      PROVE  Flags'
  BY <1>0, <1>2 DEF NoPost, AfterPost, Flags, Kinds
<1>3. ASSUME NEW s \in Senders, NEW k \in Kinds, NEW o \in Outcomes, Post(s, k, o)
      PROVE  Flags'
  <2>1. /\ pc'[s] = AfterPost(k) /\ pc[s] = k
        /\ \A j \in Kinds : j # k => ok'[s][j] = ok[s][j]
    BY <1>0, <1>3 DEF Post
  <2>2. \A t \in Senders : t # s => ok'[t] = ok[t] /\ pc'[t] = pc[t]
    BY <1>0, <1>3 DEF Post
  <2>3. QED
    BY <2>1, <2>2 DEF AfterPost, Flags, Kinds
<1>4. CASE Crash
  BY <1>4 DEF Crash, Flags
<1>5. CASE UNCHANGED <<pc, ok>>
  BY <1>5 DEF Flags
<1>6. QED
  BY <1>1, <1>2, <1>3, <1>4, <1>5
     DEF Next, StartStep, CheckerStep, SenderStep, UpdaterStep, Boot, LoadRow, LoadDone,
         SyncDb, SyncDbBusy, PushToSender, Route, TakeUpdates, UpdateOne, vars

\* A datum in a sender's batch is nowhere else.
LEMMA OnePlace ==
  ASSUME Tracking, NEW s \in Senders, NEW m \in Range(batch[s])
  PROVE  /\ m \notin Range(hand) \cup Range(sendQ) \cup ToLoad
         /\ \A t \in Senders : m \in Range(batch[t]) => t = s
<1>1. /\ Apart(Queues) /\ DOMAIN Queues = Places
      /\ Queues[HandAt] = hand /\ Queues[SendAt] = sendQ
      /\ \A t \in Senders : Queues[BatchAt(t)] = batch[t]
  BY Family DEF FamilyFacts, Tracking
<1>2. \A p, q \in Places : p # q => Range(Queues[p]) \cap Range(Queues[q]) = {}
  BY <1>1, ApartByRange
<1>3. BatchAt(s) # HandAt /\ BatchAt(s) # SendAt /\ HandAt \in Places /\ SendAt \in Places
  BY PlaceNames
<1>4. \A t \in Senders : BatchAt(t) \in Places /\ (BatchAt(t) = BatchAt(s) => t = s)
  BY PlaceNames
<1>5. m \notin Range(hand) /\ m \notin Range(sendQ)
  BY <1>1, <1>2, <1>3, <1>4
<1>6. \A t \in Senders : m \in Range(batch[t]) => t = s
  BY <1>1, <1>2, <1>4
<1>7. m \notin ToLoad
  BY DEF Tracking, Carried, InBatches
<1>8. QED
  BY <1>5, <1>6, <1>7

\* Steps that bring nothing new, and no acceptance.
LEMMA BudgetFrame ==
  ASSUME Budget, Unposted' \subseteq Unposted, accepts' = accepts, crashes' = crashes,
         passed \subseteq passed', phase' = "down" => phase = "down"
  PROVE  Budget'
  BY DEF Budget

LEMMA BudgetStep == Accounting /\ Tracking /\ Flags /\ Budget /\ [Next]_vars => Budget'
<1> SUFFICES ASSUME Accounting, Tracking, Flags, Budget, [Next]_vars
             PROVE  Budget'
  OBVIOUS
<1> USE DEF disk, startup, checkerVars, senderVars, updaterVars, history
<1>0. DeliveryTypeOK /\ Shape /\ RowIds
  BY DEF Accounting
<1>c. Carried \subseteq Data /\ rows \subseteq Data
  BY <1>0, RangeOfSeq DEF DeliveryTypeOK, Carried, InBatches
<1>d. \A m \in Data : m.sighting \in Sightings /\ m.kind \in Kinds
  BY DEF Data
<1>e. Unposted \subseteq rows \cup Carried
  BY DEF Unposted, Carried, ToLoad
<1>1. CASE Boot
  <2>1. Unposted' \subseteq Data
    BY <1>1, <1>c DEF Boot, Unposted, Carried, ToLoad, InBatches
  <2>2. QED
    BY <1>1, <1>d, <2>1 DEF Boot, Budget
<1>2. ASSUME NEW k \in Kinds, LoadRow(k)
      PROVE  Budget'
  <2>1. PICK r \in Unread(k) : sendQ' = Append(sendQ, r) /\ cursor' = r.id
    BY <1>2 DEF LoadRow
  <2>2. r \in Data /\ r \in ToLoad /\ r.id > cursor
    BY <1>2, <1>c, <2>1 DEF LoadRow, Unread, ToLoad
  <2>3. Range(sendQ') = Range(sendQ) \cup {r}
    BY <1>0, <2>1, <2>2, Enqueue DEF DeliveryTypeOK
  <2>4. ToLoad' \subseteq ToLoad
    <3> SUFFICES ASSUME NEW q \in ToLoad'
                 PROVE  q \in ToLoad
      OBVIOUS
    <3>1. q \in rows /\ q \in Data /\ q \notin uploaded /\ phase' = phase
      BY <1>2, <1>c DEF ToLoad, LoadRow
    <3>2. q.id \in Nat /\ r.id \in Nat /\ cursor \in Nat
      BY <1>0, <2>2, <3>1 DEF Data, DeliveryTypeOK
    <3>3. QED
      BY <2>1, <2>2, <3>1, <3>2 DEF ToLoad
  <2>5. Unposted' \subseteq Unposted
    BY <1>2, <2>2, <2>3, <2>4 DEF LoadRow, Unposted, InBatches
  <2>6. QED
    BY <1>2, <2>5, BudgetFrame DEF LoadRow
<1>3. ASSUME NEW k \in Kinds, LoadDone(k)
      PROVE  Budget'
  <2>1. ToLoad' \subseteq ToLoad
    <3> SUFFICES ASSUME NEW q \in ToLoad'
                 PROVE  q \in ToLoad
      OBVIOUS
    <3>1. /\ q \in rows /\ q \notin uploaded /\ q.kind \in Kinds /\ phase = k /\ cursor' = 0
          /\ phase' = IF k = "ap" THEN "apstation" ELSE "run"
      BY <1>3, <1>c DEF LoadDone, ToLoad, Data
    <3>2. k = "ap" /\ q.kind = "apstation"
      BY <3>1 DEF ToLoad, Kinds
    <3>3. QED
      BY <3>1, <3>2 DEF ToLoad
  <2>2. Unposted' \subseteq Unposted
    BY <1>3, <2>1 DEF LoadDone, Unposted, InBatches
  <2>3. QED
    BY <1>3, <2>2, BudgetFrame DEF LoadDone
<1>4. ASSUME NEW x \in Sightings, NEW m \in Data, m.sighting = x,
             SyncDb(x) \/ SyncDbBusy(x), hand' = <<m>>, x \notin passed,
             ToLoad' = {}
      PROVE  Budget'
  <2>1. Range(hand') = {m}
    BY <1>4 DEF Range
  <2>2. Unposted' \subseteq Unposted \cup {m}
    BY <1>4, <2>1 DEF SyncDb, SyncDbBusy, Unposted, InBatches
  <2>3. accepts[x] = 0 /\ crashes \in Nat
    BY <1>0, <1>4, DeliveryAssumption DEF Budget, DeliveryTypeOK
  <2>4. accepts' = accepts /\ crashes' = crashes /\ passed \subseteq passed' /\ phase' = "run"
    BY <1>4 DEF SyncDb, SyncDbBusy
  <2>5. \A q \in Unposted' : accepts[q.sighting] <= crashes
    BY <1>4, <2>2, <2>3 DEF Budget
  <2>6. QED
    BY <2>4, <2>5 DEF Budget
<1>5. ASSUME NEW x \in Sightings, SyncDb(x)
      PROVE  Budget'
  <2> DEFINE k == KindOf(x)
             row == [kind |-> k, id |-> nextId[k], sighting |-> x]
  <2>1. /\ rows' = rows \cup {row} /\ hand' = <<row>> /\ phase = "run" /\ phase' = "run"
        /\ x \notin passed
    BY <1>5 DEF SyncDb
  <2>2. row \in Data /\ row.sighting = x
    BY <1>0 DEF KindOf, Kinds, DeliveryTypeOK, Data
  <2> HIDE DEF row, k
  <2>3. ToLoad' = {}
    BY <1>c, <2>1, <2>2 DEF ToLoad, Data, Kinds
  <2>4. QED
    BY <1>4, <1>5, <2>1, <2>2, <2>3
<1>6. ASSUME NEW x \in Sightings, SyncDbBusy(x)
      PROVE  Budget'
  <2> DEFINE m == [kind |-> KindOf(x), id |-> lastRowid, sighting |-> x]
  <2>1. rows' = rows /\ hand' = <<m>> /\ phase = "run" /\ phase' = "run" /\ x \notin passed
    BY <1>6 DEF SyncDbBusy
  <2>2. m \in Data /\ m.sighting = x
    BY <1>0 DEF KindOf, Kinds, DeliveryTypeOK, Data
  <2> HIDE DEF m
  <2>3. ToLoad' = {}
    BY <1>c, <2>1 DEF ToLoad, Data, Kinds
  <2>4. QED
    BY <1>4, <1>6, <2>1, <2>2, <2>3
<1>7. CASE PushToSender
  <2>1. Head(hand) \in Data /\ Range(hand) = {Head(hand)}
    BY <1>0, <1>7, PopFront DEF PushToSender, DeliveryTypeOK, Shape
  <2>2. Range(sendQ') = Range(sendQ) \cup {Head(hand)}
    BY <1>0, <1>7, <2>1, Enqueue DEF PushToSender, DeliveryTypeOK
  <2>3. Range(hand') = {} /\ ToLoad' = ToLoad
    BY <1>7 DEF PushToSender, Range, ToLoad
  <2>4. Unposted' \subseteq Unposted
    BY <1>7, <2>1, <2>2, <2>3 DEF PushToSender, Unposted, InBatches
  <2>5. QED
    BY <1>7, <2>4, BudgetFrame DEF PushToSender
<1>8. ASSUME NEW s \in Senders, TakeBatch(s)
      PROVE  Budget'
  <2> DEFINE n == Smaller(BatchSize, Len(sendQ))
  <2>1. n \in Nat /\ n <= Len(sendQ)
    BY <1>0, DeliveryAssumption, LenProperties DEF Smaller, DeliveryTypeOK
  <2>2. /\ batch' = [batch EXCEPT ![s] = SubSeq(sendQ, 1, n)]
        /\ sendQ' = SubSeq(sendQ, n + 1, Len(sendQ))
    BY <1>8 DEF TakeBatch
  <2>3. Range(sendQ) = Range(SubSeq(sendQ, 1, n)) \cup Range(SubSeq(sendQ, n + 1, Len(sendQ)))
    BY <1>0, <2>1, TakeFront DEF DeliveryTypeOK
  <2> HIDE DEF n
  <2>4. Range(sendQ) = Range(batch'[s]) \cup Range(sendQ')
    BY <1>0, <2>2, <2>3 DEF DeliveryTypeOK
  <2>5. \A t \in Senders : t # s => batch'[t] = batch[t] /\ ok'[t] = ok[t]
    BY <1>0, <1>8, <2>2 DEF TakeBatch, DeliveryTypeOK
  <2>6. hand' = hand /\ ToLoad' = ToLoad
    BY <1>8 DEF TakeBatch, ToLoad
  <2>7. Unposted' \subseteq Unposted
    BY <2>4, <2>5, <2>6 DEF Unposted, InBatches
  <2>8. QED
    BY <1>8, <2>7, BudgetFrame DEF TakeBatch
<1>9. ASSUME NEW s \in Senders, NEW k \in Kinds, NoPost(s, k)
      PROVE  Budget'
  <2>1. Unposted' = Unposted
    BY <1>9 DEF NoPost, Unposted, InBatches, ToLoad
  <2>2. QED
    BY <1>9, <2>1, BudgetFrame DEF NoPost
<1>10. ASSUME NEW s \in Senders, NEW k \in Kinds, NEW o \in Outcomes, Post(s, k, o)
       PROVE  Budget'
  <2>1. /\ \A t \in Senders : t # s => ok'[t] = ok[t]
        /\ \A j \in Kinds : j # k => ok'[s][j] = ok[s][j]
        /\ ok'[s][k] = (Status(o) < 400)
    BY <1>0, <1>10 DEF Post, DeliveryTypeOK
  <2>2. ~ok[s][k]
    BY <1>10 DEF Post, Flags, Kinds
  <2>3. Group(s, k) \subseteq Unposted
    BY <2>2 DEF Group, Unposted, InBatches
  <2>4. Unposted' \subseteq Unposted
    <3>1. ToLoad' = ToLoad /\ hand' = hand /\ sendQ' = sendQ /\ batch' = batch
      BY <1>10 DEF Post, ToLoad
    <3>2. ASSUME NEW t \in Senders, NEW m \in Range(batch[t]), ~ok'[t][m.kind]
          PROVE  ~ok[t][m.kind]
      <4>1. m.kind \in Kinds
        BY <1>c, <1>d DEF Carried, InBatches
      <4>2. QED
        BY <2>1, <2>2, <3>2, <4>1
    <3>3. QED
      BY <3>1, <3>2 DEF Unposted, InBatches
  <2>5. crashes' = crashes /\ passed' = passed /\ phase' = phase
    BY <1>10 DEF Post
  <2>6. phase # "down"
    <3>1. Group(s, k) # {}
      BY <1>10 DEF Post
    <3>2. QED
      BY <1>0, <3>1 DEF Group, Shape, Carried, InBatches
  <2>7. CASE ~ServerKeeps(o)
    <3>1. accepts' = accepts
      BY <1>0, <1>10, <2>7 DEF Post, DeliveryTypeOK
    <3>2. QED
      BY <2>4, <2>5, <3>1, BudgetFrame
  <2>8. CASE ServerKeeps(o)
    <3>1. ok'[s][k]
      <4>1. Status("accepted") = 200 /\ Status("silent_kept") = 0
        BY DEF Status
      <4>2. Status(o) < 400
        BY <2>8, <4>1, SMT DEF ServerKeeps
      <4>3. QED
        BY <2>1, <4>2, Zenon
    <3>2. \A x \in Sightings : accepts'[x] = IF \E m \in Group(s, k) : m.sighting = x
                                            THEN accepts[x] + 1 ELSE accepts[x]
      BY <1>10, <2>8 DEF Post
    <3>3. \A x \in Sightings : accepts[x] \in Nat
      BY <1>0 DEF DeliveryTypeOK
    <3>4. crashes \in Nat
      BY <1>0, DeliveryAssumption DEF DeliveryTypeOK
    <3>5. Group(s, k) \subseteq Carried /\ \A m \in Group(s, k) : m \in Range(batch[s]) /\ m.kind = k
      BY DEF Group, Carried, InBatches
    <3>6. ASSUME NEW x \in Sightings
          PROVE  accepts'[x] <= 1 + crashes
      BY <2>3, <3>2, <3>3, <3>4 DEF Budget
    <3>7. ASSUME NEW x \in Sightings, x \notin passed
          PROVE  accepts'[x] = 0
      BY <3>2, <3>5, <3>7 DEF Budget, Tracking
    <3>8. ASSUME NEW m \in Unposted'
          PROVE  accepts'[m.sighting] <= crashes
      <4>1. m \in Unposted /\ m \in rows \cup Carried /\ m.sighting \in Sightings
        BY <1>c, <1>d, <1>e, <2>4
      <4>2. m \notin Group(s, k)
        <5> SUFFICES ASSUME m \in Group(s, k)
                     PROVE  FALSE
          OBVIOUS
        <5>1. /\ m \notin Range(hand) \cup Range(sendQ) \cup ToLoad
              /\ \A t \in Senders : m \in Range(batch[t]) => t = s
          BY <3>5, OnePlace
        <5>2. ToLoad' = ToLoad /\ hand' = hand /\ sendQ' = sendQ /\ batch' = batch
          BY <1>10 DEF Post, ToLoad
        <5>3. \E t \in Senders : m \in Range(batch[t]) /\ ~ok'[t][m.kind]
          BY <5>1, <5>2 DEF Unposted
        <5>4. QED
          BY <3>1, <3>5, <5>1, <5>3
      <4>3. ~\E q \in Group(s, k) : q.sighting = m.sighting
        BY <3>5, <4>1, <4>2 DEF Tracking
      <4>4. QED
        BY <3>2, <4>1, <4>3 DEF Budget
    <3>9. QED
      BY <2>5, <2>6, <3>6, <3>7, <3>8 DEF Budget
  <2>9. QED
    BY <2>7, <2>8
<1>11. ASSUME NEW s \in Senders, Route(s)
       PROVE  Budget'
  <2> DEFINE m == Head(batch[s])
  <2>1. m \in Data /\ Range(batch[s]) = {m} \cup Range(Tail(batch[s]))
    BY <1>0, <1>11, PopFront DEF Route, DeliveryTypeOK
  <2>2. sendQ' = sendQ \/ (~ok[s][m.kind] /\ sendQ' = Append(sendQ, m))
    BY <1>11, Zenon DEF Route
  <2>3. batch'[s] = Tail(batch[s]) /\ \A t \in Senders : t # s => batch'[t] = batch[t]
    BY <1>0, <1>11 DEF Route, DeliveryTypeOK
  <2> HIDE DEF m
  <2>4. Range(sendQ') \subseteq Unposted
    <3>1. CASE sendQ' = sendQ
      BY <3>1 DEF Unposted
    <3>2. CASE ~ok[s][m.kind] /\ sendQ' = Append(sendQ, m)
      <4>1. Range(sendQ') = Range(sendQ) \cup {m}
        BY <1>0, <2>1, <3>2, Enqueue DEF DeliveryTypeOK
      <4>2. m \in Unposted
        BY <2>1, <3>2 DEF Unposted, InBatches
      <4>3. QED
        BY <4>1, <4>2 DEF Unposted
    <3>3. QED
      BY <2>2, <3>1, <3>2
  <2>5. hand' = hand /\ ToLoad' = ToLoad /\ ok' = ok
    BY <1>11 DEF Route, ToLoad
  <2>6. \A t \in Senders : Range(batch'[t]) \subseteq Range(batch[t])
    BY <2>1, <2>3 DEF m
  <2>7. Unposted' \subseteq Unposted
    BY <2>4, <2>5, <2>6 DEF Unposted, InBatches
  <2>8. QED
    BY <1>11, <2>7, BudgetFrame DEF Route
<1>12. ASSUME NEW s \in Senders, BatchDone(s)
       PROVE  Budget'
  <2>1. /\ batch' = batch /\ Range(batch[s]) = {} /\ hand' = hand /\ sendQ' = sendQ
        /\ ToLoad' = ToLoad
    BY <1>12 DEF BatchDone, ToLoad, Range
  <2>2. \A t \in Senders : t # s => ok'[t] = ok[t]
    BY <1>0, <1>12 DEF BatchDone, DeliveryTypeOK
  <2>3. Unposted' \subseteq Unposted
    BY <2>1, <2>2 DEF Unposted, InBatches
  <2>4. QED
    BY <1>12, <2>3, BudgetFrame DEF BatchDone
<1>13. CASE TakeUpdates
  <2>1. Unposted' = Unposted
    BY <1>13 DEF TakeUpdates, Unposted, InBatches, ToLoad
  <2>2. QED
    BY <1>13, <2>1, BudgetFrame DEF TakeUpdates
<1>14. CASE UpdateOne
  <2>1. ToLoad' \subseteq ToLoad
    BY <1>14 DEF UpdateOne, ToLoad
  <2>2. Unposted' \subseteq Unposted
    BY <1>14, <2>1 DEF UpdateOne, Unposted, InBatches
  <2>3. QED
    BY <1>14, <2>2, BudgetFrame DEF UpdateOne
<1>15. CASE Crash
  <2>1. Unposted' \subseteq Data
    BY <1>15, <1>c DEF Crash, Unposted, ToLoad, InBatches, Range
  <2>2. /\ crashes \in Nat /\ crashes' = crashes + 1 /\ accepts' = accepts /\ passed' = passed
        /\ \A x \in Sightings : accepts[x] \in Nat
    BY <1>0, <1>15, DeliveryAssumption DEF Crash, DeliveryTypeOK
  <2>3. \A x \in Sightings : accepts'[x] <= crashes'
    BY <2>2 DEF Budget
  <2>4. QED
    BY <1>d, <2>1, <2>2, <2>3 DEF Budget
<1>16. CASE UNCHANGED vars
  <2>1. Unposted' = Unposted
    BY <1>16 DEF vars, Unposted, InBatches, ToLoad
  <2>2. QED
    BY <1>16, <2>1, BudgetFrame DEF vars
<1>17. QED
  BY <1>1, <1>2, <1>3, <1>5, <1>6, <1>7, <1>8, <1>9, <1>10, <1>11, <1>12, <1>13,
     <1>14, <1>15, <1>16
     DEF Next, StartStep, CheckerStep, SenderStep, UpdaterStep

LEMMA BudgetInvariant == Spec => [](Accounting /\ Tracking /\ Flags /\ Budget)
<1>1. Accounting => DeliveryTypeOK
  BY DEF Accounting
<1>2. QED
  BY <1>1, AccountingInit, AccountingStep, TrackingInit, TrackingStep, BudgetInit,
     FlagsStep, BudgetStep, PTL DEF Spec

\* The server takes a sighting at most once for each start of the process,
\* whatever fails: a station that is pushed back and posted again was not
\* taken, and a datum that was taken reaches no second post before a crash.
THEOREM OnceForEachStart == Spec => []OncePerStart
<1>1. Budget => OncePerStart
  BY DEF Budget, OncePerStart
<1>2. QED
  BY <1>1, BudgetInvariant, PTL
-----------------------------------------------------------------------------
(***************************************************************************)
(* Delivery implements Outbox: the tables and the server, seen without the *)
(* queues.                                                                 *)
(***************************************************************************)
LEMMA BoxStutters ==
  ASSUME UNCHANGED <<rows, uploaded, accepts>>
  PROVE  UNCHANGED Box!vars
  BY DEF Box!vars

LEMMA BoxStep ==
  ASSUME Reliable, Accounting, Honesty, Tracking, Budget, [Next]_vars
  PROVE  [Box!Next]_(Box!vars)
<1> USE DEF disk, startup, checkerVars, senderVars, updaterVars, history
<1>0. DeliveryTypeOK /\ RowIds /\ Carried \subseteq rows
  BY DEF Accounting, Honesty
<1>c. rows \subseteq Data /\ uploaded \subseteq rows
  BY <1>0 DEF DeliveryTypeOK
<1>d. /\ \A m \in Data : m.sighting \in Sightings
      /\ \A m, q \in rows : q.sighting = m.sighting => q = m
      /\ \A m \in rows : m.sighting \in passed
  BY DEF Data, Tracking
<1>1. CASE Boot
  <2>1. rows' = rows \ uploaded /\ uploaded' = {} /\ accepts' = accepts
    BY <1>1 DEF Boot, Reliable
  <2>2. Box!Forget
    BY <1>c, <1>d, <2>1 DEF Box!Forget
  <2>3. QED
    BY <2>2 DEF Box!Next
<1>2. ASSUME NEW x \in Sightings, SyncDb(x)
      PROVE  Box!Store(x)
  <2>1. /\ \E row : row.sighting = x /\ rows' = rows \cup {row}
        /\ x \notin passed /\ uploaded' = uploaded /\ accepts' = accepts
    BY <1>2 DEF SyncDb
  <2>2. accepts[x] = 0
    BY <2>1 DEF Budget
  <2>3. QED
    BY <1>d, <2>1, <2>2 DEF Box!Store
<1>3. ASSUME NEW s \in Senders, NEW k \in Kinds, NEW o \in Outcomes, Post(s, k, o)
      PROVE  [Box!Next]_(Box!vars)
  <2> DEFINE S == {m.sighting : m \in Group(s, k)}
  <2>1. CASE ServerKeeps(o)
    <3>1. /\ rows' = rows /\ uploaded' = uploaded
          /\ accepts' = [x \in Sightings |-> IF \E m \in Group(s, k) : m.sighting = x
                                              THEN accepts[x] + 1 ELSE accepts[x]]
      BY <1>3, <2>1 DEF Post
    <3>2. Group(s, k) \subseteq rows
      BY <1>0 DEF Group, Carried, InBatches
    <3>3. S \subseteq Sightings /\ S \subseteq {r.sighting : r \in rows}
      BY <1>c, <1>d, <3>2
    <3>4. \A x \in Sightings : accepts[x] \in Nat
      BY <1>0 DEF DeliveryTypeOK
    <3>5. \A x \in Sightings : accepts'[x] = IF x \in S THEN accepts[x] + 1 ELSE accepts[x]
      BY <3>1
    <3> HIDE DEF S
    <3>6. {x \in Sightings : accepts'[x] > 0} = {x \in Sightings : accepts[x] > 0} \cup S
      BY <3>3, <3>4, <3>5
    <3>7. PICK T \in SUBSET Sightings : T = S
      BY <3>3
    <3>8. Box!Accept(T)
      BY <3>1, <3>3, <3>6, <3>7 DEF Box!Accept
    <3>9. QED
      BY <3>8 DEF Box!Next
  <2>2. CASE ~ServerKeeps(o)
    <3>1. accepts' = accepts
      BY <1>0, <1>3, <2>2 DEF Post, DeliveryTypeOK
    <3>2. QED
      BY <1>3, <3>1, BoxStutters DEF Post
  <2>3. QED
    BY <2>1, <2>2
<1>4. CASE UpdateOne
  <2> DEFINE m == Head(updBatch)
  <2>1. m \in Data /\ m \in Range(updBatch)
    BY <1>0, <1>4, PopFront DEF UpdateOne, DeliveryTypeOK
  <2>2. uploaded' = uploaded \cup RowsOf(m) /\ rows' = rows /\ accepts' = accepts
    BY <1>4 DEF UpdateOne, Reliable
  <2> HIDE DEF m
  <2>3. m \in rows /\ accepts[m.sighting] > 0
    BY <1>0, <2>1 DEF Honesty, Accepted, Carried
  <2>4. RowsOf(m) = {m}
    BY <1>0, <2>3 DEF RowsOf, RowIds
  <2>5. PICK x \in Sightings : x = m.sighting
    BY <1>d, <2>1
  <2>6. Box!Mark(x)
    BY <1>d, <2>1, <2>2, <2>3, <2>4, <2>5 DEF Box!Mark
  <2>7. QED
    BY <2>6 DEF Box!Next
<1>5. CASE UNCHANGED <<rows, uploaded, accepts>>
  BY <1>5, BoxStutters
<1>6. \A x \in Sightings : ~SyncDbBusy(x)
  BY DEF SyncDbBusy, Reliable
<1>7. CASE \E x \in Sightings : SyncDb(x)
  BY <1>2, <1>7 DEF Box!Next
<1>8. QED
  BY <1>1, <1>3, <1>4, <1>5, <1>6, <1>7
     DEF Next, StartStep, CheckerStep, SenderStep, UpdaterStep, LoadRow, LoadDone,
         PushToSender, TakeBatch, NoPost, Route, BatchDone, TakeUpdates, Crash, vars

\* When every request is answered and no statement meets a busy database, the
\* whole pipeline of start-up, pools, crashes and restarts is an outbox: what
\* the tables and the server see is storing, accepting, marking and forgetting
\* in the order of the promise.
THEOREM DeliveryIsAnOutbox ==
  ASSUME Reliable
  PROVE  Spec => ImplementsOutbox
<1>1. Init => Box!Init
  BY DEF Init, Box!Init
<1>2. Accounting /\ Honesty /\ Tracking /\ Budget /\ [Next]_vars => [Box!Next]_(Box!vars)
  BY BoxStep
<1>3. QED
  BY <1>1, <1>2, HonestyInvariant, BudgetInvariant, PTL
     DEF Spec, ImplementsOutbox, Box!Spec
=============================================================================
