--------------------------- MODULE CheckerProofs ---------------------------
(***************************************************************************)
(* What TLAPS proves of Checker, for any devices, timeouts, workers and    *)
(* seconds and any number of faults.                                       *)
(*                                                                         *)
(* RowsSpaced is about rows, but it is the pool's mutex that makes it      *)
(* true: between the SELECT of in_db and the INSERT of sync_db no other    *)
(* job may write a row.  The inductive invariant therefore says who is in  *)
(* the mutex, and what the worker that is about to insert knows.           *)
(***************************************************************************)
EXTENDS Checker, SequenceTheorems, TLAPS

\* The worker in the middle of a job is the one that holds the mutex.
MutexHeld == \A w \in Workers : /\ pc[w] # "idle" <=> holder = w
                                /\ pc[w] # "idle" => datum[w] \in Datum

\* Every row of m's device is at least a gap older than m.
FarFromRows(m) == \A r \in rows : r.dev = m.dev => m.at >= r.at + Gap(m.dev)

SelectStillTrue ==
    \A w \in Workers : pc[w] = "sync_db" /\ ~datum[w].blind => FarFromRows(datum[w])

IdsUsed == \A r \in rows : r.id < nextId

Spacing == CheckerTypeOK /\ MutexHeld /\ SelectStillTrue /\ IdsUsed /\ RowsSpaced
-----------------------------------------------------------------------------
\* to_next_time goes up by at most five seconds, to a multiple of five.
LEMMA ToNextTimeBounds ==
  ASSUME NEW t \in Nat
  PROVE  /\ ToNextTime(t) \in Nat
         /\ t <= ToNextTime(t) /\ ToNextTime(t) <= t + 5
         /\ ToNextTime(t) % 5 = 0
<1> DEFINE sec == t % 60
<1>1. PICK m \in Nat : t = 60 * m + sec /\ sec \in 0..59
  BY Z3
<1>2. PICK a \in 0..5, b \in 0..9 : sec = 10 * a + b /\ a = sec \div 10 /\ b = sec % 10
  BY <1>1, Z3
<1>3. QED
  BY <1>1, <1>2, Z3 DEF ToNextTime

LEMMA TypeInit == Init => CheckerTypeOK
<1> SUFFICES ASSUME Init PROVE CheckerTypeOK
  OBVIOUS
<1> USE DEF Init, CacheOf!Init, CheckerTypeOK
<1>1. queue \in Seq(Datum)
  BY EmptySeq
<1>2. last \in [Devices -> Int] /\ now \in Nat
  BY CheckerAssumption DEF CacheOf!Never
<1>3. faults \in 0..MaxFaults
  BY CheckerAssumption
<1>4. reply \in [data : Devices, inserted : BOOLEAN] /\ rows \subseteq Row
  OBVIOUS
<1>5. datum \in [Workers -> Datum \cup {NoJob}] /\ pc \in [Workers -> {"idle", "round", "in_cache", "in_db", "sync_db"}]
  OBVIOUS
<1>6. QED
  BY <1>1, <1>2, <1>3, <1>4, <1>5

\* Whatever the shared buffer holds is a time.
LEMMA TornIsATime ==
  ASSUME CheckerTypeOK, NEW t \in Nat, NEW u \in Torn(t)
  PROVE  u \in Nat
<1>1. \A o \in Nat : ToNextTime(o) \in Nat /\ o - (o % 60) \in Nat /\ ToNextTime(t) % 60 \in Nat
  <2> TAKE o \in Nat
  <2>1. ToNextTime(o) \in Nat /\ ToNextTime(t) \in Nat
    BY ToNextTimeBounds
  <2>2. \A n \in Nat : n % 60 \in Nat /\ n - (n % 60) \in Nat
    BY Z3
  <2>3. QED
    BY <2>1, <2>2
<1>2. {r.at : r \in rows} \cup {now} \subseteq Nat
  BY DEF CheckerTypeOK, Row
<1>3. PICK o \in {r.at : r \in rows} \cup {now} :
        u \in {o, ToNextTime(o), o - (o % 60) + (ToNextTime(t) % 60)}
  BY DEF Torn
<1>4. o \in Nat
  BY <1>2, <1>3
<1> DEFINE base == o - (o % 60)
           rest == ToNextTime(t) % 60
<1>5. ToNextTime(o) \in Nat /\ base \in Nat /\ rest \in Nat
  BY <1>1, <1>4
<1>6. u \in {o, ToNextTime(o), base + rest}
  BY <1>3
<1>7. base + rest \in Nat
  <2> HIDE DEF base, rest
  <2> QED
    BY <1>5
<1>8. QED
  <2> HIDE DEF base, rest
  <2> QED
    BY <1>4, <1>5, <1>6, <1>7
-----------------------------------------------------------------------------
LEMMA SpacingInit == Init => Spacing
  BY TypeInit, CheckerAssumption
     DEF Init, Spacing, MutexHeld, SelectStillTrue, IdsUsed, RowsSpaced

\* The timeout that in_db uses is never shorter than the gap that is promised.
LEMMA TimeoutCoversGap ==
  ASSUME CheckerTypeOK, NEW d \in Devices
  PROVE  CacheOf!TimeoutOf(d) \in Nat /\ Gap(d) \in Nat /\ Gap(d) <= CacheOf!TimeoutOf(d)
  BY CheckerAssumption DEF CheckerTypeOK, CacheOf!TimeoutOf, Gap

\* A step that leaves the workers and the database alone.
LEMMA SpacingFrame ==
  ASSUME Spacing, CheckerTypeOK', UNCHANGED <<workerVars, dbVars>>
  PROVE  Spacing'
  BY DEF Spacing, MutexHeld, SelectStillTrue, FarFromRows, IdsUsed, RowsSpaced, workerVars, dbVars

\* The end of a job without a row.
LEMMA SpacingDone ==
  ASSUME Spacing, CheckerTypeOK', NEW w \in Workers, pc[w] # "idle", Done(w), UNCHANGED dbVars
  PROVE  Spacing'
<1> USE DEF Spacing, Done, dbVars, CheckerTypeOK
<1>1. MutexHeld'
  BY CheckerAssumption DEF MutexHeld
<1>2. SelectStillTrue'
  BY DEF SelectStillTrue, FarFromRows
<1>3. QED
  BY <1>1, <1>2 DEF IdsUsed, RowsSpaced

LEMMA SpacingStep == Spacing /\ [Next]_vars => Spacing'
<1> SUFFICES ASSUME Spacing, [Next]_vars
             PROVE  Spacing'
  OBVIOUS
<1>0. CheckerTypeOK /\ MutexHeld /\ SelectStillTrue /\ IdsUsed /\ RowsSpaced
  BY DEF Spacing
<1> USE DEF cacheVars, workerVars, dbVars
<1>1. CASE Tick
  <2>1. CheckerTypeOK'
    BY <1>0, <1>1, CheckerAssumption DEF Tick, CacheOf!Tick, CheckerTypeOK
  <2>2. QED
    BY <1>1, <2>1, SpacingFrame DEF Tick
<1>2. CASE LoadWhiteList \/ ReplaceWhiteList
  <2>1. CheckerTypeOK'
    BY <1>0, <1>2 DEF LoadWhiteList, CacheOf!LoadWhiteList,
                      ReplaceWhiteList, CacheOf!ReplaceWhiteList, CheckerTypeOK
  <2>2. QED
    BY <1>2, <2>1, SpacingFrame DEF LoadWhiteList, ReplaceWhiteList
<1>3. CASE Restart
  <2>1. CheckerTypeOK'
    <3>1. queue' \in Seq(Datum)
      BY <1>3, EmptySeq DEF Restart
    <3>2. last' \in [Devices -> Int]
      BY <1>3 DEF Restart, CacheOf!Never
    <3>3. rows' \subseteq rows
      BY <1>3 DEF Restart
    <3>4. faults' \in 0..MaxFaults
      BY <1>0, <1>3, CheckerAssumption DEF Restart, Fault, CheckerTypeOK
    <3>5. datum' \in [Workers -> Datum \cup {NoJob}]
      BY <1>3 DEF Restart
    <3>6. QED
      BY <1>0, <1>3, <3>1, <3>2, <3>3, <3>4, <3>5 DEF Restart, CheckerTypeOK
  <2>2. MutexHeld' /\ SelectStillTrue'
    BY <1>3, CheckerAssumption DEF Restart, MutexHeld, SelectStillTrue
  <2>3. IdsUsed' /\ RowsSpaced'
    BY <1>0, <1>3 DEF Restart, IdsUsed, RowsSpaced
  <2>4. QED
    BY <2>1, <2>2, <2>3 DEF Spacing
<1>4. ASSUME NEW d \in Devices, Hear(d)
      PROVE  Spacing'
  <2> DEFINE m == [dev |-> d, heard |-> now, at |-> now, torn |-> FALSE, blind |-> FALSE]
  <2>1. m \in Datum
    BY <1>0 DEF CheckerTypeOK, Datum
  <2>2. Append(queue, m) \in Seq(Datum)
    BY <1>0, <2>1, AppendProperties DEF CheckerTypeOK
  <2>3. CheckerTypeOK'
    BY <1>0, <1>4, <2>2 DEF Hear, CheckerTypeOK
  <2>4. QED
    BY <1>4, <2>3, SpacingFrame DEF Hear
<1>5. ASSUME NEW w \in Workers, Take(w)
      PROVE  Spacing'
  <2>1. Head(queue) \in Datum /\ Tail(queue) \in Seq(Datum)
    BY <1>0, <1>5, HeadTailProperties DEF Take, CheckerTypeOK
  <2>2. CheckerTypeOK'
    BY <1>0, <1>5, <2>1 DEF Take, CheckerTypeOK
  <2>3. MutexHeld'
    BY <1>0, <1>5, <2>1, CheckerAssumption DEF Take, MutexHeld, CheckerTypeOK
  <2>4. SelectStillTrue'
    BY <1>0, <1>5 DEF Take, SelectStillTrue, FarFromRows, CheckerTypeOK
  <2>5. QED
    BY <1>0, <1>5, <2>2, <2>3, <2>4 DEF Take, Spacing, IdsUsed, RowsSpaced
<1>6. ASSUME NEW w \in Workers, Round(w)
      PROVE  Spacing'
  <2>1. datum[w] \in Datum /\ datum[w].at \in Nat
    BY <1>0, <1>6 DEF Round, MutexHeld, Datum
  <2>2. PICK t \in Nat, b \in BOOLEAN : datum' = [datum EXCEPT ![w] = [@ EXCEPT !.at = t, !.torn = b]]
    <3>1. CASE datum' = [datum EXCEPT ![w].at = ToNextTime(@)]
      <4>1. ToNextTime(datum[w].at) \in Nat
        BY <2>1, ToNextTimeBounds
      <4>2. datum[w].torn \in BOOLEAN
        BY <2>1 DEF Datum
      <4>3. [datum[w] EXCEPT !.at = ToNextTime(@)]
              = [datum[w] EXCEPT !.at = ToNextTime(datum[w].at), !.torn = datum[w].torn]
        BY <2>1 DEF Datum
      <4>4. QED
        BY <1>0, <3>1, <4>1, <4>2, <4>3 DEF CheckerTypeOK
    <3>2. CASE \E t \in Torn(datum[w].at) :
                 datum' = [datum EXCEPT ![w] = [@ EXCEPT !.at = t, !.torn = TRUE]]
      BY <1>0, <2>1, <3>2, TornIsATime
    <3>3. QED
      BY <1>6, <3>1, <3>2 DEF Round
  <2>3. [datum[w] EXCEPT !.at = t, !.torn = b] \in Datum
    BY <2>1, <2>2 DEF Datum
  <2>4. faults' \in 0..MaxFaults
    <3>1. faults' = faults \/ Fault
      BY <1>6, Zenon DEF Round
    <3>2. QED
      BY <1>0, <3>1, CheckerAssumption DEF Fault, CheckerTypeOK
  <2>5. CheckerTypeOK'
    BY <1>0, <1>6, <2>2, <2>3, <2>4 DEF Round, CheckerTypeOK
  <2>6. MutexHeld'
    BY <1>0, <1>6, <2>2, <2>3 DEF Round, MutexHeld, CheckerTypeOK
  <2>7. SelectStillTrue'
    BY <1>0, <1>6, <2>2 DEF Round, MutexHeld, SelectStillTrue, FarFromRows, CheckerTypeOK
  <2>8. QED
    BY <1>0, <1>6, <2>5, <2>6, <2>7 DEF Round, Spacing, IdsUsed, RowsSpaced
<1>7. ASSUME NEW w \in Workers, InCache(w)
      PROVE  Spacing'
  <2>1. datum[w] \in Datum /\ datum[w].dev \in Devices /\ pc[w] = "in_cache"
    BY <1>0, <1>7 DEF InCache, MutexHeld, Datum
  <2>2. /\ reply' \in [data : Devices, inserted : BOOLEAN]
        /\ last' \in [Devices -> Int]
        /\ UNCHANGED <<now, white>>
    <3>1. now \in Int
      BY <1>0 DEF CheckerTypeOK
    <3>2. last' = [last EXCEPT ![datum[w].dev] = now]
      BY <1>7 DEF InCache, CacheOf!Insert
    <3>3. last' \in [Devices -> Int]
      BY <1>0, <3>1, <3>2 DEF CheckerTypeOK
    <3>4. QED
      BY <1>7, <2>1, <3>3 DEF InCache, CacheOf!Insert
  <2>3. CASE Done(w)
    <3>1. CheckerTypeOK'
      BY <1>0, <1>7, <2>2, <2>3 DEF InCache, Done, CheckerTypeOK
    <3>2. QED
      BY <1>7, <2>1, <2>3, <3>1, SpacingDone DEF InCache
  <2>4. CASE Goto(w, "in_db") /\ UNCHANGED datum
    <3>1. CheckerTypeOK'
      BY <1>0, <1>7, <2>2, <2>4 DEF InCache, Goto, CheckerTypeOK
    <3>2. MutexHeld' /\ SelectStillTrue'
      BY <1>0, <1>7, <2>1, <2>4 DEF InCache, Goto, MutexHeld, SelectStillTrue, FarFromRows, CheckerTypeOK
    <3>3. QED
      BY <1>0, <1>7, <3>1, <3>2 DEF InCache, Spacing, IdsUsed, RowsSpaced
  <2>5. QED
    BY <1>7, <2>3, <2>4 DEF InCache
<1>8. ASSUME NEW w \in Workers, InDb(w)
      PROVE  Spacing'
  <2>1. datum[w] \in Datum /\ datum[w].dev \in Devices /\ pc[w] = "in_db"
    BY <1>0, <1>8 DEF InDb, MutexHeld, Datum
  <2>2. faults' \in 0..MaxFaults
    BY <1>0, <1>8, CheckerAssumption DEF InDb, Fault, CheckerTypeOK
  <2>3. CASE Done(w)
    <3>1. CheckerTypeOK'
      BY <1>0, <1>8, <2>2, <2>3 DEF InDb, Done, CheckerTypeOK
    <3>2. QED
      BY <1>8, <2>1, <2>3, <3>1, SpacingDone DEF InDb
  <2>4. CASE ~Found(datum[w]) /\ Goto(w, "sync_db") /\ UNCHANGED datum
    <3>1. CheckerTypeOK'
      BY <1>0, <1>8, <2>2, <2>4 DEF InDb, Goto, CheckerTypeOK
    <3>2. MutexHeld'
      BY <1>0, <1>8, <2>1, <2>4 DEF InDb, Goto, MutexHeld, CheckerTypeOK
    <3>3. FarFromRows(datum[w])
      <4>1. \A r \in rows : r.at \in Nat
        BY <1>0 DEF CheckerTypeOK, Row
      <4>2. QED
        BY <1>0, <2>1, <2>4, <4>1, TimeoutCoversGap DEF FarFromRows, Found, Datum
    <3>4. SelectStillTrue'
      BY <1>0, <1>8, <2>4, <3>3 DEF InDb, Goto, SelectStillTrue, FarFromRows, CheckerTypeOK
    <3>5. QED
      BY <1>0, <1>8, <3>1, <3>2, <3>4 DEF InDb, Spacing, IdsUsed, RowsSpaced
  <2>5. CASE Goto(w, "sync_db") /\ datum' = [datum EXCEPT ![w].blind = TRUE]
    <3>1. [datum[w] EXCEPT !.blind = TRUE] \in Datum
      BY <2>1 DEF Datum
    <3>2. CheckerTypeOK'
      BY <1>0, <1>8, <2>2, <2>5, <3>1 DEF InDb, Goto, CheckerTypeOK
    <3>3. MutexHeld'
      BY <1>0, <1>8, <2>1, <2>5, <3>1 DEF InDb, Goto, MutexHeld, CheckerTypeOK
    <3>4. datum'[w].blind
      BY <1>0, <2>1, <2>5 DEF CheckerTypeOK, Datum
    <3>5. SelectStillTrue'
      BY <1>0, <1>8, <2>5, <3>4 DEF InDb, Goto, SelectStillTrue, FarFromRows, CheckerTypeOK
    <3>6. QED
      BY <1>0, <1>8, <3>2, <3>3, <3>5 DEF InDb, Spacing, IdsUsed, RowsSpaced
  <2>6. QED
    BY <1>8, <2>3, <2>4, <2>5 DEF InDb
<1>9. ASSUME NEW w \in Workers, SyncDb(w)
      PROVE  Spacing'
  <2>1. datum[w] \in Datum /\ pc[w] = "sync_db"
    BY <1>0, <1>9 DEF SyncDb, MutexHeld
  <2>2. faults' \in 0..MaxFaults
    BY <1>0, <1>9, CheckerAssumption DEF SyncDb, Fault, CheckerTypeOK
  <2>3. CASE UNCHANGED dbVars
    <3>1. CheckerTypeOK'
      BY <1>0, <1>9, <2>2, <2>3 DEF SyncDb, Done, CheckerTypeOK
    <3>2. QED
      BY <1>9, <2>1, <2>3, <3>1, SpacingDone DEF SyncDb
  <2>4. CASE rows' = rows \cup {RowOf(datum[w])} /\ nextId' = nextId + 1
    <3> DEFINE row == RowOf(datum[w])
    <3>1. /\ row \in Row /\ row.id = nextId /\ row.dev = datum[w].dev
          /\ row.at = datum[w].at /\ row.blind = datum[w].blind
      BY <1>0, <2>1 DEF RowOf, Row, Datum, CheckerTypeOK
    <3>2. CheckerTypeOK'
      BY <1>0, <1>9, <2>2, <2>4, <3>1 DEF SyncDb, Done, CheckerTypeOK
    <3>3. MutexHeld'
      BY <1>0, <1>9, <2>1, CheckerAssumption DEF SyncDb, Done, MutexHeld, CheckerTypeOK
    <3>4. \A v \in Workers : pc'[v] = "idle"
      BY <1>0, <1>9, <2>1 DEF SyncDb, Done, MutexHeld, CheckerTypeOK
    <3>5. SelectStillTrue'
      BY <3>4 DEF SelectStillTrue
    <3>6. \A r \in rows : r.id \in Nat /\ nextId \in Nat
      BY <1>0 DEF CheckerTypeOK, Row
    <3>7. IdsUsed'
      BY <1>0, <2>4, <3>1, <3>6 DEF IdsUsed, CheckerTypeOK
    <3>8. ~row.blind => \A q \in rows : q.dev = row.dev => row.at >= q.at + Gap(row.dev)
      BY <1>0, <2>1, <3>1 DEF SelectStillTrue, FarFromRows
    <3>9. ASSUME NEW r \in rows', NEW q \in rows', r.dev = q.dev, q.id < r.id, ~r.blind
          PROVE  r.at >= q.at + Gap(r.dev)
      <4>1. CASE r \in rows /\ q \in rows
        BY <1>0, <3>9, <4>1, Zenon DEF RowsSpaced
      <4>2. CASE r = row /\ q \in rows
        BY <3>8, <3>9, <4>2, Zenon
      <4>3. q # row
        <5> HIDE DEF row
        <5> SUFFICES ASSUME q = row PROVE FALSE
          OBVIOUS
        <5>1. CASE r = row
          BY <3>1, <3>6, <3>9, <5>1, <1>0 DEF CheckerTypeOK
        <5>2. CASE r \in rows
          BY <1>0, <3>1, <3>6, <3>9, <5>2 DEF IdsUsed, CheckerTypeOK
        <5>3. QED
          BY <2>4, <5>1, <5>2 DEF row
      <4>4. QED
        BY <2>4, <4>1, <4>2, <4>3
    <3>11. RowsSpaced'
      BY <1>0, <3>9, Zenon DEF RowsSpaced, Gap
    <3>10. QED
      BY <3>2, <3>3, <3>5, <3>7, <3>11 DEF Spacing
  <2>5. QED
    BY <1>9, <2>3, <2>4 DEF SyncDb
<1>10. CASE UNCHANGED vars
  <2>1. CheckerTypeOK'
    BY <1>0, <1>10 DEF vars, CheckerTypeOK
  <2>2. QED
    BY <1>10, <2>1, SpacingFrame DEF vars
<1>11. QED
  BY <1>1, <1>2, <1>3, <1>4, <1>5, <1>6, <1>7, <1>8, <1>9, <1>10 DEF Next

\* Type correctness of the checker pool, the cache and the database.
THEOREM CheckerTypeCorrect == Spec => []CheckerTypeOK
<1>1. Spacing => CheckerTypeOK
  BY DEF Spacing
<1>2. QED
  BY <1>1, SpacingInit, SpacingStep, PTL DEF Spec

\* Two rows of a device are never closer than its timeout, for any number of
\* workers, however the shared tm buffer tears the times and whenever the
\* white list comes, as long as the SELECT of in_db was answered.
THEOREM RowsKeepTheirDistance == Spec => []RowsSpaced
<1>1. Spacing => RowsSpaced
  BY DEF Spacing
<1>2. QED
  BY <1>1, SpacingInit, SpacingStep, PTL DEF Spec
-----------------------------------------------------------------------------
(***************************************************************************)
(* RowTimeIsHeard.  A sighting keeps the time it was heard until its own   *)
(* round step, and that step is taken once: the invariant follows the two  *)
(* times of a datum from the queue to the row.                             *)
(***************************************************************************)
Fresh(m) == m.at = m.heard
Rounded(m) == ~m.torn => m.heard <= m.at /\ m.at <= m.heard + 5 /\ m.at % 5 = 0

WorkerTimes(w) == /\ pc[w] = "round" => Fresh(datum[w])
                  /\ pc[w] \in {"in_cache", "in_db", "sync_db"} => Rounded(datum[w])

Timing == /\ \A i \in 1..Len(queue) : Fresh(queue[i])
          /\ \A w \in Workers : WorkerTimes(w)
          /\ \A r \in rows : Rounded(r)

LEMMA TimingInit == Init => Timing
  BY DEF Init, Timing, WorkerTimes

\* A step of one worker that leaves the queue and the database alone.
LEMMA TimingMove ==
  ASSUME Timing, NEW w \in Workers, UNCHANGED <<queue, rows>>, WorkerTimes(w)',
         \A v \in Workers \ {w} : pc'[v] = pc[v] /\ datum'[v] = datum[v]
  PROVE  Timing'
<1>1. \A v \in Workers : WorkerTimes(v)'
  BY DEF Timing, WorkerTimes
<1>2. QED
  BY <1>1 DEF Timing

LEMMA TimingStep == Spacing /\ Timing /\ [Next]_vars => Timing'
<1> SUFFICES ASSUME Spacing, Timing, [Next]_vars
             PROVE  Timing'
  OBVIOUS
<1>0. CheckerTypeOK /\ MutexHeld
  BY DEF Spacing
<1> USE DEF cacheVars, workerVars, dbVars
<1>1. ASSUME UNCHANGED <<queue, workerVars, dbVars>>
      PROVE  Timing'
  BY <1>1 DEF Timing, WorkerTimes
<1>2. CASE Tick \/ LoadWhiteList \/ ReplaceWhiteList \/ UNCHANGED vars
  BY <1>1, <1>2 DEF Tick, LoadWhiteList, ReplaceWhiteList, vars
<1>3. CASE Restart
  BY <1>3 DEF Restart, Timing, WorkerTimes
<1>4. ASSUME NEW d \in Devices, Hear(d)
      PROVE  Timing'
  <2> DEFINE m == [dev |-> d, heard |-> now, at |-> now, torn |-> FALSE, blind |-> FALSE]
  <2>1. queue \in Seq(Datum) /\ m \in Datum
    BY <1>0 DEF CheckerTypeOK, Datum
  <2>2. queue' = Append(queue, m) /\ UNCHANGED <<workerVars, rows>>
    BY <1>4 DEF Hear
  <2>3. Fresh(m)
    BY DEF Fresh
  <2>4. \A i \in 1..Len(queue') : Fresh(queue'[i])
    <3> HIDE DEF m
    <3> QED
      BY <2>1, <2>2, <2>3, AppendProperties DEF Timing
  <2>5. QED
    BY <2>2, <2>4 DEF Timing, WorkerTimes, Fresh
<1>5. ASSUME NEW w \in Workers, Take(w)
      PROVE  Timing'
  <2>1. queue \in Seq(Datum) /\ queue # <<>>
    BY <1>0, <1>5 DEF CheckerTypeOK, Take
  <2>2. /\ Head(queue) = queue[1] /\ 1 \in 1..Len(queue)
        /\ Len(Tail(queue)) = Len(queue) - 1
        /\ \A i \in 1..Len(Tail(queue)) : Tail(queue)[i] = queue[i + 1] /\ i + 1 \in 1..Len(queue)
    BY <2>1, HeadTailProperties, LenProperties, EmptySeq
  <2>3. \A i \in 1..Len(queue') : Fresh(queue'[i])
    BY <1>5, <2>2 DEF Take, Timing
  <2>4. \A v \in Workers : WorkerTimes(v)'
    BY <1>0, <1>5, <2>2 DEF Take, Timing, WorkerTimes, CheckerTypeOK
  <2>5. QED
    BY <1>5, <2>3, <2>4 DEF Take, Timing
<1>6. ASSUME NEW w \in Workers, Round(w)
      PROVE  Timing'
  <2>1. datum[w] \in Datum /\ datum[w].at = datum[w].heard /\ datum[w].at \in Nat
    BY <1>0, <1>6 DEF Round, MutexHeld, Datum, Timing, WorkerTimes, Fresh
  <2>2. datum \in [Workers -> Datum \cup {NoJob}] /\ pc'[w] = "in_cache"
    BY <1>0, <1>6 DEF Round, CheckerTypeOK
  <2>3. Rounded(datum'[w])
    <3>1. CASE datum' = [datum EXCEPT ![w].at = ToNextTime(@)]
      <4>1. /\ datum'[w].heard = datum[w].heard
            /\ datum'[w].at = ToNextTime(datum[w].at)
        BY <2>1, <2>2, <3>1 DEF Datum
      <4>2. QED
        BY <2>1, <4>1, ToNextTimeBounds DEF Rounded
    <3>2. CASE \E t \in Torn(datum[w].at) :
                 datum' = [datum EXCEPT ![w] = [@ EXCEPT !.at = t, !.torn = TRUE]]
      <4>1. datum'[w].torn
        BY <2>1, <2>2, <3>2 DEF Datum
      <4>2. QED
        BY <4>1 DEF Rounded
    <3>3. QED
      BY <1>6, <3>1, <3>2 DEF Round
  <2>4. \A v \in Workers \ {w} : pc'[v] = pc[v] /\ datum'[v] = datum[v]
    BY <1>0, <1>6 DEF Round, CheckerTypeOK
  <2>5. QED
    BY <1>6, <2>2, <2>3, <2>4, TimingMove DEF Round, WorkerTimes
<1>7. ASSUME NEW w \in Workers, InCache(w)
      PROVE  Timing'
  <2>1. Rounded(datum[w])
    BY <1>7 DEF InCache, Timing, WorkerTimes
  <2>2. \A v \in Workers \ {w} : pc'[v] = pc[v] /\ datum'[v] = datum[v]
    BY <1>0, <1>7 DEF InCache, Done, Goto, CheckerTypeOK
  <2>3. WorkerTimes(w)'
    BY <1>0, <1>7, <2>1 DEF InCache, Done, Goto, WorkerTimes, CheckerTypeOK, Rounded
  <2>4. QED
    BY <1>7, <2>2, <2>3, TimingMove DEF InCache
<1>8. ASSUME NEW w \in Workers, InDb(w)
      PROVE  Timing'
  <2>1. Rounded(datum[w]) /\ datum[w] \in Datum
    BY <1>0, <1>8 DEF InDb, Timing, WorkerTimes, MutexHeld
  <2>2. \A v \in Workers \ {w} : pc'[v] = pc[v] /\ datum'[v] = datum[v]
    BY <1>0, <1>8 DEF InDb, Done, Goto, CheckerTypeOK
  <2>3. WorkerTimes(w)'
    <3>1. CASE Done(w)
      BY <1>0, <3>1 DEF Done, WorkerTimes, CheckerTypeOK
    <3>2. CASE Goto(w, "sync_db") /\ UNCHANGED datum
      BY <1>0, <2>1, <3>2 DEF Goto, WorkerTimes, CheckerTypeOK, Rounded
    <3>3. CASE Goto(w, "sync_db") /\ datum' = [datum EXCEPT ![w].blind = TRUE]
      <4>1. /\ pc'[w] = "sync_db"
            /\ datum'[w].torn = datum[w].torn
            /\ datum'[w].heard = datum[w].heard
            /\ datum'[w].at = datum[w].at
        BY <1>0, <2>1, <3>3 DEF Goto, CheckerTypeOK, Datum
      <4>2. QED
        BY <2>1, <4>1 DEF WorkerTimes, Rounded
    <3>4. QED
      BY <1>8, <3>1, <3>2, <3>3 DEF InDb
  <2>4. QED
    BY <1>8, <2>2, <2>3, TimingMove DEF InDb
<1>9. ASSUME NEW w \in Workers, SyncDb(w)
      PROVE  Timing'
  <2>1. Rounded(datum[w])
    BY <1>9 DEF SyncDb, Timing, WorkerTimes
  <2>2. \A v \in Workers : WorkerTimes(v)'
    BY <1>0, <1>9 DEF SyncDb, Done, Timing, WorkerTimes, CheckerTypeOK
  <2>3. \A r \in rows' : Rounded(r)
    BY <1>9, <2>1 DEF SyncDb, RowOf, Rounded, Timing
  <2>4. QED
    BY <1>9, <2>2, <2>3 DEF SyncDb, Timing
<1>10. QED
  BY <1>2, <1>3, <1>4, <1>5, <1>6, <1>7, <1>8, <1>9 DEF Next

\* A row carries the time of its sighting, rounded up once by at most five
\* seconds, for any number of workers, unless localtime's shared buffer was
\* overwritten meanwhile.
THEOREM RowsTellTheTime == Spec => []RowTimeIsHeard
<1>1. Timing => RowTimeIsHeard
  BY DEF Timing, Rounded, RowTimeIsHeard
<1>2. QED
  BY <1>1, SpacingInit, SpacingStep, TimingInit, TimingStep, PTL DEF Spec
=============================================================================
