------------------------------ MODULE Checker ------------------------------
(***************************************************************************)
(* Checker::run (src/src/checker.cpp): which of the devices heard get a    *)
(* row.  The checker pool's workers, its queue, the cache, the rows that   *)
(* in_db reads, the white list and restarts.                               *)
(*                                                                         *)
(* The cache is the abstract one of module Recency, which module Cache     *)
(* implements.  A device stands for an ap's bssid or a station's mac; the  *)
(* two kinds differ in their timeout only.                                 *)
(***************************************************************************)
EXTENDS Integers, Sequences

CONSTANTS
    Devices,
    Timeout,      \* per device: ap_cache_timeout or apstation_cache_timeout
    WhiteTimeout, \* 5 in Cache's constructor and in in_db alike
    WhiteListed,  \* the white list the server will send
    Workers,      \* the checker pool's workers (num_checker)
    NoOne,
    Seconds,      \* bound: the seconds at which something happens
    MaxQueue,     \* bound: lines waiting in the checker pool
    MaxFaults     \* bound: restarts, torn times and busy databases, together

ASSUME CheckerAssumption ==
    /\ WhiteTimeout \in Nat
    /\ Timeout \in [Devices -> Nat]
    /\ \A d \in Devices : WhiteTimeout <= Timeout[d]
    /\ WhiteListed \subseteq Devices
    /\ NoOne \notin Workers
    /\ Seconds \subseteq Nat
    /\ MaxQueue \in Nat /\ MaxFaults \in Nat

VARIABLES
    now, white, last, reply, \* the clock, the white list and the cache
    queue,    \* the checker pool's queue
    holder,   \* the worker inside the pool's mutex, or NoOne
    pc,       \* per worker: where in Checker::run it is
    datum,    \* per worker: the job's data; the job dies with the loop body
    rows,     \* the database
    nextId,
    faults    \* how often something has gone wrong

cacheVars == <<now, white, last, reply>>
workerVars == <<holder, pc, datum>>
dbVars == <<rows, nextId>>
vars == <<cacheVars, queue, workerVars, dbVars, faults>>

CacheOf == INSTANCE Recency WITH Data <- Devices, Exposed <- {}

\* A sighting.  heard is when it was formatted; at is create_time, first the
\* same and then rounded; blind says that in_db could not read the database.
Datum == [dev : Devices, heard : Nat, at : Nat, torn : BOOLEAN, blind : BOOLEAN]
NoJob == <<>>
Row == [id : Nat, dev : Devices, heard : Nat, at : Nat, torn : BOOLEAN, blind : BOOLEAN]

CheckerTypeOK ==
    /\ now \in Nat
    /\ white \in {{}, WhiteListed}
    /\ last \in [Devices -> Int]
    /\ reply \in [data : Devices, inserted : BOOLEAN]
    /\ queue \in Seq(Datum)
    /\ holder \in Workers \cup {NoOne}
    /\ pc \in [Workers -> {"idle", "round", "in_cache", "in_db", "sync_db"}]
    /\ datum \in [Workers -> Datum \cup {NoJob}]
    /\ rows \subseteq Row
    /\ nextId \in Nat
    /\ faults \in 0..MaxFaults

Init ==
    /\ CacheOf!Init
    /\ queue = <<>>
    /\ holder = NoOne
    /\ pc = [w \in Workers |-> "idle"]
    /\ datum = [w \in Workers |-> NoJob]
    /\ rows = {} /\ nextId = 1
    /\ faults = 0
-----------------------------------------------------------------------------
Fault == faults < MaxFaults /\ faults' = faults + 1

(***************************************************************************)
(* Time, and what the rest of the program does meanwhile.                  *)
(***************************************************************************)
Tick == CacheOf!Tick /\ UNCHANGED <<queue, workerVars, dbVars, faults>>
\* Mutant of LoadWhiteList: what the server sends is not looked at, and every
\* device counts as white-listed.
LoadEverything ==
    /\ white' = Devices
    /\ UNCHANGED <<now, last, reply, queue, workerVars, dbVars, faults>>

LoadWhiteList == CacheOf!LoadWhiteList /\ UNCHANGED <<queue, workerVars, dbVars, faults>>
ReplaceWhiteList == CacheOf!ReplaceWhiteList /\ UNCHANGED <<queue, workerVars, dbVars, faults>>

\* A line is formatted (create_time = time(NULL)) and pushed to the checker.
Hear(d) ==
    /\ Len(queue) < MaxQueue
    /\ queue' = Append(queue, [dev |-> d, heard |-> now, at |-> now,
                               torn |-> FALSE, blind |-> FALSE])
    /\ UNCHANGED <<cacheVars, workerVars, dbVars, faults>>
-----------------------------------------------------------------------------
(***************************************************************************)
(* Checker::run, under the pool's mutex.                                   *)
(***************************************************************************)

\* Mutant of Take: the mutex is not held while the job runs.
TakeUnlocked(w) ==
    /\ pc[w] = "idle"
    /\ queue # <<>>
    /\ datum' = [datum EXCEPT ![w] = Head(queue)]
    /\ queue' = Tail(queue)
    /\ pc' = [pc EXCEPT ![w] = "round"]
    /\ UNCHANGED <<cacheVars, holder, dbVars, faults>>

\* The worker takes the front job.  get_pwr below the limit ends the job at
\* once, having changed nothing; those lines are left out of Hear.
Take(w) ==
    /\ pc[w] = "idle"
    /\ holder = NoOne
    /\ queue # <<>>
    /\ holder' = w
    /\ datum' = [datum EXCEPT ![w] = Head(queue)]
    /\ queue' = Tail(queue)
    /\ pc' = [pc EXCEPT ![w] = "round"]
    /\ UNCHANGED <<cacheVars, dbVars, faults>>

\* Mutant of ToNextTime: the last seconds of a minute belong to the next one
\* a little too early.
ToNextTimeEarly(t) ==
    LET sec == t % 60
    IN  IF sec < 51
        THEN t - sec + (sec \div 10) * 10 + (IF sec % 10 <= 5 THEN 5 ELSE 10)
        ELSE t - sec + 60

\* to_next_time: up to the next second that ends in 5, or in 0.
ToNextTime(t) ==
    LET sec == t % 60
    IN  IF sec < 55
        THEN t - sec + (sec \div 10) * 10 + (IF sec % 10 <= 5 THEN 5 ELSE 10)
        ELSE t - sec + 60

\* localtime returns a buffer that all threads share, and a sender formats
\* the times of rows (and the present one) with it: between localtime and
\* mktime the broken-down time can become another one, before or after its
\* seconds are rounded, or keep the rounded seconds of the first.
Torn(t) == LET others == {r.at : r \in rows} \cup {now}
               rounded(o) == {o, ToNextTime(o), o - (o % 60) + (ToNextTime(t) % 60)}
           IN UNION {rounded(o) : o \in others}

Round(w) ==
    /\ pc[w] = "round"
    /\ \/ /\ datum' = [datum EXCEPT ![w].at = ToNextTime(@)]
          /\ UNCHANGED faults
       \/ /\ Fault
          /\ \E t \in Torn(datum[w].at) :
               datum' = [datum EXCEPT ![w] = [@ EXCEPT !.at = t, !.torn = TRUE]]
    /\ pc' = [pc EXCEPT ![w] = "in_cache"]
    /\ UNCHANGED <<cacheVars, queue, holder, dbVars>>

\* The end of the loop body: the job and the lock are destroyed.
Done(w) ==
    /\ pc' = [pc EXCEPT ![w] = "idle"]
    /\ datum' = [datum EXCEPT ![w] = NoJob]
    /\ holder' = NoOne

Goto(w, where) == pc' = [pc EXCEPT ![w] = where] /\ UNCHANGED holder

\* in_cache() returns what insert returned, TRUE for a datum that was NEW;
\* and `!in_cache() && ...` then ends the job.
InCache(w) ==
    /\ pc[w] = "in_cache"
    /\ CacheOf!Insert(datum[w].dev)
    /\ \/ reply'.inserted /\ Done(w)
       \/ ~reply'.inserted /\ Goto(w, "in_db") /\ UNCHANGED datum
    /\ UNCHANGED <<queue, dbVars, faults>>

Found(m) == \E r \in rows : r.dev = m.dev /\ r.at > m.at - CacheOf!TimeoutOf(m.dev)

\* in_db: a SELECT that fails (SQLITE_BUSY) counts as nothing found.
InDb(w) ==
    /\ pc[w] = "in_db"
    /\ \/ Found(datum[w]) /\ Done(w) /\ UNCHANGED faults
       \/ ~Found(datum[w]) /\ Goto(w, "sync_db") /\ UNCHANGED <<datum, faults>>
       \/ Fault /\ Goto(w, "sync_db") /\ datum' = [datum EXCEPT ![w].blind = TRUE]
    /\ UNCHANGED <<cacheVars, queue, dbVars>>

RowOf(m) == [id |-> nextId, dev |-> m.dev, heard |-> m.heard, at |-> m.at,
             torn |-> m.torn, blind |-> m.blind]

\* sync_db, whose INSERT may fail unnoticed, and the push to the sender
\* (module Delivery); then the job is over.
SyncDb(w) ==
    /\ pc[w] = "sync_db"
    /\ \/ rows' = rows \cup {RowOf(datum[w])} /\ nextId' = nextId + 1 /\ UNCHANGED faults
       \/ Fault /\ UNCHANGED dbVars
    /\ Done(w)
    /\ UNCHANGED <<cacheVars, queue>>

\* The process dies and is started again: memory is new, rows that were
\* uploaded are deleted, and the white list has to come again.
Restart ==
    /\ Fault
    /\ \E kept \in SUBSET rows : rows' = kept
    /\ white' = {} /\ last' = [d \in Devices |-> CacheOf!Never]
    /\ queue' = <<>> /\ holder' = NoOne
    /\ pc' = [w \in Workers |-> "idle"]
    /\ datum' = [w \in Workers |-> NoJob]
    /\ UNCHANGED <<now, reply, nextId>>

Next ==
    \/ Tick \/ LoadWhiteList \/ ReplaceWhiteList \/ Restart
    \/ \E d \in Devices : Hear(d)
    \/ \E w \in Workers : Take(w) \/ Round(w) \/ InCache(w) \/ InDb(w) \/ SyncDb(w)

Spec == Init /\ [][Next]_vars
-----------------------------------------------------------------------------
(***************************************************************************)
(* Properties.                                                             *)
(***************************************************************************)

\* The least distance between two rows of a device.
Gap(d) == IF d \in WhiteListed THEN WhiteTimeout ELSE Timeout[d]

\* A row is at least a timeout later than every older row of its device, even
\* when its time was torn, unless its check could not read the database.
RowsSpaced ==
    \A r, q \in rows :
        r.dev = q.dev /\ q.id < r.id /\ ~r.blind => r.at >= q.at + Gap(r.dev)

\* A row carries the time its device was heard, rounded up by at most five
\* seconds, unless the shared buffer tore it.
RowTimeIsHeard ==
    \A r \in rows : ~r.torn => r.heard <= r.at /\ r.at <= r.heard + 5 /\ r.at % 5 = 0

\* README.md:17, "If the data is presented neither the cache nor the
\* localstorage, checker treats it as 'passed'": the cache does not end the
\* check of a device that neither it nor the database knows.
UnknownPasses ==
    [][\A w \in Workers :
         pc[w] = "in_cache" /\ ~CacheOf!Recent(datum[w].dev) /\ ~Found(datum[w])
           => pc'[w] # "idle" \/ faults' # faults]_vars
=============================================================================
