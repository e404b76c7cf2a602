-------------------------------- MODULE Btl --------------------------------
(***************************************************************************)
(* btl (src/base/btl.cpp), the bluetooth collector: one thread that reads  *)
(* the output of bluetoothctl, asks its cache and its table blue, stores   *)
(* and pushes; and an AutoPool of one worker that posts and marks.  It     *)
(* does the work of yah's formatter, checker, sender and updater, and      *)
(* differs from them in what it does when something fails.                 *)
(*                                                                         *)
(* The cache is the one of module Cache, below its limit and without a     *)
(* white list: it behaves as module Recency says.                          *)
(***************************************************************************)
EXTENDS Integers, Sequences, FiniteSets, Functions

CONSTANTS Devices,    \* the bluetooth addresses around
          MaxTime,    \* bound: the clock runs from 0 to MaxTime
          Day,        \* 86400 seconds: the cache's timeout, and in_db's window
          BatchSize,  \* most data the worker takes at once (100)
          MaxCrashes  \* bound: how many times the process may crash

ASSUME BtlAssumption ==
    /\ MaxTime \in Nat /\ MaxCrashes \in Nat
    /\ Day \in Nat \ {0} /\ BatchSize \in Nat \ {0}

Times == 0..MaxTime
Sightings == [dev : Devices, time : Times]
Blue == [id : Nat, dev : Devices, time : Times]
SightingOf(b) == [dev |-> b.dev, time |-> b.time]

VARIABLES
    now,
    rows, uploaded, nextId, \* on disk: the table blue
    up,        \* does the process run?
    cache,     \* per device, its last insertion in the cache, or Never
    lastRowid, \* sqlite3_last_insert_rowid
    hand,      \* what the main thread is about to push
    queue,     \* the pool's queue
    pc, batch, \* the pool's worker: what it does, and the rest of its vector
    taken,     \* history: the sightings the server has
    doubtful,  \* history: the sightings about which btl may be wrong
    dropped,   \* history: given up since the last start
    missed,    \* history: devices that passed the cache only, since then
    crashes

disk == <<rows, uploaded, nextId>>
main == <<now, up, cache, lastRowid, hand>>
worker == <<pc, batch>>
history == <<taken, doubtful, dropped, missed, crashes>>
vars == <<disk, main, queue, worker, history>>

Never == -1

BtlTypeOK ==
    /\ now \in Times
    /\ rows \subseteq Blue /\ uploaded \subseteq rows /\ nextId \in Nat
    /\ up \in BOOLEAN
    /\ cache \in [Devices -> Times \cup {Never}]
    /\ lastRowid \in 0..nextId
    /\ hand \in Seq(Blue) /\ queue \in Seq(Blue) /\ batch \in Seq(Blue)
    /\ pc \in {"idle", "post", "update"}
    /\ taken \cup doubtful \subseteq Sightings
    /\ dropped \subseteq Blue
    /\ missed \subseteq Devices
    /\ crashes \in 0..MaxCrashes

NoneCached == [d \in Devices |-> Never]

Init == /\ now = 0 /\ up = FALSE /\ cache = NoneCached /\ lastRowid = 0
        /\ hand = <<>> /\ queue = <<>> /\ batch = <<>> /\ pc = "idle"
        /\ dropped = {} /\ missed = {}
        /\ rows = {} /\ uploaded = {} /\ nextId = 1
        /\ taken = {} /\ doubtful = {} /\ crashes = 0

Pending == rows \ uploaded
-----------------------------------------------------------------------------
(***************************************************************************)
(* The main thread.                                                        *)
(***************************************************************************)

\* Mutant of OldData: the rows of earlier starts are not fetched.
NoOldData == {<<>>}

\* fetch_old_data: all pending rows, in the order of their ids.
OldData == LET P == rows' \ uploaded' IN
    {s \in [1..Cardinality(P) -> P] :
        Range(s) = P /\ \A i, j \in DOMAIN s : i < j => s[i].id < s[j].id}

\* init_db, fetch_old_data, the pool; the pushes follow one by one.  yah uses
\* the same file, so the DELETE may be refused, which nobody notices.  A
\* SELECT refused here builds a string from a null pointer: no start.
Start ==
    /\ ~up
    /\ \/ rows' = rows \ uploaded /\ uploaded' = {}
       \/ UNCHANGED <<rows, uploaded>>
    /\ hand' \in OldData
    /\ up' = TRUE
    /\ UNCHANGED <<nextId, now, cache, lastRowid, queue, worker, history>>

Push ==
    /\ hand # <<>>
    /\ queue' = Append(queue, Head(hand))
    /\ hand' = Tail(hand)
    /\ UNCHANGED <<disk, now, up, cache, lastRowid, worker, history>>

Recent(d) == cache[d] # Never /\ now - cache[d] < Day

InDb(d) == \E r \in rows : r.dev = d /\ r.time > now - Day

\* A line of a device: cache->insert, which renews the device in any case.
Heard(d) ==
    /\ up /\ hand = <<>>
    /\ cache' = [cache EXCEPT ![d] = now]
    /\ UNCHANGED <<now, up, uploaded, queue, worker, taken, dropped, crashes>>

\* The cache knows the device, or the table does.
HearKnown(d) ==
    /\ Recent(d) \/ InDb(d)
    /\ Heard(d)
    /\ UNCHANGED <<rows, nextId, lastRowid, hand, doubtful, missed>>

\* Mutant of HearUnsure: as in yah, a SELECT that fails means "not stored".
StoreUnsure(d) ==
    /\ ~Recent(d)
    /\ Heard(d)
    /\ LET row == [id |-> nextId, dev |-> d, time |-> now] IN
        rows' = rows \cup {row} /\ hand' = <<row>> /\ lastRowid' = nextId
    /\ nextId' = nextId + 1
    /\ UNCHANGED <<doubtful, missed>>

\* in_db's SELECT is refused (SQLITE_BUSY) and counts as "stored".
HearUnsure(d) ==
    /\ ~Recent(d)
    /\ Heard(d)
    /\ missed' = missed \cup {d}
    /\ UNCHANGED <<rows, nextId, lastRowid, hand, doubtful>>

\* Mutant of HearNew: the datum is pushed, and sync is forgotten.
PushUnsynced(d) ==
    /\ ~Recent(d) /\ ~InDb(d)
    /\ Heard(d)
    /\ hand' = <<[id |-> nextId, dev |-> d, time |-> now]>>
    /\ UNCHANGED <<rows, nextId, lastRowid, doubtful, missed>>

\* The device is new: sync, and the row goes to the pool.
HearNew(d) ==
    /\ ~Recent(d) /\ ~InDb(d)
    /\ Heard(d)
    /\ LET row == [id |-> nextId, dev |-> d, time |-> now] IN
        rows' = rows \cup {row} /\ hand' = <<row>> /\ lastRowid' = nextId
    /\ nextId' = nextId + 1
    /\ UNCHANGED <<doubtful, missed>>

\* sync when the INSERT is refused: the datum goes to the pool with the id of
\* the row inserted before it, if there is one.
HearNewRefused(d) ==
    /\ ~Recent(d) /\ ~InDb(d)
    /\ Heard(d)
    /\ LET b == [id |-> lastRowid, dev |-> d, time |-> now] IN
        /\ hand' = <<b>>
        /\ doubtful' = doubtful \cup {SightingOf(b)}
                         \cup {SightingOf(r) : r \in {q \in rows : q.id = lastRowid}}
    /\ missed' = missed \cup {d}
    /\ UNCHANGED <<rows, nextId, lastRowid>>

Hear(d) == HearKnown(d) \/ HearUnsure(d) \/ HearNew(d) \/ HearNewRefused(d)
-----------------------------------------------------------------------------
(***************************************************************************)
(* The pool's worker.                                                      *)
(***************************************************************************)
TakeBatch ==
    /\ up /\ pc = "idle" /\ queue # <<>>
    /\ LET n == IF BatchSize < Len(queue) THEN BatchSize ELSE Len(queue) IN
        /\ batch' = SubSeq(queue, 1, n)
        /\ queue' = SubSeq(queue, n + 1, Len(queue))
    /\ pc' = "post"
    /\ UNCHANGED <<disk, main, history>>

InBatch == {SightingOf(b) : b \in Range(batch)}

Posted(next, rest) ==
    /\ pc = "post"
    /\ pc' = next /\ batch' = rest
    /\ UNCHANGED <<disk, main, queue, missed, crashes>>

PostAccepted ==
    /\ Posted("update", batch)
    /\ taken' = taken \cup InBatch
    /\ UNCHANGED <<doubtful, dropped>>

\* Mutant of PostFailed: the test of the status is missing.
PostFailedMarks ==
    /\ Posted("update", batch)
    /\ UNCHANGED <<taken, doubtful, dropped>>

\* A status of 400 or more, or 600 for no connection: the vector's destructor
\* frees the data, which wait in the table for the next start.
PostFailed ==
    /\ Posted("idle", <<>>)
    /\ dropped' = dropped \cup Range(batch)
    /\ UNCHANGED <<taken, doubtful>>

\* The connection closes without a reply: status 0, which is below 400,
\* whether or not the server took the data.
PostSilent ==
    /\ Posted("update", batch)
    /\ taken' \in {taken, taken \cup InBatch}
    /\ doubtful' = doubtful \cup InBatch
    /\ UNCHANGED dropped

\* Mutant of RowsOf: the datum is written back (INSERT OR REPLACE).
RowWritten(b) == {b}

RowsOf(b) == {r \in rows : r.id = b.id}

\* One UPDATE ... WHERE id = ?.  A refused one is not noticed.
Update ==
    /\ pc = "update"
    /\ LET b == Head(batch) IN
        \/ uploaded' = uploaded \cup RowsOf(b) /\ UNCHANGED dropped
        \/ dropped' = dropped \cup {b} /\ UNCHANGED uploaded
    /\ batch' = Tail(batch)
    /\ pc' = IF Len(batch) = 1 THEN "idle" ELSE "update"
    /\ UNCHANGED <<rows, nextId, main, queue, taken, doubtful, missed, crashes>>
-----------------------------------------------------------------------------
Tick == /\ now < MaxTime /\ now' = now + 1
        /\ UNCHANGED <<disk, up, cache, lastRowid, hand, queue, worker, history>>

\* The process ends; systemd starts it again five seconds later (RestartSec),
\* so nothing is heard in the same second before and after.
Crash ==
    /\ up /\ crashes < MaxCrashes /\ now < MaxTime
    /\ up' = FALSE /\ cache' = NoneCached /\ lastRowid' = 0
    /\ hand' = <<>> /\ queue' = <<>> /\ batch' = <<>> /\ pc' = "idle"
    /\ dropped' = {} /\ missed' = {}
    /\ now' = now + 1
    /\ crashes' = crashes + 1
    /\ UNCHANGED <<disk, taken, doubtful>>

Next ==
    \/ Start \/ Push \/ (\E d \in Devices : Hear(d))
    \/ TakeBatch \/ PostAccepted \/ PostFailed \/ PostSilent \/ Update
    \/ Tick \/ Crash

Spec == Init /\ [][Next]_vars
-----------------------------------------------------------------------------
(***************************************************************************)
(* Properties.                                                             *)
(***************************************************************************)
Carried == Range(hand) \cup Range(queue) \cup Range(batch)

\* A row that waits for its upload is held by the running process, unless a
\* failed post or a refused UPDATE has given it up until the next start.
PendingIsHeldOrDropped == up => Pending \subseteq Carried \cup dropped

\* However often the cache is lost and whatever the database refuses, the
\* table has two rows of a device only when they are a day apart
\* (btl.cpp:40, the window of in_db).
OneRowPerDay ==
    \A r, q \in rows : r.dev = q.dev /\ r # q => r.time - q.time >= Day \/ q.time - r.time >= Day

\* A device the cache has let through once has been stored, unless the
\* database refused the SELECT or the INSERT of that moment: the cache is
\* asked first, and its answer is not taken back.
CachedIsStored ==
    \A d \in Devices : cache[d] # Never => d \in missed \/ \E r \in rows : r.dev = d

\* The table and the server are an outbox; doubtful is what a refused INSERT
\* confuses and what a connection closed without a reply leaves open.
Box == INSTANCE Outbox WITH Items <- Sightings, accepted <- taken,
         stored <- {SightingOf(r) : r \in rows}, marked <- {SightingOf(r) : r \in uploaded}
ImplementsOutbox == Box!Spec
=============================================================================
