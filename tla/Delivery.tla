------------------------------ MODULE Delivery ------------------------------
(***************************************************************************)
(* From the local database to the server and back: Checker::run's last two *)
(* steps (sync_db, push to sender), the sender and updater pools of        *)
(* src/src/core.cpp, the SQLite tables ap and apstation, and what a crash  *)
(* and restart of the process does to them.                                *)
(*                                                                         *)
(* A "sighting" is one formatted line that passed the checker.  Which      *)
(* lines pass is the checker's business; here any sighting may.  The       *)
(* checker pool runs one job at a time (module ThreadPool), so at most one *)
(* sighting is between sync_db and the sender's queue.                     *)
(***************************************************************************)
EXTENDS Naturals, Sequences, Functions

CONSTANTS
    ApSightings, StationSightings, \* the sightings of each kind
    Senders,     \* the sender pool's workers (config.num_sender)
    BatchSize,   \* most data a sender takes at once (config.num_send_msg)
    UpdateBatch, \* the same for the one updater worker (100 in the code)
    MaxCrashes,  \* bound: how many times the process may crash
    SilentClose, \* may the server close a connection without a reply?
    DbBusy       \* may SQLite answer SQLITE_BUSY? (btl writes to the same
                 \* file, and neither program sets a busy timeout)

ASSUME DeliveryAssumption ==
    /\ ApSightings \cap StationSightings = {}
    /\ BatchSize \in Nat \ {0}
    /\ UpdateBatch \in Nat \ {0}
    /\ MaxCrashes \in Nat
    /\ SilentClose \in BOOLEAN
    /\ DbBusy \in BOOLEAN

Kinds == {"ap", "apstation"}
Sightings == ApSightings \cup StationSightings
KindOf(s) == IF s \in ApSightings THEN "ap" ELSE "apstation"

\* An AirodumpData object, and equally the database row it came from or was
\* written to: id is the row id in the table of its kind.
Data == [kind : Kinds, id : Nat, sighting : Sightings]
-----------------------------------------------------------------------------
VARIABLES
    \* On disk.
    rows,      \* the rows of both tables
    uploaded,  \* the rows with is_uploaded = 1
    nextId,    \* AUTOINCREMENT: the next id of each table, never reused
    \* The process: lost in a crash.
    phase,     \* "down"; the table init_updater is reading; or "run"
    cursor,    \* the last id that the SELECT in progress has returned
    lastRowid, \* sqlite3_last_insert_rowid of the connection
    hand,      \* what the checker has synced and not pushed (at most one)
    sendQ,     \* the sender pool's queue
    batch,     \* per sender worker: the rest of its vector
    pc,        \* per sender worker: "idle", the kind to post next, "route"
    ok,        \* per sender worker and kind: ap_success, apstation_success
    updQ,      \* the updater pool's queue
    updBatch,  \* the rest of the updater worker's vector
    \* History.
    passed,    \* the sightings that the checker has let through
    accepts,   \* how many times the server accepted each sighting
    dropped,   \* rows a sender gave up on since the last start
    unmarked,  \* rows whose UPDATE failed since the last start
    crashes

disk == <<rows, uploaded, nextId>>
startup == <<phase, cursor>>
checkerVars == <<lastRowid, hand, passed>>
senderVars == <<batch, pc, ok>>
updaterVars == <<updQ, updBatch>>
history == <<accepts, dropped, unmarked, crashes>>
vars == <<disk, startup, checkerVars, sendQ, senderVars, updaterVars, history>>

DeliveryTypeOK ==
    /\ rows \subseteq Data
    /\ uploaded \subseteq rows
    /\ nextId \in [Kinds -> Nat \ {0}]
    /\ phase \in {"down", "run"} \cup Kinds
    /\ cursor \in Nat
    /\ lastRowid \in Nat
    /\ hand \in Seq(Data)
    /\ sendQ \in Seq(Data)
    /\ batch \in [Senders -> Seq(Data)]
    /\ pc \in [Senders -> {"idle", "route"} \cup Kinds]
    /\ ok \in [Senders -> [Kinds -> BOOLEAN]]
    /\ updQ \in Seq(Data)
    /\ updBatch \in Seq(Data)
    /\ passed \subseteq Sightings
    /\ accepts \in [Sightings -> Nat]
    /\ dropped \subseteq Data
    /\ unmarked \subseteq Data
    /\ crashes \in 0..MaxCrashes

NoFlags == [k \in Kinds |-> FALSE]

Init ==
    /\ rows = {} /\ uploaded = {}
    /\ nextId = [k \in Kinds |-> 1]
    /\ phase = "down" /\ cursor = 0 /\ lastRowid = 0
    /\ hand = <<>> /\ sendQ = <<>>
    /\ batch = [s \in Senders |-> <<>>]
    /\ pc = [s \in Senders |-> "idle"]
    /\ ok = [s \in Senders |-> NoFlags]
    /\ updQ = <<>> /\ updBatch = <<>>
    /\ passed = {}
    /\ accepts = [x \in Sightings |-> 0]
    /\ dropped = {} /\ unmarked = {} /\ crashes = 0
-----------------------------------------------------------------------------
(***************************************************************************)
(* Start-up: check_init_sql, then init_sender and init_updater.            *)
(***************************************************************************)

\* Mutant of Boot: DELETE without its WHERE clause.
BootDeletesAll ==
    /\ phase = "down"
    /\ rows' = {} /\ uploaded' = {}
    /\ phase' = "ap"
    /\ UNCHANGED <<nextId, cursor, checkerVars, sendQ, senderVars, updaterVars, history>>

\* The process starts: the connection opens, the rows already uploaded are
\* deleted (no result is looked at, so SQLITE_BUSY skips the deletion), the
\* two pools come up and init_updater begins to read the table ap.
Boot ==
    /\ phase = "down"
    /\ \/ rows' = rows \ uploaded /\ uploaded' = {}
       \/ DbBusy /\ UNCHANGED <<rows, uploaded>>
    /\ phase' = "ap"
    /\ UNCHANGED <<nextId, cursor, checkerVars, sendQ, senderVars, updaterVars, history>>

Unread(k) == {r \in rows \ uploaded : r.kind = k /\ r.id > cursor}

\* One row of SELECT ... WHERE is_uploaded = 0 goes to the sender, whose
\* workers are already running.
LoadRow(k) ==
    /\ phase = k
    /\ \E r \in Unread(k) :
        /\ \A q \in Unread(k) : r.id <= q.id
        /\ sendQ' = Append(sendQ, r)
        /\ cursor' = r.id
    /\ UNCHANGED <<disk, phase, checkerVars, senderVars, updaterVars, history>>

\* Mutant of LoadDone: the stations' table is forgotten at start-up.
LoadApsOnly(k) ==
    /\ phase = k
    /\ Unread(k) = {}
    /\ phase' = "run"
    /\ cursor' = 0
    /\ UNCHANGED <<disk, checkerVars, sendQ, senderVars, updaterVars, history>>

\* SQLITE_DONE: on to the table apstation, and then to airodump-ng.
LoadDone(k) ==
    /\ phase = k
    /\ Unread(k) = {}
    /\ phase' = IF k = "ap" THEN "apstation" ELSE "run"
    /\ cursor' = 0
    /\ UNCHANGED <<disk, checkerVars, sendQ, senderVars, updaterVars, history>>
-----------------------------------------------------------------------------
(***************************************************************************)
(* The checker: sync_db and the push that follows it.                      *)
(***************************************************************************)

\* Mutant of SyncDb: the row would be written some time after the push.
SyncDbLater(x) ==
    /\ phase = "run"
    /\ hand = <<>>
    /\ x \notin passed
    /\ hand' = <<[kind |-> KindOf(x), id |-> nextId[KindOf(x)], sighting |-> x]>>
    /\ nextId' = [nextId EXCEPT ![KindOf(x)] = @ + 1]
    /\ passed' = passed \cup {x}
    /\ UNCHANGED <<rows, uploaded, lastRowid, startup, sendQ, senderVars, updaterVars, history>>

\* sync_db: INSERT and sqlite3_last_insert_rowid under db.lock().
SyncDb(x) ==
    /\ phase = "run"
    /\ hand = <<>>
    /\ x \notin passed
    /\ LET k == KindOf(x)
           row == [kind |-> k, id |-> nextId[k], sighting |-> x]
       IN /\ rows' = rows \cup {row}
          /\ nextId' = [nextId EXCEPT ![k] = @ + 1]
          /\ lastRowid' = row.id
          /\ hand' = <<row>>
    /\ passed' = passed \cup {x}
    /\ UNCHANGED <<uploaded, startup, sendQ, senderVars, updaterVars, history>>

\* sync_db when the INSERT fails: sqlite3_exec's result is dropped, and the
\* id is that of the last row this connection did insert, in either table.
SyncDbBusy(x) ==
    /\ DbBusy
    /\ phase = "run"
    /\ hand = <<>>
    /\ x \notin passed
    /\ hand' = <<[kind |-> KindOf(x), id |-> lastRowid, sighting |-> x]>>
    /\ passed' = passed \cup {x}
    /\ UNCHANGED <<disk, startup, lastRowid, sendQ, senderVars, updaterVars, history>>

\* sender->push(std::move(this->ptr)).
PushToSender ==
    /\ hand # <<>>
    /\ sendQ' = Append(sendQ, Head(hand))
    /\ hand' = <<>>
    /\ UNCHANGED <<disk, startup, lastRowid, passed, senderVars, updaterVars, history>>
-----------------------------------------------------------------------------
(***************************************************************************)
(* The sender pool.  An AutoPool worker takes a batch under the pool's     *)
(* mutex and handles it without; its sleeps are delays, which interleaving *)
(* allows anyway.                                                          *)
(***************************************************************************)
Smaller(m, n) == IF m < n THEN m ELSE n

\* Mutant of TakeBatch: the last datum taken stays in the queue.
TakeBatchKeepOne(s) ==
    /\ phase # "down"
    /\ pc[s] = "idle"
    /\ sendQ # <<>>
    /\ LET n == Smaller(BatchSize, Len(sendQ)) IN
        /\ batch' = [batch EXCEPT ![s] = SubSeq(sendQ, 1, n)]
        /\ sendQ' = SubSeq(sendQ, n, Len(sendQ))
    /\ pc' = [pc EXCEPT ![s] = "ap"]
    /\ ok' = [ok EXCEPT ![s] = NoFlags]
    /\ UNCHANGED <<disk, startup, checkerVars, updaterVars, history>>

TakeBatch(s) ==
    /\ phase # "down"
    /\ pc[s] = "idle"
    /\ sendQ # <<>>
    /\ LET n == Smaller(BatchSize, Len(sendQ)) IN
        /\ batch' = [batch EXCEPT ![s] = SubSeq(sendQ, 1, n)]
        /\ sendQ' = SubSeq(sendQ, n + 1, Len(sendQ))
    /\ pc' = [pc EXCEPT ![s] = "ap"]
    /\ ok' = [ok EXCEPT ![s] = NoFlags]
    /\ UNCHANGED <<disk, startup, checkerVars, updaterVars, history>>

Group(s, k) == {m \in Range(batch[s]) : m.kind = k}
AfterPost(k) == IF k = "ap" THEN "apstation" ELSE "route"

\* How a POST can end.  "silent" is a connection that yields no byte of a
\* reply, or a refusal cut before its last digit (module Message, RefusalsSeen);
\* whether the server kept the data is then unknown.
Outcomes == {"accepted", "refused", "unreachable"}
              \cup IF SilentClose THEN {"silent_kept", "silent_lost"} ELSE {}
ServerKeeps(o) == o \in {"accepted", "silent_kept"}

\* Response's status code: what the reply says, 600 when no connection or
\* write succeeds, and atoi("") = 0 for an empty reply.
Status(o) == CASE o = "accepted"    -> 200
               [] o = "refused"     -> 500
               [] o = "unreachable" -> 600
               [] OTHER             -> 0

NoPost(s, k) ==
    /\ pc[s] = k
    /\ Group(s, k) = {}
    /\ pc' = [pc EXCEPT ![s] = AfterPost(k)]
    /\ UNCHANGED <<disk, startup, checkerVars, sendQ, batch, ok, updaterVars, history>>

\* The data of one kind are posted in one request and share its outcome.
Post(s, k, o) ==
    /\ pc[s] = k
    /\ Group(s, k) # {}
    /\ ok' = [ok EXCEPT ![s][k] = Status(o) < 400]
    /\ accepts' = [x \in Sightings |->
                     IF ServerKeeps(o) /\ \E m \in Group(s, k) : m.sighting = x
                     THEN accepts[x] + 1 ELSE accepts[x]]
    /\ pc' = [pc EXCEPT ![s] = AfterPost(k)]
    /\ UNCHANGED <<disk, startup, checkerVars, sendQ, batch, updaterVars,
                   dropped, unmarked, crashes>>

\* Mutants of Route: one flag for both posts, set when either succeeds; one
\* flag, set when both succeed; and stations dropped like aps.
RouteIf(s, good(_), again(_)) ==
    /\ pc[s] = "route"
    /\ batch[s] # <<>>
    /\ LET m == Head(batch[s]) IN
        /\ updQ' = IF good(m) THEN Append(updQ, m) ELSE updQ
        /\ sendQ' = IF ~good(m) /\ again(m) THEN Append(sendQ, m) ELSE sendQ
    /\ batch' = [batch EXCEPT ![s] = Tail(@)]
    /\ UNCHANGED <<disk, startup, checkerVars, pc, ok, updBatch, history>>
RouteIfEither(s) == LET good(m) == \E k \in Kinds : ok[s][k]
                        again(m) == TRUE IN RouteIf(s, good, again)
RouteIfBoth(s) == LET good(m) == \A k \in Kinds : ok[s][k]
                      again(m) == TRUE IN RouteIf(s, good, again)
RouteNoRepush(s) == LET good(m) == ok[s][m.kind]
                        again(m) == FALSE IN RouteIf(s, good, again)

\* The loop over the vector after the posts, one datum at a time: on success
\* to the updater; a station whose post failed back to the sender; an ap
\* whose post failed nowhere, and the vector's destructor frees it.
Route(s) ==
    /\ pc[s] = "route"
    /\ batch[s] # <<>>
    /\ LET m == Head(batch[s]) IN
        \/ /\ ok[s][m.kind]
           /\ updQ' = Append(updQ, m)
           /\ UNCHANGED <<sendQ, dropped>>
        \/ /\ ~ok[s][m.kind] /\ m.kind = "apstation"
           /\ sendQ' = Append(sendQ, m)
           /\ UNCHANGED <<updQ, dropped>>
        \/ /\ ~ok[s][m.kind] /\ m.kind = "ap"
           /\ dropped' = dropped \cup {m}
           /\ UNCHANGED <<updQ, sendQ>>
    /\ batch' = [batch EXCEPT ![s] = Tail(@)]
    /\ UNCHANGED <<disk, startup, checkerVars, pc, ok, updBatch,
                   accepts, unmarked, crashes>>

\* The function returns and its flags are gone; the worker sleeps and asks
\* for the next batch.
BatchDone(s) ==
    /\ pc[s] = "route"
    /\ batch[s] = <<>>
    /\ pc' = [pc EXCEPT ![s] = "idle"]
    /\ ok' = [ok EXCEPT ![s] = NoFlags]
    /\ UNCHANGED <<disk, startup, checkerVars, sendQ, batch, updaterVars, history>>
-----------------------------------------------------------------------------
(***************************************************************************)
(* The updater pool: one worker.                                           *)
(***************************************************************************)
TakeUpdates ==
    /\ updBatch = <<>>
    /\ updQ # <<>>
    /\ LET n == Smaller(UpdateBatch, Len(updQ)) IN
        /\ updBatch' = SubSeq(updQ, 1, n)
        /\ updQ' = SubSeq(updQ, n + 1, Len(updQ))
    /\ UNCHANGED <<disk, startup, checkerVars, sendQ, senderVars, history>>

\* Mutants of RowsOf: the updater writes the row back (INSERT OR REPLACE); and
\* it marks the id in both tables.
RowWritten(m) == {m}
RowsOfId(m) == {r \in rows : r.id = m.id}

\* The rows that UPDATE <table> SET is_uploaded = 1 WHERE id = ? names.
RowsOf(m) == {r \in rows : r.kind = m.kind /\ r.id = m.id}

\* One UPDATE; one that fails is logged and forgotten.
UpdateOne ==
    /\ updBatch # <<>>
    /\ LET m == Head(updBatch) IN
        \/ uploaded' = uploaded \cup RowsOf(m) /\ UNCHANGED unmarked
        \/ DbBusy /\ unmarked' = unmarked \cup {m} /\ UNCHANGED uploaded
    /\ updBatch' = Tail(updBatch)
    /\ UNCHANGED <<rows, nextId, startup, checkerVars, sendQ, senderVars, updQ,
                   accepts, dropped, crashes>>
-----------------------------------------------------------------------------
\* The process dies (an uncaught exception, a signal, abort() when
\* airodump-ng exits) and systemd will start it again: what was in memory is
\* gone, what was in the database is not.
Crash ==
    /\ phase # "down"
    /\ crashes < MaxCrashes
    /\ crashes' = crashes + 1
    /\ phase' = "down" /\ cursor' = 0 /\ lastRowid' = 0
    /\ hand' = <<>> /\ sendQ' = <<>>
    /\ batch' = [s \in Senders |-> <<>>]
    /\ pc' = [s \in Senders |-> "idle"]
    /\ ok' = [s \in Senders |-> NoFlags]
    /\ updQ' = <<>> /\ updBatch' = <<>>
    /\ dropped' = {} /\ unmarked' = {}
    /\ UNCHANGED <<disk, passed, accepts>>

CheckerStep == \/ \E x \in Sightings : SyncDb(x) \/ SyncDbBusy(x)
               \/ PushToSender
SenderStep(s) == \/ TakeBatch(s)
                 \/ \E k \in Kinds : NoPost(s, k) \/ \E o \in Outcomes : Post(s, k, o)
                 \/ Route(s)
                 \/ BatchDone(s)
UpdaterStep == TakeUpdates \/ UpdateOne
StartStep == Boot \/ \E k \in Kinds : LoadRow(k) \/ LoadDone(k)

Next == StartStep \/ CheckerStep \/ (\E s \in Senders : SenderStep(s)) \/ UpdaterStep \/ Crash

\* systemd restarts the process and its threads keep running.  No request
\* waits for ever, and a server that stations are posted to again and again
\* accepts one of the posts at last.  No sighting is owed, and no crash.
Fairness ==
    /\ WF_vars(StartStep)
    /\ WF_vars(PushToSender)
    /\ WF_vars(UpdaterStep)
    /\ \A s \in Senders : /\ WF_vars(SenderStep(s))
                          /\ SF_vars(Post(s, "apstation", "accepted"))

Spec == Init /\ [][Next]_vars
FairSpec == Spec /\ Fairness
-----------------------------------------------------------------------------
(***************************************************************************)
(* Properties.                                                             *)
(***************************************************************************)
\* The data some part of the running process holds.
InBatches == UNION {Range(batch[s]) : s \in Senders}
Carried == Range(hand) \cup Range(sendQ) \cup InBatches
             \cup Range(updQ) \cup Range(updBatch)

\* Pending rows that a start-up has still to read.
ToLoad == {r \in rows \ uploaded :
             \/ phase = "down"
             \/ phase = r.kind /\ r.id > cursor
             \/ phase = "ap" /\ r.kind = "apstation"}

Pending == rows \ uploaded

\* No row that is waiting for its upload is forgotten: something in the
\* process holds it, or the start-up is about to read it, unless a sender
\* dropped it (aps only) or its UPDATE failed after the server had it.
PendingIsAccountedFor == Pending \subseteq Carried \cup ToLoad \cup dropped \cup unmarked

\* What README.md:19 promises of every datum ("Otherwise, push back into
\* send queue"): as long as the process runs, a row waiting for its upload is
\* held by some pool.
PendingIsCarried == phase = "run" => Pending \subseteq Carried

\* A row is only marked as uploaded, and so deleted at the next start, when
\* the server has taken its sighting (README.md:19, "If this action
\* succeeds, sender will push all the data to updater").
MarkedWasAccepted == \A r \in uploaded : accepts[r.sighting] > 0

\* The sequences that hold data, by a name for each.
Places == {<<"hand">>, <<"sendQ">>, <<"updQ">>, <<"updBatch">>}
            \cup {<<"batch", s>> : s \in Senders}
Held(p) == CASE p[1] = "hand"     -> hand
             [] p[1] = "sendQ"    -> sendQ
             [] p[1] = "updQ"     -> updQ
             [] p[1] = "updBatch" -> updBatch
             [] OTHER             -> batch[p[2]]

\* No row is in two places of the process, or twice in one queue, so no
\* datum is uploaded by two senders at once.
NeverCarriedTwice ==
    \A p, q \in Places : \A i \in DOMAIN Held(p), j \in DOMAIN Held(q) :
        Held(p)[i] = Held(q)[j] => p = q /\ i = j

\* The server sees a sighting again only because the process restarted.
OncePerStart == \A x \in Sightings : accepts[x] <= 1 + crashes

\* What the checker hands to the sender has been stored (checker.cpp:43,
\* "persisted, hand it to the sender"; README.md:17).
CarriedIsStored == Carried \subseteq rows

\* The database forgets a row only after the server has taken its sighting.
OnlyAcceptedIsDeleted ==
    [][\A r \in rows : r \notin rows' => accepts[r.sighting] > 0]_vars

\* Every station row is uploaded in the end, through failed posts, crashes
\* and restarts.
StationIsUploaded ==
    \A x \in StationSightings :
        (\E r \in Pending : r.sighting = x) ~> (\A r \in Pending : r.sighting # x)

\* As long as the database refuses nothing and no connection closes without a
\* reply, the tables and the server are an outbox, with nothing doubtful:
\* crashes, partial failures and uploads that overlap do not show.
Box == INSTANCE Outbox WITH Items <- Sightings, doubtful <- {},
         stored <- {r.sighting : r \in rows}, marked <- {r.sighting : r \in uploaded},
         accepted <- {x \in Sightings : accepts[x] > 0}
ImplementsOutbox == Box!Spec
=============================================================================
