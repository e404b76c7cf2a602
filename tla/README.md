# yah in TLA+

Yah reads the lines that airodump-ng prints, decides which of the devices heard
are worth a row in a local SQLite database, and uploads the rows to a server.
This directory holds TLA+ models of that pipeline, TLC configurations that check
them on small instances, and proofs, checked by TLAPS, of what holds for every
instance. File names and line numbers refer to the repository's sources.

## The system

```
airodump-ng (pty) -> core_start -> formatter -> checker -> sender -> updater
                       reads        ThreadPool  ThreadPool  AutoPool  AutoPool
                       lines                     |  ^         |         |
                                             cache  SQLite <--+---------+
                                                       ^ old rows at start-up
```

| component | state it keeps | operations | interacts by |
| --- | --- | --- | --- |
| `ThreadPool` (`thread_pool.cpp`): formatter, checker | queue of jobs, mutex, condition variable | `push`, the worker loop | jobs are moved into the queue; `run()` is called with the mutex held |
| `AutoPool` (`thread_pool.hpp`): sender, updater | queue of data, mutex, condition variable | `push`, take a batch, handle it without the mutex, sleep | data are moved from pool to pool |
| sender (`core.cpp` 28-106) | a vector and two success flags per batch | two POSTs, one per kind, then route each datum | HTTP; pushes to updater or back to sender |
| updater and old data (`core.cpp` 108-164) | its queue | UPDATE per datum; two SELECTs at start-up | SQLite; pushes to sender |
| SQLite tables `ap`, `apstation` | rows, `is_uploaded`, the next id | INSERT, SELECT, UPDATE, DELETE at start-up | one connection for all threads; btl has the same file open |
| checker (`checker.cpp`) | the datum of the job | round the time, `in_cache`, `in_db`, `sync_db`, push | cache, SQLite, sender |
| `Cache` (`cache.hpp`) | buckets of items | `insert` | called with the checker's mutex held |
| `WhiteList` (`white_list.cpp`) | the list; a global pointer | made after the first accepted post, loads once; `has_data` | read by cache and `in_db` |
| formatter, line parser (`formatter.cpp`, `airodump.cpp`) | none | a line becomes an `Ap`, an `ApStation` or nothing | pushes to checker |
| core loop and child (`core.cpp` 168-236, `yah_pty.cpp`) | pty, child's pid | fork, read lines | pushes to formatter |
| supervision (`base/yah.cpp`, `check.cpp`, `signal.cpp`, systemd) | lock file, signal handlers | start, reload, abort when the child exits, restart | signals |
| http, json, base64 (`http.cpp`, `dict.cpp`, `encode.cpp`) | none | a batch becomes a request's body, a reply becomes a status | called by the senders and btl |
| configuration, log, gzip | values, text | pure or I/O | called by the others |
| `Validate` (`validate.cpp`) | none | asks the server once whether the device is known | reads the white list pointer |
| btl (`base/btl.cpp`) | own cache, pool and table `blue` | scan, store, post, mark | shares the database file and the classes |

What is hard here: several threads per pool around one mutex, a lock that lives
longer than it seems, data that move between four queues and a database, posts
that fail for one kind and not for the other, replies that never come, a
database that may be busy, crashes and restarts between any two steps, a clock
buffer that all threads share, and a cache whose lazy cleaning depends on which
datum walks through a bucket. What makes each component correct:

* a pool runs every job once, in order, and never loses a wake-up;
* a row waiting for its upload is never forgotten, is uploaded once per run of
  the process, and is marked and deleted only after the server took it;
* a device gets a new row only when its timeout has passed since the last one,
  and rows carry the time at which the device was heard;
* the cache answers as if it were a set of recently inserted strings.

`PROJECT.json` lists every hazard with its line and the properties that watch it.

## Modules

| module | models | composed with |
| --- | --- | --- |
| `SerialExecutor` | what a pool promises: one job at a time, in order, each once (abstract) | |
| `ThreadPool` | `yah::ThreadPool` with workers, mutex, condition variable, spurious wake-ups | implements `SerialExecutor` |
| `ThreadPoolProofs` | its theorems | extends `ThreadPool`; `PipelineProofs` instantiates it for each of its two pools |
| `Delivery` | from `sync_db` to `is_uploaded = 1`: checker's last steps, sender and updater pools, both tables, start-up, crashes | the checker pool is one sighting in `hand`, by `ThreadPool`'s `OneJobAtATime` |
| `DeliveryProofs` | its theorems | extends `Delivery` |
| `Recency` | what the cache promises: it remembers each datum for its timeout (abstract) | |
| `Sublist` | what is left of a list when only some of its places are kept, as a definition without recursion | used by `Cache` and `Pipeline` |
| `Cache` | `yah::Cache<std::string>`: buckets, walk, lazy erasing, limit, white list | implements `Recency` |
| `CacheProofs` | its theorems | extends `Cache` |
| `Checker` | `Checker::run` in a pool of several workers, with the cache, the rows, the white list and restarts | uses `Recency` as its cache |
| `CheckerProofs` | its theorems | extends `Checker` |
| `Outbox` | what both programs promise of their data: stored before sent, marked after accepted, forgotten after marked (abstract) | |
| `Btl` | btl: scan loop, cache, table `blue`, one-worker pool, refusals, crashes | implements `Outbox`, as `Delivery` does; its cache behaves as `Recency` says |
| `BtlProofs` | its theorems | extends `Btl` |
| `QueueLemmas` | what joining and leaving a queue does to the data it holds, what is left of a list when some of its places are kept, and that iterated functions exist | used by `DeliveryProofs`, `BtlProofs`, `CacheProofs` and `PipelineProofs` |
| `Supervisor` | yah's processes: checks, lock file, signals, fork and `airodump_pid`, the loop, reload, systemd | what it does to the data is `Crash` of `Delivery` and `Restart` of `Checker` |
| `SupervisorProofs` | its theorems | extends `Supervisor` |
| `LineParser` | `init_origin_line`, `get_part_end`, the `init` functions, `get_pwr`'s `substr` as operators | |
| `Pipeline` | the loop's push, the formatter pool and the checker pool | two instances of `ThreadPool`, extends `LineParser`, implements `SerialExecutor` |
| `Base64` | `base64_encode`, and a reader of its text as reference | |
| `Message` | `serialize` of strings, dicts and arrays, a request's body, the status in a reply; as reference a JSON reader, which refuses what JSON forbids in a string: control characters and unknown escapes | extends `Base64`; its `RefusalsSeen` is the reason for `Delivery`'s silent outcomes |
| `Upload` | no state of its own: the texts that come into yah and those that leave it, and under which conditions both ends understand them | extends `Pipeline` and `Message` |
| `PipelineProofs` | the theorems of `Pipeline`, of its parser, of `Base64` and of `Message` | extends `Upload` |
| `MC*` | small instances: symmetry sets and function-valued constants | |

How state and actions correspond to the code:

* **ThreadPool.** `jobs` is the queue, `holder` the mutex, `pc` and `job` the
  worker's place and its local variable. `lk` in the worker loop is destroyed at
  the end of the loop body, after `job->run()`, so `Take` keeps the mutex and
  `Finish` releases it. `Sleep` is the false predicate of `cv.wait`, `Push` the
  whole of `push` (it is one critical section).
* **Delivery.** A *sighting* is one line that passed the checker; a datum is its
  kind, row id and sighting. `rows`, `uploaded`, `nextId` are the disk and
  survive `Crash`; everything else is the process. `phase` and `cursor` are the
  start-up: deletion of uploaded rows, the two SELECTs, and only then
  airodump-ng. A sender worker walks through `idle`, the two posts (`ap`,
  `apstation`) and `route`, which handles one datum per step because the updater
  and the other senders run meanwhile. A failed `ap` post drops the datum
  (`core.cpp:84`), a failed `apstation` post pushes it back (`core.cpp:91`).
  `SyncDbBusy`, the second disjunct of `UpdateOne` and of `Boot` are statements
  that SQLite refuses; in the first the datum gets the id of the connection's
  last insertion, which is another row's, so a later UPDATE marks that row.
* **Cache.** `pool` maps a hash to its list. `InsertHit` is the walk that stops
  at the datum: it has erased the outdated items *before* it and renews the
  datum's time; `InsertMiss` is the complete walk. Both apply the timeout of the
  datum inserted to all items they pass. `cur` is compared with `Max` and never
  incremented, as in the code.
* **Checker.** One step per call of `Checker::run`, since the clock, the white
  list and the shared `tm` buffer can change between two calls even though the
  pool's mutex keeps other jobs out. `heard`, `torn` and `blind` are history: the
  unrounded time, whether the shared buffer spoiled the time, and whether the
  SELECT could not read the database. The rule of `in_cache` is the code's: the
  call returns TRUE for a device that was *new*, and then the job ends; so a
  device gets a row on its second sighting within the timeout, and every
  sighting renews the cache. Seconds of the minute are `t % 60`: time zones differ
  by whole minutes. A device stands for an ap or a station; the two classes run
  the same code with different timeouts, and the kind is `Timeout[d]`. A signal
  below the limit of `get_pwr` ends a job without a change and is left out.
* **White list** (`Recency`, `Cache`, `Checker`). `white` is what `has_data` says
  yes to. `LoadWhiteList` is the thread of a list that has received it;
  `ReplaceWhiteList` is a second sender that also found the pointer null
  (`core.cpp:96`) and puts its own, empty list in place of the first.
* **Btl.** The main thread hears a device and pushes what is new (`hand`), the
  worker takes a batch, posts it and updates row by row. `HearUnsure` is
  `in_db`'s SELECT when it is refused, which counts as stored; `HearNewRefused`
  is `sync` when the INSERT is refused: the datum carries the id of the row
  inserted before it. A failed post drops the batch until the next start.
* **Supervisor.** `proc[p]` is what a process with pid `p` knows: where it is in
  `main`, `precheck`, `core_start` or `reload`, the configuration it has read,
  its child, and the signals that are pending. `pidFile` survives its writer,
  `lock` does not. A handler is one step; one that runs while the main thread is
  in `select` (`SeenBySelect`) makes it fail with EINTR, and only then the loop
  looks at its child. `DeliverTerm` only passes the signal on to airodump-ng, and
  the process ends by the SIGCHLD that comes back. Before `airodump_pid` is
  known, `kill(0, SIGTERM)` signals yah's own group: the signal stays pending.
  A pid is used again after its end, so a reload that has read an old file can
  signal a process that has not installed its handlers.
* **LineParser.** A line is a sequence over the characters the code tells apart:
  space, newline, parenthesis, ESC, the characters of a mac (`"x"`) and all others
  (`"r"`). The last two are apart because each exception, and nothing that begins
  with a mac, has an `"r"` early on. `Format` gives the set of ways in which a job can end, since a scan that leaves
  the line may fault or stop at whatever lies there. `Strip` is the first loop of
  `init_origin_line` in two parts: the iteration that ends `heading`, and what the
  later ones append (`Kept`, a function on the places of the line).
* **Pipeline.** A job is a line's number. `Forward` is `checker->push(c)` inside
  `Formatter::run`, with the formatter pool's mutex held; `Formatted` ends the
  job. An exception in a worker, or a fault, ends the process (`Die`). As in
  `ThreadPool` each pool has a worker (`init_formatter`, `init_checker` read
  `num_formatter` and `num_checker`).
* **Message.** Texts are sequences of characters. `Body` is what `core.cpp:45-57`
  builds: the base64 of the zipped batch in a dict. What deflate yields is any
  sequence of bytes, so the two texts, before and after it, are looked at apart.
  The server's reader is not in the repository; the reference is the grammar of
  JSON. `Read` collects the strings of a text, resolves their escape sequences
  (`"BS"` is the backspace, and `\u` and four digits give a character that is not
  told apart further), and refuses the text at a character in a string that must be
  escaped (`Controls`). What stands between strings is not looked at: `serialize`
  writes fixed text there.
  `post` reads once, so `StatusOf` is asked about every beginning of a reply.
* **Upload.** `core_start` appends each character up to and with the newline
  (`core.cpp:203-206`), `init_origin_line` keeps it, it is part of the comment, and
  `serialize` writes it as it is (`dict.cpp:69-74`). `HeardArrives` puts these four
  together.

## Runs

| run | kind | what it asks | bounds |
| --- | --- | --- | --- |
| `thread_pool` | pass | no lost wake-up, no lost job, serial and in order, implements `SerialExecutor`, every job runs | 3 workers (as `yah.conf`), 4 jobs: more jobs than workers, so workers are busy, asleep and racing at once |
| `delivery` | pass | marks and deletions are earned, what is carried is stored, every station is uploaded in the end, implements `Outbox` | one sighting per kind (so a batch can be mixed), 2 senders, 2 crashes: one before and one after an upload; posts may fail |
| `delivery_faults` | pass | a pending row is held or was given up in a known way; nothing is held twice; one upload per start | 3 sightings, more than a batch; 2 senders; silent closes, busy database, one crash |
| `cache` | pass | at most one item per datum; the cache implements `Recency` | 4 data in 2 buckets, one white-listed; 8 seconds, twice the timeout; the white list comes, is replaced, and comes again |
| `checker` | pass | rows are a timeout apart and carry the right time | 2 devices, one white-listed; 2 workers; seconds 53, 55, 59, 63: both branches of the rounding and a full minute; one restart, torn time or busy database |
| `btl` | pass | one row per device and day, what the cache has let through is stored, pending rows are held or given up, implements `Outbox` | 2 devices, batches of 2, a day of 2 ticks and a clock beyond it, one crash; SELECT, INSERT, UPDATE, DELETE and posts may fail |
| `supervisor` | pass | one owner of the lock, named by the file; exits and SIGTERM are not forgotten; the service comes back, reloads arrive | 3 pids (the service and two more), 2 commands of start, reload, stop; one edit of the file, so that old and new configuration differ |
| `pipeline` | pass | two pools in a row check each line once and in order; what the parser does with every short line; whether the server reads the batch that was written, and yah the reply | 2 workers per pool, 3 lines of five kinds; all lines of up to 6 characters, with the code's lengths 10, 15, 17, 20, 37 made short (3, 1, 3, 4, 6: a mac of the instance is two or three characters, and what is shorter than a line's power column can still be read, kept or dropped); lines of up to 9 characters of three kinds for the scans, since five words, enough for two parts with a space inside and a third, need 9; zipped data of up to 4 bytes (all three endings of base64), batches of two comments with quotes, backslashes, commas, braces, newlines and escape characters, valid and invalid escape sequences among them, every cut of replies around the limit of 400 |
| `delivery_dropped_ap` | violation | `README.md:19`: what is not accepted goes back into the queue | 1 sender, no fault but a failing post |
| `delivery_silent_close` | violation | `README.md:19`: only data that were sent successfully reach the updater | the server closes one connection without a reply |
| `cache_max` | violation | `config.hpp:30`: the cache has at most `num_cache_max` entries | `Max = 3`, 4 data |
| `checker_first` | violation | `README.md:17`: a device neither cached nor stored passes | one device |

Bounds named in the modules: `MaxCrashes`, `Seconds`, `MaxQueue`, `MaxFaults`,
`MaxTime`, `MaxCommands`, `MaxEdits`, `MaxLines`, `MaxText`, `MaxScan`.
Sightings and jobs are finite sets because each is used once. A sighting can be
pushed back and posted again without a bound: the state does not grow with it.
Symmetry is used in `delivery_faults`, `checker` and `btl` only, for invariants
and a refinement without liveness. Deadlock is not checked in `Delivery`, `Btl`,
`Pipeline` and `Supervisor`, whose programs may have nothing to do or may have
ended.

`delivery` has `SilentClose` and `DbBusy` off because `MarkedWasAccepted` and
`CarriedIsStored` fail with them (the first in the run `delivery_silent_close`;
for the second a refused INSERT is pushed to the sender all the same,
`airodump.cpp:292`): the run states under which conditions they hold.

The three invariants of `pipeline` about the parser, and `UploadIsUnderstood`, are
statements about pure operators. They quantify over all inputs of bounded length,
and are guarded by `lines = <<>>` so that TLC evaluates them in the initial state
only.

Mutants. Definitions whose comment starts with "Mutant of" are plausible bugs
(a lock that ends too early, a forgotten notification, a flag shared by two
posts, a `DELETE` without its `WHERE`, ...). No specification uses them. Each
property of a passing run is violated when its mutant, named in `PROJECT.json`,
replaces the original.

## Fairness

* `ThreadPool`: when the mutex is free and a worker wants it, some worker gets it
  (weak fairness of the disjunction, not of each worker: `std::mutex` promises
  no turn), and a job that runs returns. Nobody has to push and no spurious
  wake-up is owed.
* `Delivery`: systemd starts the process again (`Restart=always`), and the
  checker, the updater and each sender take their next step. For
  `StationIsUploaded` also: a server to which stations are posted again and
  again accepts one of the posts (strong fairness of `Post(s, "apstation",
  "accepted")`). That a post ends at all is an assumption about the server, not
  a property of the code: `http.cpp:100` reads with no timeout. Crashes are
  bounded; a process that always dies before its first post uploads nothing.
* `Supervisor`: the threads of a process run, a pending signal is delivered,
  airodump-ng obeys a SIGTERM, and systemd restarts the service (`Restart=always`).
  The checks of `precheck` pass again and again when they are made again and
  again (strong fairness of `PrecheckPasses` and `WlanFound`): the wireless device
  is plugged in at last. No command, no exit of airodump-ng and no line is owed.
* `Pipeline`: as `ThreadPool`, for each pool; a job goes on when it can, which for
  a formatter means when it gets the checker pool's mutex. The push competes with
  the checker's workers; it needs no strong fairness, because they fall asleep on
  an empty queue.
* `Cache`, `Checker` and `Btl` have no fairness: they are checked for safety only.

## Proofs

All theorems hold for every value of the constants that the named assumptions
(`PoolAssumption`, `DeliveryAssumption`, `CacheAssumption`, `CheckerAssumption`,
`SupervisorAssumption`, `BtlAssumption`, `LineParserAssumption`, `LiteralsAssumption`,
`PipelineAssumption`, `MessageAssumption`) allow: any number of workers, sightings, devices, hashes, lines, crashes, faults,
pids and commands. That the markers `NoOne` and `NoJob` are no workers and no lines
is an assumption about the model; that a pool has a worker is one about the
configuration. `LiteralsAssumption` is what the proofs know of the texts in
`airodump.cpp`: "(not associated)" (line 107) begins with a parenthesis and has one
space, inside, and no ESC; the exceptions (lines 93-96) begin with none, and each has
among its first 16 characters one that is in no mac. `MessageAssumption` lets a
comment be any sequence, what deflate yields any sequence of bytes, and a status code
any number from 100 to 599.

* `ThreadPoolProofs`. `PoolInv` says that the worker that runs a job is exactly
  the one that holds the mutex; `Serial` is immediate from it. `NoLostWakeup`
  needs that a worker falls asleep only on an empty queue and that a push into a
  pool of sleepers wakes one. `Fifo` carries the equation *submitted = finished,
  running, waiting* through every step, and `Refinement` maps each step of the
  threads to a step or a stutter of `SerialExecutor`.
* `DeliveryProofs`. `NothingIsForgotten` is unconditional. Its invariant adds to
  the property what a start-up in progress has still to read (the rows behind
  `cursor`), that ids name rows uniquely, and that the process is empty while it
  is down. `MarksAreEarned`, `StoredBeforeSent` and `DeletionIsEarned` assume
  `Reliable` (`SilentClose` and `DbBusy` off): a datum in the updater has been
  accepted, a success flag that is set belongs to a kind whose whole group was
  accepted, and the datum with an id is the row with that id.

  `NoDatumTwice` and `OnceForEachStart` are unconditional again. A datum is in one
  place is not inductive: the start-up also reads rows back, so `Tracking` adds that
  what it has still to read (`ToLoad`) is nowhere in the process, and that no two
  rows or data belong to one sighting. `Budget` then counts: a sighting whose datum
  no post of this run has taken has been accepted at most `crashes` times, and
  `Flags` says that a batch begins without success flags. With these,
  `DeliveryIsAnOutbox` maps each step to a step or a stutter of `Outbox`, under
  `Reliable`.
* `CacheProofs`. `CacheInv` says of each bucket that its items have the bucket's hash,
  one for each datum, with the time of that datum's last insertion; that `cur` is
  still 0, so that the limit is never met; and that a datum which is not `Exposed`
  still has its item while its timeout runs (`Remembered`), whatever the walks for
  other data have erased meanwhile. The last part makes a `FALSE` of `insert` the
  answer of `Recency`'s set (`CacheIsARecencySet`). The walk keeps the items at some
  of the places of the list, in order (`CleanedList`, `HitList`), which the lemmas
  about `KeptAt` reduce to counting places.
* `CheckerProofs`. For `RowsKeepTheirDistance` the invariant `Spacing` says who
  holds the mutex and that what the SELECT of `in_db` found is still true when
  `sync_db` inserts; `TimeoutCoversGap` covers the arrival of the white list
  between the two. It holds however times are torn, because the comparison
  uses the time that is written. `RowsTellTheTime` follows the two times of a
  datum from the queue to the row, with `ToNextTimeBounds` for the rounding.
* `SupervisorProofs`. `Owner` ties the three ways in which the code knows who
  runs: a process past `check_lockfile` is the lock's holder, the lock's holder is
  past it, and from `WritePid` on the file has its pid. `OnlyReloadLooks` says that
  no start reads the file. With them each of the four safety invariants is
  preserved, one action at a time; the ends of processes (`Ended`) are a lemma that
  all actions share. `ExitIsPending` follows the child from its exit to the signal.

* `BtlProofs`. A refused INSERT gives a datum the id of another row, so an UPDATE
  may mark a row that was never posted. `Ids` says that a datum with a row's id is
  that row, or the row is `doubtful`; `Known` that what is carried is stored or
  doubtful, and that a batch is updated after the server took it. From them each
  step of btl is a step or a stutter of `Outbox` (`Refinement`). `Past` (rows are
  not from the future, and older than the next start) is what `OneRowPerDay`
  needs when the cache has been lost, and what keeps a new sighting apart from
  those the server took. The four properties of the run and the parts above are
  one invariant because they rest on each other.

* `PipelineProofs`, the pools. Each step of the pipeline is a step of each pool or
  leaves it alone, the push that a formatter makes with its own mutex held included
  (`FormatterMoves`, `CheckerMoves`), so both pools inherit `ThreadPoolProofs`'
  invariants by instantiation: `PipelineTypeCorrect`, `OneOfEachKind`,
  `NobodySleepsOnALine`. `ChainIsAnExecutor` is the composition: what waits in the
  abstract executor is the checker's queue followed by the lines with data that no
  formatter has handed on. A push by a formatter leaves this list as it is, and so
  does a line without data that leaves the formatter. For that
  the invariant has to say that a line still waiting for a formatter has not been in
  the checker (`Untouched`, `Passed`).
* `PipelineProofs`, the parser. `CodesAreStripped` and `ScansEndInTheLine` hold for
  every bound on the length of a line. The provers have no induction over data;
  instead the set of places at which a claim fails is taken, and its greatest
  element is shown not to be one (`LastPlace`): `KeptIs` proves in this way that the
  recursive function `Kept` satisfies its own equation, and `KeptIsNoCode` that from any
  place on it keeps exactly what is in no escape sequence (`InCode`, a definition by
  places, without a loop): `CodeEnds` shows that the inner `while` leaves out just the
  places of one sequence. `ShownFirst` does the same for what the line begins with. For the scans each part of a station's line is bounded by the words
  that follow (`PartEndsBeforeWords`): two words, when the part may begin with a
  parenthesis, or else one.
  `StationLinesAreRead` takes a station's line from what airodump-ng printed to the
  record. The line is a code, words and spaces, so that each of its characters is
  known by its place (`Printed`); `Strip` yields the text behind the code
  (`StripSkips`), no exception begins it and it is a station's (`KindOfStation`), and
  each scan stops exactly where the next part begins (`ScanIs`, `PartsOfStation`):
  nothing of a mac is lost and nothing is added to it.
* `PipelineProofs`, base64. `EncodedIsDecoded`: for bytes of any length the reader's text is
  the data. A group's four characters are the sextets of its triple (`OfSextets`),
  the padding is written over sextets that are zero anyway (`PaddingIsZero`), and
  tells how many bytes the last group has (`MissingIsPadding`).
* `PipelineProofs`, messages. `serialize`, the reader and `atoi` are recursive functions;
  that each satisfies its own equation, and the claims about all their places, come
  from `Iterates` and `UpTo` of `QueueLemmas`: a property that holds at 0, and at each
  place if it holds at the one before, fails at no first place. A text is read piece
  by piece: what a reader does with `a \o b` is what it does with `b` after `a`.
  - `CommentsAreRead` has two directions. A string without a backslash or control
    character is found again as it was written, and dicts and arrays add the quotes of
    their members only. With one of these the reader has, at each place, not yet met a
    control character and collected less than has been written (`Short`: each backslash
    costs a character, whichever escape sequence it begins), or it has refused the text
    or found another string in its place (`Lost`), which it never forgets, whatever the
    rest of the batch is (`UnescapedIsLost`). So the condition is necessary as well.
  - `EveryUploadArrives` puts `EncodedIsDecoded` into this: none of the 65 characters
    of base64 needs an escape.
  - `OnlyWholeRefusalsSeen`: every cut of a reply has its spaces at places 9 and 13 or
    fewer of them, so that `StatusOf` reads the digits that have arrived, and less than
    all three of them are at most 99.

  - `NoLineArrives`: the newline of a line that is not in an escape sequence is among
    the characters that `Strip` keeps (`NewlineStays`), so by the above the datum of that
    line is not read as it was written.

  `UploadsAreUnderstood` is their conjunction.

With these every safety invariant, every action property and every refinement that
a passing run checks is a theorem. Only model-checked are the liveness properties
(`EveryJobRuns`, `StationIsUploaded`, `ServiceRuns`, `ReloadTakesEffect`, `TermEnds`,
`EveryLineIsChecked`), which are beyond the prover.

## What the models found

The four violation runs above; each is a disagreement between the code and the
line of the repository it quotes (see `findings` in `PROJECT.json`). Consequences
that the passing runs make precise:

* `Exposed` in `Cache`: a device that shares a hash with a white-listed one may
  be forgotten after five seconds instead of its timeout, since the walk uses the
  timeout of the datum that is inserted.
* `RowsSpaced` needs `~r.blind`: when the SELECT of `in_db` is refused, the
  device counts as unknown and a row too many is stored.
* `ChildExitIsPending` needs `lost`: a SIGCHLD that comes before `airodump_pid` is
  assigned, or merges with that of a child of `Validate`, leaves yah running
  without airodump-ng, since the check at `core.cpp:190` is reached only when
  `select` fails, and a `select` that times out returns 0.
* A reload that gets the lock itself, because nobody runs, has emptied the file,
  written its own pid into it and then aborts (`NobodyRuns`).
* Of two escape codes at the beginning of a line the second is kept whole when
  spaces stand between them (`Shown` in `EscapesStripped`).
* A station's line that is cut before its power column makes `substr` throw in
  `get_pwr`, and the exception ends the process (`CheckDies`).
* A batch with a control character or a backslash in a comment is not the JSON text of
  that batch (`CommentsArrive`): `serialize` escapes quotes only. Every ordinary comment
  has one, the newline at the end of its line, so that only a reader laxer than JSON
  accepts yah's batches at all (`HeardArrives`). A backslash, which the name of a network
  may have in it, changes the text for a lax reader too.
* An escape sequence ends at the next space only (`airodump.cpp:73`). One that touches a
  mac takes the mac, or the rest of it, out of the line, so that the fields behind it move
  up; one with no space behind it takes the newline (`EscapesStripped`).
* A refusal whose status line is cut before its last digit passes for success
  (`RefusalsSeen`), since `post` reads once and `4` and `40` are less than 400.
* btl hides a device for a day when the database refuses the SELECT or the INSERT
  of its first sighting (`missed` in `CachedIsStored`).

## What is not modelled

* The sleeps of the AutoPools and of the sender; `sender_await = 0`, which
  divides by zero (`core.cpp:100`), and `num_send_msg = 0`, with which a sender
  never takes anything, are excluded by assumptions.
* The white list's request, and its data race as such: a checker thread that
  reads the pointer while it is written is taken to read the old or the new value.
  Of `Validate` only the child that ends.
* What other threads read while `config.reload()` writes the strings of the
  configuration: the model reads it in one step.
* The two DELETEs at start-up (`check.cpp:113-114`) are one step of `Delivery`, refused
  or done together; `open` of the lock file does not fail in `Supervisor`.
* Bytes of a comment that are no UTF-8, which JSON does not allow either: characters are
  told apart only as far as the parser and `serialize` do, and the control characters.
* gzip, JSON's numbers, the headers of HTTP requests, the log, the text of
  bluetoothctl's lines, the set-up of the pty.
* Vendored code: boost, `request.hpp`, `root_certificates.hpp`; `sender.cpp` is
  a class that nothing instantiates.
* The limit of a queue: `msg_queue_size` is read and never used.

## Plan

Done: the modules above. What is left: the configuration as two values that a post
reads one after the other, with the handler between them.
