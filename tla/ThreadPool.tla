----------------------------- MODULE ThreadPool -----------------------------
(***************************************************************************)
(* yah::ThreadPool (src/src/thread_pool.cpp): worker threads, a queue of   *)
(* jobs, one mutex and one condition variable.  The program has two such   *)
(* pools, formatter and checker.                                           *)
(*                                                                         *)
(* The lock `lk` a worker takes lives until the end of the loop body, so   *)
(* job->run() executes WHILE THE POOL'S MUTEX IS HELD: however many        *)
(* workers are configured, at most one job of a pool runs at a time, and a *)
(* push waits for it.                                                      *)
(***************************************************************************)
EXTENDS Naturals, Sequences, Functions

CONSTANTS Workers,  \* the detached threads the constructor starts
          Jobs,     \* the job objects that can be pushed
          NoOne,    \* "the mutex is free"
          NoJob     \* "this worker runs nothing"

ASSUME PoolAssumption ==
    /\ Workers # {}             \* a pool of no workers never runs anything
    /\ NoOne \notin Workers
    /\ NoJob \notin Jobs

VARIABLES jobs,      \* std::queue<std::unique_ptr<Job>> jobs
          holder,    \* the worker inside the mutex, or NoOne
          pc,        \* what each worker is doing
          job,       \* the local variable `job` of each worker
          submitted, \* history: the jobs pushed, in order
          finished   \* history: the jobs run to their end, in order

vars == <<jobs, holder, pc, job, submitted, finished>>

PoolTypeOK ==
    /\ jobs \in Seq(Jobs)
    /\ holder \in Workers \cup {NoOne}
    /\ pc \in [Workers -> {"lock", "wait", "run"}]
    /\ job \in [Workers -> Jobs \cup {NoJob}]
    /\ submitted \in Seq(Jobs)
    /\ finished \in Seq(Jobs)

Init ==
    /\ jobs = <<>>
    /\ holder = NoOne
    /\ pc = [w \in Workers |-> "lock"]
    /\ job = [w \in Workers |-> NoJob]
    /\ submitted = <<>>
    /\ finished = <<>>
-----------------------------------------------------------------------------
Sleepers == {w \in Workers : pc[w] = "wait"}

\* Mutant of NotifyOne: push forgets to notify.
NotifyNobody == pc' = pc

\* cv.notify_one(): one of the sleepers, if there is any, has to get the
\* mutex again before it looks at the queue.
NotifyOne ==
    \/ Sleepers = {} /\ pc' = pc
    \/ \E w \in Sleepers : pc' = [pc EXCEPT ![w] = "lock"]

\* Mutant of Push: the queue is a stack.
PushInFront(j) ==
    /\ holder = NoOne
    /\ j \notin Range(submitted)
    /\ jobs' = <<j>> \o jobs
    /\ submitted' = Append(submitted, j)
    /\ NotifyOne
    /\ UNCHANGED <<holder, job, finished>>

\* push(job): a lock_guard covers the append and the notification, so the
\* whole call is one step, possible when no job of this pool is running.
Push(j) ==
    /\ holder = NoOne
    /\ j \notin Range(submitted)
    /\ jobs' = Append(jobs, j)
    /\ submitted' = Append(submitted, j)
    /\ NotifyOne
    /\ UNCHANGED <<holder, job, finished>>

\* Mutants of Take: the usual thread pool, whose lock ends before the job
\* runs; one that forgets to pop the queue; and one whose cv.wait has no
\* predicate, so that the front of an empty queue (here <<>>) can be run.
TakeAndUnlock(w) ==
    /\ pc[w] = "lock"
    /\ holder = NoOne
    /\ jobs # <<>>
    /\ job' = [job EXCEPT ![w] = Head(jobs)]
    /\ jobs' = Tail(jobs)
    /\ pc' = [pc EXCEPT ![w] = "run"]
    /\ UNCHANGED <<holder, submitted, finished>>

TakeWithoutPop(w) ==
    /\ pc[w] = "lock"
    /\ holder = NoOne
    /\ jobs # <<>>
    /\ Len(finished) < 8
    /\ holder' = w
    /\ job' = [job EXCEPT ![w] = Head(jobs)]
    /\ pc' = [pc EXCEPT ![w] = "run"]
    /\ UNCHANGED <<jobs, submitted, finished>>

TakeWithoutTest(w) ==
    /\ pc[w] = "lock"
    /\ holder = NoOne
    /\ holder' = w
    /\ job' = [job EXCEPT ![w] = IF jobs = <<>> THEN jobs ELSE Head(jobs)]
    /\ jobs' = IF jobs = <<>> THEN jobs ELSE Tail(jobs)
    /\ pc' = [pc EXCEPT ![w] = "run"]
    /\ UNCHANGED <<submitted, finished>>

\* The worker gets the mutex, finds the queue not empty, takes the front job
\* and keeps the mutex.
Take(w) ==
    /\ pc[w] = "lock"
    /\ holder = NoOne
    /\ jobs # <<>>
    /\ holder' = w
    /\ job' = [job EXCEPT ![w] = Head(jobs)]
    /\ jobs' = Tail(jobs)
    /\ pc' = [pc EXCEPT ![w] = "run"]
    /\ UNCHANGED <<submitted, finished>>

\* The worker gets the mutex and the wait's predicate is false: cv.wait
\* releases the mutex and sleeps.
Sleep(w) ==
    /\ pc[w] = "lock"
    /\ holder = NoOne
    /\ jobs = <<>>
    /\ pc' = [pc EXCEPT ![w] = "wait"]
    /\ UNCHANGED <<jobs, holder, job, submitted, finished>>

\* A condition variable may wake a thread nobody notified; the predicate
\* form of cv.wait then tests the queue again.
SpuriousWake(w) ==
    /\ pc[w] = "wait"
    /\ pc' = [pc EXCEPT ![w] = "lock"]
    /\ UNCHANGED <<jobs, holder, job, submitted, finished>>

\* job->run() returns; the end of the loop body releases the mutex.
Finish(w) ==
    /\ pc[w] = "run"
    /\ finished' = Append(finished, job[w])
    /\ job' = [job EXCEPT ![w] = NoJob]
    /\ holder' = NoOne
    /\ pc' = [pc EXCEPT ![w] = "lock"]
    /\ UNCHANGED <<jobs, submitted>>

Next ==
    \/ \E j \in Jobs : Push(j)
    \/ \E w \in Workers : Take(w) \/ Sleep(w) \/ SpuriousWake(w) \/ Finish(w)

\* A std::mutex is not fair to each thread, so nothing is assumed of one
\* worker's turn; but when the mutex is free and some worker wants it, one
\* gets it, and a job that runs returns.  Nothing makes anyone push, and no
\* spurious wake-up is owed.
Fairness ==
    /\ WF_vars(\E w \in Workers : Take(w) \/ Sleep(w))
    /\ \A w \in Workers : WF_vars(Finish(w))

Spec == Init /\ [][Next]_vars
FairSpec == Spec /\ Fairness
-----------------------------------------------------------------------------
\* The job being run, as a sequence of at most one job.
Running == IF holder = NoOne THEN <<>> ELSE <<job[holder]>>

\* Two workers are never inside a job at once, although run() is called by
\* several threads: the checks and inserts of Checker::run rely on it.
OneJobAtATime ==
    \A v, w \in Workers : pc[v] = "run" /\ pc[w] = "run" => v = w

\* Jobs run in the order they were pushed and none is lost or run twice,
\* whichever workers pick them up (lines leave the pool as airodump-ng
\* printed them).
FirstInFirstOut == submitted = finished \o Running \o jobs

\* No wake-up is lost: while a job waits, some worker is awake and will find
\* it, so a push between a worker's test of the queue and its sleep cannot
\* strand the job.
SomeoneIsAwake == jobs # <<>> => \E w \in Workers : pc[w] # "wait"

\* Every job pushed is eventually run.
EveryJobRuns ==
    \A j \in Jobs : j \in Range(submitted) ~> j \in Range(finished)

\* The pool implements the serial executor.
Executor == INSTANCE SerialExecutor WITH waiting <- jobs, current <- Running
ImplementsSerialExecutor == Executor!Spec
=============================================================================
