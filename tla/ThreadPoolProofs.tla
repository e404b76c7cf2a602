-------------------------- MODULE ThreadPoolProofs --------------------------
(***************************************************************************)
(* What TLAPS proves of ThreadPool, for every set of workers and jobs.     *)
(*                                                                         *)
(* The inductive invariant says that the mutex is held exactly by the      *)
(* worker that runs a job.  Serial execution, first-in-first-out order and *)
(* the refinement of SerialExecutor all follow from it: they are false of  *)
(* a pool that lets go of the mutex before it runs the job.                *)
(***************************************************************************)
EXTENDS ThreadPool, SequenceTheorems, TLAPS

\* The mutex is held exactly while its holder runs a job it has taken.
HolderRuns ==
    \A w \in Workers : /\ pc[w] = "run" <=> holder = w
                       /\ pc[w] = "run" => job[w] \in Jobs

PoolInv == PoolTypeOK /\ HolderRuns
-----------------------------------------------------------------------------
(***************************************************************************)
(* The initial state and every step keep the inductive invariant.          *)
(***************************************************************************)
LEMMA PoolInvInit == Init => PoolInv
  BY PoolAssumption DEF Init, PoolInv, PoolTypeOK, HolderRuns

LEMMA NotifyPreserves ==
  ASSUME PoolTypeOK, NotifyOne
  PROVE  /\ pc' \in [Workers -> {"lock", "wait", "run"}]
         /\ \A w \in Workers : pc'[w] = "run" <=> pc[w] = "run"
  BY DEF PoolTypeOK, NotifyOne, Sleepers

LEMMA PoolInvStep == PoolInv /\ [Next]_vars => PoolInv'
<1> SUFFICES ASSUME PoolInv, [Next]_vars
             PROVE  PoolInv'
  OBVIOUS
<1> USE PoolAssumption DEF PoolInv, PoolTypeOK, HolderRuns
<1>1. ASSUME NEW j \in Jobs, Push(j)
      PROVE  PoolInv'
  BY <1>1, NotifyPreserves DEF Push
<1>2. ASSUME NEW w \in Workers, Take(w)
      PROVE  PoolInv'
  BY <1>2 DEF Take
<1>3. ASSUME NEW w \in Workers, Sleep(w)
      PROVE  PoolInv'
  BY <1>3 DEF Sleep
<1>4. ASSUME NEW w \in Workers, SpuriousWake(w)
      PROVE  PoolInv'
  BY <1>4 DEF SpuriousWake
<1>5. ASSUME NEW w \in Workers, Finish(w)
      PROVE  PoolInv'
  BY <1>5 DEF Finish
<1>6. CASE UNCHANGED vars
  BY <1>6 DEF vars
<1>7. QED
  BY <1>1, <1>2, <1>3, <1>4, <1>5, <1>6 DEF Next

\* Every reachable state satisfies the inductive invariant (and so has its
\* type): the mutex of thread_pool.cpp:12 is held exactly while a job runs.
THEOREM PoolInvariant == Spec => []PoolInv
  BY PoolInvInit, PoolInvStep, PTL DEF Spec

\* Type correctness of the pool's state.
THEOREM PoolTypeCorrect == Spec => []PoolTypeOK
  BY PoolInvariant, PTL DEF PoolInv

\* job->run() is never executed by two workers at once, for any number of
\* workers: what Checker::run's check-then-insert relies on.
THEOREM Serial == Spec => []OneJobAtATime
<1>1. PoolInv => OneJobAtATime
  BY DEF PoolInv, HolderRuns, OneJobAtATime
<1>2. QED
  BY <1>1, PoolInvariant, PTL
-----------------------------------------------------------------------------
LEMMA AwakeInit == Init => SomeoneIsAwake
  BY DEF Init, SomeoneIsAwake

LEMMA AwakeStep == PoolInv /\ SomeoneIsAwake /\ [Next]_vars => SomeoneIsAwake'
<1> SUFFICES ASSUME PoolInv, SomeoneIsAwake, [Next]_vars
             PROVE  SomeoneIsAwake'
  OBVIOUS
<1> USE DEF PoolInv, PoolTypeOK, SomeoneIsAwake
<1>1. ASSUME NEW j \in Jobs, Push(j)
      PROVE  SomeoneIsAwake'
  <2>1. CASE Sleepers = {}
    BY <1>1, <2>1, PoolAssumption DEF Push, NotifyOne, Sleepers
  <2>2. CASE Sleepers # {}
    BY <1>1, <2>2 DEF Push, NotifyOne, Sleepers
  <2>3. QED
    BY <2>1, <2>2
<1>2. ASSUME NEW w \in Workers, Take(w) \/ Finish(w) \/ SpuriousWake(w)
      PROVE  SomeoneIsAwake'
  BY <1>2 DEF Take, Finish, SpuriousWake
<1>3. ASSUME NEW w \in Workers, Sleep(w)
      PROVE  SomeoneIsAwake'
  BY <1>3 DEF Sleep
<1>4. CASE UNCHANGED vars
  BY <1>4 DEF vars
<1>5. QED
  BY <1>1, <1>2, <1>3, <1>4 DEF Next

\* While a job waits, some worker is awake: a push into a pool whose workers
\* all sleep always wakes one, and a worker falls asleep only on an empty
\* queue (thread_pool.cpp:13 and :26).
THEOREM NoLostWakeup == Spec => []SomeoneIsAwake
  BY AwakeInit, AwakeStep, PoolInvariant, PTL DEF Spec
-----------------------------------------------------------------------------
(***************************************************************************)
(* Order.  Each step moves one job one place to the left in the            *)
(* concatenation finished \o Running \o jobs, which is what was submitted. *)
(***************************************************************************)
LEMMA RunningType == PoolInv => Running \in Seq(Jobs)
  BY DEF PoolInv, PoolTypeOK, HolderRuns, Running

\* A sequence that is not empty is its head followed by its tail.
LEMMA HeadThenTail ==
  ASSUME NEW S, NEW s \in Seq(S), s # <<>>
  PROVE  <<Head(s)>> \o Tail(s) = s
<1>1. <<Head(s)>> \in Seq(S) /\ Tail(s) \in Seq(S) /\ Len(Tail(s)) = Len(s) - 1
  BY HeadTailProperties
<1>2. Len(<<Head(s)>> \o Tail(s)) = Len(s)
  BY <1>1, ConcatProperties, LenProperties
<1>3. \A i \in 1..Len(s) : (<<Head(s)>> \o Tail(s))[i] = s[i]
  BY <1>1, HeadTailProperties, ConcatProperties, LenProperties
<1>4. <<Head(s)>> \o Tail(s) \in Seq(S)
  BY <1>1, ConcatProperties
<1>5. QED
  BY <1>2, <1>3, <1>4, SeqEqual

LEMMA FifoStep ==
  PoolInv /\ FirstInFirstOut /\ [Next]_vars => FirstInFirstOut'
<1> SUFFICES ASSUME PoolInv, FirstInFirstOut, [Next]_vars
             PROVE  FirstInFirstOut'
  OBVIOUS
<1> USE DEF PoolInv, PoolTypeOK, HolderRuns, FirstInFirstOut
<1>0. Running \in Seq(Jobs)
  BY RunningType
<1>1. ASSUME NEW j \in Jobs, Push(j)
      PROVE  FirstInFirstOut'
  <2>1. Running' = Running
    BY <1>1 DEF Push, Running
  <2>2. finished \o Running \in Seq(Jobs) /\ <<j>> \in Seq(Jobs)
    BY <1>0, ConcatProperties
  <2>3. jobs' = jobs \o <<j>> /\ submitted' = submitted \o <<j>>
    BY <1>1, AppendIsConcat DEF Push
  <2>4. QED
    BY <1>1, <2>1, <2>2, <2>3, ConcatAssociative DEF Push
<1>2. ASSUME NEW w \in Workers, Take(w)
      PROVE  FirstInFirstOut'
  <2>1. Running = <<>> /\ Running' = <<Head(jobs)>>
    BY <1>2, PoolAssumption DEF Take, Running
  <2>2. Head(jobs) \in Jobs /\ Tail(jobs) \in Seq(Jobs)
    BY <1>2, HeadTailProperties DEF Take
  <2>3. <<Head(jobs)>> \o Tail(jobs) = jobs
    BY <1>2, HeadThenTail DEF Take
  <2>4. submitted = finished \o (<<Head(jobs)>> \o Tail(jobs))
    BY <2>1, <2>3, ConcatEmptySeq
  <2>5. submitted = (finished \o <<Head(jobs)>>) \o Tail(jobs)
    BY <2>2, <2>4, ConcatAssociative
  <2>6. QED
    BY <1>2, <2>1, <2>5 DEF Take
<1>3. ASSUME NEW w \in Workers, Finish(w)
      PROVE  FirstInFirstOut'
  <2>1. Running = <<job[w]>> /\ Running' = <<>>
    BY <1>3, PoolAssumption DEF Finish, Running
  <2>2. job[w] \in Jobs
    BY <1>3 DEF Finish
  <2>3. finished' = finished \o <<job[w]>> /\ finished' \in Seq(Jobs)
    BY <1>3, <2>2, AppendIsConcat, AppendProperties DEF Finish
  <2>4. QED
    BY <1>3, <2>1, <2>3, ConcatEmptySeq DEF Finish
<1>4. ASSUME NEW w \in Workers, Sleep(w) \/ SpuriousWake(w)
      PROVE  FirstInFirstOut'
  BY <1>4 DEF Sleep, SpuriousWake, Running
<1>5. CASE UNCHANGED vars
  BY <1>5 DEF vars, Running
<1>6. QED
  BY <1>1, <1>2, <1>3, <1>4, <1>5 DEF Next

\* Jobs run in the order they were pushed, each exactly once.
THEOREM Fifo == Spec => []FirstInFirstOut
<1>1. Init => FirstInFirstOut
  BY DEF Init, FirstInFirstOut, Running
<1>2. QED
  BY <1>1, FifoStep, PoolInvariant, PTL DEF Spec
-----------------------------------------------------------------------------
(***************************************************************************)
(* Refinement: a pool of any number of threads is a serial executor.       *)
(***************************************************************************)
LEMMA SubmittedOnce ==
  ASSUME PoolInv, FirstInFirstOut
  PROVE  Range(submitted) = Range(jobs) \cup Range(Running) \cup Range(finished)
<1>1. Running \in Seq(Jobs) /\ finished \o Running \in Seq(Jobs)
  BY RunningType, ConcatProperties DEF PoolInv, PoolTypeOK
<1>2. jobs \in Seq(Jobs) /\ finished \in Seq(Jobs)
  BY DEF PoolInv, PoolTypeOK
<1>3. Range(submitted) = Range(finished \o Running) \cup Range(jobs)
  BY <1>1, <1>2, RangeConcatenation, Zenon DEF FirstInFirstOut
<1>4. Range(finished \o Running) = Range(finished) \cup Range(Running)
  BY <1>1, <1>2, RangeConcatenation, Zenon
<1>5. QED
  BY <1>3, <1>4

LEMMA RefinementStep ==
  PoolInv /\ FirstInFirstOut /\ [Next]_vars => [Executor!Next]_(Executor!vars)
<1> SUFFICES ASSUME PoolInv, FirstInFirstOut, [Next]_vars
             PROVE  [Executor!Next]_(Executor!vars)
  OBVIOUS
<1> USE DEF PoolInv, PoolTypeOK, HolderRuns
<1>1. ASSUME NEW j \in Jobs, Push(j)
      PROVE  Executor!Submit(j)
  BY <1>1, SubmittedOnce DEF Push, Executor!Submit, Executor!Range, Range, Running
<1>2. ASSUME NEW w \in Workers, Take(w)
      PROVE  Executor!Start
  BY <1>2, PoolAssumption DEF Take, Executor!Start, Running
<1>3. ASSUME NEW w \in Workers, Finish(w)
      PROVE  Executor!Complete
  BY <1>3, PoolAssumption DEF Finish, Executor!Complete, Running
<1>4. ASSUME NEW w \in Workers, Sleep(w) \/ SpuriousWake(w)
      PROVE  UNCHANGED Executor!vars
  BY <1>4 DEF Sleep, SpuriousWake, Executor!vars, Running
<1>5. CASE UNCHANGED vars
  BY <1>5 DEF vars, Executor!vars, Running
<1>6. QED
  BY <1>1, <1>2, <1>3, <1>4, <1>5 DEF Next, Executor!Next

\* Every behaviour of the threads, the mutex and the condition variable is a
\* behaviour of the serial executor.
THEOREM Refinement == Spec => ImplementsSerialExecutor
<1>1. Init => Executor!Init
  BY DEF Init, Executor!Init, Running
<1>2. QED
  BY <1>1, RefinementStep, PoolInvariant, Fifo, PTL
     DEF Spec, ImplementsSerialExecutor, Executor!Spec
=============================================================================
