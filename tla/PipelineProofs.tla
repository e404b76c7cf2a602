--------------------------- MODULE PipelineProofs ---------------------------
(***************************************************************************)
(* What TLAPS proves of Pipeline, for any workers and any lines, and of    *)
(* what happens to the texts on their way: the parser's loop over a line,  *)
(* the JSON and base64 of what is uploaded, the status of the reply.       *)
(*                                                                         *)
(* Both pools keep what ThreadPoolProofs proves of one: every step of the  *)
(* pipeline is a step of each of them or leaves it alone, the push a       *)
(* formatter makes with its own mutex held included.  To that the          *)
(* invariant adds what relates the two: a line goes from airodump-ng to    *)
(* the formatter and from there to the checker, and to neither of them     *)
(* twice.                                                                  *)
(***************************************************************************)
EXTENDS Upload, QueueLemmas

FP == INSTANCE ThreadPoolProofs WITH
    Workers <- Formatters, Jobs <- Numbers, jobs <- fJobs, holder <- fHolder,
    pc <- fPc, job <- fJob, submitted <- fSubmitted, finished <- fFinished

CP == INSTANCE ThreadPoolProofs WITH
    Workers <- Checkers, Jobs <- Numbers, jobs <- cJobs, holder <- cHolder,
    pc <- cPc, job <- cJob, submitted <- cSubmitted, finished <- cFinished

\* Each pool by itself.
PoolsInv ==
    /\ FP!PoolInv /\ FP!FirstInFirstOut
    /\ CP!PoolInv /\ CP!FirstInFirstOut

\* A line that waits for a formatter has not been through one.
Untouched ==
    /\ Distinct(fJobs)
    /\ \A n \in Range(fJobs) : n \notin Range(cSubmitted) /\ n \notin Range(FP!Running)

Passed ==
    /\ lines \in Seq(Texts) /\ Len(lines) <= MaxLines
    /\ alive \in BOOLEAN
    /\ Range(cSubmitted) \subseteq Range(fSubmitted)
    /\ Range(fSubmitted) \subseteq DOMAIN lines

PipelineInv == PoolsInv /\ Passed /\ Untouched
-----------------------------------------------------------------------------
(***************************************************************************)
(* Each pool's steps.                                                      *)
(***************************************************************************)
LEMMA PoolsAssumed == FP!PoolAssumption /\ CP!PoolAssumption
  BY PipelineAssumption DEF FP!PoolAssumption, CP!PoolAssumption, Numbers

LEMMA FormatterSteps ==
  /\ \A j : FormatterPool!Push(j) => FP!Push(j)
  /\ \A w : /\ FormatterPool!Take(w) => FP!Take(w)
            /\ FormatterPool!Sleep(w) => FP!Sleep(w)
            /\ FormatterPool!SpuriousWake(w) => FP!SpuriousWake(w)
            /\ FormatterPool!Finish(w) => FP!Finish(w)
  BY DEF FormatterPool!Push, FormatterPool!NotifyOne, FormatterPool!Sleepers,
         FormatterPool!Take, FormatterPool!Sleep, FormatterPool!SpuriousWake,
         FormatterPool!Finish, FormatterPool!Range, FP!Push, FP!NotifyOne, FP!Sleepers,
         FP!Take, FP!Sleep, FP!SpuriousWake, FP!Finish, FP!Range

LEMMA CheckerSteps ==
  /\ \A j : CheckerPool!Push(j) => CP!Push(j)
  /\ \A w : /\ CheckerPool!Take(w) => CP!Take(w)
            /\ CheckerPool!Sleep(w) => CP!Sleep(w)
            /\ CheckerPool!SpuriousWake(w) => CP!SpuriousWake(w)
            /\ CheckerPool!Finish(w) => CP!Finish(w)
  BY DEF CheckerPool!Push, CheckerPool!NotifyOne, CheckerPool!Sleepers,
         CheckerPool!Take, CheckerPool!Sleep, CheckerPool!SpuriousWake,
         CheckerPool!Finish, CheckerPool!Range, CP!Push, CP!NotifyOne, CP!Sleepers,
         CP!Take, CP!Sleep, CP!SpuriousWake, CP!Finish, CP!Range

\* The formatter's worker that runs a job is the one with the mutex.
LEMMA FormatterRuns ==
  ASSUME PipelineInv, NEW w \in Formatters, fPc[w] = "run"
  PROVE  /\ fHolder = w /\ fHolder # NoOne
         /\ fJob[w] \in Numbers /\ fJob[w] \in Range(fSubmitted)
         /\ FP!Running = <<fJob[w]>>
<1>1. fHolder = w /\ fJob[w] \in Numbers
  BY DEF PipelineInv, PoolsInv, FP!PoolInv, FP!HolderRuns
<1>2. w # NoOne
  BY PipelineAssumption
<1>3. FP!Running = <<fJob[w]>>
  BY <1>1, <1>2 DEF FP!Running
<1>4. fJob[w] \in Range(FP!Running)
  BY <1>3 DEF Range
<1>5. Range(fSubmitted) = Range(fJobs) \cup Range(FP!Running) \cup Range(fFinished)
  BY PoolsAssumed, FP!SubmittedOnce DEF PipelineInv, PoolsInv, FP!Range, Range
<1>6. QED
  BY <1>1, <1>2, <1>3, <1>4, <1>5

LEMMA CheckerRuns ==
  ASSUME PipelineInv, NEW w \in Checkers, cPc[w] = "run"
  PROVE  cHolder = w /\ cHolder # NoOne /\ cJob[w] \in Numbers /\ CP!Running = <<cJob[w]>>
<1>1. cHolder = w /\ cJob[w] \in Numbers
  BY DEF PipelineInv, PoolsInv, CP!PoolInv, CP!HolderRuns
<1>2. w # NoOne
  BY PipelineAssumption
<1>3. QED
  BY <1>1, <1>2 DEF CP!Running

\* The next line's number is new.
LEMMA NextNumber ==
  ASSUME PipelineInv, Len(lines) < MaxLines
  PROVE  Len(lines) \in Nat /\ Len(lines) + 1 \in Numbers /\ Len(lines) + 1 \notin DOMAIN lines
<1>1. Len(lines) \in Nat /\ DOMAIN lines = 1..Len(lines)
  BY LenProperties DEF PipelineInv, Passed
<1>2. QED
  BY <1>1, PipelineAssumption DEF Numbers

LEMMA FormatterMoves ==
  PipelineInv /\ [Next]_vars => [FP!Next]_(FP!vars)
<1> SUFFICES ASSUME PipelineInv, [Next]_vars
             PROVE  [FP!Next]_(FP!vars)
  OBVIOUS
<1>1. UNCHANGED formatterVars => UNCHANGED FP!vars
  BY DEF formatterVars, FP!vars
<1>2. CASE ReadLine
  <2>1. UNCHANGED formatterVars \/ FormatterPool!Push(Len(lines) + 1)
    BY <1>2 DEF ReadLine
  <2>2. Len(lines) + 1 \in Numbers
    BY <1>2, NextNumber DEF ReadLine
  <2>3. QED
    BY <1>1, <2>1, <2>2, FormatterSteps DEF FP!Next
<1>3. CASE SpuriousWake
  BY <1>1, <1>3, FormatterSteps DEF SpuriousWake, FP!Next
<1>4. ASSUME NEW w \in Formatters, FormatterTurn(w)
      PROVE  [FP!Next]_(FP!vars)
  BY <1>4, FormatterSteps DEF FormatterTurn, FP!Next
<1>5. ASSUME NEW w \in Formatters, FormatterJob(w)
      PROVE  [FP!Next]_(FP!vars)
  BY <1>1, <1>5, FormatterSteps DEF FormatterJob, Forward, FormatDies, Formatted, Die, FP!Next
<1>6. ASSUME NEW w \in Checkers, CheckerTurn(w) \/ CheckerJob(w)
      PROVE  [FP!Next]_(FP!vars)
  BY <1>1, <1>6 DEF CheckerTurn, CheckerJob, CheckDies, Checked, Die
<1>7. CASE UNCHANGED vars
  BY <1>1, <1>7 DEF vars
<1>8. QED
  BY <1>2, <1>3, <1>4, <1>5, <1>6, <1>7 DEF Next

LEMMA CheckerMoves ==
  PipelineInv /\ [Next]_vars => [CP!Next]_(CP!vars)
<1> SUFFICES ASSUME PipelineInv, [Next]_vars
             PROVE  [CP!Next]_(CP!vars)
  OBVIOUS
<1>1. UNCHANGED checkerVars => UNCHANGED CP!vars
  BY DEF checkerVars, CP!vars
<1>2. CASE ReadLine
  BY <1>1, <1>2 DEF ReadLine
<1>3. CASE SpuriousWake
  BY <1>1, <1>3, CheckerSteps DEF SpuriousWake, CP!Next
<1>4. ASSUME NEW w \in Formatters, FormatterTurn(w) \/ FormatDies(w) \/ Formatted(w)
      PROVE  [CP!Next]_(CP!vars)
  BY <1>1, <1>4 DEF FormatterTurn, FormatDies, Formatted, Die
<1>5. ASSUME NEW w \in Formatters, Forward(w)
      PROVE  [CP!Next]_(CP!vars)
  <2>1. fPc[w] = "run" /\ CheckerPool!Push(fJob[w])
    BY <1>5 DEF Forward
  <2>2. fJob[w] \in Numbers
    BY <2>1, FormatterRuns
  <2>3. QED
    BY <2>1, <2>2, CheckerSteps DEF CP!Next
<1>6. ASSUME NEW w \in Checkers, CheckerTurn(w)
      PROVE  [CP!Next]_(CP!vars)
  BY <1>6, CheckerSteps DEF CheckerTurn, CP!Next
<1>7. ASSUME NEW w \in Checkers, CheckerJob(w)
      PROVE  [CP!Next]_(CP!vars)
  BY <1>1, <1>7, CheckerSteps DEF CheckerJob, CheckDies, Checked, Die, CP!Next
<1>8. CASE UNCHANGED vars
  BY <1>1, <1>8 DEF vars
<1>9. QED
  BY <1>2, <1>3, <1>4, <1>5, <1>6, <1>7, <1>8 DEF Next, FormatterJob
-----------------------------------------------------------------------------
(***************************************************************************)
(* The invariant.                                                          *)
(***************************************************************************)
LEMMA PipelineInit == Init => PipelineInv
<1> SUFFICES ASSUME Init PROVE PipelineInv
  OBVIOUS
<1>1. FP!Init /\ CP!Init
  BY DEF Init, FormatterPool!Init, CheckerPool!Init, FP!Init, CP!Init
<1>2. FP!PoolInv /\ CP!PoolInv
  BY <1>1, PoolsAssumed, FP!PoolInvInit, CP!PoolInvInit
<1>3. FP!FirstInFirstOut /\ CP!FirstInFirstOut
  BY <1>1 DEF FP!Init, FP!FirstInFirstOut, FP!Running, CP!Init, CP!FirstInFirstOut, CP!Running
<1>4. fJobs = <<>> /\ fSubmitted = <<>> /\ cSubmitted = <<>>
  BY <1>1 DEF FP!Init, CP!Init
<1>5. Passed
  BY <1>4, EmptyIsDistinct, PipelineAssumption DEF Init, Passed
<1>6. Untouched
  BY <1>4, EmptyIsDistinct DEF Untouched
<1>7. QED
  BY <1>2, <1>3, <1>5, <1>6 DEF PipelineInv, PoolsInv

LEMMA PoolsStep == PipelineInv /\ [Next]_vars => PoolsInv'
<1> SUFFICES ASSUME PipelineInv, [Next]_vars
             PROVE  PoolsInv'
  OBVIOUS
<1>1. FP!PoolInv' /\ FP!FirstInFirstOut'
  BY PoolsAssumed, FormatterMoves, FP!PoolInvStep, FP!FifoStep DEF PipelineInv, PoolsInv
<1>2. CP!PoolInv' /\ CP!FirstInFirstOut'
  BY PoolsAssumed, CheckerMoves, CP!PoolInvStep, CP!FifoStep DEF PipelineInv, PoolsInv
<1>3. QED
  BY <1>1, <1>2 DEF PoolsInv

\* The names of Pipeline and of its pools for the range of a sequence.
LEMMA OneRange == /\ \A q : FP!Range(q) = Range(q)
                  /\ \A q : CP!Range(q) = Range(q)
  BY DEF FP!Range, CP!Range, Range

LEMMA PassedStep == PipelineInv /\ [Next]_vars => Passed'
<1> SUFFICES ASSUME PipelineInv, [Next]_vars
             PROVE  Passed'
  OBVIOUS
<1> USE DEF PipelineInv, Passed
<1>1. CASE ReadLine
  <2>1. PICK s \in Texts : /\ lines' = Append(lines, s)
                           /\ UNCHANGED formatterVars \/ FormatterPool!Push(Len(lines) + 1)
    BY <1>1 DEF ReadLine
  <2>2. /\ lines' \in Seq(Texts) /\ Len(lines') = Len(lines) + 1
        /\ DOMAIN lines' = 1..(Len(lines) + 1) /\ DOMAIN lines = 1..Len(lines)
        /\ Len(lines) \in Nat
    <3>1. lines' \in Seq(Texts) /\ Len(lines') = Len(lines) + 1
      BY <2>1, AppendProperties
    <3>2. QED
      BY <3>1, LenProperties
  <2>3. DOMAIN lines \subseteq DOMAIN lines' /\ Len(lines) + 1 \in DOMAIN lines'
    BY <2>2
  <2>4. Len(lines') <= MaxLines
    BY <1>1, <2>2, PipelineAssumption DEF ReadLine
  <2>5. Range(fSubmitted') \subseteq DOMAIN lines' /\ Range(fSubmitted) \subseteq Range(fSubmitted')
    <3>1. CASE UNCHANGED formatterVars
      BY <2>3, <3>1 DEF formatterVars
    <3>2. CASE FormatterPool!Push(Len(lines) + 1)
      <4>1. fSubmitted' = Append(fSubmitted, Len(lines) + 1)
        BY <3>2, FormatterSteps DEF FP!Push
      <4>2. fSubmitted \in Seq(Numbers) /\ Len(lines) + 1 \in Numbers
        BY <1>1, NextNumber DEF ReadLine, PoolsInv, FP!PoolInv, FP!PoolTypeOK
      <4>3. Range(fSubmitted') = Range(fSubmitted) \cup {Len(lines) + 1}
        BY <4>1, <4>2, Enqueue
      <4>4. QED
        BY <2>3, <4>3
    <3>3. QED
      BY <2>1, <3>1, <3>2
  <2>6. cSubmitted' = cSubmitted /\ alive' = alive
    BY <1>1 DEF ReadLine, checkerVars
  <2>7. QED
    BY <2>2, <2>4, <2>5, <2>6
<1>2. CASE SpuriousWake
  <2>1. UNCHANGED <<lines, alive, fSubmitted, cSubmitted>>
    BY <1>2, FormatterSteps, CheckerSteps
       DEF SpuriousWake, FP!SpuriousWake, CP!SpuriousWake, formatterVars, checkerVars
  <2>2. QED
    BY <2>1
<1>3. ASSUME NEW w \in Formatters, FormatterTurn(w) \/ FormatDies(w) \/ Formatted(w)
      PROVE  Passed'
  <2>1. UNCHANGED <<lines, fSubmitted, cSubmitted>> /\ alive' \in BOOLEAN
    BY <1>3, FormatterSteps
       DEF FormatterTurn, FormatDies, Die, Formatted, FP!Take, FP!Sleep, FP!Finish,
           formatterVars, checkerVars
  <2>2. QED
    BY <2>1
<1>4. ASSUME NEW w \in Formatters, Forward(w)
      PROVE  Passed'
  <2>1. fPc[w] = "run" /\ CP!Push(fJob[w]) /\ UNCHANGED <<lines, alive, formatterVars>>
    BY <1>4, CheckerSteps DEF Forward
  <2>2. fJob[w] \in Numbers /\ fJob[w] \in Range(fSubmitted)
    BY <2>1, FormatterRuns
  <2>3. cSubmitted' = Append(cSubmitted, fJob[w]) /\ cSubmitted \in Seq(Numbers)
    BY <2>1 DEF CP!Push, PoolsInv, CP!PoolInv, CP!PoolTypeOK
  <2>4. Range(cSubmitted') = Range(cSubmitted) \cup {fJob[w]}
    BY <2>2, <2>3, Enqueue
  <2>5. QED
    BY <2>1, <2>2, <2>4 DEF formatterVars
<1>5. ASSUME NEW w \in Checkers, CheckerTurn(w) \/ CheckerJob(w)
      PROVE  Passed'
  <2>1. UNCHANGED <<lines, fSubmitted, cSubmitted>> /\ alive' \in BOOLEAN
    BY <1>5, CheckerSteps
       DEF CheckerTurn, CheckerJob, CheckDies, Checked, Die, CP!Take, CP!Sleep, CP!Finish,
           formatterVars, checkerVars
  <2>2. QED
    BY <2>1
<1>6. CASE UNCHANGED vars
  BY <1>6 DEF vars, formatterVars, checkerVars
<1>7. QED
  BY <1>1, <1>2, <1>3, <1>4, <1>5, <1>6 DEF Next, FormatterJob

LEMMA UntouchedStep == PipelineInv /\ [Next]_vars => Untouched'
<1> SUFFICES ASSUME PipelineInv, [Next]_vars
             PROVE  Untouched'
  OBVIOUS
<1> USE DEF PipelineInv, Untouched
<1>0. /\ fJobs \in Seq(Numbers)
      /\ Range(fSubmitted) = Range(fJobs) \cup Range(FP!Running) \cup Range(fFinished)
  BY PoolsAssumed, FP!SubmittedOnce, OneRange DEF PoolsInv, FP!PoolInv, FP!PoolTypeOK
<1>1. ASSUME UNCHANGED <<fJobs, fHolder, fJob, cSubmitted>>
      PROVE  Untouched'
  BY <1>1 DEF FP!Running
<1>2. CASE ReadLine
  <2>1. cSubmitted' = cSubmitted
    BY <1>2 DEF ReadLine, checkerVars
  <2>2. CASE UNCHANGED formatterVars
    BY <1>1, <2>1, <2>2 DEF formatterVars
  <2>3. CASE FormatterPool!Push(Len(lines) + 1)
    <3>1. fJobs' = Append(fJobs, Len(lines) + 1) /\ UNCHANGED <<fHolder, fJob>>
      BY <2>3, FormatterSteps DEF FP!Push
    <3>2. Len(lines) + 1 \in Numbers /\ Len(lines) + 1 \notin Range(fSubmitted)
      BY <1>2, NextNumber DEF ReadLine, Passed
    <3>3. Range(fJobs') = Range(fJobs) \cup {Len(lines) + 1} /\ Distinct(fJobs')
      BY <1>0, <3>1, <3>2, Enqueue, EnqueueDistinct
    <3>4. FP!Running' = FP!Running
      BY <3>1 DEF FP!Running
    <3>5. QED
      BY <1>0, <2>1, <3>2, <3>3, <3>4 DEF Passed
  <2>4. QED
    BY <1>2, <2>2, <2>3 DEF ReadLine
<1>3. CASE SpuriousWake
  BY <1>1, <1>3, FormatterSteps, CheckerSteps
     DEF SpuriousWake, FP!SpuriousWake, CP!SpuriousWake, formatterVars, checkerVars
<1>4. ASSUME NEW w \in Formatters, FP!Take(w), cSubmitted' = cSubmitted
      PROVE  Untouched'
  <2>1. /\ fHolder' = w /\ fJobs # <<>> /\ fJobs' = Tail(fJobs)
        /\ fJob' = [fJob EXCEPT ![w] = Head(fJobs)]
    BY <1>4 DEF FP!Take
  <2>2. fJob'[w] = Head(fJobs)
    BY <2>1 DEF PoolsInv, FP!PoolInv, FP!PoolTypeOK
  <2>3. FP!Running' = <<Head(fJobs)>>
    BY <2>1, <2>2, PipelineAssumption DEF FP!Running
  <2>4. Range(<<Head(fJobs)>>) = {Head(fJobs)}
    BY DEF Range
  <2>5. /\ Range(fJobs) = {Head(fJobs)} \cup Range(Tail(fJobs))
        /\ Distinct(Tail(fJobs)) /\ Head(fJobs) \notin Range(Tail(fJobs))
    BY <1>0, <2>1, PopFront, PopDistinct
  <2>6. QED
    BY <1>4, <2>1, <2>3, <2>4, <2>5
<1>5. ASSUME NEW w \in Formatters, FP!Finish(w), cSubmitted' = cSubmitted
      PROVE  Untouched'
  <2>1. fHolder' = NoOne /\ fJobs' = fJobs
    BY <1>5 DEF FP!Finish
  <2>2. Range(FP!Running') = {}
    BY <2>1, EmptyIsDistinct DEF FP!Running
  <2>3. QED
    BY <1>5, <2>1, <2>2
<1>6. ASSUME NEW w \in Formatters, FormatterTurn(w) \/ FormatDies(w) \/ Formatted(w)
      PROVE  Untouched'
  <2>1. cSubmitted' = cSubmitted
    BY <1>6 DEF FormatterTurn, FormatDies, Formatted, Die, checkerVars
  <2>2. CASE FormatterTurn(w)
    BY <1>1, <1>4, <2>1, <2>2, FormatterSteps DEF FormatterTurn, FP!Sleep
  <2>3. CASE FormatDies(w)
    BY <1>1, <2>1, <2>3 DEF FormatDies, Die, formatterVars
  <2>4. CASE Formatted(w)
    BY <1>5, <2>1, <2>4, FormatterSteps DEF Formatted
  <2>5. QED
    BY <1>6, <2>2, <2>3, <2>4
<1>7. ASSUME NEW w \in Formatters, Forward(w)
      PROVE  Untouched'
  <2>1. fPc[w] = "run" /\ CP!Push(fJob[w]) /\ UNCHANGED formatterVars
    BY <1>7, CheckerSteps DEF Forward
  <2>2. fJob[w] \in Numbers /\ FP!Running = <<fJob[w]>>
    BY <2>1, FormatterRuns
  <2>3. cSubmitted' = Append(cSubmitted, fJob[w]) /\ cSubmitted \in Seq(Numbers)
    BY <2>1 DEF CP!Push, PoolsInv, CP!PoolInv, CP!PoolTypeOK
  <2>4. Range(cSubmitted') = Range(cSubmitted) \cup {fJob[w]}
    BY <2>2, <2>3, Enqueue
  <2>5. fJob[w] \in Range(FP!Running)
    BY <2>2 DEF Range
  <2>6. fJobs' = fJobs /\ FP!Running' = FP!Running
    BY <2>1 DEF formatterVars, FP!Running
  <2>7. QED
    BY <2>4, <2>5, <2>6
<1>8. ASSUME NEW w \in Checkers, CheckerTurn(w) \/ CheckerJob(w)
      PROVE  Untouched'
  <2>1. UNCHANGED <<fJobs, fHolder, fJob, cSubmitted>>
    BY <1>8, CheckerSteps
       DEF CheckerTurn, CheckerJob, CheckDies, Checked, Die, CP!Take, CP!Sleep, CP!Finish,
           formatterVars, checkerVars
  <2>2. QED
    BY <1>1, <2>1
<1>9. CASE UNCHANGED vars
  BY <1>1, <1>9 DEF vars, formatterVars, checkerVars
<1>10. QED
  BY <1>2, <1>3, <1>6, <1>7, <1>8, <1>9 DEF Next, FormatterJob

LEMMA PipelineInvariant == Spec => []PipelineInv
<1>1. PipelineInv /\ [Next]_vars => PipelineInv'
  BY PoolsStep, PassedStep, UntouchedStep DEF PipelineInv
<1>2. QED
  BY <1>1, PipelineInit, PTL DEF Spec

\* Type correctness of both pools, and of what runs from one into the other:
\* nothing is checked that no formatter had, and no job is of a line that has
\* not been read.
THEOREM PipelineTypeCorrect == Spec => []PipelineTypeOK
<1>1. PipelineInv => PipelineTypeOK
  <2> SUFFICES ASSUME PipelineInv PROVE PipelineTypeOK
    OBVIOUS
  <2>1. FormatterPool!PoolTypeOK /\ CheckerPool!PoolTypeOK
    BY DEF PipelineInv, PoolsInv, FP!PoolInv, FP!PoolTypeOK, CP!PoolInv, CP!PoolTypeOK,
           FormatterPool!PoolTypeOK, CheckerPool!PoolTypeOK
  <2>2. QED
    BY <2>1 DEF PipelineInv, Passed, PipelineTypeOK
<1>2. QED
  BY <1>1, PipelineInvariant, PTL

\* Two checks are never inside Checker::run at once, and two lines never inside
\* Formatter::run, although one pool pushes into the other while it holds its
\* own mutex: the checks and inserts of Checker::run rely on it.
THEOREM OneOfEachKind ==
  Spec => [](FormatterPool!OneJobAtATime /\ CheckerPool!OneJobAtATime)
<1>1. PipelineInv => FormatterPool!OneJobAtATime /\ CheckerPool!OneJobAtATime
  BY DEF PipelineInv, PoolsInv, FP!PoolInv, FP!HolderRuns, CP!PoolInv, CP!HolderRuns,
         FormatterPool!OneJobAtATime, CheckerPool!OneJobAtATime
<1>2. QED
  BY <1>1, PipelineInvariant, PTL

\* No wake-up is lost on the way either: while a line waits at either pool, one
\* of its workers is awake, a line that a formatter has pushed included.
THEOREM NobodySleepsOnALine ==
  Spec => [](FormatterPool!SomeoneIsAwake /\ CheckerPool!SomeoneIsAwake)
<1>1. Init => FP!SomeoneIsAwake /\ CP!SomeoneIsAwake
  BY DEF Init, FormatterPool!Init, CheckerPool!Init, FP!SomeoneIsAwake, CP!SomeoneIsAwake
<1>2. PipelineInv /\ FP!SomeoneIsAwake /\ [Next]_vars => FP!SomeoneIsAwake'
  BY PoolsAssumed, FormatterMoves, FP!AwakeStep DEF PipelineInv, PoolsInv
<1>3. PipelineInv /\ CP!SomeoneIsAwake /\ [Next]_vars => CP!SomeoneIsAwake'
  BY PoolsAssumed, CheckerMoves, CP!AwakeStep DEF PipelineInv, PoolsInv
<1>4. FP!SomeoneIsAwake /\ CP!SomeoneIsAwake
        => FormatterPool!SomeoneIsAwake /\ CheckerPool!SomeoneIsAwake
  BY DEF FP!SomeoneIsAwake, CP!SomeoneIsAwake,
         FormatterPool!SomeoneIsAwake, CheckerPool!SomeoneIsAwake
<1>5. QED
  BY <1>1, <1>2, <1>3, <1>4, PipelineInvariant, PTL DEF Spec
-----------------------------------------------------------------------------
(***************************************************************************)
(* The refinement: the two pools in a row are one executor.  First what    *)
(* becomes of a queue's lines with data when the queue changes.            *)
(***************************************************************************)
Those(queue, D) == KeptAt(queue, {i \in DOMAIN queue : queue[i] \in D})

LEMMA ThoseType ==
  ASSUME NEW q \in Seq(Numbers), NEW D
  PROVE  Those(q, D) \in Seq(Numbers) /\ Range(Those(q, D)) \subseteq Range(q)
<1>1. {i \in DOMAIN q : q[i] \in D} \in SUBSET (1..Len(q))
  BY LenProperties
<1>2. QED
  BY <1>1, KeptType DEF Those

LEMMA ThoseNone == ASSUME NEW D PROVE Those(<<>>, D) = <<>>
<1>1. {i \in DOMAIN <<>> : <<>>[i] \in D} = {} /\ <<>> \in Seq(Numbers)
  BY EmptySeq
<1>2. QED
  BY <1>1, KeptNone DEF Those

LEMMA ThoseFrame ==
  ASSUME NEW q \in Seq(Numbers), NEW D, NEW E, \A n \in Range(q) : n \in D <=> n \in E
  PROVE  Those(q, D) = Those(q, E)
<1>1. \A i \in DOMAIN q : q[i] \in D <=> q[i] \in E
  BY DEF Range
<1>2. {i \in DOMAIN q : q[i] \in D} = {i \in DOMAIN q : q[i] \in E}
  BY <1>1
<1>3. QED
  BY <1>2 DEF Those

LEMMA ThoseAppend ==
  ASSUME NEW q \in Seq(Numbers), NEW n \in Numbers, NEW D
  PROVE  Those(Append(q, n), D) = IF n \in D THEN Append(Those(q, D), n) ELSE Those(q, D)
<1> DEFINE P == {i \in DOMAIN q : q[i] \in D}
           r == Append(q, n)
           R == {i \in DOMAIN r : r[i] \in D}
<1>1. /\ Len(q) \in Nat /\ DOMAIN q = 1..Len(q)
      /\ r \in Seq(Numbers) /\ Len(r) = Len(q) + 1
      /\ \A i \in 1..Len(q) : r[i] = q[i]
      /\ r[Len(q) + 1] = n
  BY LenProperties, AppendProperties
<1>2. DOMAIN r = 1..(Len(q) + 1)
  BY <1>1, LenProperties
<1>3. P \in SUBSET (1..Len(q))
  BY <1>1
<1> HIDE DEF r
<1>4. KeptAt(r, P) = KeptAt(q, P) /\ KeptAt(r, P \cup {Len(q) + 1}) = Append(KeptAt(q, P), n)
  BY <1>3, KeptAppend DEF r
<1>5. R = IF n \in D THEN P \cup {Len(q) + 1} ELSE P
  <2>1. \A i \in 1..(Len(q) + 1) : i \in 1..Len(q) \/ i = Len(q) + 1
    BY <1>1
  <2>2. \A i \in 1..Len(q) : i \in 1..(Len(q) + 1) /\ i # Len(q) + 1
    BY <1>1
  <2>3. Len(q) + 1 \in 1..(Len(q) + 1)
    BY <1>1
  <2>4. QED
    BY <1>1, <1>2, <2>1, <2>2, <2>3
<1>6. QED
  BY <1>4, <1>5 DEF Those, r

LEMMA ThoseCons ==
  ASSUME NEW q \in Seq(Numbers), NEW n \in Numbers, NEW D
  PROVE  Those(<<n>> \o q, D) = IF n \in D THEN <<n>> \o Those(q, D) ELSE Those(q, D)
<1> DEFINE r == <<n>> \o q
           R == {i \in DOMAIN r : r[i] \in D}
<1>1. /\ Len(q) \in Nat /\ DOMAIN q = 1..Len(q)
      /\ DOMAIN r = 1..(Len(q) + 1)
      /\ r[1] = n /\ \A i \in 1..Len(q) : r[i + 1] = q[i]
  <2>1. Len(q) \in Nat /\ DOMAIN q = 1..Len(q)
    BY LenProperties
  <2>2. <<n>> \in Seq(Numbers) /\ Len(<<n>>) = 1 /\ <<n>>[1] = n
    OBVIOUS
  <2>3. /\ r \in Seq(Numbers) /\ Len(r) = 1 + Len(q)
        /\ \A i \in 1..(1 + Len(q)) : r[i] = IF i <= 1 THEN <<n>>[i] ELSE q[i - 1]
    BY <2>2, ConcatProperties
  <2> HIDE DEF r
  <2>4. DOMAIN r = 1..(Len(q) + 1)
    BY <2>1, <2>3, LenProperties
  <2>5. r[1] = n /\ \A i \in 1..Len(q) : r[i + 1] = q[i]
    BY <2>1, <2>2, <2>3
  <2>6. QED
    BY <2>1, <2>4, <2>5
<1> HIDE DEF r
<1>2. R \in SUBSET (1..(Len(q) + 1)) /\ (1 \in R <=> n \in D)
  BY <1>1
<1> HIDE DEF R
<1>3. KeptAt(r, R) = IF 1 \in R THEN <<n>> \o KeptAt(q, Behind(R, Len(q)))
                                ELSE KeptAt(q, Behind(R, Len(q)))
  BY <1>2, KeptCons DEF r
<1>4. Behind(R, Len(q)) = {i \in DOMAIN q : q[i] \in D}
  <2>1. \A i \in 1..Len(q) : i + 1 \in 1..(Len(q) + 1)
    BY <1>1
  <2>2. QED
    BY <1>1, <2>1 DEF Behind, R
<1>5. QED
  BY <1>2, <1>3, <1>4 DEF Those, r, R

\* A line of which an ap or a station can be made is never one without data.
LEMMA DataOrNone ==
  ASSUME NEW s, NEW o \in Format(s), o.kind \in {"ap", "apstation"}
  PROVE  [kind |-> "none"] \notin Format(s)
<1> DEFINE none == [kind |-> "none"]
<1>1. none.kind = "none" /\ Dies.kind = "dies"
  BY DEF Dies
<1>2. CASE Kind(Strip(s)) = "none"
  BY <1>1, <1>2 DEF Format
<1>3. CASE Kind(Strip(s)) # "none"
  <2>1. \A q \in Format(s) : q.kind \in {"ap", "apstation", "dies"}
    BY <1>1, <1>3 DEF Format
  <2>2. QED
    BY <1>1, <2>1
<1>4. QED
  BY <1>2, <1>3
-----------------------------------------------------------------------------
\* The numbers of lines with data, the lines no formatter has handed on, and
\* what waits in the chain.
DataLines == {n \in Numbers : IsData(n)}
Left == InFormatter \o fJobs
Waiting == cJobs \o WithData(Left)

ChainFacts ==
    PipelineInv => /\ Left \in Seq(Numbers) /\ Range(Left) \subseteq Range(fSubmitted)
                   /\ fJobs \in Seq(Numbers) /\ cJobs \in Seq(Numbers)
                   /\ Waiting = cJobs \o Those(Left, DataLines)

LEMMA ChainHolds == ChainFacts
<1> SUFFICES ASSUME PipelineInv
             PROVE  /\ Left \in Seq(Numbers) /\ Range(Left) \subseteq Range(fSubmitted)
                    /\ fJobs \in Seq(Numbers) /\ cJobs \in Seq(Numbers)
                    /\ Waiting = cJobs \o Those(Left, DataLines)
  BY DEF ChainFacts
<1>1. /\ fJobs \in Seq(Numbers) /\ cJobs \in Seq(Numbers)
      /\ Range(fSubmitted) = Range(fJobs) \cup Range(FP!Running) \cup Range(fFinished)
  BY PoolsAssumed, FP!SubmittedOnce, OneRange
     DEF PipelineInv, PoolsInv, FP!PoolInv, FP!PoolTypeOK, CP!PoolInv, CP!PoolTypeOK
<1>2. FP!Running \in Seq(Numbers)
  BY PoolsAssumed, FP!RunningType DEF PipelineInv, PoolsInv
<1>3. InFormatter = <<>> \/ InFormatter = FP!Running
  BY DEF InFormatter, FP!Running
<1>4. InFormatter \in Seq(Numbers) /\ Range(InFormatter) \subseteq Range(FP!Running)
  <2>1. <<>> \in Seq(Numbers) /\ Range(<<>>) \subseteq Range(FP!Running)
    BY EmptySeq, EmptyIsDistinct
  <2>2. QED
    BY <1>2, <1>3, <2>1
<1>5. Left \in Seq(Numbers) /\ Range(Left) = Range(InFormatter) \cup Range(fJobs)
  BY <1>1, <1>4, ConcatProperties, RangeConcatenation DEF Left
<1>6. WithData(Left) = Those(Left, DataLines)
  <2>1. \A i \in DOMAIN Left : Left[i] \in Numbers
    BY <1>5, LenProperties, ElementOfSeq
  <2>2. {i \in DOMAIN Left : IsData(Left[i])} = {i \in DOMAIN Left : Left[i] \in DataLines}
    BY <2>1 DEF DataLines
  <2>3. QED
    BY <2>2 DEF WithData, Those
<1>7. QED
  BY <1>1, <1>4, <1>5, <1>6 DEF Waiting

LEMMA ChainHoldsNext == ChainFacts'
  BY ChainHolds, PTL

\* What is waiting in the chain stays, or the change is that of SerialExecutor.
Stays == UNCHANGED <<Waiting, CP!Running, cFinished>>

LEMMA SameLines == UNCHANGED lines => DataLines' = DataLines
  BY DEF DataLines, IsData, Outcomes

\* A line keeps its text when another is read.
LEMMA OlderLines ==
  ASSUME PipelineInv, NEW s \in Texts, lines' = Append(lines, s)
  PROVE  \A n \in DOMAIN lines : n \in DataLines <=> n \in DataLines'
<1>1. \A n \in DOMAIN lines : lines'[n] = lines[n]
  BY LenProperties, AppendProperties DEF PipelineInv, Passed
<1>2. QED
  BY <1>1 DEF DataLines, IsData, Outcomes

LEMMA SameFormatter ==
  ASSUME PipelineInv, PipelineInv', Left' = Left, UNCHANGED <<lines, cJobs>>
  PROVE  Waiting' = Waiting
  BY ChainHolds, ChainHoldsNext, SameLines DEF ChainFacts

\* A line is read: with data it joins the end of the chain.
LEMMA ChainReads ==
  ASSUME PipelineInv, PipelineInv', ReadLine
  PROVE  Stays \/ \E n \in Numbers : Chain!Submit(n)
<1> USE DEF Stays
<1>1. PICK s \in Texts : /\ lines' = Append(lines, s)
                         /\ UNCHANGED formatterVars \/ FormatterPool!Push(Len(lines) + 1)
  BY DEF ReadLine
<1>2. UNCHANGED checkerVars
  BY DEF ReadLine
<1>3. UNCHANGED <<cJobs, cHolder, cJob, cSubmitted, cFinished>> /\ CP!Running' = CP!Running
  BY <1>2 DEF checkerVars, CP!Running
<1>4. PICK D, E : D = DataLines /\ E = DataLines'
  OBVIOUS
<1>5. \A n \in DOMAIN lines : n \in D <=> n \in E
  BY <1>1, <1>4, OlderLines
<1>6. PICK q : q = Left
  OBVIOUS
<1>7. /\ q \in Seq(Numbers) /\ Range(q) \subseteq DOMAIN lines
      /\ cJobs \in Seq(Numbers) /\ fJobs \in Seq(Numbers)
      /\ Waiting = cJobs \o Those(q, D)
  BY <1>4, <1>6, ChainHolds DEF ChainFacts, PipelineInv, Passed
<1>8. Waiting' = cJobs \o Those(Left', E)
  BY <1>3, <1>4, ChainHoldsNext DEF ChainFacts
<1>9. Those(q, E) = Those(q, D)
  BY <1>5, <1>7, ThoseFrame
<1>10. CASE UNCHANGED formatterVars
  <2>1. Left' = q
    BY <1>3, <1>6, <1>10 DEF Left, InFormatter, formatterVars
  <2>2. QED
    BY <1>3, <1>7, <1>8, <1>9, <2>1
<1>11. CASE FormatterPool!Push(Len(lines) + 1)
  <2>1. PICK n : n = Len(lines) + 1
    OBVIOUS
  <2>2. n \in Numbers /\ n \notin DOMAIN lines
    BY <2>1, NextNumber DEF ReadLine
  <2>3. /\ fHolder = NoOne /\ fHolder' = NoOne /\ fJobs' = Append(fJobs, n)
    BY <1>11, <2>1, FormatterSteps DEF FP!Push
  <2>4. q = fJobs
    BY <1>6, <1>7, <2>3, ConcatEmptySeq DEF Left, InFormatter
  <2>5. Left' = Append(q, n)
    <3>1. Append(fJobs, n) \in Seq(Numbers)
      BY <1>7, <2>2, AppendProperties
    <3>2. Left' = <<>> \o Append(fJobs, n)
      BY <2>3 DEF Left, InFormatter
    <3>3. QED
      BY <2>4, <3>1, <3>2, ConcatEmptySeq
  <2>6. PICK t : t = Those(q, D)
    OBVIOUS
  <2>7. t \in Seq(Numbers) /\ Range(t) \subseteq Range(q)
    BY <1>7, <2>6, ThoseType
  <2>8. Those(Append(q, n), E) = IF n \in E THEN Append(t, n) ELSE t
    BY <1>7, <1>9, <2>2, <2>6, ThoseAppend
  <2>9. CASE n \notin E
    BY <1>3, <1>7, <1>8, <2>5, <2>6, <2>8, <2>9
  <2>10. CASE n \in E
    <3>1. Waiting = cJobs \o t /\ Waiting' = cJobs \o Append(t, n)
      BY <1>7, <1>8, <2>5, <2>6, <2>8, <2>10
    <3>2. cJobs \o Append(t, n) = Append(cJobs \o t, n)
      <4>1. <<n>> \in Seq(Numbers) /\ cJobs \o t \in Seq(Numbers)
        BY <1>7, <2>2, <2>7, ConcatProperties
      <4>2. Append(t, n) = t \o <<n>> /\ Append(cJobs \o t, n) = (cJobs \o t) \o <<n>>
        BY <2>2, <2>7, <4>1, AppendIsConcat
      <4>3. QED
        BY <1>7, <2>7, <4>1, <4>2, ConcatAssociative
    <3>3. Range(Waiting) = Range(cJobs) \cup Range(t)
      <4>1. cJobs \in Seq(Numbers) /\ t \in Seq(Numbers)
        BY <1>7, <2>7
      <4>2. Range(cJobs \o t) = Range(cJobs) \cup Range(t)
        BY <4>1, RangeConcatenation
      <4>3. QED
        BY <3>1, <4>2, Zenon
    <3>4. Range(cSubmitted) = Range(cJobs) \cup Range(CP!Running) \cup Range(cFinished)
      BY PoolsAssumed, CP!SubmittedOnce, OneRange DEF PipelineInv, PoolsInv
    <3>5. Range(cSubmitted) \subseteq DOMAIN lines
      BY DEF PipelineInv, Passed
    <3>6. n \notin Range(Waiting) \cup Range(CP!Running) \cup Range(cFinished)
      BY <1>7, <2>2, <2>7, <3>3, <3>4, <3>5
    <3>7. Waiting' = Append(Waiting, n)
      BY <3>1, <3>2
    <3>8. Chain!Submit(n)
      BY <1>3, <3>6, <3>7
         DEF Chain!Submit, Chain!Range, Range, Waiting, Left, CheckerPool!Running, CP!Running
    <3>9. QED
      BY <2>2, <3>8
  <2>11. QED
    BY <2>9, <2>10
<1>12. QED
  BY <1>1, <1>10, <1>11

\* A formatter takes a line, hands it on, or is done with it: nothing the
\* chain shows.
LEMMA ChainTakes ==
  ASSUME PipelineInv, PipelineInv', NEW w \in Formatters, FP!Take(w),
         UNCHANGED <<lines, checkerVars>>
  PROVE  Stays
<1>1. /\ fHolder = NoOne /\ fHolder' = w /\ w # NoOne
      /\ fJobs # <<>> /\ fJobs' = Tail(fJobs) /\ fJob' = [fJob EXCEPT ![w] = Head(fJobs)]
  BY PipelineAssumption DEF FP!Take
<1>2. fJob'[w] = Head(fJobs)
  BY <1>1 DEF PipelineInv, PoolsInv, FP!PoolInv, FP!PoolTypeOK
<1>3. fJobs \in Seq(Numbers)
  BY ChainHolds DEF ChainFacts
<1>4. Head(fJobs) \notin Range(cSubmitted)
  BY <1>1, <1>3, PopFront DEF PipelineInv, Untouched
<1>5. InFormatter = <<>> /\ InFormatter' = <<Head(fJobs)>>
  BY <1>1, <1>2, <1>4 DEF InFormatter, checkerVars
<1>6. <<Head(fJobs)>> \o Tail(fJobs) = fJobs
  BY <1>1, <1>3, PoolsAssumed, FP!HeadThenTail
<1>7. Left' = Left
  BY <1>1, <1>3, <1>5, <1>6, ConcatEmptySeq DEF Left
<1>8. Waiting' = Waiting
  BY <1>7, SameFormatter DEF checkerVars
<1>9. QED
  BY <1>8 DEF Stays, CP!Running, checkerVars

LEMMA ChainForwards ==
  ASSUME PipelineInv, PipelineInv', NEW w \in Formatters, Forward(w)
  PROVE  Stays
<1> DEFINE n == fJob[w]
           X == Those(fJobs, DataLines)
<1>1. /\ fPc[w] = "run" /\ CP!Push(n) /\ UNCHANGED <<lines, formatterVars>>
      /\ \E o \in Outcomes(n) : o.kind \in {"ap", "apstation"}
  BY CheckerSteps DEF Forward
<1>2. /\ fHolder = w /\ fHolder # NoOne /\ n \in Numbers /\ n \in Range(fSubmitted)
      /\ FP!Running = <<n>>
  BY <1>1, FormatterRuns
<1>3. /\ n \notin Range(cSubmitted) /\ cSubmitted' = Append(cSubmitted, n)
      /\ cJobs' = Append(cJobs, n) /\ UNCHANGED <<cHolder, cJob, cFinished>>
  BY <1>1, OneRange DEF CP!Push
<1>4. n \in Range(cSubmitted')
  <2>1. cSubmitted \in Seq(Numbers)
    BY DEF PipelineInv, PoolsInv, CP!PoolInv, CP!PoolTypeOK
  <2>2. QED
    BY <1>2, <1>3, <2>1, Enqueue
<1>5. n \in DataLines
  <2>1. lines[n] \in Texts
    <3>1. n \in DOMAIN lines
      BY <1>2 DEF PipelineInv, Passed
    <3>2. QED
      BY <3>1, LenProperties, ElementOfSeq DEF PipelineInv, Passed
  <2>2. Outcomes(n) = Format(lines[n])
    BY <2>1 DEF Outcomes, Parsed
  <2>3. [kind |-> "none"] \notin Outcomes(n)
    BY <1>1, <2>2, DataOrNone
  <2>4. QED
    BY <1>2, <2>3 DEF DataLines, IsData
<1>6. PICK m \in Numbers, D \in {DataLines} : m = n
  BY <1>2
<1>7. fJobs \in Seq(Numbers) /\ cJobs \in Seq(Numbers)
  BY ChainHolds DEF ChainFacts
<1>8. Left = <<m>> \o fJobs
  BY <1>2, <1>3, <1>6 DEF Left, InFormatter
<1>9. Left' = fJobs
  <2>1. InFormatter' = <<>> /\ fJobs' = fJobs
    BY <1>1, <1>2, <1>4 DEF InFormatter, formatterVars
  <2>2. QED
    BY <1>7, <2>1, ConcatEmptySeq DEF Left
<1>10. PICK t : t = Those(fJobs, D)
  OBVIOUS
<1>11. t \in Seq(Numbers)
  BY <1>7, <1>10, ThoseType
<1>12. Waiting = cJobs \o (<<m>> \o t)
  <2>1. Those(<<m>> \o fJobs, D) = <<m>> \o t
    BY <1>5, <1>6, <1>7, <1>10, ThoseCons
  <2>2. QED
    BY <1>6, <1>8, <2>1, ChainHolds DEF ChainFacts
<1>13. Waiting' = Append(cJobs, m) \o t
  BY <1>1, <1>3, <1>6, <1>9, <1>10, ChainHoldsNext, SameLines DEF ChainFacts
<1>14. Waiting' = Waiting
  <2>1. <<m>> \in Seq(Numbers) /\ Append(cJobs, m) = cJobs \o <<m>>
    BY <1>7, AppendIsConcat
  <2>2. QED
    BY <1>7, <1>11, <1>12, <1>13, <2>1, ConcatAssociative
<1>15. QED
  BY <1>3, <1>14 DEF Stays, CP!Running

LEMMA ChainLetsGo ==
  ASSUME PipelineInv, PipelineInv', NEW w \in Formatters, Formatted(w)
  PROVE  Stays
<1> DEFINE n == fJob[w]
<1>1. /\ FP!Finish(w) /\ fPc[w] = "run" /\ UNCHANGED <<lines, checkerVars>>
      /\ n \in Range(cSubmitted) \/ [kind |-> "none"] \in Outcomes(n)
  BY FormatterSteps DEF Formatted, FP!Finish
<1>2. fHolder = w /\ fHolder # NoOne /\ n \in Numbers
  BY <1>1, FormatterRuns
<1>3. fHolder' = NoOne /\ fJobs' = fJobs
  BY <1>1 DEF FP!Finish
<1>4. fJobs \in Seq(Numbers) /\ cJobs' = cJobs
  BY <1>1, ChainHolds DEF ChainFacts, checkerVars
<1>5. Left' = fJobs
  BY <1>3, <1>4, ConcatEmptySeq DEF Left, InFormatter
<1>6. Waiting' = Waiting
  <2>1. CASE n \in Range(cSubmitted)
    <3>1. Left = fJobs
      BY <1>2, <1>4, <2>1, ConcatEmptySeq DEF Left, InFormatter
    <3>2. QED
      BY <1>1, <1>4, <1>5, <3>1, SameFormatter
  <2>2. CASE n \notin Range(cSubmitted)
    <3>1. PICK m \in Numbers, D \in {DataLines} : m = n
      BY <1>2
    <3>2. m \notin D
      BY <1>1, <2>2, <3>1 DEF DataLines, IsData
    <3>3. Left = <<m>> \o fJobs
      BY <1>2, <2>2, <3>1 DEF Left, InFormatter
    <3>4. Those(<<m>> \o fJobs, D) = Those(fJobs, D)
      BY <1>4, <3>2, ThoseCons
    <3>5. Waiting = cJobs \o Those(fJobs, D)
      BY <3>1, <3>3, <3>4, ChainHolds DEF ChainFacts
    <3>6. Waiting' = cJobs \o Those(fJobs, D)
      BY <1>1, <1>4, <1>5, <3>1, ChainHoldsNext, SameLines DEF ChainFacts
    <3>7. QED
      BY <3>5, <3>6
  <2>3. QED
    BY <2>1, <2>2
<1>7. QED
  BY <1>1, <1>6 DEF Stays, CP!Running, checkerVars

\* A checker takes the oldest line of the chain.
LEMMA ChainStarts ==
  ASSUME PipelineInv, PipelineInv', NEW w \in Checkers, CP!Take(w),
         UNCHANGED <<lines, formatterVars>>
  PROVE  Chain!Start
<1>1. /\ cHolder = NoOne /\ cHolder' = w /\ w # NoOne
      /\ cJobs # <<>> /\ cJobs' = Tail(cJobs) /\ cJob' = [cJob EXCEPT ![w] = Head(cJobs)]
      /\ UNCHANGED <<cSubmitted, cFinished>>
  BY PipelineAssumption DEF CP!Take
<1>2. cJob'[w] = Head(cJobs)
  BY <1>1 DEF PipelineInv, PoolsInv, CP!PoolInv, CP!PoolTypeOK
<1>3. CP!Running = <<>> /\ CP!Running' = <<Head(cJobs)>>
  BY <1>1, <1>2 DEF CP!Running
<1>4. Left' = Left
  BY <1>1 DEF Left, InFormatter, formatterVars
<1>5. PICK t : t = Those(Left, DataLines)
  OBVIOUS
<1>6. /\ cJobs \in Seq(Numbers) /\ t \in Seq(Numbers)
      /\ Waiting = cJobs \o t
  BY <1>5, ChainHolds, ThoseType DEF ChainFacts
<1>7. Waiting' = Tail(cJobs) \o t
  BY <1>1, <1>4, <1>5, ChainHoldsNext, SameLines DEF ChainFacts
<1>8. Waiting # <<>> /\ Head(Waiting) = Head(cJobs) /\ Waiting' = Tail(Waiting)
  BY <1>1, <1>6, <1>7, FrontOfConcat
<1>9. QED
  BY <1>1, <1>3, <1>8 DEF Chain!Start, Waiting, Left, CheckerPool!Running, CP!Running

LEMMA ChainCompletes ==
  ASSUME PipelineInv, PipelineInv', NEW w \in Checkers, CP!Finish(w),
         UNCHANGED <<lines, formatterVars>>
  PROVE  Chain!Complete
<1>1. /\ cPc[w] = "run" /\ cHolder' = NoOne /\ cFinished' = Append(cFinished, cJob[w])
      /\ UNCHANGED <<cJobs, cSubmitted>>
  BY DEF CP!Finish
<1>2. CP!Running = <<cJob[w]>> /\ CP!Running' = <<>>
  BY <1>1, CheckerRuns DEF CP!Running
<1>3. Left' = Left
  BY <1>1 DEF Left, InFormatter, formatterVars
<1>4. Waiting' = Waiting
  BY <1>1, <1>3, SameFormatter
<1>5. QED
  BY <1>1, <1>2, <1>4 DEF Chain!Complete, Waiting, Left, CheckerPool!Running, CP!Running

\* A step that touches nothing the chain is made of.
LEMMA ChainRests ==
  ASSUME PipelineInv, PipelineInv',
         UNCHANGED <<lines, fJobs, fHolder, fJob, cJobs, cHolder, cJob, cSubmitted, cFinished>>
  PROVE  Stays
<1>1. Left' = Left
  BY DEF Left, InFormatter
<1>2. Waiting' = Waiting
  BY <1>1, SameFormatter
<1>3. QED
  BY <1>2 DEF Stays, CP!Running

LEMMA ChainStep ==
  PipelineInv /\ PipelineInv' /\ [Next]_vars => [Chain!Next]_(Chain!vars)
<1> SUFFICES ASSUME PipelineInv, PipelineInv', [Next]_vars
             PROVE  [Chain!Next]_(Chain!vars)
  OBVIOUS
<1>1. Stays => UNCHANGED Chain!vars
  BY DEF Stays, Chain!vars, Waiting, Left, CheckerPool!Running, CP!Running
<1>2. CASE ReadLine
  BY <1>1, <1>2, ChainReads DEF Chain!Next
<1>3. CASE SpuriousWake
  <2>1. UNCHANGED <<lines, fJobs, fHolder, fJob, cJobs, cHolder, cJob, cSubmitted, cFinished>>
    BY <1>3, FormatterSteps, CheckerSteps
       DEF SpuriousWake, FP!SpuriousWake, CP!SpuriousWake, formatterVars, checkerVars
  <2>2. QED
    BY <1>1, <2>1, ChainRests
<1>4. ASSUME NEW w \in Formatters, FormatterTurn(w)
      PROVE  [Chain!Next]_(Chain!vars)
  <2>1. (FP!Take(w) \/ FP!Sleep(w)) /\ UNCHANGED <<lines, checkerVars>>
    BY <1>4, FormatterSteps DEF FormatterTurn
  <2>2. CASE FP!Take(w)
    BY <1>1, <2>1, <2>2, ChainTakes
  <2>3. CASE FP!Sleep(w)
    BY <1>1, <2>1, <2>3, ChainRests DEF FP!Sleep, checkerVars
  <2>4. QED
    BY <2>1, <2>2, <2>3
<1>5. ASSUME NEW w \in Formatters, FormatterJob(w)
      PROVE  [Chain!Next]_(Chain!vars)
  <2>1. CASE Forward(w)
    BY <1>1, <2>1, ChainForwards
  <2>2. CASE FormatDies(w)
    BY <1>1, <2>2, ChainRests DEF FormatDies, Die, formatterVars, checkerVars
  <2>3. CASE Formatted(w)
    BY <1>1, <2>3, ChainLetsGo
  <2>4. QED
    BY <1>5, <2>1, <2>2, <2>3 DEF FormatterJob
<1>6. ASSUME NEW w \in Checkers, CheckerTurn(w)
      PROVE  [Chain!Next]_(Chain!vars)
  <2>1. (CP!Take(w) \/ CP!Sleep(w)) /\ UNCHANGED <<lines, formatterVars>>
    BY <1>6, CheckerSteps DEF CheckerTurn
  <2>2. CASE CP!Take(w)
    BY <2>1, <2>2, ChainStarts DEF Chain!Next
  <2>3. CASE CP!Sleep(w)
    BY <1>1, <2>1, <2>3, ChainRests DEF CP!Sleep, formatterVars
  <2>4. QED
    BY <2>1, <2>2, <2>3
<1>7. ASSUME NEW w \in Checkers, CheckerJob(w)
      PROVE  [Chain!Next]_(Chain!vars)
  <2>1. CASE CheckDies(w)
    BY <1>1, <2>1, ChainRests DEF CheckDies, Die, formatterVars, checkerVars
  <2>2. CASE Checked(w)
    BY <2>2, CheckerSteps, ChainCompletes DEF Checked, Chain!Next
  <2>3. QED
    BY <1>7, <2>1, <2>2 DEF CheckerJob
<1>8. CASE UNCHANGED vars
  BY <1>1, <1>8, ChainRests DEF vars, formatterVars, checkerVars
<1>9. QED
  BY <1>2, <1>3, <1>4, <1>5, <1>6, <1>7, <1>8 DEF Next

\* Both pools in a row, with any number of workers in each and the formatter's
\* push made while its own mutex is held, check the lines with data each once,
\* one at a time, in the order in which they were read.
THEOREM ChainIsAnExecutor == Spec => ImplementsSerialExecutor
<1>1. Init => Chain!Init
  <2> SUFFICES ASSUME Init PROVE Chain!Init
    OBVIOUS
  <2>1. /\ fJobs = <<>> /\ fHolder = NoOne /\ cJobs = <<>> /\ cHolder = NoOne
        /\ cFinished = <<>>
    BY DEF Init, FormatterPool!Init, CheckerPool!Init
  <2>2. Left = <<>>
    BY <2>1, ConcatEmptySeq, EmptySeq DEF Left, InFormatter
  <2>3. PICK D : D = DataLines
    OBVIOUS
  <2>4. Waiting = <<>> \o Those(<<>>, D)
    BY <2>1, <2>2, <2>3, PipelineInit, ChainHolds DEF ChainFacts
  <2>5. Waiting = <<>>
    BY <2>4, ThoseNone, ConcatEmptySeq, EmptySeq
  <2>6. QED
    BY <2>1, <2>5 DEF Chain!Init, Waiting, Left, CheckerPool!Running
<1>2. QED
  BY <1>1, ChainStep, PipelineInvariant, PTL DEF Spec, ImplementsSerialExecutor, Chain!Spec
-----------------------------------------------------------------------------
(***************************************************************************)
(* The parser.  A scan goes to the first character of its kind, or to      *)
(* end(): never beyond a place where such a character stands.              *)
(***************************************************************************)
Found(s, i, C, f) ==
    /\ f \in i..(Len(s) + 1)
    /\ f <= Len(s) => s[f] \in C
    /\ \A j \in i..Len(s) : s[j] \in C => f <= j

LEMMA Scan ==
  ASSUME NEW S, NEW s \in Seq(S), NEW i \in 1..(Len(s) + 1), NEW C
  PROVE  Found(s, i, C, FirstIn(s, i, C))
<1> DEFINE n == Len(s) + 1
           P == {j \in i..Len(s) : s[j] \in C} \cup {n}
<1>1. Len(s) \in Nat
  BY LenProperties
<1>2. P \in SUBSET (1..n) /\ P # {} /\ n \in Nat
  BY <1>1
<1>3. \E f \in P : \A j \in P : f <= j
  <2> HIDE DEF P, n
  <2>1. QED
    BY <1>2, FirstPlace
<1>4. FirstIn(s, i, C) \in P /\ \A j \in P : FirstIn(s, i, C) <= j
  BY <1>3 DEF FirstIn, Min
<1>5. PICK f \in P : f = FirstIn(s, i, C) /\ \A j \in P : f <= j
  BY <1>4
<1>6. f \in i..n /\ (f <= Len(s) => s[f] \in C)
  BY <1>1
<1>7. \A j \in i..Len(s) : s[j] \in C => f <= j
  BY <1>5
<1>8. QED
  BY <1>5, <1>6, <1>7 DEF Found

\* The loop that keeps the characters, once heading is false, as an equation.
KeptBy(s, f) ==
    f = [i \in 1..(Len(s) + 1) |->
            IF AfterCode(s, i) > Len(s) THEN <<>>
            ELSE <<s[AfterCode(s, i)]>> \o f[AfterCode(s, i) + 1]]

LEMMA AfterCodeFound ==
  ASSUME NEW s \in Seq(Characters), NEW i \in 1..(Len(s) + 1)
  PROVE  /\ AfterCode(s, i) \in i..(Len(s) + 1)
         /\ AfterCode(s, i) <= Len(s) => s[AfterCode(s, i)] # ESC
<1>1. Len(s) \in Nat
  BY LenProperties
<1>2. Found(s, i, {" "}, NextSpace(s, i))
  BY Scan DEF NextSpace
<1>3. ESC # " "
  BY DEF ESC
<1>4. CASE i <= Len(s) /\ s[i] = ESC
  <2>1. AfterCode(s, i) = NextSpace(s, i)
    BY <1>4 DEF AfterCode
  <2>2. QED
    BY <1>2, <1>3, <2>1 DEF Found
<1>5. CASE ~(i <= Len(s) /\ s[i] = ESC)
  <2>1. AfterCode(s, i) = i /\ i \in i..(Len(s) + 1)
    BY <1>1, <1>5 DEF AfterCode
  <2>2. QED
    BY <1>5, <2>1
<1>6. QED
  BY <1>4, <1>5

\* The equation has a solution: the loop goes to the right only.
LEMMA KeptExists ==
  ASSUME NEW s \in Seq(Characters)
  PROVE  \E f : KeptBy(s, f)
<1> DEFINE n == Len(s) + 1
           to == [i \in 1..n |-> AfterCode(s, i)]
           \* g solves the equation from k on.
           Solves(g, k) == g = [i \in k..n |-> IF to[i] > Len(s) THEN <<>>
                                               ELSE <<s[to[i]]>> \o g[to[i] + 1]]
           P == {k \in 1..n : ~\E g : Solves(g, k)}
<1>1. Len(s) \in Nat /\ n \in Nat
  BY LenProperties
<1>2. \A i \in 1..n : to[i] \in i..n
  BY AfterCodeFound
<1> HIDE DEF to
<1>3. ASSUME P # {}
      PROVE  FALSE
  <2>1. PICK k \in P : \A j \in P : j <= k
    <3>1. P \in SUBSET (1..n)
      OBVIOUS
    <3> HIDE DEF P, n
    <3>2. QED
      BY <1>1, <1>3, <3>1, LastPlace
  <2>2. k \in 1..n /\ ~\E g : Solves(g, k)
    OBVIOUS
  <2>3. CASE k = n
    <3> DEFINE g == [i \in k..n |-> <<>>]
    <3>1. \A i \in k..n : to[i] > Len(s)
      BY <1>1, <1>2, <2>2, <2>3
    <3>2. Solves(g, k)
      BY <3>1
    <3>3. QED
      BY <2>2, <3>2
  <2>4. CASE k # n
    <3>1. k + 1 \in 1..n /\ ~(k + 1 <= k)
      BY <1>1, <2>2, <2>4
    <3>2. k + 1 \notin P
      BY <2>1, <3>1
    <3>3. PICK h : Solves(h, k + 1)
      BY <3>1, <3>2
    <3> DEFINE g == [i \in k..n |-> IF i = k
                                    THEN IF to[k] > Len(s) THEN <<>>
                                         ELSE <<s[to[k]]>> \o h[to[k] + 1]
                                    ELSE h[i]]
    <3>4. \A i \in k..n : to[i] <= Len(s) => to[i] + 1 \in (k + 1)..n
      BY <1>1, <1>2, <2>2
    <3>5. \A i \in (k + 1)..n : i \in k..n /\ i # k
      BY <1>1, <2>2
    <3>6. \A i \in (k + 1)..n : g[i] = h[i]
      BY <3>5
    <3>7. \A i \in (k + 1)..n : h[i] = IF to[i] > Len(s) THEN <<>>
                                       ELSE <<s[to[i]]>> \o h[to[i] + 1]
      BY <3>3
    <3>8. \A i \in k..n : to[i] <= Len(s) => g[to[i] + 1] = h[to[i] + 1]
      BY <3>4, <3>6
    <3>9. \A i \in k..n : i = k \/ i \in (k + 1)..n
      BY <1>1, <2>2
    <3>10. \A i \in k..n : to[i] \in Nat
      BY <1>1, <1>2, <2>2
    <3>11. ASSUME NEW i \in k..n
           PROVE  g[i] = IF to[i] > Len(s) THEN <<>> ELSE <<s[to[i]]>> \o g[to[i] + 1]
      <4> HIDE DEF n
      <4>1. g[i] = IF to[i] > Len(s) THEN <<>> ELSE <<s[to[i]]>> \o h[to[i] + 1]
        <5>1. CASE i = k
          BY <5>1
        <5>2. CASE i # k
          BY <3>7, <3>9, <5>2
        <5>3. QED
          BY <5>1, <5>2
      <4> HIDE DEF g
      <4>2. CASE to[i] > Len(s)
        BY <4>1, <4>2
      <4>3. CASE ~(to[i] > Len(s))
        <5>1. to[i] <= Len(s)
          BY <1>1, <3>10, <4>3
        <5>2. QED
          BY <3>8, <4>1, <4>3, <5>1
      <4>4. QED
        BY <4>2, <4>3
    <3>12. g = [i \in k..n |-> g[i]]
      OBVIOUS
    <3> HIDE DEF g
    <3>13. Solves(g, k)
      BY <3>11, <3>12
    <3>14. QED
      BY <2>2, <3>13
  <2>5. QED
    BY <2>3, <2>4
<1>4. PICK g : Solves(g, 1)
  <2>1. 1 \in 1..n
    BY <1>1
  <2>2. QED
    BY <1>3, <2>1
<1>5. KeptBy(s, g)
  <2>1. \A i \in 1..n : to[i] = AfterCode(s, i)
    BY DEF to
  <2>2. QED
    BY <1>4, <2>1 DEF KeptBy
<1>6. QED
  BY <1>5

LEMMA KeptIs ==
  ASSUME NEW s \in Seq(Characters)
  PROVE  KeptBy(s, Kept(s))
  BY KeptExists DEF KeptBy, Kept

\* From any index on, the loop keeps no ESC.
LEMMA KeptHasNoEsc ==
  ASSUME NEW s \in Seq(Characters), NEW i \in 1..(Len(s) + 1)
  PROVE  Kept(s)[i] \in Seq(Characters \ {ESC})
<1> DEFINE n == Len(s) + 1
           clean == Characters \ {ESC}
           k == Kept(s)
           to == [j \in 1..n |-> AfterCode(s, j)]
           P == {j \in 1..n : k[j] \notin Seq(clean)}
<1>1. Len(s) \in Nat /\ n \in Nat
  BY LenProperties
<1>2. \A j \in 1..n : to[j] \in j..n /\ (to[j] <= Len(s) => s[to[j]] # ESC)
  BY AfterCodeFound
<1>3. \A j \in 1..n : k[j] = IF to[j] > Len(s) THEN <<>> ELSE <<s[to[j]]>> \o k[to[j] + 1]
  <2>1. KeptBy(s, k)
    BY KeptIs
  <2> HIDE DEF k
  <2>2. QED
    BY <2>1 DEF KeptBy
<1> HIDE DEF to, k
<1>4. ASSUME P # {}
      PROVE  FALSE
  <2>1. PICK j \in P : \A l \in P : l <= j
    <3>1. P \in SUBSET (1..n)
      OBVIOUS
    <3> HIDE DEF P, n
    <3>2. QED
      BY <1>1, <1>4, <3>1, LastPlace
  <2>2. j \in 1..n /\ k[j] \notin Seq(clean) /\ to[j] \in j..n
    BY <1>2
  <2>3. CASE to[j] > Len(s)
    <3>1. k[j] = <<>>
      BY <1>3, <2>2, <2>3
    <3>2. QED
      BY <2>2, <3>1, EmptySeq
  <2>4. CASE ~(to[j] > Len(s))
    <3>1. /\ to[j] \in 1..Len(s) /\ to[j] + 1 \in 1..n /\ ~(to[j] + 1 <= j)
      BY <1>1, <2>2, <2>4
    <3>2. k[to[j] + 1] \in Seq(clean)
      BY <2>1, <3>1
    <3>3. s[to[j]] \in clean
      BY <1>2, <2>2, <3>1, ElementOfSeq
    <3>4. <<s[to[j]]>> \in Seq(clean)
      BY <3>3
    <3>5. k[j] = <<s[to[j]]>> \o k[to[j] + 1]
      BY <1>3, <2>2, <2>4
    <3>6. k[j] \in Seq(clean)
      BY <3>2, <3>4, <3>5, ConcatProperties
    <3>7. QED
      BY <2>2, <3>6
  <2>5. QED
    BY <2>3, <2>4
<1>5. QED
  BY <1>4 DEF k

\* What the loop makes of a text: no space at the beginning, no ESC behind it.
LEMMA StripClean ==
  ASSUME NEW s \in Seq(Characters)
  PROVE  /\ Strip(s) \in Seq(Characters)
         /\ Strip(s) # <<>> => Strip(s)[1] # " "
         /\ \A i \in 2..Len(Strip(s)) : Strip(s)[i] # ESC
<1> DEFINE first == SkipSpaces(s, AfterCode(s, 1))
<1>1. Len(s) \in Nat /\ 1 \in 1..(Len(s) + 1)
  BY LenProperties
<1>2. AfterCode(s, 1) \in 1..(Len(s) + 1)
  BY <1>1, AfterCodeFound
<1>3. Found(s, AfterCode(s, 1), Characters \ {" "}, first)
  BY <1>2, Scan DEF SkipSpaces
<1> HIDE DEF first
<1>4. CASE first > Len(s)
  <2>1. Strip(s) = <<>>
    BY <1>4 DEF Strip, first
  <2>2. <<>> \in Seq(Characters) /\ Len(<<>>) = 0
    BY EmptySeq
  <2>3. \A i \in 2..0 : FALSE
    OBVIOUS
  <2>4. QED
    BY <2>1, <2>2, <2>3
<1>5. CASE ~(first > Len(s))
  <2>1. PICK S, T, c, rest :
               /\ S = Characters /\ T = Characters \ {ESC} /\ T \in SUBSET S
               /\ c \in S /\ c # " " /\ rest \in Seq(T)
               /\ Strip(s) = <<c>> \o rest
    <3>1. first \in 1..Len(s) /\ s[first] \in Characters \ {" "} /\ first + 1 \in 1..(Len(s) + 1)
      <4>1. /\ first \in AfterCode(s, 1)..(Len(s) + 1)
            /\ first <= Len(s) => s[first] \in Characters \ {" "}
        BY <1>3 DEF Found
      <4>2. first \in AfterCode(s, 1)..(Len(s) + 1)
        BY <4>1
      <4>3. first \in 1..Len(s) /\ first + 1 \in 1..(Len(s) + 1) /\ first <= Len(s)
        BY <1>1, <1>2, <1>5, <4>2
      <4>4. QED
        BY <4>1, <4>3
    <3>2. Kept(s)[first + 1] \in Seq(Characters \ {ESC})
      BY <3>1, KeptHasNoEsc
    <3>3. Strip(s) = <<s[first]>> \o Kept(s)[first + 1]
      BY <1>5 DEF Strip, first
    <3>4. s[first] \in Characters /\ s[first] # " " /\ Characters \ {ESC} \in SUBSET Characters
      BY <3>1
    <3>5. QED
      BY <3>2, <3>3, <3>4, Zenon
  <2>2. T \in SUBSET S /\ c \in S /\ rest \in Seq(T)
    BY <2>1
  <2>3. /\ <<c>> \o rest \in Seq(S) /\ Len(<<c>> \o rest) = 1 + Len(rest)
        /\ (<<c>> \o rest)[1] = c
        /\ \A i \in 2..(1 + Len(rest)) : (<<c>> \o rest)[i] \in T
    BY <2>2, Prepend
  <2>4. QED
    BY <2>1, <2>3
<1>6. QED
  BY <1>4, <1>5

\* The inputs on which the runs try the parser are lines.
LEMMA LinesOf ==
  ASSUME NEW C \in SUBSET Characters, NEW m \in Nat,
         NEW s \in BoundedSeq(C, m)
  PROVE  s \o <<"\n">> \in Seq(Characters)
<1>1. PICK n \in 0..m : s \in [1..n -> C]
  BY DEF BoundedSeq, SeqOf
<1>2. n \in Nat /\ s \in [1..n -> Characters]
  BY <1>1
<1>3. s \in Seq(Characters)
  BY <1>2, SeqDef
<1>4. <<"\n">> \in Seq(Characters)
  <2>1. "\n" \in Characters
    BY DEF Characters
  <2>2. QED
    BY <2>1
<1>5. QED
  BY <1>3, <1>4, ConcatProperties

LEMMA InputsAreLines == Inputs \subseteq Seq(Characters) /\ ScanInputs \subseteq Seq(Characters)
<1>1. Characters \ {"\n"} \in SUBSET Characters /\ {" ", "(", "x"} \in SUBSET Characters
  BY Zenon DEF Characters
<1>2. MaxText \in Nat /\ MaxScan \in Nat
  BY PipelineAssumption
<1>3. \A s \in BoundedSeq(Characters \ {"\n"}, MaxText) : s \o <<"\n">> \in Seq(Characters)
  BY <1>1, <1>2, LinesOf
<1>4. \A s \in BoundedSeq({" ", "(", "x"}, MaxScan) : s \o <<"\n">> \in Seq(Characters)
  BY <1>1, <1>2, LinesOf
<1>5. Inputs \subseteq Seq(Characters)
  BY <1>3, Zenon DEF Inputs
<1>6. QED
  BY <1>4, <1>5, Zenon DEF ScanInputs

\* The first place kept, and what is kept behind it.
LEMMA KeptFirst ==
  ASSUME NEW S, NEW s \in Seq(S), NEW j \in 1..Len(s), NEW K \in SUBSET ((j + 1)..Len(s))
  PROVE  KeptAt(s, {j} \cup K) = <<s[j]>> \o KeptAt(s, K)
<1> DEFINE P == {j} \cup K
           c == Cardinality(K)
           a == KeptAt(s, P)
           b == KeptAt(s, K)
           jb == <<s[j]>> \o b
<1>1. Len(s) \in Nat /\ j \in Nat /\ s[j] \in S
  BY LenProperties, ElementOfSeq
<1>2. K \in SUBSET (1..Len(s)) /\ P \in SUBSET (1..Len(s)) /\ j \notin K /\ \A i \in K : j <= i /\ ~(i <= j)
  BY <1>1
<1>3. /\ IsFiniteSet(K) /\ c \in Nat
      /\ \A k \in 1..c : Nth(K, k) \in K /\ Rank(K, Nth(K, k)) = k
  BY <1>1, <1>2, Ranked
<1>4. \A i \in P : Nth(P, Rank(P, i)) = i
  BY <1>1, <1>2, Ranked
<1>5. Cardinality(P) = c + 1
  <2>1. P = K \cup {j}
    OBVIOUS
  <2>2. QED
    BY <1>2, <1>3, <2>1, FS_AddElement
<1>6. Rank(P, j) = 1
  <2>1. \A i \in P : i <= j <=> i = j
    BY <1>1, <1>2
  <2>2. {i \in P : i <= j} = {j}
    BY <2>1
  <2>3. QED
    BY <2>2, FS_Singleton DEF Rank
<1>7. ASSUME NEW i \in K
      PROVE  Rank(P, i) = Rank(K, i) + 1
  <2> DEFINE X == {l \in K : l <= i}
  <2>1. {l \in P : l <= i} = X \cup {j}
    BY <1>2
  <2>2. IsFiniteSet(X) /\ j \notin X
    BY <1>2, <1>3, FS_Subset
  <2> HIDE DEF X
  <2>3. Cardinality(X \cup {j}) = Cardinality(X) + 1
    BY <2>2, FS_AddElement
  <2>4. QED
    BY <2>1, <2>3 DEF Rank, X
<1>8. Nth(P, 1) = j /\ \A k \in 1..c : Nth(P, k + 1) = Nth(K, k)
  <2>1. Nth(P, 1) = j
    BY <1>4, <1>6
  <2>2. ASSUME NEW k \in 1..c
        PROVE  Nth(P, k + 1) = Nth(K, k)
    <3>1. Nth(K, k) \in P /\ Rank(P, Nth(K, k)) = k + 1
      BY <1>3, <1>7
    <3>2. QED
      BY <1>4, <3>1
  <2>3. QED
    BY <2>1, <2>2
<1>9. a \in Seq(S) /\ Len(a) = c + 1 /\ \A k \in 1..(c + 1) : a[k] = s[Nth(P, k)]
  <2>1. a \in Seq(S) /\ Len(a) = c + 1
    BY <1>2, <1>5, KeptType
  <2>2. QED
    BY <1>5, <2>1 DEF KeptAt
<1>10. b \in Seq(S) /\ Len(b) = c /\ \A k \in 1..c : b[k] = s[Nth(K, k)]
  <2>1. b \in Seq(S) /\ Len(b) = c
    BY <1>2, KeptType
  <2>2. QED
    BY <2>1 DEF KeptAt
<1> HIDE DEF a, b, c, P
<1>11. /\ jb \in Seq(S) /\ Len(jb) = 1 + c
       /\ \A k \in 1..(1 + c) : jb[k] = IF k <= 1 THEN <<s[j]>>[k] ELSE b[k - 1]
  <2>1. <<s[j]>> \in Seq(S) /\ Len(<<s[j]>>) = 1
    BY <1>1
  <2>2. QED
    BY <1>10, <2>1, ConcatProperties
<1> HIDE DEF jb
<1>12. ASSUME NEW k \in 1..Len(a)
       PROVE  a[k] = jb[k]
  <2>1. k \in 1..(1 + c) /\ k \in 1..(c + 1)
    BY <1>3, <1>9
  <2>2. CASE k = 1
    <3>1. a[k] = s[j] /\ k <= 1 /\ <<s[j]>>[k] = s[j]
      BY <1>8, <1>9, <2>1, <2>2
    <3>2. QED
      BY <1>11, <2>1, <3>1
  <2>3. CASE k # 1
    <3>1. k - 1 \in 1..c /\ k = (k - 1) + 1 /\ ~(k <= 1)
      BY <1>3, <2>1, <2>3
    <3>2. a[k] = s[Nth(K, k - 1)]
      BY <1>8, <1>9, <2>1, <3>1
    <3>3. QED
      BY <1>10, <1>11, <2>1, <3>1, <3>2
  <2>4. QED
    BY <2>2, <2>3
<1>13. Len(a) = Len(jb)
  BY <1>3, <1>9, <1>11
<1>14. a = jb
  BY <1>9, <1>11, <1>12, <1>13, SeqEqual
<1>15. QED
  BY <1>14 DEF a, b, jb, P

\* The places from i on that are in no escape sequence: none, or the one that
\* the inner while goes to and those behind it.
NoCode(s, i) == (i..Len(s)) \ InCode(s, i)

Space == {" "}
Skips(s, i, t) == IF i <= Len(s) /\ s[i] = ESC THEN Found(s, i, Space, t) ELSE t = i

LEMMA InCodeIs ==
  ASSUME NEW s, NEW i
  PROVE  InCode(s, i) = {k \in i..Len(s) : \E j \in i..k : s[j] = ESC /\ \A l \in j..k : s[l] \notin Space}
  BY Zenon DEF InCode, Space

LEMMA CodeGoesTo ==
  ASSUME NEW s \in Seq(Characters), NEW i \in 1..(Len(s) + 1), NEW t \in i..(Len(s) + 1),
         Skips(s, i, t)
  PROVE  NoCode(s, i) = IF t > Len(s) THEN {} ELSE {t} \cup NoCode(s, t + 1)
<1>1. Len(s) \in Nat
  BY LenProperties
<1>2. CASE i <= Len(s) /\ s[i] = ESC
  <2>1. Found(s, i, Space, t)
    BY <1>2 DEF Skips
  <2>2. \A k \in i..Len(s) : k < t => s[k] \notin Space
    BY <1>1, <2>1 DEF Found
  <2>3. t <= Len(s) => s[t] \in Space
    BY <2>1 DEF Found
  <2>4. ASSUME NEW k \in i..Len(s), k < t
        PROVE  k \in InCode(s, i)
    <3>1. \A l \in i..k : l \in i..Len(s) /\ l < t
      BY <1>1, <2>4
    <3>2. i \in i..k
      BY <1>1
    <3>3. s[i] = ESC /\ \A l \in i..k : s[l] \notin Space
      BY <1>2, <2>2, <3>1
    <3>4. QED
      BY <3>2, <3>3, InCodeIs
  <2>5. CASE t > Len(s)
    <3>1. \A k \in i..Len(s) : k < t
      BY <1>1, <2>5
    <3>2. QED
      BY <2>4, <2>5, <3>1 DEF NoCode
  <2>6. CASE ~(t > Len(s))
    <3>1. t \in i..Len(s) /\ s[t] \in Space
      BY <1>1, <2>3, <2>6
    <3>2. t \notin InCode(s, i)
      <4>1. \A j \in i..t : t \in j..t
        BY <1>1
      <4>2. QED
        BY <3>1, <4>1, InCodeIs
    <3>3. ASSUME NEW k \in (t + 1)..Len(s)
          PROVE  k \in i..Len(s) /\ (k \in InCode(s, i) <=> k \in InCode(s, t + 1))
      <4>1. k \in i..Len(s) /\ ~(k < t)
        BY <1>1, <3>1
      <4>2. \A j \in i..k : j \in (t + 1)..k \/ t \in j..k
        BY <1>1, <3>1
      <4>3. \A j \in (t + 1)..k : j \in i..k
        BY <1>1, <3>1
      <4>4. k \in InCode(s, i) => k \in InCode(s, t + 1)
        BY <3>1, <4>2, InCodeIs
      <4>5. k \in InCode(s, t + 1) => k \in InCode(s, i)
        BY <4>1, <4>3, InCodeIs
      <4>6. QED
        BY <4>1, <4>4, <4>5
    <3>4. \A k \in i..Len(s) : k < t \/ k = t \/ k \in (t + 1)..Len(s)
      BY <1>1, <3>1
    <3>5. NoCode(s, i) = {t} \cup NoCode(s, t + 1)
      BY <2>4, <3>1, <3>2, <3>3, <3>4 DEF NoCode
    <3>6. QED
      BY <2>6, <3>5
  <2>7. QED
    BY <2>5, <2>6
<1>3. CASE ~(i <= Len(s) /\ s[i] = ESC)
  <2>1. t = i
    BY <1>3 DEF Skips
  <2>2. CASE t > Len(s)
    <3>1. i..Len(s) = {}
      BY <1>1, <2>1, <2>2
    <3>2. QED
      BY <2>2, <3>1 DEF NoCode
  <2>3. CASE ~(t > Len(s))
    <3>1. i \in i..Len(s) /\ s[i] # ESC
      BY <1>1, <1>3, <2>1, <2>3
    <3>2. i \notin InCode(s, i)
      <4>1. \A j \in i..i : j = i
        OBVIOUS
      <4>2. QED
        BY <3>1, <4>1, InCodeIs
    <3>3. ASSUME NEW k \in (i + 1)..Len(s)
          PROVE  k \in i..Len(s) /\ (k \in InCode(s, i) <=> k \in InCode(s, i + 1))
      <4>1. k \in i..Len(s)
        BY <1>1
      <4>2. \A j \in i..k : j = i \/ j \in (i + 1)..k
        BY <1>1
      <4>3. \A j \in (i + 1)..k : j \in i..k
        BY <1>1
      <4>4. k \in InCode(s, i) => k \in InCode(s, i + 1)
        BY <3>1, <4>2, InCodeIs
      <4>5. k \in InCode(s, i + 1) => k \in InCode(s, i)
        BY <4>1, <4>3, InCodeIs
      <4>6. QED
        BY <4>1, <4>4, <4>5
    <3>4. \A k \in i..Len(s) : k = i \/ k \in (i + 1)..Len(s)
      BY <1>1
    <3>5. NoCode(s, i) = {i} \cup NoCode(s, i + 1)
      BY <3>1, <3>2, <3>3, <3>4 DEF NoCode
    <3>6. QED
      BY <2>1, <2>3, <3>5
  <2>4. QED
    BY <2>2, <2>3
<1>4. QED
  BY <1>2, <1>3

LEMMA CodeEnds ==
  ASSUME NEW s \in Seq(Characters), NEW i \in 1..(Len(s) + 1)
  PROVE  NoCode(s, i) = IF AfterCode(s, i) > Len(s) THEN {}
                        ELSE {AfterCode(s, i)} \cup NoCode(s, AfterCode(s, i) + 1)
<1>1. AfterCode(s, i) \in i..(Len(s) + 1)
  BY AfterCodeFound
<1>2. Skips(s, i, AfterCode(s, i))
  BY Scan DEF NextSpace, AfterCode, Skips, Space
<1>3. QED
  BY <1>1, <1>2, CodeGoesTo

\* From any index on, the loop keeps what is in no escape sequence.
LEMMA KeptIsNoCode ==
  ASSUME NEW s \in Seq(Characters), NEW i \in 1..(Len(s) + 1)
  PROVE  Kept(s)[i] = KeptAt(s, NoCode(s, i))
<1> DEFINE n == Len(s) + 1
           k == Kept(s)
           P == {j \in 1..n : k[j] # KeptAt(s, NoCode(s, j))}
<1>1. Len(s) \in Nat /\ n \in Nat
  BY LenProperties
<1>2. \A j \in 1..n : k[j] = IF AfterCode(s, j) > Len(s) THEN <<>>
                             ELSE <<s[AfterCode(s, j)]>> \o k[AfterCode(s, j) + 1]
  <2>1. KeptBy(s, k)
    BY KeptIs
  <2> HIDE DEF k
  <2>2. QED
    BY <2>1 DEF KeptBy
<1> HIDE DEF k
<1>3. ASSUME P # {}
      PROVE  FALSE
  <2>1. PICK j \in P : \A l \in P : l <= j
    <3>1. P \in SUBSET (1..n)
      OBVIOUS
    <3> HIDE DEF P, n
    <3>2. QED
      BY <1>1, <1>3, <3>1, LastPlace
  <2>2. PICK t : t = AfterCode(s, j) /\ t \in j..n
    BY AfterCodeFound
  <2>3. NoCode(s, j) = IF t > Len(s) THEN {} ELSE {t} \cup NoCode(s, t + 1)
    BY <2>2, CodeEnds
  <2>4. CASE t > Len(s)
    <3>1. k[j] = <<>> /\ NoCode(s, j) = {}
      BY <1>2, <2>2, <2>3, <2>4
    <3>2. QED
      BY <3>1, KeptNone
  <2>5. CASE ~(t > Len(s))
    <3>1. t \in 1..Len(s) /\ t + 1 \in 1..n /\ ~(t + 1 <= j)
      BY <1>1, <2>2, <2>5
    <3>2. k[t + 1] = KeptAt(s, NoCode(s, t + 1))
      BY <2>1, <3>1
    <3>3. NoCode(s, t + 1) \in SUBSET ((t + 1)..Len(s))
      BY DEF NoCode
    <3>4. KeptAt(s, {t} \cup NoCode(s, t + 1)) = <<s[t]>> \o KeptAt(s, NoCode(s, t + 1))
      BY <3>1, <3>3, KeptFirst
    <3>5. k[j] = <<s[t]>> \o k[t + 1]
      BY <1>2, <2>2, <2>5
    <3>6. QED
      BY <2>3, <2>5, <3>2, <3>4, <3>5
  <2>6. QED
    BY <2>4, <2>5
<1>4. QED
  BY <1>3 DEF k

\* The first place that is shown is the one at which the spaces end that the
\* line, or its first escape sequence, has before its text.
LEMMA ShownFirst ==
  ASSUME NEW s \in Seq(Characters), NEW first, first = SkipSpaces(s, AfterCode(s, 1))
  PROVE  /\ first \in 1..(Len(s) + 1)
         /\ Shown(s) = {} <=> first > Len(s)
         /\ first <= Len(s) => first = Min(Shown(s))
<1> DEFINE a == AfterCode(s, 1)
           C == Characters \ {" "}
<1>1. Len(s) \in Nat /\ 1 \in 1..(Len(s) + 1) /\ DOMAIN s = 1..Len(s)
  BY LenProperties
<1>2. a \in 1..(Len(s) + 1)
  BY <1>1, AfterCodeFound
<1>3. Found(s, a, C, first)
  BY <1>2, Scan DEF SkipSpaces
<1>4. \A k \in 1..Len(s) : s[k] \in C <=> s[k] # " "
  BY ElementOfSeq
<1>5. ASSUME NEW k \in 1..Len(s)
      PROVE  (s[1] = ESC => \E l \in 1..k : s[l] \in Space) <=> k \in a..Len(s)
  <2>1. CASE s[1] = ESC
    <3>1. a = NextSpace(s, 1)
      BY <1>1, <2>1 DEF AfterCode
    <3>2. Found(s, 1, Space, a)
      BY <1>1, <3>1, Scan DEF NextSpace, Space
    <3> HIDE DEF a
    <3>3. \A l \in 1..k : s[l] \in Space => a <= k
      BY <1>1, <1>2, <3>2 DEF Found
    <3>4. k \in a..Len(s) => a \in 1..k /\ s[a] \in Space
      BY <1>1, <1>2, <3>2 DEF Found
    <3>5. QED
      BY <1>1, <1>2, <2>1, <3>3, <3>4
  <2>2. CASE s[1] # ESC
    <3>1. a = 1
      BY <2>2 DEF AfterCode
    <3>2. QED
      BY <2>2, <3>1
  <2>3. QED
    BY <2>1, <2>2
<1>6. Shown(s) = {k \in 1..Len(s) : s[k] \in C /\ (s[1] = ESC => \E l \in 1..k : s[l] \in Space)}
  BY <1>1, <1>4, Zenon DEF Shown, Space
<1> HIDE DEF a, C
<1>7. Shown(s) = {k \in a..Len(s) : s[k] \in C}
  <2>1. \A k \in a..Len(s) : k \in 1..Len(s)
    BY <1>1, <1>2
  <2>2. QED
    BY <1>1, <1>5, <1>6, <2>1
<1>8. first \in a..(Len(s) + 1) /\ (first <= Len(s) => s[first] \in C)
        /\ \A j \in a..Len(s) : s[j] \in C => first <= j
  BY <1>3 DEF Found
<1>9. first \in 1..(Len(s) + 1)
  BY <1>1, <1>2, <1>8
<1>10. Shown(s) = {} <=> first > Len(s)
  <2>1. first <= Len(s) => first \in Shown(s)
    BY <1>1, <1>2, <1>7, <1>8
  <2>2. first > Len(s) => Shown(s) = {}
    BY <1>1, <1>2, <1>7, <1>8
  <2>3. QED
    BY <1>1, <1>9, <2>1, <2>2
<1>11. ASSUME first <= Len(s)
       PROVE  first = Min(Shown(s))
  <2>1. first \in Shown(s) /\ \A j \in Shown(s) : first <= j /\ j \in Nat
    BY <1>1, <1>2, <1>7, <1>8, <1>11
  <2>2. Min(Shown(s)) \in Shown(s) /\ \A j \in Shown(s) : Min(Shown(s)) <= j
    BY <2>1 DEF Min
  <2>3. QED
    BY <2>1, <2>2
<1>12. QED
  BY <1>9, <1>10, <1>11

\* Whatever the length of a line and wherever its escape sequences stand, what
\* is kept is its first character shown and all behind it that is in none.
LEMMA StripIs ==
  ASSUME NEW s \in Seq(Characters)
  PROVE  Strip(s) = IF Shown(s) = {} THEN <<>>
                    ELSE KeptAt(s, {Min(Shown(s))} \cup NoCode(s, Min(Shown(s)) + 1))
<1> DEFINE first == SkipSpaces(s, AfterCode(s, 1))
<1>1. Len(s) \in Nat
  BY LenProperties
<1>2. /\ first \in 1..(Len(s) + 1)
      /\ Shown(s) = {} <=> first > Len(s)
      /\ first <= Len(s) => first = Min(Shown(s))
  BY ShownFirst
<1>3. Strip(s) = IF first > Len(s) THEN <<>> ELSE <<s[first]>> \o Kept(s)[first + 1]
  BY DEF Strip
<1> HIDE DEF first
<1>4. ASSUME ~(first > Len(s))
      PROVE  Strip(s) = KeptAt(s, {first} \cup NoCode(s, first + 1))
  <2>1. first \in 1..Len(s) /\ first + 1 \in 1..(Len(s) + 1)
    BY <1>1, <1>2, <1>4
  <2>2. Kept(s)[first + 1] = KeptAt(s, NoCode(s, first + 1))
    BY <2>1, KeptIsNoCode
  <2>3. NoCode(s, first + 1) \in SUBSET ((first + 1)..Len(s))
    BY DEF NoCode
  <2>4. KeptAt(s, {first} \cup NoCode(s, first + 1)) = <<s[first]>> \o KeptAt(s, NoCode(s, first + 1))
    BY <2>1, <2>3, KeptFirst
  <2>5. QED
    BY <1>3, <1>4, <2>2, <2>4
<1>5. ~(first > Len(s)) => first <= Len(s)
  BY <1>1, <1>2
<1>6. QED
  BY <1>2, <1>3, <1>4, <1>5

\* On every line tried, the loop keeps just what is in no escape sequence.
THEOREM CodesAreStripped == Spec => []EscapesStripped
<1>1. ASSUME NEW s \in Inputs
      PROVE  Strip(s) = IF Shown(s) = {} THEN <<>>
                        ELSE LET first == Min(Shown(s))
                             IN KeptAt(s, {first} \cup ((first + 1..Len(s)) \ InCode(s, first + 1)))
  BY InputsAreLines, StripIs DEF NoCode
<1>2. EscapesStripped
  BY <1>1 DEF EscapesStripped
<1>3. QED
  BY <1>2, PTL

LEMMA Between ==
  \A i \in Nat, n \in Nat : \A f \in i..n, m \in Nat : f <= m => f \in i..m
  OBVIOUS

\* Where a scan stops at the latest, when there are words to come.
LEMMA WordsArePlaces ==
  ASSUME NEW s \in Seq(Characters), NEW w \in Words(s)
  PROVE  Len(s) \in Nat /\ w \in 1..Len(s)
  BY LenProperties DEF Words

LEMMA SpaceBeforeWord ==
  ASSUME NEW s \in Seq(Characters), NEW w \in Words(s), NEW i \in 1..Len(s), i < w
  PROVE  NextSpace(s, i) \in i..(w - 1)
<1>1. Len(s) \in Nat /\ w \in 1..Len(s)
  BY WordsArePlaces
<1>2. w # 1 /\ w - 1 \in i..Len(s) /\ w - 1 \in Nat
  BY <1>1
<1>3. i \in 1..(Len(s) + 1) /\ i \in Nat /\ Len(s) + 1 \in Nat
  BY <1>1
<1>4. s[w - 1] \in {" "}
  BY <1>2 DEF Words
<1>5. Found(s, i, {" "}, NextSpace(s, i))
  BY <1>3, Scan DEF NextSpace
<1>6. NextSpace(s, i) \in i..(Len(s) + 1) /\ NextSpace(s, i) <= w - 1
  BY <1>2, <1>4, <1>5 DEF Found
<1>7. QED
  BY <1>2, <1>3, <1>6, Between

LEMMA SpacesEndAtWord ==
  ASSUME NEW s \in Seq(Characters), NEW w \in Words(s), NEW i \in 1..w
  PROVE  SkipSpaces(s, i) \in i..w
<1> DEFINE C == Characters \ {" "}
           f == SkipSpaces(s, i)
<1>1. Len(s) \in Nat /\ w \in 1..Len(s)
  BY WordsArePlaces
<1>2. w \in i..Len(s) /\ i \in 1..(Len(s) + 1) /\ w \in Nat /\ i \in Nat /\ Len(s) + 1 \in Nat
  BY <1>1
<1>3. s[w] \in C
  BY <1>1, ElementOfSeq DEF Words
<1>4. Found(s, i, C, f)
  BY <1>2, Scan DEF SkipSpaces
<1> HIDE DEF C, f
<1>5. f \in i..(Len(s) + 1) /\ f <= w
  BY <1>2, <1>3, <1>4 DEF Found
<1>6. f \in i..w
  BY <1>2, <1>5, Between
<1>7. QED
  BY <1>6 DEF f

\* A part ends before the next word, or before the one after that.
LEMMA PartEndsBeforeWords ==
  ASSUME NEW s \in Seq(Characters), NEW v \in Words(s), NEW w \in Words(s),
         NEW i \in 1..Len(s), i < v, v < w
  PROVE  /\ PartEnd(s, i) \in i..(w - 1)
         /\ "(" \notin Range(s) => PartEnd(s, i) \in i..(v - 1)
<1>1. Len(s) \in Nat /\ DOMAIN s = 1..Len(s)
  BY LenProperties
<1>2. v \in 1..Len(s) /\ w \in 1..Len(s)
  BY <1>1 DEF Words
<1>3. NextSpace(s, i) \in i..(v - 1)
  BY SpaceBeforeWord
<1>4. CASE s[i] = "("
  <2>1. "(" \in Range(s)
    BY <1>1, <1>4 DEF Range
  <2>2. NextSpace(s, i) \in 1..v
    BY <1>2, <1>3
  <2>3. SkipSpaces(s, NextSpace(s, i)) \in NextSpace(s, i)..v
    BY <2>2, SpacesEndAtWord
  <2>4. PICK k \in Nat : k = SkipSpaces(s, NextSpace(s, i)) /\ k \in i..v
    BY <1>2, <1>3, <2>3
  <2>5. k \in 1..Len(s) /\ k < w
    BY <1>1, <1>2, <2>4
  <2>6. NextSpace(s, k) \in k..(w - 1)
    BY <2>5, SpaceBeforeWord
  <2>7. PartEnd(s, i) = NextSpace(s, k)
    BY <1>1, <1>4, <2>4 DEF PartEnd
  <2>8. PartEnd(s, i) \in i..(w - 1)
    BY <1>2, <2>4, <2>6, <2>7
  <2>9. QED
    BY <2>1, <2>8
<1>5. CASE s[i] # "("
  <2>1. PartEnd(s, i) = NextSpace(s, i)
    BY <1>5 DEF PartEnd
  <2>2. QED
    BY <1>2, <1>3, <2>1
<1>6. QED
  BY <1>4, <1>5

\* Enough words for the two parts of a station's line.
Enough(line) == Cardinality(Words(line)) >= IF "(" \in Range(line) THEN 5 ELSE 3

LEMMA PartsInside ==
  ASSUME NEW line \in Seq(Characters), Enough(line)
  PROVE  LET end1 == PartEnd(line, 1)
         IN /\ end1 \in 1..Len(line)
            /\ PartEnd(line, SkipSpaces(line, end1)) \in 1..Len(line)
<1> DEFINE W == Words(line)
           end1 == PartEnd(line, 1)
           begin2 == SkipSpaces(line, end1)
           end2 == PartEnd(line, begin2)
           card == Cardinality(W)
<1>1. Len(line) \in Nat /\ DOMAIN line = 1..Len(line)
  BY LenProperties
<1>2. W \in SUBSET (1..Len(line))
  BY <1>1 DEF Words
<1>3. card \in Nat
  <2> HIDE DEF W
  <2>1. QED
    BY <1>1, <1>2, Ranked
<1> HIDE DEF W, end1, begin2, end2
<1>4. ASSUME NEW k \in 1..card, NEW l \in 1..card, k < l
      PROVE  Nth(W, k) \in W /\ Nth(W, l) \in W /\ Nth(W, k) < Nth(W, l)
  BY <1>1, <1>2, <1>4, PlacesInOrder
<1> HIDE DEF card
<1>5. CASE "(" \in Range(line)
  <2>1. card >= 5
    BY <1>5 DEF Enough, W, card
  <2>2. PICK u \in W, v \in W, w \in W, x \in W, y \in W : u < v /\ v < w /\ w < x /\ x < y
    <3>1. 1 \in 1..card /\ 2 \in 1..card /\ 3 \in 1..card /\ 4 \in 1..card /\ 5 \in 1..card
      BY <1>3, <2>1
    <3>2. Nth(W, 1) \in W /\ Nth(W, 2) \in W /\ Nth(W, 1) < Nth(W, 2)
      BY <1>4, <3>1
    <3>3. Nth(W, 3) \in W /\ Nth(W, 2) < Nth(W, 3)
      BY <1>4, <3>1
    <3>4. Nth(W, 4) \in W /\ Nth(W, 3) < Nth(W, 4)
      BY <1>4, <3>1
    <3>5. Nth(W, 5) \in W /\ Nth(W, 4) < Nth(W, 5)
      BY <1>4, <3>1
    <3>6. QED
      BY <3>2, <3>3, <3>4, <3>5
  <2>3. /\ u \in 1..Len(line) /\ v \in 1..Len(line) /\ w \in 1..Len(line)
        /\ x \in 1..Len(line) /\ y \in 1..Len(line)
    BY <1>2
  <2>4. 1 \in 1..Len(line) /\ 1 < v
    BY <1>1, <2>2, <2>3
  <2>5. end1 \in 1..(w - 1)
    BY <2>2, <2>4, PartEndsBeforeWords DEF W, end1
  <2>6. end1 \in 1..w /\ end1 \in 1..Len(line)
    BY <1>1, <2>3, <2>5
  <2>7. begin2 \in end1..w
    BY <2>6, SpacesEndAtWord DEF W, begin2
  <2>8. begin2 \in 1..Len(line) /\ begin2 < x
    BY <1>1, <2>2, <2>3, <2>6, <2>7
  <2>9. end2 \in begin2..(y - 1)
    BY <2>2, <2>8, PartEndsBeforeWords DEF W, end2
  <2>10. end2 \in 1..Len(line)
    BY <1>1, <2>3, <2>8, <2>9
  <2>11. QED
    BY <2>6, <2>10 DEF end1, begin2, end2
<1>6. CASE "(" \notin Range(line)
  <2>1. card >= 3
    BY <1>6 DEF Enough, W, card
  <2>2. PICK u \in W, v \in W, w \in W : u < v /\ v < w
    <3>1. 1 \in 1..card /\ 2 \in 1..card /\ 3 \in 1..card
      BY <1>3, <2>1
    <3>2. Nth(W, 1) \in W /\ Nth(W, 2) \in W /\ Nth(W, 1) < Nth(W, 2)
      BY <1>4, <3>1
    <3>3. Nth(W, 3) \in W /\ Nth(W, 2) < Nth(W, 3)
      BY <1>4, <3>1
    <3>4. QED
      BY <3>2, <3>3
  <2>3. u \in 1..Len(line) /\ v \in 1..Len(line) /\ w \in 1..Len(line)
    BY <1>2
  <2>4. 1 \in 1..Len(line) /\ 1 < v
    BY <1>1, <2>2, <2>3
  <2>5. end1 \in 1..(v - 1)
    BY <1>6, <2>2, <2>4, PartEndsBeforeWords DEF W, end1
  <2>6. end1 \in 1..v /\ end1 \in 1..Len(line)
    BY <1>1, <2>3, <2>5
  <2>7. begin2 \in end1..v
    BY <2>6, SpacesEndAtWord DEF W, begin2
  <2>8. begin2 \in 1..Len(line) /\ begin2 < w
    BY <1>1, <2>2, <2>3, <2>6, <2>7
  <2>9. end2 \in begin2..(Len(line))
    <3>1. NextSpace(line, begin2) \in begin2..(w - 1)
      BY <2>8, SpaceBeforeWord DEF W
    <3>2. line[begin2] # "("
      BY <1>1, <1>6, <2>8 DEF Range
    <3>3. end2 = NextSpace(line, begin2)
      BY <3>2 DEF end2, PartEnd
    <3>4. QED
      BY <1>1, <2>3, <2>8, <3>1, <3>3
  <2>10. end2 \in 1..Len(line)
    BY <1>1, <2>8, <2>9
  <2>11. QED
    BY <2>6, <2>10 DEF end1, begin2, end2
<1>7. QED
  BY <1>5, <1>6

\* On such a line the formatter's part ends without an exception or a fault.
LEMMA LongLinesAreFormatted ==
  ASSUME NEW s \in Seq(Characters), Enough(Strip(s))
  PROVE  Dies \notin Format(s)
<1> DEFINE line == Strip(s)
           end == Len(line) + 1
           end1 == PartEnd(line, 1)
           end2 == PartEnd(line, SkipSpaces(line, end1))
<1>1. line \in Seq(Characters)
  BY StripClean
<1>2. Len(line) \in Nat
  BY <1>1, LenProperties
<1>3. end1 \in 1..Len(line) /\ end2 \in 1..Len(line)
  <2> HIDE DEF line
  <2>1. Enough(line)
    BY DEF line
  <2>2. QED
    BY <1>1, <2>1, PartsInside
<1>4. end1 # end /\ end2 # end
  <2> HIDE DEF line, end1, end2
  <2>1. QED
    BY <1>2, <1>3
<1>5. \A q \in Format(s) : q.kind \in {"none", "ap", "apstation"}
  BY <1>4 DEF Format
<1>6. QED
  BY <1>5 DEF Dies

\* Of a line with enough words, however long, no scan of get_part_end leaves
\* the line: it is the lines cut short that end the process.
THEOREM ScansEndInTheLine == Spec => []ScansStayInside
<1>1. ASSUME NEW s \in ScanInputs, Enough(Strip(s))
      PROVE  Dies \notin Format(s)
  BY <1>1, InputsAreLines, LongLinesAreFormatted
<1>2. ScansStayInside
  BY <1>1 DEF ScansStayInside, Enough
<1>3. QED
  BY <1>2, PTL
-----------------------------------------------------------------------------
(***************************************************************************)
(* A station's line, from the characters that were printed to the record   *)
(* that the checker gets: no scan stops before the end of a part, and none *)
(* goes on behind it.                                                      *)
(***************************************************************************)
\* Where a scan stops, told by what lies before and at the place.
LEMMA ScanIs ==
  ASSUME NEW S, NEW s \in Seq(S), NEW i \in 1..(Len(s) + 1), NEW C, NEW g \in i..(Len(s) + 1),
         g <= Len(s) => s[g] \in C,
         \A j \in i..(g - 1) : s[j] \notin C
  PROVE  FirstIn(s, i, C) = g
<1> DEFINE f == FirstIn(s, i, C)
<1>1. Len(s) \in Nat
  BY LenProperties
<1>2. Found(s, i, C, f)
  BY Scan
<1> HIDE DEF f
<1>3. f \in i..(Len(s) + 1) /\ g \in i..(Len(s) + 1)
  BY <1>2 DEF Found
<1>4. f <= Len(s) => s[f] \in C
  BY <1>2 DEF Found
<1>5. g <= Len(s) => f <= g
  <2>1. g <= Len(s) => g \in i..Len(s)
    BY <1>1
  <2>2. QED
    BY <1>2, <2>1 DEF Found
<1>6. ~(f < g)
  <2>1. f < g => f <= Len(s) /\ f \in i..(g - 1)
    BY <1>1, <1>3
  <2>2. QED
    BY <1>4, <2>1
<1>7. f = g
  BY <1>1, <1>3, <1>5, <1>6
<1>8. QED
  BY <1>7 DEF f

\* A list z that is x with y behind it, place by place.
JoinOf(x, y, z) ==
    /\ Len(z) = Len(x) + Len(y)
    /\ \A i \in 1..Len(x) : z[i] = x[i]
    /\ \A i \in 1..Len(y) : z[Len(x) + i] = y[i]

LEMMA Join ==
  ASSUME NEW S, NEW x \in Seq(S), NEW y \in Seq(S)
  PROVE  x \o y \in Seq(S) /\ JoinOf(x, y, x \o y)
<1> DEFINE z == x \o y
<1>1. Len(x) \in Nat /\ Len(y) \in Nat
  BY LenProperties
<1>2. /\ z \in Seq(S) /\ Len(z) = Len(x) + Len(y)
      /\ \A i \in 1..(Len(x) + Len(y)) : z[i] = IF i <= Len(x) THEN x[i] ELSE y[i - Len(x)]
  BY ConcatProperties
<1> HIDE DEF z
<1>3. ASSUME NEW i \in 1..Len(x)
      PROVE  z[i] = x[i]
  <2>1. i \in 1..(Len(x) + Len(y)) /\ i <= Len(x)
    BY <1>1
  <2>2. QED
    BY <1>2, <2>1
<1>4. ASSUME NEW i \in 1..Len(y)
      PROVE  z[Len(x) + i] = y[i]
  <2>1. Len(x) + i \in 1..(Len(x) + Len(y)) /\ ~(Len(x) + i <= Len(x)) /\ (Len(x) + i) - Len(x) = i
    BY <1>1
  <2>2. QED
    BY <1>2, <2>1
<1>5. z \in Seq(S) /\ JoinOf(x, y, z)
  BY <1>2, <1>3, <1>4 DEF JoinOf
<1>6. QED
  BY <1>5 DEF z

\* From a place on behind which there is no ESC, the loop keeps everything.
LEMMA KeptIsRest ==
  ASSUME NEW s \in Seq(Characters), NEW m \in 1..(Len(s) + 1),
         \A j \in m..Len(s) : s[j] # ESC
  PROVE  \A i \in m..(Len(s) + 1) : Kept(s)[i] = SubSeq(s, i, Len(s))
<1> DEFINE n == Len(s) + 1
           k == Kept(s)
           P == {j \in m..n : k[j] # SubSeq(s, j, Len(s))}
<1>1. Len(s) \in Nat /\ n \in Nat /\ m \in Nat /\ m # 0
  BY LenProperties
<1>2. \A j \in m..n : j \in 1..n /\ AfterCode(s, j) = j
  BY <1>1 DEF AfterCode
<1>3. \A j \in 1..n : k[j] = IF AfterCode(s, j) > Len(s) THEN <<>>
                             ELSE <<s[AfterCode(s, j)]>> \o k[AfterCode(s, j) + 1]
  <2>1. KeptBy(s, k)
    BY KeptIs
  <2> HIDE DEF k
  <2>2. QED
    BY <2>1 DEF KeptBy
<1> HIDE DEF k
<1>4. \A j \in m..n : k[j] = IF j > Len(s) THEN <<>> ELSE <<s[j]>> \o k[j + 1]
  BY <1>2, <1>3
<1>5. ASSUME P # {}
      PROVE  FALSE
  <2>1. PICK j \in P : \A l \in P : l <= j
    <3>1. P \in SUBSET (1..n)
      BY <1>2
    <3> HIDE DEF P, n
    <3>2. QED
      BY <1>1, <1>5, <3>1, LastPlace
  <2>2. j \in m..n /\ k[j] # SubSeq(s, j, Len(s))
    OBVIOUS
  <2>3. CASE j > Len(s)
    <3>1. SubSeq(s, j, Len(s)) = <<>>
      <4>1. j \in Int /\ Len(s) \in Int /\ Len(s) < j
        BY <1>1, <2>2, <2>3
      <4>2. QED
        BY <4>1, SubSeqEmpty
    <3>2. QED
      BY <1>4, <2>2, <2>3, <3>1
  <2>4. CASE ~(j > Len(s))
    <3>1. j \in 1..Len(s) /\ j + 1 \in m..n /\ ~(j + 1 <= j) /\ Len(s) \in j..Len(s)
      BY <1>1, <2>2, <2>4
    <3>2. k[j + 1] = SubSeq(s, j + 1, Len(s))
      BY <2>1, <3>1
    <3>3. k[j] = <<s[j]>> \o SubSeq(s, j + 1, Len(s))
      BY <1>4, <2>2, <2>4, <3>2
    <3>4. SubSeq(s, j, Len(s)) = <<s[j]>> \o SubSeq(s, j + 1, Len(s))
      BY <3>1, SubSeqRecursiveFirst
    <3>5. QED
      BY <2>2, <3>3, <3>4
  <2>5. QED
    BY <2>3, <2>4
<1>6. QED
  BY <1>5 DEF k

\* A line with a beginning that the loop skips, and no other ESC.
LEMMA StripSkips ==
  ASSUME NEW code \in Seq(Characters), NEW text \in Seq(Characters), text # <<>>,
         \A i \in 1..Len(text) : text[i] # ESC,
         SkipSpaces(code \o text, AfterCode(code \o text, 1)) = Len(code) + 1
  PROVE  Strip(code \o text) = text
<1> DEFINE s == code \o text
           c == Len(code)
           n == Len(text)
           m == c + 1
<1>1. c \in Nat /\ n \in Nat /\ n # 0
  BY LenProperties, EmptySeq
<1>2. s \in Seq(Characters) /\ JoinOf(code, text, s)
  BY Join
<1>3. Len(s) = c + n /\ \A i \in 1..n : s[c + i] = text[i]
  BY <1>2 DEF JoinOf
<1>4. SubSeq(s, m, Len(s)) = text
  <2>1. c + 1 \in (c + 1)..(c + n) /\ c + n \in (c + 1)..(c + n)
        /\ c + 1 - c = 1 /\ c + n - c = n
    BY <1>1
  <2>2. SubSeq(s, c + 1, c + n) = SubSeq(text, c + 1 - c, c + n - c)
    BY <2>1, SubSeqOfConcat2
  <2>3. SubSeq(text, 1, n) = text
    BY SubSeqFull
  <2>4. QED
    BY <1>3, <2>1, <2>2, <2>3
<1>5. Strip(s) = <<s[m]>> \o Kept(s)[m + 1]
  <2>1. ~(m > Len(s))
    BY <1>1, <1>3
  <2>2. SkipSpaces(s, AfterCode(s, 1)) = m
    OBVIOUS
  <2> HIDE DEF s, m
  <2>3. QED
    BY <2>1, <2>2 DEF Strip
<1> HIDE DEF s, c, n
<1>6. m \in 1..Len(s) /\ m + 1 \in m..(Len(s) + 1) /\ m \in 1..(Len(s) + 1) /\ Len(s) \in m..Len(s)
  BY <1>1, <1>3
<1>7. ASSUME NEW j \in m..Len(s)
      PROVE  s[j] # ESC
  <2>1. j - c \in 1..n /\ c + (j - c) = j
    BY <1>1, <1>3
  <2>2. s[j] = text[j - c]
    BY <1>3, <2>1
  <2>3. QED
    BY <2>1, <2>2 DEF n
<1> HIDE DEF m
<1>8. Kept(s)[m + 1] = SubSeq(s, m + 1, Len(s))
  BY <1>2, <1>6, <1>7, KeptIsRest
<1>9. <<s[m]>> \o SubSeq(s, m + 1, Len(s)) = SubSeq(s, m, Len(s))
  BY <1>2, <1>6, SubSeqRecursiveFirst
<1>10. QED
  BY <1>4, <1>5, <1>8, <1>9 DEF s

Plain == Characters \ {ESC}

LEMMA PlainLists ==
  ASSUME NEW s \in Seq(Plain)
  PROVE  s \in Seq(Characters) /\ Len(s) \in Nat /\ \A i \in 1..Len(s) : s[i] # ESC /\ s[i] \in Characters
<1>1. Len(s) \in Nat /\ s \in [1..Len(s) -> Plain]
  BY LenProperties
<1>2. s \in [1..Len(s) -> Characters] /\ \A i \in 1..Len(s) : s[i] # ESC /\ s[i] \in Characters
  BY <1>1 DEF Plain
<1>3. s \in Seq(Characters)
  BY <1>1, <1>2, SeqDef
<1>4. QED
  BY <1>1, <1>2, <1>3

\* The beginnings of a line with which it is tried; and one of a word.
ScreenCodes == {<<>>, <<" ">>, <<ESC, " ">>, <<ESC, "x", " ", " ">>}
BeginsWord(text) == text[1] \in Characters \ {" "} /\ text[1] # ESC

LEMMA Lists ==
  ASSUME NEW S, NEW a \in S, NEW b \in S, NEW c \in S, NEW d \in S
  PROVE  /\ <<a>> \in Seq(S) /\ Len(<<a>>) = 1 /\ <<a>>[1] = a
         /\ <<a, b>> \in Seq(S) /\ Len(<<a, b>>) = 2 /\ <<a, b>>[1] = a /\ <<a, b>>[2] = b
         /\ <<a, b, c, d>> \in Seq(S) /\ Len(<<a, b, c, d>>) = 4
         /\ <<a, b, c, d>>[1] = a /\ <<a, b, c, d>>[2] = b
         /\ <<a, b, c, d>>[3] = c /\ <<a, b, c, d>>[4] = d
  OBVIOUS

LEMMA ScreenCodesAre ==
  ASSUME NEW code \in ScreenCodes
  PROVE  /\ code \in Seq(Characters)
         /\ \/ Len(code) = 0
            \/ Len(code) = 1 /\ code[1] = " "
            \/ Len(code) = 2 /\ code[1] = ESC /\ code[2] = " "
            \/ Len(code) = 4 /\ code[1] = ESC /\ code[2] = "x" /\ code[3] = " " /\ code[4] = " "
<1>1. " " \in Characters /\ ESC \in Characters /\ "x" \in Characters
  BY DEF Characters
<1>2. CASE code = <<>>
  BY <1>2, EmptySeq
<1>3. CASE code = <<" ">>
  BY <1>1, <1>3, Lists, Zenon
<1>4. CASE code = <<ESC, " ">>
  BY <1>1, <1>4, Lists, Zenon
<1>5. CASE code = <<ESC, "x", " ", " ">>
  BY <1>1, <1>5, Lists, Zenon
<1>6. QED
  BY <1>2, <1>3, <1>4, <1>5 DEF ScreenCodes

\* What the first loop of init_origin_line skips of a line: a screen code up to
\* its space, and spaces.
LEMMA CodeSkipped ==
  ASSUME NEW text \in Seq(Characters), Len(text) # 0, BeginsWord(text), NEW code \in ScreenCodes
  PROVE  SkipSpaces(code \o text, AfterCode(code \o text, 1)) = Len(code) + 1
<1> DEFINE s == code \o text
           C == Characters \ {" "}
           c == Len(code)
           n == Len(s)
<1>1. code \in Seq(Characters) /\ c \in Nat
  BY ScreenCodesAre, LenProperties
<1>2. s \in Seq(Characters) /\ JoinOf(code, text, s)
  BY <1>1, Join
<1>3. Len(text) \in Nat
  BY LenProperties
<1>4. n = c + Len(text) /\ 1 \in 1..Len(text)
  BY <1>2, <1>3 DEF JoinOf
<1>5. n \in Nat /\ c < n
  <2> HIDE DEF n, c
  <2>1. QED
    BY <1>1, <1>3, <1>4
<1> HIDE DEF s
<1>6. s[c + 1] \in C /\ \A i \in 1..c : s[i] = code[i]
  BY <1>2, <1>4 DEF JoinOf, BeginsWord
<1>7. /\ s[c + 1] # ESC
      /\ \/ c = 0
         \/ c = 1 /\ s[1] = " "
         \/ c = 2 /\ s[1] = ESC /\ s[2] = " "
         \/ c = 4 /\ s[1] = ESC /\ s[2] = "x" /\ s[3] = " " /\ s[4] = " "
  <2>1. /\ 1 \in 1..1 /\ 1 \in 1..2 /\ 2 \in 1..2
        /\ 1 \in 1..4 /\ 2 \in 1..4 /\ 3 \in 1..4 /\ 4 \in 1..4
    OBVIOUS
  <2>2. s[c + 1] # ESC
    BY <1>2, <1>4 DEF JoinOf, BeginsWord
  <2>3. QED
    BY <1>6, <2>1, <2>2, ScreenCodesAre
<1>8. " " \notin C
  OBVIOUS
<1> HIDE DEF C, c, n
<1>9. ASSUME NEW f \in 1..(c + 1), \A j \in f..c : s[j] = " "
      PROVE  SkipSpaces(s, f) = c + 1
  <2>1. /\ f \in 1..(n + 1) /\ c + 1 \in f..(n + 1) /\ (c + 1) - 1 = c
    BY <1>1, <1>5
  <2>2. \A j \in f..((c + 1) - 1) : s[j] \notin C
    BY <1>8, <1>9, <2>1
  <2>3. FirstIn(s, f, C) = c + 1
    BY <1>2, <1>6, <2>1, <2>2, ScanIs DEF n
  <2>4. QED
    BY <2>3 DEF SkipSpaces, C
<1>10. ASSUME NEW g \in {2, 3}, g <= c, s[1] = ESC, s[g] = " ", g = 3 => s[2] = "x"
       PROVE  AfterCode(s, 1) = g
  <2>1. g <= c
    BY <1>10
  <2>2. 1 \in 1..(n + 1) /\ g \in 1..(n + 1) /\ 1 <= n
    BY <1>1, <1>5, <2>1
  <2>3. \A j \in 1..(g - 1) : j = 1 \/ (j = 2 /\ g = 3)
    OBVIOUS
  <2>4. ESC # " " /\ "x" # " "
    BY DEF ESC
  <2>5. \A j \in 1..(g - 1) : s[j] \notin {" "}
    BY <1>10, <2>3, <2>4
  <2>6. s[g] \in {" "}
    BY <1>10
  <2>7. FirstIn(s, 1, {" "}) = g
    BY <1>2, <2>2, <2>5, <2>6, ScanIs DEF n
  <2>8. QED
    BY <1>10, <2>2, <2>7 DEF AfterCode, NextSpace, n
<1>11. CASE c = 0 \/ (c = 1 /\ s[1] = " ")
  <2>1. c = 0 \/ c = 1
    BY <1>11
  <2>2. 1 \in 1..(c + 1) /\ \A j \in 1..c : j = 1 /\ c # 0
    BY <2>1
  <2>3. c + 1 = 1 \/ c # 0
    BY <2>1
  <2>4. \A j \in 1..c : s[j] = " "
    BY <1>11, <2>2
  <2>5. s[1] # ESC
    <3>1. ESC # " "
      BY DEF ESC
    <3>2. c = 0 => c + 1 = 1
      BY <1>1
    <3>3. QED
      BY <1>7, <1>11, <3>1, <3>2
  <2>6. AfterCode(s, 1) = 1
    BY <2>5 DEF AfterCode
  <2>7. QED
    BY <1>9, <2>2, <2>4, <2>6 DEF s, c
<1>12. CASE c = 2 /\ s[1] = ESC /\ s[2] = " "
  <2>1. c = 2
    BY <1>12
  <2>2. 2 \in 1..(c + 1) /\ 2 <= c /\ \A j \in 2..c : j = 2
    BY <2>1
  <2>3. AfterCode(s, 1) = 2
    <3>1. 2 \in {2, 3} /\ 2 # 3
      OBVIOUS
    <3>2. QED
      BY <1>10, <1>12, <2>2, <3>1
  <2>4. \A j \in 2..c : s[j] = " "
    BY <1>12, <2>2
  <2>5. QED
    BY <1>9, <2>2, <2>3, <2>4 DEF s, c
<1>13. CASE c = 4 /\ s[1] = ESC /\ s[2] = "x" /\ s[3] = " " /\ s[4] = " "
  <2>1. c = 4
    BY <1>13
  <2>2. 3 \in 1..(c + 1) /\ 3 <= c /\ \A j \in 3..c : j = 3 \/ j = 4
    BY <2>1
  <2>3. AfterCode(s, 1) = 3
    <3>1. 3 \in {2, 3}
      OBVIOUS
    <3>2. QED
      BY <1>10, <1>13, <2>2, <3>1
  <2>4. \A j \in 3..c : s[j] = " "
    BY <1>13, <2>2
  <2>5. QED
    BY <1>9, <2>2, <2>3, <2>4 DEF s, c
<1>14. QED
  BY <1>7, <1>11, <1>12, <1>13

\* The parts of a station's line, each with what the parser asks of it.
LEMMA MacIs ==
  ASSUME NEW mac \in Macs
  PROVE  /\ mac \in Seq(Plain) /\ Len(mac) \in {MinMac + 1, MinMac + 2}
         /\ \A i \in 1..Len(mac) : mac[i] = "x"
<1>1. PICK n \in {MinMac + 1, MinMac + 2} : mac \in [1..n -> {"x"}]
  BY DEF Macs
<1>2. n \in Nat
  BY LineParserAssumption
<1>3. mac \in [1..n -> Plain]
  BY <1>1 DEF Plain, Characters, ESC
<1>4. mac \in Seq(Plain) /\ Len(mac) = n
  BY <1>2, <1>3, SeqDef, LenProperties
<1>5. QED
  BY <1>1, <1>4

LEMMA GapIs ==
  ASSUME NEW gap \in Spaces
  PROVE  gap \in Seq(Plain) /\ Len(gap) \in {1, 2} /\ \A i \in 1..Len(gap) : gap[i] = " "
<1>1. " " \in Plain
  BY DEF Plain, Characters, ESC
<1>2. CASE gap = <<" ">>
  <2>1. gap \in Seq(Plain) /\ Len(gap) = 1 /\ gap[1] = " "
    BY <1>1, <1>2, Lists, Zenon
  <2>2. \A i \in 1..1 : i = 1
    OBVIOUS
  <2>3. QED
    BY <2>1, <2>2
<1>3. CASE gap = <<" ", " ">>
  <2>1. gap \in Seq(Plain) /\ Len(gap) = 2 /\ gap[1] = " " /\ gap[2] = " "
    BY <1>1, <1>3, Lists, Zenon
  <2>2. \A i \in 1..2 : i = 1 \/ i = 2
    OBVIOUS
  <2>3. QED
    BY <2>1, <2>2
<1>4. QED
  BY <1>2, <1>3 DEF Spaces

LEMMA NotAssociatedIs ==
  /\ NotAssociated \in Seq(Plain) /\ Len(NotAssociated) \in Nat /\ NotAssociated[1] = "("
  /\ \E i \in 2..(Len(NotAssociated) - 1) :
        \A j \in 1..Len(NotAssociated) : NotAssociated[j] = " " <=> j = i
<1> DEFINE n == Len(NotAssociated)
<1>1. NotAssociated \in Seq(Characters) /\ n \in Nat /\ DOMAIN NotAssociated = 1..n
  BY LineParserAssumption, LenProperties
<1>2. NotAssociated \in [1..n -> Characters]
  BY <1>1, LenProperties
<1>3. \A i \in 1..n : NotAssociated[i] \in Plain
  BY <1>1, <1>2, LiteralsAssumption DEF Range, Plain
<1>4. NotAssociated \in [1..n -> Plain]
  BY <1>2, <1>3
<1>5. NotAssociated \in Seq(Plain)
  BY <1>1, <1>4, SeqDef
<1>6. QED
  BY <1>1, <1>5, LiteralsAssumption

LEMMA RestIs ==
  ASSUME NEW m \in Int, NEW rest \in BoundedSeq(Characters \ {"\n", ESC}, m)
  PROVE  rest \in Seq(Plain)
<1>1. PICK n \in 0..m : rest \in [1..n -> Characters \ {"\n", ESC}]
  BY DEF BoundedSeq, SeqOf
<1>2. n \in Nat /\ rest \in [1..n -> Plain]
  BY <1>1 DEF Plain
<1>3. QED
  BY <1>2, SeqDef

\* A station's line, by its places: a bssid of a characters, g spaces, a mac of b
\* characters and a space.
Printed(bssid, mac, a, g, b, text) ==
    /\ text \in Seq(Plain)
    /\ a + g + b + 2 <= Len(text)
    /\ \A i \in 1..a : text[i] = bssid[i]
    /\ \A i \in 1..g : text[a + i] = " "
    /\ \A i \in 1..b : text[a + g + i] = mac[i]
    /\ text[a + g + b + 1] = " "

StationText(bssid, gap, mac, rest) == bssid \o gap \o mac \o <<" ">> \o rest \o <<"\n">>

\* The places of a list that three lists, an element and more were put into.
Row(x, y, z, e, t) ==
    /\ Len(x) + Len(y) + Len(z) + 2 <= Len(t)
    /\ \A i \in 1..Len(x) : t[i] = x[i]
    /\ \A i \in 1..Len(y) : t[Len(x) + i] = y[i]
    /\ \A i \in 1..Len(z) : t[Len(x) + Len(y) + i] = z[i]
    /\ t[Len(x) + Len(y) + Len(z) + 1] = e

LEMMA AsPrinted ==
  ASSUME NEW S, NEW bssid \in Seq(S), NEW gap \in Seq(S), NEW mac \in Seq(S), NEW rest \in Seq(S),
         NEW sp \in S, NEW nl \in S
  PROVE  /\ bssid \o gap \o mac \o <<sp>> \o rest \o <<nl>> \in Seq(S)
         /\ Row(bssid, gap, mac, sp, bssid \o gap \o mac \o <<sp>> \o rest \o <<nl>>)
<1> DEFINE t1 == bssid \o gap
           t2 == t1 \o mac
           t3 == t2 \o <<sp>>
           t4 == t3 \o rest
           t5 == t4 \o <<nl>>
           a == Len(bssid)
           g == Len(gap)
           b == Len(mac)
           n == a + g + b + 1
<1>1. a \in Nat /\ g \in Nat /\ b \in Nat /\ Len(rest) \in Nat
  BY LenProperties
<1>2. /\ <<sp>> \in Seq(S) /\ Len(<<sp>>) = 1 /\ <<sp>>[1] = sp
      /\ <<nl>> \in Seq(S) /\ Len(<<nl>>) = 1
  BY Lists
<1>3. t1 \in Seq(S) /\ JoinOf(bssid, gap, t1)
  BY Join
<1> HIDE DEF t1
<1>4. t2 \in Seq(S) /\ JoinOf(t1, mac, t2)
  BY <1>3, Join
<1> HIDE DEF t2
<1>5. t3 \in Seq(S) /\ JoinOf(t2, <<sp>>, t3)
  BY <1>2, <1>4, Join
<1> HIDE DEF t3
<1>6. t4 \in Seq(S) /\ JoinOf(t3, rest, t4)
  BY <1>5, Join
<1> HIDE DEF t4
<1>7. t5 \in Seq(S) /\ JoinOf(t4, <<nl>>, t5)
  BY <1>2, <1>6, Join
<1> HIDE DEF t5
<1>8. /\ Len(t1) = a + g /\ Len(t2) = a + g + b /\ Len(t3) = n
      /\ Len(t4) = n + Len(rest) /\ Len(t5) = n + Len(rest) + 1
  BY <1>2, <1>3, <1>4, <1>5, <1>6, <1>7 DEF JoinOf
<1> HIDE DEF a, g, b
<1>9. ASSUME NEW i \in 1..n
      PROVE  t5[i] = t3[i]
  <2>1. i \in 1..Len(t3) /\ i \in 1..Len(t4)
    BY <1>1, <1>8
  <2>2. QED
    BY <1>6, <1>7, <2>1 DEF JoinOf
<1>10. ASSUME NEW i \in 1..(a + g + b)
       PROVE  t3[i] = t2[i]
  BY <1>5, <1>8 DEF JoinOf
<1>11. ASSUME NEW i \in 1..(a + g)
       PROVE  t2[i] = t1[i]
  BY <1>4, <1>8 DEF JoinOf
<1>12. a + g + b + 2 <= Len(t5)
  BY <1>1, <1>8
<1>13. ASSUME NEW i \in 1..a
       PROVE  t5[i] = bssid[i]
  <2>1. i \in 1..n /\ i \in 1..(a + g + b) /\ i \in 1..(a + g)
    BY <1>1
  <2>2. QED
    BY <1>3, <1>9, <1>10, <1>11, <2>1 DEF JoinOf, a
<1>14. ASSUME NEW i \in 1..g
       PROVE  t5[a + i] = gap[i]
  <2>1. a + i \in 1..n /\ a + i \in 1..(a + g + b) /\ a + i \in 1..(a + g)
    BY <1>1
  <2>2. QED
    BY <1>3, <1>9, <1>10, <1>11, <2>1 DEF JoinOf, a, g
<1>15. ASSUME NEW i \in 1..b
       PROVE  t5[a + g + i] = mac[i]
  <2>1. a + g + i \in 1..n /\ a + g + i \in 1..(a + g + b)
    BY <1>1
  <2>2. t2[a + g + i] = mac[i]
    BY <1>4, <1>8 DEF JoinOf, b
  <2>3. QED
    BY <1>9, <1>10, <2>1, <2>2
<1>16. t5[n] = sp
  <2>1. n \in 1..n /\ 1 \in 1..Len(<<sp>>)
    BY <1>1, <1>2
  <2>2. t3[a + g + b + 1] = sp
    BY <1>2, <1>5, <1>8, <2>1 DEF JoinOf
  <2>3. QED
    BY <1>9, <2>1, <2>2
<1>17. Row(bssid, gap, mac, sp, t5)
  BY <1>12, <1>13, <1>14, <1>15, <1>16 DEF Row, a, g, b
<1>18. QED
  BY <1>7, <1>17 DEF t1, t2, t3, t4, t5

LEMMA StationLines ==
  ASSUME NEW bssid \in Macs \cup {NotAssociated}, NEW gap \in Spaces, NEW mac \in Macs,
         NEW rest \in Seq(Plain)
  PROVE  Printed(bssid, mac, Len(bssid), Len(gap), Len(mac), StationText(bssid, gap, mac, rest))
<1>1. bssid \in Seq(Plain) /\ mac \in Seq(Plain)
  BY MacIs, NotAssociatedIs
<1>2. gap \in Seq(Plain) /\ \A i \in 1..Len(gap) : gap[i] = " "
  BY GapIs
<1>3. " " \in Plain /\ "\n" \in Plain
  BY DEF Plain, Characters, ESC
<1> DEFINE text == StationText(bssid, gap, mac, rest)
           a == Len(bssid)
           g == Len(gap)
           b == Len(mac)
<1> HIDE DEF text, a, b, g
<1>4. /\ text \in Seq(Plain) /\ a + g + b + 2 <= Len(text)
      /\ \A i \in 1..a : text[i] = bssid[i]
      /\ \A i \in 1..g : text[a + i] = gap[i]
      /\ \A i \in 1..b : text[a + g + i] = mac[i]
      /\ text[a + g + b + 1] = " "
  <2>1. PICK S, sp, nl : S = Plain /\ sp = " " /\ nl = "\n"
    OBVIOUS
  <2>2. /\ bssid \in Seq(S) /\ gap \in Seq(S) /\ mac \in Seq(S) /\ rest \in Seq(S)
        /\ sp \in S /\ nl \in S
    BY <1>1, <1>2, <1>3, <2>1
  <2>3. text = bssid \o gap \o mac \o <<sp>> \o rest \o <<nl>>
    BY <2>1 DEF StationText, text
  <2>4. text \in Seq(S) /\ Row(bssid, gap, mac, sp, text)
    BY <2>2, <2>3, AsPrinted, Zenon
  <2>5. QED
    BY <2>1, <2>4 DEF Row, a, b, g
<1>5. \A i \in 1..g : text[a + i] = " "
  BY <1>2, <1>4 DEF g
<1>6. Printed(bssid, mac, a, g, b, text)
  BY <1>4, <1>5 DEF Printed
<1>7. QED
  BY <1>6 DEF text, a, b, g

\* Where the parts of such a line end, and that the line is a station's.
LEMMA PartsOfStation ==
  ASSUME NEW bssid \in Macs \cup {NotAssociated}, NEW mac \in Macs, NEW g \in {1, 2}, NEW text,
         Printed(bssid, mac, Len(bssid), g, Len(mac), text)
  PROVE  LET a == Len(bssid)
         IN /\ a \in Nat \ {0} /\ BeginsWord(text)
            /\ PartEnd(text, 1) = a + 1
            /\ SkipSpaces(text, a + 1) = a + g + 1
            /\ PartEnd(text, a + g + 1) = a + g + Len(mac) + 1
            /\ \/ bssid = NotAssociated
               \/ bssid \in Macs /\ NextSpace(text, 1) = a + 1
<1> DEFINE a == Len(bssid)
           b == Len(mac)
           n == Len(text)
           C == Characters \ {" "}
<1>1. /\ text \in Seq(Characters) /\ n \in Nat
      /\ \A i \in 1..n : text[i] \in Characters /\ text[i] # ESC
  BY PlainLists DEF Printed
<1>2. /\ \A i \in 1..a : text[i] = bssid[i]
      /\ \A i \in 1..g : text[a + i] = " "
      /\ \A i \in 1..b : text[a + g + i] = "x"
      /\ text[a + g + b + 1] = " "
  <2>1. \A i \in 1..b : mac[i] = "x"
    BY MacIs
  <2>2. QED
    BY <2>1 DEF Printed
<1>3. a + g + b + 2 <= n
  BY DEF Printed
<1>4. b \in Nat \ {0}
  <2>1. Len(mac) \in {MinMac + 1, MinMac + 2} /\ MinMac \in Nat
    BY MacIs, LineParserAssumption
  <2>2. QED
    BY <2>1
<1>5. a \in Nat \ {0}
  <2>1. CASE bssid \in Macs
    <3>1. Len(bssid) \in {MinMac + 1, MinMac + 2} /\ MinMac \in Nat
      BY <2>1, MacIs, LineParserAssumption
    <3>2. QED
      BY <3>1
  <2>2. CASE bssid = NotAssociated
    <3>1. Len(NotAssociated) \in Nat /\ \E i \in 2..(Len(NotAssociated) - 1) : TRUE
      BY NotAssociatedIs
    <3>2. QED
      BY <2>2, <3>1
  <2>3. QED
    BY <2>1, <2>2
<1> HIDE DEF a, b, n
\* A scan for a space, and one for another character.
<1>6. ASSUME NEW i \in 1..(n + 1), NEW j \in i..(n + 1), text[j] = " ",
             \A l \in i..(j - 1) : text[l] # " "
      PROVE  NextSpace(text, i) = j
  <2>1. text[j] \in {" "} /\ \A l \in i..(j - 1) : text[l] \notin {" "}
    BY <1>6
  <2>2. QED
    BY <1>1, <2>1, ScanIs DEF NextSpace, n
<1>7. ASSUME NEW i \in 1..n, NEW j \in i..n, text[j] # " ",
             \A l \in i..(j - 1) : text[l] = " "
      PROVE  SkipSpaces(text, i) = j
  <2>1. i \in 1..(n + 1) /\ j \in i..(n + 1) /\ j \in 1..n
    BY <1>1
  <2>2. text[j] \in C /\ \A l \in i..(j - 1) : text[l] \notin C
    BY <1>1, <1>7, <2>1
  <2>3. FirstIn(text, i, C) = j
    <3> HIDE DEF C
    <3>1. QED
      BY <1>1, <2>1, <2>2, ScanIs DEF n
  <2>4. QED
    BY <2>3 DEF SkipSpaces
<1>8. g \in Nat \ {0}
  OBVIOUS
<1>9. "x" # " " /\ "x" # "("
  OBVIOUS
<1>10. SkipSpaces(text, a + 1) = a + g + 1
  <2>1. /\ a + 1 \in 1..n /\ a + g + 1 \in (a + 1)..n /\ (a + g + 1) - 1 = a + g /\ 1 \in 1..b
    BY <1>1, <1>3, <1>4, <1>5, <1>8
  <2>2. \A l \in (a + 1)..(a + g) : l - a \in 1..g /\ a + (l - a) = l
    BY <1>5, <1>8
  <2>3. \A i \in 1..g : text[a + i] = " "
    BY <1>2
  <2>4. ASSUME NEW l \in (a + 1)..((a + g + 1) - 1)
        PROVE  text[l] = " "
    <3>1. l \in (a + 1)..(a + g)
      BY <2>1
    <3>2. PICK i \in 1..g : a + i = l
      BY <2>2, <3>1
    <3>3. QED
      BY <2>3, <3>2
  <2>5. text[a + g + 1] # " "
    BY <1>2, <1>9, <2>1
  <2>6. QED
    BY <1>7, <2>1, <2>4, <2>5
<1>11. PartEnd(text, a + g + 1) = a + g + b + 1
  <2>1. /\ a + g + 1 \in 1..(n + 1) /\ a + g + b + 1 \in (a + g + 1)..(n + 1)
        /\ (a + g + b + 1) - 1 = a + g + b /\ 1 \in 1..b /\ a + g + 1 <= n
    BY <1>1, <1>3, <1>4, <1>5, <1>8
  <2>2. \A l \in (a + g + 1)..(a + g + b) : l - (a + g) \in 1..b /\ a + g + (l - (a + g)) = l
    BY <1>4, <1>5, <1>8
  <2>3. \A l \in (a + g + 1)..((a + g + b + 1) - 1) : text[l] # " "
    BY <1>2, <1>9, <2>1, <2>2
  <2>4. NextSpace(text, a + g + 1) = a + g + b + 1
    BY <1>2, <1>6, <2>1, <2>3
  <2>5. text[a + g + 1] # "("
    BY <1>2, <1>9, <2>1
  <2>6. QED
    BY <2>4, <2>5 DEF PartEnd
<1>12. /\ 1 \in 1..(n + 1) /\ a + 1 \in 1..(n + 1) /\ (a + 1) - 1 = a /\ 1 \in 1..a /\ 1 \in 1..g
       /\ 1 <= n /\ 1 \in 1..n
  BY <1>1, <1>3, <1>4, <1>5, <1>8
<1>13. text[a + 1] = " "
  BY <1>2, <1>12
<1>14. CASE bssid \in Macs
  <2>1. \A i \in 1..a : text[i] = "x"
    BY <1>2, <1>14, MacIs DEF a
  <2>2. \A l \in 1..((a + 1) - 1) : text[l] # " "
    BY <1>9, <1>12, <2>1
  <2>3. NextSpace(text, 1) = a + 1
    BY <1>6, <1>12, <1>13, <2>2
  <2>4. text[1] = "x"
    BY <1>12, <2>1
  <2>5. PartEnd(text, 1) = a + 1
    BY <1>9, <2>3, <2>4 DEF PartEnd
  <2>6. BeginsWord(text)
    BY <1>1, <1>9, <1>12, <2>4 DEF BeginsWord
  <2>7. QED
    BY <1>5, <1>10, <1>11, <1>14, <2>3, <2>5, <2>6 DEF a, b
<1>15. CASE bssid = NotAssociated
  <2>1. PICK k \in 2..(a - 1) : \A j \in 1..a : bssid[j] = " " <=> j = k
    BY <1>15, NotAssociatedIs DEF a
  <2>2. \A j \in 1..a : text[j] = " " <=> j = k
    BY <1>2, <2>1
  <2>3. /\ k \in 1..a /\ k \in 1..n /\ k \in 1..(n + 1) /\ k + 1 \in 1..a /\ k + 1 \in k..n /\ k + 1 \in 1..(n + 1)
        /\ a + 1 \in (k + 1)..(n + 1) /\ k + 1 # k /\ (k + 1) - 1 = k
        /\ (\A l \in 1..(k - 1) : l \in 1..a /\ l # k)
        /\ (\A l \in (k + 1)..a : l \in 1..a /\ l # k)
        /\ (\A l \in k..k : l = k)
    BY <1>1, <1>3, <1>5, <1>8, <1>4
  <2>4. NextSpace(text, 1) = k
    BY <1>6, <1>12, <2>2, <2>3
  <2>5. SkipSpaces(text, k) = k + 1
    <3>1. text[k + 1] # " " /\ \A l \in k..((k + 1) - 1) : text[l] = " "
      BY <2>2, <2>3
    <3>2. QED
      BY <1>7, <2>3, <3>1
  <2>6. NextSpace(text, k + 1) = a + 1
    <3>1. \A l \in (k + 1)..((a + 1) - 1) : text[l] # " "
      BY <1>12, <2>2, <2>3
    <3>2. QED
      BY <1>6, <1>13, <2>3, <3>1
  <2>7. text[1] = "("
    BY <1>2, <1>12, <1>15, NotAssociatedIs
  <2>8. PartEnd(text, 1) = a + 1
    BY <1>12, <2>4, <2>5, <2>6, <2>7 DEF PartEnd, n
  <2>9. BeginsWord(text)
    BY <1>1, <1>12, <2>7 DEF BeginsWord
  <2>10. QED
    BY <1>5, <1>10, <1>11, <1>15, <2>8, <2>9 DEF a, b
<1>16. QED
  BY <1>14, <1>15

\* A part of a list, place by place.
LEMMA PartIs ==
  ASSUME NEW S, NEW s \in Seq(S), NEW t \in Seq(S), NEW k \in Nat, k + Len(t) <= Len(s),
         \A i \in 1..Len(t) : s[k + i] = t[i]
  PROVE  SubSeq(s, k + 1, k + Len(t)) = t
<1> DEFINE n == Len(t)
           p == SubSeq(s, k + 1, k + n)
<1>1. n \in Nat /\ Len(s) \in Nat /\ \A i \in 1..Len(s) : s[i] \in S
  BY LenProperties, ElementOfSeq
<1>2. k + 1 \in Int /\ k + n \in Int /\ \A i \in (k + 1)..(k + n) : i \in 1..Len(s)
  BY <1>1
<1>3. \A i \in (k + 1)..(k + n) : s[i] \in S
  BY <1>1, <1>2
<1> HIDE DEF n
<1>4. /\ p \in Seq(S)
      /\ Len(p) = IF k + 1 <= k + n THEN (k + n) - (k + 1) + 1 ELSE 0
      /\ \A i \in 1..((k + n) - (k + 1) + 1) : p[i] = s[(k + 1) + i - 1]
  BY <1>2, <1>3, SubSeqProperties
<1> HIDE DEF p
<1>5. Len(p) = n
  <2>1. Len(p) = IF k + 1 <= k + n THEN (k + n) - (k + 1) + 1 ELSE 0
    BY <1>4
  <2>2. n \in Nat
    BY <1>1
  <2>3. QED
    BY <2>1, <2>2
<1>6. ASSUME NEW i \in 1..n
      PROVE  p[i] = t[i]
  <2>1. i \in 1..((k + n) - (k + 1) + 1) /\ (k + 1) + i - 1 = k + i
    BY <1>1
  <2>2. QED
    BY <1>4, <2>1 DEF n
<1>7. p = t
  BY <1>4, <1>5, <1>6, SeqEqual DEF n
<1>8. QED
  BY <1>7 DEF p, n

\* What a list begins with has the list's elements.
LEMMA PrefixAgrees ==
  ASSUME NEW S, NEW e \in Seq(S), NEW s \in Seq(S), IsPrefix(e, s), NEW i \in 1..Len(e)
  PROVE  e[i] = s[i] /\ i \in 1..Len(s)
<1>1. Len(e) \in Nat /\ Len(s) \in Nat /\ Len(e) <= Len(s)
  BY LenProperties DEF IsPrefix
<1>2. SubSeq(e, 1, Len(e)) = e
  BY SubSeqFull
<1>3. SubSeq(s, 1, Len(e)) = e
  BY <1>2 DEF IsPrefix
<1>4. \A j \in 1..Len(e) : s[j] \in S
  BY <1>1, ElementOfSeq
<1>5. \A j \in 1..(Len(e) - 1 + 1) : SubSeq(s, 1, Len(e))[j] = s[1 + j - 1]
  BY <1>1, <1>4, SubSeqProperties
<1>6. i \in 1..(Len(e) - 1 + 1) /\ 1 + i - 1 = i /\ i \in 1..Len(s)
  BY <1>1
<1>7. QED
  BY <1>3, <1>5, <1>6

LEMMA KindOfStation ==
  ASSUME NEW bssid \in Macs \cup {NotAssociated}, NEW mac \in Macs, NEW g \in {1, 2}, NEW text,
         Printed(bssid, mac, Len(bssid), g, Len(mac), text), Len(text) > MinSize
  PROVE  Kind(text) = "apstation"
<1> DEFINE a == Len(bssid)
           b == Len(mac)
           n == Len(text)
<1>1. text \in Seq(Characters) /\ n \in Nat
  BY PlainLists DEF Printed
<1>2. /\ a \in Nat \ {0} /\ b \in {MinMac + 1, MinMac + 2} /\ MinMac \in Nat
      /\ a + g + b + 2 <= n
  <2>1. a \in Nat \ {0}
    BY PartsOfStation
  <2>2. b \in {MinMac + 1, MinMac + 2}
    BY MacIs
  <2>3. MinMac \in Nat
    BY LineParserAssumption
  <2>4. a + g + b + 2 <= n
    BY DEF Printed
  <2>5. QED
    BY <2>1, <2>2, <2>3, <2>4
<1>3. MinSize \in Nat /\ n > MinSize
  BY LineParserAssumption
<1>4. \A i \in 1..a : text[i] = bssid[i]
  BY DEF Printed
<1>5. bssid \in Seq(Characters)
  BY MacIs, NotAssociatedIs, PlainLists
<1> HIDE DEF n
<1>6. b \in Nat /\ a <= n /\ 0 + a <= n /\ 0 + a = a /\ 0 + 1 = 1
  <2> HIDE DEF a, b
  <2>1. QED
    BY <1>1, <1>2
<1>7. ASSUME NEW e \in Excepts, IsPrefix(e, text)
      PROVE  FALSE
  <2>1. e \in Seq(Characters) /\ DOMAIN e = 1..Len(e) /\ Len(e) \in Nat
    BY LineParserAssumption, LenProperties
  <2>2. \A i \in 1..Len(e) : e[i] = text[i]
    BY <1>1, <1>7, <2>1, PrefixAgrees
  <2>3. PICK i \in 1..(MinMac + 1) : i \in DOMAIN e /\ e[i] # "x"
    BY LiteralsAssumption
  <2>4. e[1] # "("
    BY LiteralsAssumption
  <2>5. 1 \in 1..Len(e) /\ 1 \in 1..a
    BY <1>2, <2>1, <2>3
  <2>6. CASE bssid \in Macs
    <3>1. a \in {MinMac + 1, MinMac + 2} /\ \A j \in 1..a : bssid[j] = "x"
      BY <2>6, MacIs
    <3>2. i \in 1..a
      <4>1. a \in {MinMac + 1, MinMac + 2}
        BY <3>1
      <4> HIDE DEF a
      <4>2. QED
        BY <1>2, <4>1
    <3>3. QED
      BY <1>4, <2>1, <2>2, <2>3, <3>1, <3>2
  <2>7. CASE bssid = NotAssociated
    BY <1>4, <2>2, <2>4, <2>5, <2>7, NotAssociatedIs
  <2>8. QED
    BY <2>6, <2>7
<1>8. CASE bssid = NotAssociated
  <2>1. a <= n /\ 0 + a <= n
    BY <1>6
  <2>2. \A i \in 1..a : text[0 + i] = bssid[i]
    BY <1>4
  <2>3. SubSeq(text, 0 + 1, 0 + a) = bssid
    BY <1>1, <1>5, <2>1, <2>2, PartIs DEF n
  <2>4. 0 + a = a /\ 0 + 1 = 1
    BY <1>2
  <2>5. SubSeq(bssid, 1, a) = bssid
    BY <1>5, SubSeqFull
  <2>6. IsPrefix(NotAssociated, text)
    BY <1>8, <2>1, <2>3, <2>4, <2>5 DEF IsPrefix, n
  <2>7. ~(Len(text) <= MinSize)
    BY <1>3, <1>1 DEF n
  <2>8. QED
    BY <1>7, <2>6, <2>7 DEF Kind
<1>9. CASE bssid \in Macs /\ NextSpace(text, 1) = a + 1
  <2> DEFINE second == SkipSpaces(text, NextSpace(text, 1))
  <2>1. second = a + g + 1
    BY <1>9, PartsOfStation
  <2>2. text[second] # "("
    <3>1. 1 \in 1..b
      BY <1>2
    <3>2. text[a + g + 1] = mac[1] /\ mac[1] = "x"
      BY <3>1, MacIs DEF Printed
    <3>3. QED
      BY <2>1, <3>2
  <2>3. NextSpace(text, second) = a + g + b + 1
    BY <2>1, <2>2, PartsOfStation DEF PartEnd
  <2>4. NextSpace(text, second) - second > MinMac
    <3> HIDE DEF a, b, second
    <3>1. QED
      BY <1>2, <2>1, <2>3
  <2>5. ~(Len(text) <= MinSize)
    BY <1>3, <1>1 DEF n
  <2>6. QED
    BY <1>7, <2>4, <2>5 DEF Kind
<1>10. QED
  BY <1>8, <1>9, PartsOfStation

\* A station's line becomes the station it was printed for.
ReadAs(s, bssid, mac, text) ==
    Format(s) = {[kind |-> "apstation", bssid |-> bssid, station |-> mac, comment |-> text]}

LEMMA StationIsRead ==
  ASSUME NEW bssid \in Macs \cup {NotAssociated}, NEW gap \in Spaces, NEW mac \in Macs,
         NEW rest \in Seq(Plain), NEW code \in ScreenCodes,
         Len(StationText(bssid, gap, mac, rest)) > MinSize
  PROVE  ReadAs(code \o StationText(bssid, gap, mac, rest), bssid, mac,
                StationText(bssid, gap, mac, rest))
<1> DEFINE text == StationText(bssid, gap, mac, rest)
           a == Len(bssid)
           g == Len(gap)
           b == Len(mac)
           n == Len(text)
           s == code \o text
           end1 == PartEnd(text, 1)
           begin2 == SkipSpaces(text, end1)
           end2 == PartEnd(text, begin2)
           station == [kind |-> "apstation", bssid |-> SubSeq(text, 1, end1 - 1),
                       station |-> SubSeq(text, begin2, end2 - 1), comment |-> text]
<1>1. Printed(bssid, mac, a, g, b, text) /\ g \in {1, 2}
  BY StationLines, GapIs
<1>2. bssid \in Seq(Plain) /\ mac \in Seq(Plain) /\ b \in Nat
  BY MacIs, NotAssociatedIs, LenProperties
<1>3. n > MinSize
  OBVIOUS
<1> HIDE DEF text
<1>4. /\ a \in Nat \ {0} /\ BeginsWord(text)
      /\ end1 = a + 1 /\ begin2 = a + g + 1 /\ end2 = a + g + b + 1
  <2> HIDE DEF g
  <2>1. /\ a \in Nat \ {0} /\ BeginsWord(text) /\ PartEnd(text, 1) = a + 1
        /\ SkipSpaces(text, a + 1) = a + g + 1
        /\ PartEnd(text, a + g + 1) = a + g + Len(mac) + 1
    BY <1>1, PartsOfStation
  <2>2. QED
    BY <2>1
<1>5. /\ text \in Seq(Plain) /\ a + g + b + 2 <= n
      /\ \A i \in 1..a : text[0 + i] = bssid[i]
      /\ \A i \in 1..b : text[(a + g) + i] = mac[i]
  <2>1. /\ text \in Seq(Plain) /\ a + g + b + 2 <= n
        /\ \A i \in 1..b : text[a + g + i] = mac[i]
        /\ \A i \in 1..a : text[i] = bssid[i]
    BY <1>1 DEF Printed
  <2>2. \A i \in 1..a : 0 + i = i
    OBVIOUS
  <2>3. QED
    BY <2>1, <2>2
<1>6. n \in Nat
  BY <1>5, LenProperties
<1> HIDE DEF g, end1, begin2, end2, n
<1>7. Strip(s) = text
  <2>1. text \in Seq(Characters) /\ \A i \in 1..n : text[i] # ESC
    BY <1>5, PlainLists DEF n
  <2>2. n # 0
    <3> HIDE DEF a, b
    <3>1. QED
      BY <1>1, <1>2, <1>4, <1>5, <1>6
  <2>3. text # <<>> /\ code \in Seq(Characters)
    BY <2>2, EmptySeq, ScreenCodesAre DEF n
  <2>4. SkipSpaces(s, AfterCode(s, 1)) = Len(code) + 1
    BY <1>4, <2>1, <2>2, CodeSkipped DEF n
  <2>5. QED
    BY <2>1, <2>3, <2>4, StripSkips DEF n
<1> HIDE DEF s
<1>8. Kind(text) = "apstation"
  BY <1>1, <1>3, KindOfStation DEF g, n
<1> DEFINE k == a + g
<1>9. /\ end1 # n + 1 /\ end2 # n + 1 /\ end1 - 1 = 0 + a /\ end2 - 1 = k + b
      /\ begin2 = k + 1 /\ k \in Nat /\ k + b <= n /\ 0 + a <= n /\ 0 \in Nat /\ 0 + 1 = 1
  <2> HIDE DEF a, b
  <2>1. a \in Nat /\ end1 = a + 1 /\ begin2 = a + g + 1 /\ end2 = a + g + b + 1
    BY <1>4
  <2>2. g \in {1, 2} /\ b \in Nat /\ n \in Nat /\ a + g + b + 2 <= n
    BY <1>1, <1>2, <1>5, <1>6
  <2>3. QED
    BY <2>1, <2>2
<1>10. SubSeq(text, 1, end1 - 1) = bssid
  <2>1. SubSeq(text, 0 + 1, 0 + a) = bssid
    BY <1>2, <1>5, <1>9, PartIs DEF n
  <2>2. QED
    BY <1>9, <2>1
<1>11. SubSeq(text, begin2, end2 - 1) = mac
  <2>1. \A i \in 1..b : text[k + i] = mac[i]
    BY <1>5
  <2> HIDE DEF k
  <2>2. SubSeq(text, k + 1, k + b) = mac
    BY <1>2, <1>5, <1>9, <2>1, PartIs DEF n
  <2>3. QED
    BY <1>9, <2>2
<1>12. Format(s) = {station}
  BY <1>7, <1>8, <1>9 DEF Format, end1, begin2, end2, n
<1>13. QED
  BY <1>10, <1>11, <1>12 DEF ReadAs, s, text

\* Stations are read back as they were printed, whatever the lengths of the
\* macs, of "(not associated)" and of what follows them on the line.
THEOREM StationLinesAreRead == Spec => []StationsAreRead
<1>0. MaxText - 3 \in Int
  BY PipelineAssumption
<1>1. ASSUME NEW bssid \in Macs \cup {NotAssociated}, NEW mac \in Macs, NEW gap \in Spaces,
             NEW code \in {<<>>, <<" ">>, <<ESC, " ">>, <<ESC, "x", " ", " ">>},
             NEW rest \in BoundedSeq(Characters \ {"\n", ESC}, MaxText - 3),
             Len(bssid \o gap \o mac \o <<" ">> \o rest \o <<"\n">>) > MinSize
      PROVE  LET text == bssid \o gap \o mac \o <<" ">> \o rest \o <<"\n">>
             IN Format(code \o text) = {[kind |-> "apstation", bssid |-> bssid,
                                         station |-> mac, comment |-> text]}
  <2>2. rest \in Seq(Plain)
    BY <1>0, RestIs
  <2>3. code \in ScreenCodes
    BY DEF ScreenCodes
  <2>4. Len(StationText(bssid, gap, mac, rest)) > MinSize
    BY <1>1 DEF StationText
  <2>5. ReadAs(code \o StationText(bssid, gap, mac, rest), bssid, mac,
               StationText(bssid, gap, mac, rest))
    BY <2>2, <2>3, <2>4, StationIsRead, Zenon
  <2>6. QED
    BY <2>5 DEF StationText, ReadAs
<1>2. StationsAreRead
  BY <1>1 DEF StationsAreRead
<1>3. QED
  BY <1>2, PTL
-----------------------------------------------------------------------------
(***************************************************************************)
(* The bytes of an upload, once deflated, in letters: what base64_encode   *)
(* writes is read back, for data of every length.                          *)
(***************************************************************************)

\* No two of the 64 characters are equal, and none is the padding.
LEMMA TableIsInjective ==
    \A v, w \in 1..64 : encoding_table[v] = encoding_table[w] => v = w
  BY DEF encoding_table

LEMMA TableHasNoPadding == \A v \in 1..64 : encoding_table[v] # "="
  BY DEF encoding_table

LEMMA SixBitsOfLetter ==
  ASSUME NEW v \in 0..63
  PROVE  SixBits(encoding_table[v + 1]) = v
<1>1. PICK w \in 1..64 : w = v + 1
  OBVIOUS
<1>2. encoding_table[w] # "=" /\ \A u \in 1..64 : encoding_table[u] = encoding_table[w] => u = w
  BY TableIsInjective, TableHasNoPadding
<1>3. (CHOOSE u \in 1..64 : encoding_table[u] = encoding_table[w]) = w
  BY <1>2
<1>4. SixBits(encoding_table[w]) = w - 1
  BY <1>2, <1>3 DEF SixBits
<1>5. QED
  BY <1>1, <1>4
-----------------------------------------------------------------------------
(***************************************************************************)
(* Arithmetic: a triple is made of its sextets, and its octets of it.      *)
(***************************************************************************)
LEMMA DivMod64 ==
  ASSUME NEW n \in Nat
  PROVE  n \div 64 \in Nat /\ n = 64 * (n \div 64) + (n % 64)
  BY SMT

LEMMA DivTwice ==
  ASSUME NEW n \in Nat
  PROVE  n \div 4096 = (n \div 64) \div 64 /\ n \div 262144 = (n \div 4096) \div 64
  BY SMT

LEMMA OfSextets ==
  ASSUME NEW t \in Nat, t < 16777216
  PROVE  ((t \div 262144) % 64) * 262144 + ((t \div 4096) % 64) * 4096
           + ((t \div 64) % 64) * 64 + ((t \div 1) % 64) = t
<1> DEFINE p == t \div 64
           q == t \div 4096
           r == t \div 262144
<1>1. p \in Nat /\ t = 64 * p + (t % 64)
  BY SMT, DivMod64
<1>2. q \in Nat /\ p = 64 * q + (p % 64)
  BY SMT, <1>1, DivTwice, DivMod64
<1>3. r \in Nat /\ q = 64 * r + (q % 64)
  BY SMT, <1>2, DivTwice, DivMod64
<1>4. r % 64 = r /\ t \div 1 = t
  BY SMT
<1>5. t % 64 \in Nat /\ p % 64 \in Nat /\ q % 64 \in Nat
  BY SMT, <1>1, <1>2
<1> HIDE DEF p, q, r
<1>6. r * 262144 + (q % 64) * 4096 + (p % 64) * 64 + (t % 64) = t
  BY SMT, <1>1, <1>2, <1>3, <1>5
<1>7. QED
  BY SMT, <1>4, <1>6 DEF p, q, r

LEMMA OfOctets ==
  ASSUME NEW a \in Bytes, NEW b \in Bytes, NEW c \in Bytes
  PROVE  LET t == a * 65536 + b * 256 + c
         IN /\ (t \div 65536) % 256 = a
            /\ (t \div 256) % 256 = b
            /\ (t \div 1) % 256 = c
  BY SMT DEF Bytes

\* What the padding is written over are zeros.
LEMMA PaddedSextets ==
  ASSUME NEW a \in Bytes, NEW b \in Bytes
  PROVE  /\ LET t == a * 65536 IN ((t \div 64) % 64) = 0 /\ ((t \div 1) % 64) = 0
         /\ LET t == a * 65536 + b * 256 IN ((t \div 1) % 64) = 0
  BY SMT DEF Bytes
-----------------------------------------------------------------------------
(***************************************************************************)
(* The text.                                                               *)
(***************************************************************************)

\* How long the text is, and how much of it is padding.
LEMMA Lengths ==
  ASSUME NEW data \in Seq(Bytes)
  PROVE  /\ OutputLength(data) \in Nat /\ Padding(data) \in 0..2
         /\ Len(data) = 3 * (OutputLength(data) \div 4) - Padding(data)
         /\ OutputLength(data) = 4 * (OutputLength(data) \div 4)
         /\ OutputLength(data) \div 4 \in Nat
         /\ Padding(data) > 0 => OutputLength(data) >= 4
<1> DEFINE n == Len(data)
           g == (n + 2) \div 3
<1>1. n \in Nat /\ g \in Nat /\ OutputLength(data) = 4 * g
  BY SMT DEF OutputLength
<1>2. (4 * g) \div 4 = g
  BY <1>1, SMT
<1>3. CASE n % 3 = 0
  <2>1. n = 3 * g /\ Padding(data) = 0
    BY <1>1, <1>3, SMT DEF Padding, mod_table
  <2>2. QED
    BY <1>1, <1>2, <2>1, SMT
<1>4. CASE n % 3 = 1
  <2>1. n = 3 * g - 2 /\ Padding(data) = 2
    BY <1>1, <1>4, SMT DEF Padding, mod_table
  <2>2. QED
    BY <1>1, <1>2, <2>1, SMT
<1>5. CASE n % 3 = 2
  <2>1. n = 3 * g - 1 /\ Padding(data) = 1
    BY <1>1, <1>5, SMT DEF Padding, mod_table
  <2>2. QED
    BY <1>1, <1>2, <2>1, SMT
<1>6. n % 3 \in 0..2
  BY <1>1, SMT
<1>7. QED
  BY <1>3, <1>4, <1>5, <1>6, SMT

LEMMA OctetIsByte ==
  ASSUME NEW data \in Seq(Bytes), NEW i \in Nat \ {0}
  PROVE  Octet(data, i) \in Bytes
<1>1. CASE i <= Len(data)
  <2>1. i \in 1..Len(data)
    BY <1>1
  <2>2. QED
    BY <1>1, <2>1 DEF Octet
<1>2. CASE ~(i <= Len(data))
  BY <1>2 DEF Octet, Bytes
<1>3. QED
  BY <1>1, <1>2

LEMMA TripleIsNat ==
  ASSUME NEW data \in Seq(Bytes), NEW k \in Nat \ {0}
  PROVE  Triple(data, k) \in Nat /\ Triple(data, k) < 16777216
<1> DEFINE a == Octet(data, 3 * k - 2)
           b == Octet(data, 3 * k - 1)
           c == Octet(data, 3 * k)
<1>1. a \in Bytes /\ b \in Bytes /\ c \in Bytes
  <2>1. 3 * k - 2 \in Nat \ {0} /\ 3 * k - 1 \in Nat \ {0} /\ 3 * k \in Nat \ {0}
    BY SMT
  <2>2. QED
    BY <2>1, OctetIsByte
<1>2. Triple(data, k) = a * 65536 + b * 256 + c
  BY SMT DEF Triple
<1> HIDE DEF a, b, c
<1>3. QED
  BY <1>1, <1>2, SMT DEF Bytes

\* Which six bits of its triple a character stands for.
LEMMA SextetOfTriple ==
  ASSUME NEW data \in Seq(Bytes), NEW k \in Nat \ {0}, NEW j \in Nat
  PROVE  /\ j = 4 * k - 3 => Sextet(data, j) = (Triple(data, k) \div 262144) % 64
         /\ j = 4 * k - 2 => Sextet(data, j) = (Triple(data, k) \div 4096) % 64
         /\ j = 4 * k - 1 => Sextet(data, j) = (Triple(data, k) \div 64) % 64
         /\ j = 4 * k => Sextet(data, j) = (Triple(data, k) \div 1) % 64
<1>1. CASE j = 4 * k - 3
  <2>1. (j + 3) \div 4 = k /\ j + 4 - 4 * k = 1
    BY <1>1, SMT
  <2>2. <<262144, 4096, 64, 1>>[j + 4 - 4 * ((j + 3) \div 4)] = 262144
    BY <2>1, SMT
  <2>3. QED
    BY <1>1, <2>1, <2>2, SMT DEF Sextet
<1>2. CASE j = 4 * k - 2
  <2>1. (j + 3) \div 4 = k /\ j + 4 - 4 * k = 2
    BY <1>2, SMT
  <2>2. <<262144, 4096, 64, 1>>[j + 4 - 4 * ((j + 3) \div 4)] = 4096
    BY <2>1, SMT
  <2>3. QED
    BY <1>2, <2>1, <2>2, SMT DEF Sextet
<1>3. CASE j = 4 * k - 1
  <2>1. (j + 3) \div 4 = k /\ j + 4 - 4 * k = 3
    BY <1>3, SMT
  <2>2. <<262144, 4096, 64, 1>>[j + 4 - 4 * ((j + 3) \div 4)] = 64
    BY <2>1, SMT
  <2>3. QED
    BY <1>3, <2>1, <2>2, SMT DEF Sextet
<1>4. CASE j = 4 * k
  <2>1. (j + 3) \div 4 = k /\ j + 4 - 4 * k = 4
    BY <1>4, SMT
  <2>2. <<262144, 4096, 64, 1>>[j + 4 - 4 * ((j + 3) \div 4)] = 1
    BY <2>1, SMT
  <2>3. QED
    BY <1>4, <2>1, <2>2, SMT DEF Sextet
<1>5. QED
  BY <1>1, <1>2, <1>3, <1>4, SMT

LEMMA SextetRange ==
  ASSUME NEW data \in Seq(Bytes), NEW j \in Nat \ {0}
  PROVE  Sextet(data, j) \in 0..63
<1> DEFINE k == (j + 3) \div 4
           w == <<262144, 4096, 64, 1>>[j + 4 - 4 * k]
<1>1. k \in Nat \ {0} /\ j + 4 - 4 * k \in 1..4
  BY SMT
<1>2. Triple(data, k) \in Nat
  BY <1>1, TripleIsNat, SMT
<1>3. w \in Nat \ {0}
  <2> HIDE DEF k
  <2>1. QED
    BY <1>1, SMT
<1>4. Sextet(data, j) = (Triple(data, k) \div w) % 64
  BY SMT DEF Sextet
<1> HIDE DEF k, w
<1>5. PICK x \in Nat : x = Triple(data, k) \div w
  BY <1>2, <1>3, SMT
<1>6. x % 64 \in 0..63
  BY SMT
<1>7. QED
  BY <1>4, <1>5, <1>6
-----------------------------------------------------------------------------
(***************************************************************************)
(* Reading it.                                                             *)
(***************************************************************************)

\* The padding is written over sextets that are zero.
LEMMA PaddingIsZero ==
  ASSUME NEW data \in Seq(Bytes), NEW j \in 1..OutputLength(data),
         j > OutputLength(data) - Padding(data)
  PROVE  Sextet(data, j) = 0
<1> DEFINE n == Len(data)
           k == OutputLength(data) \div 4
<1>1. /\ n \in Nat /\ k \in Nat \ {0} /\ OutputLength(data) = 4 * k /\ Padding(data) \in 1..2
      /\ n = 3 * k - Padding(data)
  BY Lengths, SMT
<1>2. Octet(data, 3 * k) = 0
  BY <1>1, SMT DEF Octet
<1>3. Octet(data, 3 * k - 2) \in Bytes /\ Octet(data, 3 * k - 1) \in Bytes
  <2>1. 3 * k - 2 \in Nat \ {0} /\ 3 * k - 1 \in Nat \ {0}
    BY <1>1, SMT
  <2>2. QED
    BY <2>1, OctetIsByte
<1> DEFINE a == Octet(data, 3 * k - 2)
           b == Octet(data, 3 * k - 1)
<1>4. Triple(data, k) = a * 65536 + b * 256 + 0
  BY <1>2, SMT DEF Triple
<1>5. Padding(data) = 2 => b = 0
  <2>1. Padding(data) = 2 => ~(3 * k - 1 <= Len(data))
    BY <1>1, SMT
  <2>2. QED
    BY <2>1, SMT DEF Octet
<1>6. j \in Nat /\ (j = 4 * k \/ (j = 4 * k - 1 /\ Padding(data) = 2))
  BY <1>1, SMT
<1> HIDE DEF a, b, k, n
<1>7. PICK x \in Bytes, y \in Bytes : x = a /\ y = b
  BY <1>3 DEF a, b
<1>8. (Triple(data, k) \div 1) % 64 = 0
  <2>1. Triple(data, k) = x * 65536 + y * 256
    BY <1>4, <1>7, SMT DEF Bytes
  <2>2. QED
    BY <2>1, PaddedSextets, SMT
<1>9. Padding(data) = 2 => (Triple(data, k) \div 64) % 64 = 0
  <2>1. Padding(data) = 2 => Triple(data, k) = x * 65536
    BY <1>4, <1>5, <1>7, SMT DEF Bytes
  <2>2. QED
    BY <2>1, PaddedSextets, SMT
<1>10. QED
  BY <1>1, <1>6, <1>8, <1>9, SextetOfTriple, SMT

LEMMA CharactersAreRead ==
  ASSUME NEW data \in Seq(Bytes), NEW j \in 1..OutputLength(data)
  PROVE  SixBits(base64_encode(data)[j]) = Sextet(data, j)
<1>1. Sextet(data, j) \in 0..63
  <2>1. j \in Nat \ {0}
    BY Lengths, SMT
  <2>2. QED
    BY <2>1, SextetRange, Zenon
<1>2. CASE j > OutputLength(data) - Padding(data)
  <2>1. base64_encode(data)[j] = "="
    BY <1>2 DEF base64_encode
  <2>2. QED
    BY <1>2, <2>1, PaddingIsZero DEF SixBits
<1>3. CASE ~(j > OutputLength(data) - Padding(data))
  <2>1. base64_encode(data)[j] = encoding_table[Sextet(data, j) + 1]
    BY <1>3 DEF base64_encode
  <2>2. QED
    BY <1>1, <2>1, SixBitsOfLetter
<1>4. QED
  BY <1>2, <1>3

\* Four characters are the triple they were made of.
LEMMA GroupsAreTriples ==
  ASSUME NEW data \in Seq(Bytes), NEW k \in 1..OutputLength(data) \div 4
  PROVE  Group24(base64_encode(data), k) = Triple(data, k)
<1> DEFINE text == base64_encode(data)
           t == Triple(data, k)
<1>1. /\ k \in Nat \ {0}
      /\ 4 * k - 3 \in 1..OutputLength(data) /\ 4 * k - 2 \in 1..OutputLength(data)
      /\ 4 * k - 1 \in 1..OutputLength(data) /\ 4 * k \in 1..OutputLength(data)
  BY Lengths, SMT
<1>2. /\ SixBits(text[4 * k - 3]) = Sextet(data, 4 * k - 3)
      /\ SixBits(text[4 * k - 2]) = Sextet(data, 4 * k - 2)
      /\ SixBits(text[4 * k - 1]) = Sextet(data, 4 * k - 1)
      /\ SixBits(text[4 * k]) = Sextet(data, 4 * k)
  BY <1>1, CharactersAreRead
<1>3. t \in Nat /\ t < 16777216
  BY <1>1, TripleIsNat, SMT
<1> HIDE DEF t
<1>4. \A j \in Nat : /\ j = 4 * k - 3 => Sextet(data, j) = (t \div 262144) % 64
                     /\ j = 4 * k - 2 => Sextet(data, j) = (t \div 4096) % 64
                     /\ j = 4 * k - 1 => Sextet(data, j) = (t \div 64) % 64
                     /\ j = 4 * k => Sextet(data, j) = (t \div 1) % 64
  BY <1>1, SextetOfTriple, SMT DEF t
<1>5. Group24(text, k) = ((t \div 262144) % 64) * 262144 + ((t \div 4096) % 64) * 4096
                           + ((t \div 64) % 64) * 64 + ((t \div 1) % 64)
  BY <1>1, <1>2, <1>4, SMT DEF Group24
<1>6. ((t \div 262144) % 64) * 262144 + ((t \div 4096) % 64) * 4096
        + ((t \div 64) % 64) * 64 + ((t \div 1) % 64) = t
  BY <1>3, OfSextets, SMT
<1>7. Group24(text, k) = t
  BY <1>5, <1>6, SMT
<1>8. QED
  BY <1>7 DEF t

\* The padding tells how many bytes the last group has.
LEMMA MissingIsPadding ==
  ASSUME NEW data \in Seq(Bytes)
  PROVE  /\ Len(base64_encode(data)) = OutputLength(data)
         /\ Missing(base64_encode(data)) = Padding(data)
<1> DEFINE text == base64_encode(data)
           out == OutputLength(data)
           pad == Padding(data)
<1>1. out \in Nat /\ pad \in 0..2 /\ (pad > 0 => out >= 4) /\ (out > 0 => out >= 4)
  BY Lengths, SMT
<1>2. Len(text) = out /\ (text = <<>> <=> out = 0)
  BY <1>1 DEF base64_encode
<1>3. \A j \in 1..out : text[j] = "=" <=> j > out - pad
  <2> SUFFICES ASSUME NEW j \in 1..out PROVE text[j] = "=" <=> j > out - pad
    OBVIOUS
  <2>1. Sextet(data, j) + 1 \in 1..64
    <3>1. j \in Nat \ {0}
      BY <1>1, SMT
    <3>2. PICK v \in 0..63 : v = Sextet(data, j)
      BY <3>1, SextetRange, Zenon
    <3>3. v + 1 \in 1..64
      OBVIOUS
    <3>4. QED
      BY <3>2, <3>3
  <2>2. encoding_table[Sextet(data, j) + 1] # "="
    BY <2>1, TableHasNoPadding
  <2>3. text[j] = IF j > out - pad THEN "=" ELSE encoding_table[Sextet(data, j) + 1]
    BY DEF base64_encode
  <2>4. QED
    BY <2>2, <2>3
<1> HIDE DEF text, out, pad
<1>4. Missing(text) = pad
  <2>1. CASE out = 0
    BY <1>1, <1>2, <2>1 DEF Missing
  <2>2. CASE out >= 4
    <3>1. /\ text[out] = "=" <=> pad > 0
          /\ text[out - 1] = "=" <=> pad > 1
      BY <1>1, <1>3, <2>2
    <3>2. QED
      BY <1>1, <1>2, <2>2, <3>1 DEF Missing
  <2>3. QED
    BY <1>1, <2>1, <2>2
<1>5. QED
  BY <1>2, <1>4 DEF text, out, pad

\* Whatever bytes deflate yields, the base64 of them is read back.
THEOREM EncodedIsDecoded ==
  ASSUME NEW data \in Seq(Bytes)
  PROVE  Decoded(base64_encode(data)) = data
<1> DEFINE text == base64_encode(data)
           groups == OutputLength(data) \div 4
<1>1. /\ groups \in Nat /\ Len(data) = 3 * groups - Padding(data) /\ Padding(data) \in 0..2
      /\ Len(text) \div 4 = groups /\ Missing(text) = Padding(data)
  BY Lengths, MissingIsPadding
<1>2. ASSUME NEW i \in 1..Len(data)
      PROVE  LET k == (i + 2) \div 3
             IN (Group24(text, k) \div <<65536, 256, 1>>[i + 3 - 3 * k]) % 256 = data[i]
  <2> DEFINE k == (i + 2) \div 3
             w == <<65536, 256, 1>>[i + 3 - 3 * k]
             a == Octet(data, 3 * k - 2)
             b == Octet(data, 3 * k - 1)
             c == Octet(data, 3 * k)
  <2>1. k \in 1..groups /\ (i = 3 * k - 2 \/ i = 3 * k - 1 \/ i = 3 * k)
    BY <1>1, SMT
  <2>2. Group24(text, k) = Triple(data, k)
    BY <2>1, GroupsAreTriples
  <2>3. a \in Bytes /\ b \in Bytes /\ c \in Bytes
    <3>1. 3 * k - 2 \in Nat \ {0} /\ 3 * k - 1 \in Nat \ {0} /\ 3 * k \in Nat \ {0}
      BY <2>1, SMT
    <3>2. QED
      BY <3>1, OctetIsByte
  <2>4. Triple(data, k) = a * 65536 + b * 256 + c
    BY SMT DEF Triple
  <2>5. data[i] = Octet(data, i)
    BY DEF Octet
  <2>6. /\ i = 3 * k - 2 => w = 65536 /\ data[i] = a
        /\ i = 3 * k - 1 => w = 256 /\ data[i] = b
        /\ i = 3 * k => w = 1 /\ data[i] = c
    <3> HIDE DEF k
    <3>1. QED
      BY <2>1, <2>5, SMT
  <2> HIDE DEF k, w, a, b, c
  <2>7. /\ (Triple(data, k) \div 65536) % 256 = a
        /\ (Triple(data, k) \div 256) % 256 = b
        /\ (Triple(data, k) \div 1) % 256 = c
    BY <2>3, <2>4, OfOctets, SMT
  <2>8. (Triple(data, k) \div w) % 256 = data[i]
    BY <2>1, <2>6, <2>7, SMT
  <2>9. QED
    BY <2>2, <2>8, SMT DEF k, w
<1> HIDE DEF text
<1>3. 3 * (Len(text) \div 4) - Missing(text) = Len(data)
  BY <1>1, SMT
<1>4. Decoded(text) = [i \in 1..Len(data) |->
                          LET k == (i + 2) \div 3
                          IN (Group24(text, k) \div <<65536, 256, 1>>[i + 3 - 3 * k]) % 256]
  BY <1>3, SMT DEF Decoded
<1>5. Decoded(text) = [i \in 1..Len(data) |-> data[i]]
  BY <1>2, <1>4, SMT
<1>6. QED
  BY <1>5 DEF text
-----------------------------------------------------------------------------
(***************************************************************************)
(* What a reader of JSON makes of a text (Message): a text is read piece   *)
(* by piece.                                                               *)
(***************************************************************************)

\* What stands in strings that were read: also what an escape sequence gives.
Readable(S) == S \cup Range(Meaning) \cup {Unicode}

LEMMA Widened ==
  ASSUME NEW S
  PROVE  S \in SUBSET Readable(S) /\ Seq(S) \in SUBSET Seq(Readable(S)) /\ Unicode \in Readable(S)
<1>1. S \in SUBSET Readable(S) /\ Unicode \in Readable(S)
  BY DEF Readable
<1>2. ASSUME NEW s \in Seq(S)
      PROVE  s \in Seq(Readable(S))
  <2>1. Len(s) \in Nat /\ s \in [1..Len(s) -> S]
    BY LenProperties
  <2>2. s \in [1..Len(s) -> Readable(S)]
    BY <1>1, <2>1
  <2>3. QED
    BY <2>1, <2>2, SeqDef
<1>3. QED
  BY <1>1, <1>2

\* What a reader of JSON can have done.
Readers(S) ==
    [inside : BOOLEAN, refused : BOOLEAN, escape : 0..5,
     string : Seq(Readable(S)), found : Seq(Seq(Readable(S)))]

\* Read, case by case.
LEMMA ReadCases ==
  ASSUME NEW S, NEW r \in Readers(S), NEW ch
  PROVE  /\ r.refused => Read(r, ch) = r
         /\ ~r.refused /\ ~r.inside => Read(r, ch) = ReadOutside(r, ch)
         /\ ~r.refused /\ r.inside /\ r.escape = 0 => Read(r, ch) = ReadPlain(r, ch)
         /\ ~r.refused /\ r.inside /\ r.escape = 5 => Read(r, ch) = ReadEscaped(r, ch)
         /\ ~r.refused /\ r.inside /\ r.escape \in 1..4 => Read(r, ch) = ReadDigit(r, ch)
         /\ r.escape = 0 \/ r.escape = 5 \/ r.escape \in 1..4
<1>1. r.refused \in BOOLEAN /\ r.inside \in BOOLEAN /\ r.escape \in 0..5
  BY DEF Readers
<1>2. r.escape = 0 \/ r.escape = 5 \/ r.escape \in 1..4
  BY <1>1
<1>3. r.refused => Read(r, ch) = r
  BY <1>1 DEF Read
<1>4. ~r.refused /\ ~r.inside => Read(r, ch) = ReadOutside(r, ch)
  BY <1>1 DEF Read
<1>5. ~r.refused /\ r.inside /\ r.escape = 0 => Read(r, ch) = ReadPlain(r, ch)
  BY <1>1 DEF Read
<1>6. ~r.refused /\ r.inside /\ r.escape = 5 => Read(r, ch) = ReadEscaped(r, ch)
  BY <1>1 DEF Read
<1>7. ~r.refused /\ r.inside /\ r.escape \in 1..4 => Read(r, ch) = ReadDigit(r, ch)
  BY <1>1 DEF Read
<1>8. QED
  BY <1>2, <1>3, <1>4, <1>5, <1>6, <1>7

\* What each of these steps makes of a reader.
LEMMA Changes ==
  ASSUME NEW S, NEW r \in Readers(S), NEW ch \in Readable(S), NEW n \in 0..5
  PROVE  /\ Refused(r) \in Readers(S) /\ Refused(r).refused
         /\ [r EXCEPT !.escape = n] \in Readers(S)
         /\ Appended(r, ch, n) \in Readers(S)
         /\ [r EXCEPT !.inside = TRUE, !.string = <<>>] \in Readers(S)
         /\ [r EXCEPT !.inside = FALSE, !.found = Append(@, r.string)] \in Readers(S)
<1>1. /\ r.inside \in BOOLEAN /\ r.refused \in BOOLEAN /\ r.escape \in 0..5
      /\ r.string \in Seq(Readable(S)) /\ r.found \in Seq(Seq(Readable(S)))
  BY DEF Readers
<1>2. <<>> \in Seq(Readable(S)) /\ Append(r.string, ch) \in Seq(Readable(S))
      /\ Append(r.found, r.string) \in Seq(Seq(Readable(S)))
  BY <1>1, AppendProperties, EmptySeq
<1>3. Refused(r) \in Readers(S) /\ Refused(r).refused
  BY DEF Readers, Refused
<1>4. [r EXCEPT !.escape = n] \in Readers(S)
  BY DEF Readers
<1>5. Appended(r, ch, n) \in Readers(S)
  BY <1>2 DEF Readers, Appended
<1>6. [r EXCEPT !.inside = TRUE, !.string = <<>>] \in Readers(S)
  BY <1>2 DEF Readers
<1>7. [r EXCEPT !.inside = FALSE, !.found = Append(@, r.string)] \in Readers(S)
  BY <1>2 DEF Readers
<1>8. QED
  BY <1>3, <1>4, <1>5, <1>6, <1>7

LEMMA ReadType ==
  ASSUME NEW S, NEW r \in Readers(S), NEW ch \in S
  PROVE  Read(r, ch) \in Readers(S)
<1>1. ch \in Readable(S) /\ Unicode \in Readable(S) /\ \A c \in DOMAIN Meaning : Meaning[c] \in Readable(S)
  BY Widened DEF Readable, Range
<1>2. CASE r.refused
  BY <1>2, ReadCases
<1>3. CASE ~r.refused /\ ~r.inside
  <2>1. [r EXCEPT !.inside = TRUE, !.string = <<>>] \in Readers(S)
    <3>1. 0 \in 0..5
      OBVIOUS
    <3>2. QED
      BY <1>1, <3>1, Changes
  <2>2. ReadOutside(r, ch) \in Readers(S)
    BY <2>1 DEF ReadOutside
  <2>3. QED
    BY <1>3, <2>2, ReadCases
<1>4. CASE ~r.refused /\ r.inside /\ r.escape = 0
  <2>1. 0 \in 0..5 /\ 5 \in 0..5
    OBVIOUS
  <2>2. Appended(r, ch, 0) \in Readers(S) /\ [r EXCEPT !.escape = 5] \in Readers(S)
    BY <1>1, <2>1, Changes
  <2>3. ReadPlain(r, ch) \in Readers(S)
    BY <1>1, <2>1, <2>2, Changes DEF ReadPlain
  <2>4. QED
    BY <1>4, <2>3, ReadCases
<1>5. CASE ~r.refused /\ r.inside /\ r.escape = 5
  <2>1. 0 \in 0..5 /\ 4 \in 0..5
    OBVIOUS
  <2>2. Appended(r, ch, 0) \in Readers(S) /\ [r EXCEPT !.escape = 4] \in Readers(S) /\ Refused(r) \in Readers(S)
    BY <1>1, <2>1, Changes
  <2>3. \A c \in DOMAIN Meaning : Appended(r, Meaning[c], 0) \in Readers(S)
    BY <1>1, <2>1, Changes
  <2>4. ReadEscaped(r, ch) \in Readers(S)
    BY <2>2, <2>3 DEF ReadEscaped
  <2>5. QED
    BY <1>5, <2>4, ReadCases
<1>6. CASE ~r.refused /\ r.inside /\ r.escape \in 1..4
  <2>1. 0 \in 0..5 /\ r.escape - 1 \in 0..5
    BY <1>6
  <2>2. /\ Appended(r, Unicode, 0) \in Readers(S) /\ [r EXCEPT !.escape = r.escape - 1] \in Readers(S)
        /\ Refused(r) \in Readers(S)
    BY <1>1, <2>1, Changes
  <2>3. ReadDigit(r, ch) \in Readers(S)
    BY <2>2 DEF ReadDigit
  <2>4. QED
    BY <1>6, <2>3, ReadCases
<1>7. QED
  BY <1>2, <1>3, <1>4, <1>5, <1>6, ReadCases

\* f is the reader behind each beginning of a text.
Reads(f, r, text) == f[0] = r /\ \A i \in 1..Len(text) : f[i] = Read(f[i - 1], text[i])

LEMMA ReadingIs ==
  ASSUME NEW S, NEW r \in Readers(S), NEW text \in Seq(S)
  PROVE  Reading(r, text) \in [0..Len(text) -> Readers(S)] /\ Reads(Reading(r, text), r, text)
<1> DEFINE n == Len(text)
           step == [i \in 1..n |-> [q \in Readers(S) |-> Read(q, text[i])]]
           E(f) == f = [i \in 0..n |-> IF i = 0 THEN r ELSE Read(f[i - 1], text[i])]
           reading == Reading(r, text)
<1>1. n \in Nat /\ \A i \in 1..n : text[i] \in S
  BY LenProperties, ElementOfSeq
<1>2. step \in [1..n -> [Readers(S) -> Readers(S)]]
  BY <1>1, ReadType
<1>3. PICK f \in [0..n -> Readers(S)] : Makes(f, r, step, n)
  <2> HIDE DEF n, step
  <2>1. QED
    BY <1>1, <1>2, Iterates
<1>4. \A i \in 0..n : i = 0 \/ (i \in 1..n /\ i - 1 \in 0..n)
  BY <1>1
<1>5. \A i \in 0..n : f[i] = IF i = 0 THEN r ELSE Read(f[i - 1], text[i])
  BY <1>3, <1>4 DEF Makes
<1>6. E(f)
  BY <1>5
<1>7. E(reading)
  BY <1>6 DEF Reading
<1> HIDE DEF reading, n
<1>8. /\ reading[0] = r /\ \A i \in 1..n : reading[i] = Read(reading[i - 1], text[i])
      /\ reading = [i \in 0..n |-> reading[i]]
  <2>1. \A i \in 0..n : reading[i] = IF i = 0 THEN r ELSE Read(reading[i - 1], text[i])
    BY <1>7
  <2>2. reading = [i \in 0..n |-> reading[i]]
    BY <1>7
  <2>3. 0 \in 0..n /\ \A i \in 1..n : i \in 0..n /\ i # 0
    BY <1>1
  <2>4. QED
    BY <2>1, <2>2, <2>3
<1>9. \A i \in 0..n : reading[i] \in Readers(S)
  <2> DEFINE P == {i \in 0..n : reading[i] \in Readers(S)}
  <2>1. 0 \in P
    BY <1>1, <1>8
  <2>2. ASSUME NEW i \in 1..n, i - 1 \in P
        PROVE  i \in P
    <3>1. reading[i - 1] \in Readers(S) /\ text[i] \in S /\ i \in 0..n
      BY <1>1, <2>2
    <3>2. reading[i] \in Readers(S)
      BY <1>8, <3>1, ReadType
    <3>3. QED
      BY <3>1, <3>2
  <2>3. \A i \in P : reading[i] \in Readers(S)
    OBVIOUS
  <2> HIDE DEF P
  <2>4. \A i \in 0..n : i \in P
    BY <1>1, <2>1, <2>2, UpTo
  <2>5. QED
    BY <2>3, <2>4
<1>10. QED
  BY <1>8, <1>9 DEF Reads, reading, n

\* The reader behind a text.
After(r, text) == Reading(r, text)[Len(text)]

LEMMA AfterType ==
  ASSUME NEW S, NEW r \in Readers(S), NEW text \in Seq(S)
  PROVE  After(r, text) \in Readers(S)
<1>1. Len(text) \in 0..Len(text)
  BY LenProperties
<1>2. QED
  BY <1>1, ReadingIs DEF After

LEMMA AfterNothing ==
  ASSUME NEW S, NEW r \in Readers(S)
  PROVE  After(r, <<>>) = r
<1>1. <<>> \in Seq(S) /\ Len(<<>>) = 0
  BY EmptySeq
<1>2. QED
  BY <1>1, ReadingIs DEF Reads, After

LEMMA AfterOne ==
  ASSUME NEW S, NEW r \in Readers(S), NEW ch \in S
  PROVE  After(r, <<ch>>) = Read(r, ch)
<1>1. <<ch>> \in Seq(S) /\ Len(<<ch>>) = 1 /\ <<ch>>[1] = ch
  BY Lists
<1>2. 1 \in 1..1 /\ 1 - 1 = 0
  OBVIOUS
<1>3. Reading(r, <<ch>>)[1] = Read(Reading(r, <<ch>>)[1 - 1], <<ch>>[1]) /\ Reading(r, <<ch>>)[0] = r
  <2>1. Reads(Reading(r, <<ch>>), r, <<ch>>)
    BY <1>1, ReadingIs
  <2>2. QED
    BY <1>1, <1>2, <2>1 DEF Reads
<1>4. QED
  BY <1>1, <1>2, <1>3 DEF After

\* A text that is read in two pieces.
ReadInTurn(r, x, y) == After(r, x \o y) = After(After(r, x), y)

LEMMA AfterBoth ==
  ASSUME NEW S, NEW r \in Readers(S), NEW x \in Seq(S), NEW y \in Seq(S)
  PROVE  ReadInTurn(r, x, y)
<1> DEFINE z == x \o y
           f == Reading(r, z)
           g == Reading(r, x)
           q == After(r, x)
           h == Reading(q, y)
           n == Len(x)
           m == Len(y)
<1>1. n \in Nat /\ m \in Nat
  BY LenProperties
<1>2. z \in Seq(S) /\ JoinOf(x, y, z)
  BY Join
<1>3. Len(z) = n + m /\ (\A i \in 1..n : z[i] = x[i]) /\ \A i \in 1..m : z[n + i] = y[i]
  BY <1>2 DEF JoinOf
<1>4. f[0] = r /\ \A i \in 1..Len(z) : f[i] = Read(f[i - 1], z[i])
  <2>1. Reads(f, r, z)
    BY <1>2, ReadingIs
  <2>2. QED
    BY <2>1 DEF Reads
<1>5. g[0] = r /\ \A i \in 1..n : g[i] = Read(g[i - 1], x[i])
  <2>1. Reads(g, r, x)
    BY ReadingIs
  <2>2. QED
    BY <2>1 DEF Reads
<1>6. h[0] = q /\ \A i \in 1..m : h[i] = Read(h[i - 1], y[i])
  <2>1. q \in Readers(S)
    BY AfterType
  <2>2. Reads(h, q, y)
    <3> HIDE DEF q
    <3>1. QED
      BY <2>1, ReadingIs
  <2>3. QED
    BY <2>2 DEF Reads
<1>7. q = g[n]
  BY DEF After
<1> HIDE DEF z, f, g, h, q, n, m
<1>8. \A i \in 0..n : f[i] = g[i]
  <2> DEFINE P == {i \in 0..n : f[i] = g[i]}
  <2>1. 0 \in P
    BY <1>1, <1>4, <1>5
  <2>2. ASSUME NEW i \in 1..n, i - 1 \in P
        PROVE  i \in P
    <3>1. i \in 1..Len(z) /\ i \in 0..n
      BY <1>1, <1>3
    <3>2. f[i] = g[i]
      BY <1>3, <1>4, <1>5, <2>2, <3>1
    <3>3. QED
      BY <3>1, <3>2
  <2>3. \A i \in P : f[i] = g[i]
    OBVIOUS
  <2> HIDE DEF P
  <2>4. \A i \in 0..n : i \in P
    BY <1>1, <2>1, <2>2, UpTo
  <2>5. QED
    BY <2>3, <2>4
<1>9. \A i \in 0..m : f[n + i] = h[i]
  <2> DEFINE P == {i \in 0..m : f[n + i] = h[i]}
  <2>1. 0 \in P
    <3>1. n \in 0..n /\ n + 0 = n /\ 0 \in 0..m
      BY <1>1
    <3>2. QED
      BY <1>6, <1>7, <1>8, <3>1
  <2>2. ASSUME NEW i \in 1..m, i - 1 \in P
        PROVE  i \in P
    <3>1. n + i \in 1..Len(z) /\ i \in 0..m /\ (n + i) - 1 = n + (i - 1)
      BY <1>1, <1>3
    <3>2. f[n + (i - 1)] = h[i - 1]
      BY <2>2
    <3>3. f[n + i] = h[i]
      BY <1>3, <1>4, <1>6, <3>1, <3>2
    <3>4. QED
      BY <3>1, <3>3
  <2>3. \A i \in P : f[n + i] = h[i]
    OBVIOUS
  <2> HIDE DEF P
  <2>4. \A i \in 0..m : i \in P
    BY <1>1, <2>1, <2>2, UpTo
  <2>5. QED
    BY <2>3, <2>4
<1>10. f[Len(z)] = h[m]
  BY <1>1, <1>3, <1>9
<1>11. QED
  BY <1>10 DEF ReadInTurn, After, z, f, h, q, m

-----------------------------------------------------------------------------
(***************************************************************************)
(* A string as Value::serialize writes it: with no backslash and no        *)
(* control character in it, it is read as it was written.                  *)
(***************************************************************************)

LEMMA WrittenType ==
  ASSUME NEW S, Quote \in S, Backslash \in S, NEW ch \in S
  PROVE  Written(ch) \in Seq(S)
<1>1. <<Backslash, Quote>> \in Seq(S) /\ <<ch>> \in Seq(S)
  BY Lists
<1>2. QED
  BY <1>1 DEF Written

LEMMA EscapedIs ==
  ASSUME NEW S, Quote \in S, Backslash \in S, NEW s \in Seq(S)
  PROVE  LET f == Escaped(s)
         IN /\ f[0] = <<>> /\ \A i \in 0..Len(s) : f[i] \in Seq(S)
            /\ \A i \in 1..Len(s) : f[i] = f[i - 1] \o Written(s[i])
<1> DEFINE n == Len(s)
           D == Seq(S)
           step == [i \in 1..n |-> [t \in D |-> t \o Written(s[i])]]
           E(f) == f = [i \in 0..n |-> IF i = 0 THEN <<>> ELSE f[i - 1] \o Written(s[i])]
           escaped == Escaped(s)
<1>1. n \in Nat /\ \A i \in 1..n : s[i] \in S
  BY LenProperties, ElementOfSeq
<1>2. \A i \in 1..n : Written(s[i]) \in D
  BY <1>1, WrittenType
<1>3. <<>> \in D
  BY EmptySeq
<1>4. \A t \in D, u \in D : t \o u \in D
  BY ConcatProperties
<1> HIDE DEF D
<1>5. step \in [1..n -> [D -> D]]
  BY <1>2, <1>4
<1>6. PICK f \in [0..n -> D] : Makes(f, <<>>, step, n)
  <2> HIDE DEF n, step
  <2>1. QED
    BY <1>1, <1>3, <1>5, Iterates
<1>7. \A i \in 0..n : i = 0 \/ (i \in 1..n /\ i - 1 \in 0..n)
  BY <1>1
<1>8. \A i \in 0..n : f[i] = IF i = 0 THEN <<>> ELSE f[i - 1] \o Written(s[i])
  BY <1>6, <1>7 DEF Makes
<1>9. E(f)
  BY <1>8
<1>10. E(escaped)
  BY <1>9 DEF Escaped
<1> HIDE DEF escaped, n
<1>11. escaped[0] = <<>> /\ \A i \in 1..n : escaped[i] = escaped[i - 1] \o Written(s[i])
  <2>1. \A i \in 0..n : escaped[i] = IF i = 0 THEN <<>> ELSE escaped[i - 1] \o Written(s[i])
    BY <1>10
  <2>2. 0 \in 0..n /\ \A i \in 1..n : i \in 0..n /\ i # 0
    BY <1>1
  <2>3. QED
    BY <2>1, <2>2
<1>12. \A i \in 0..n : escaped[i] \in D
  <2> DEFINE P == {i \in 0..n : escaped[i] \in D}
  <2>1. 0 \in P
    BY <1>1, <1>3, <1>11
  <2>2. ASSUME NEW i \in 1..n, i - 1 \in P
        PROVE  i \in P
    <3>1. escaped[i - 1] \in D /\ i \in 0..n
      BY <1>1, <2>2
    <3>2. escaped[i] \in D
      BY <1>2, <1>4, <1>11, <3>1
    <3>3. QED
      BY <3>1, <3>2
  <2>3. \A i \in P : escaped[i] \in D
    OBVIOUS
  <2> HIDE DEF P
  <2>4. \A i \in 0..n : i \in P
    BY <1>1, <2>1, <2>2, UpTo
  <2>5. QED
    BY <2>3, <2>4
<1>13. QED
  BY <1>11, <1>12 DEF escaped, n, D

LEMMA SerializeType ==
  ASSUME NEW S, Quote \in S, Backslash \in S, NEW s \in Seq(S)
  PROVE  /\ Escaped(s)[Len(s)] \in Seq(S) /\ <<Quote>> \in Seq(S) /\ Quote \in S
         /\ Serialize(s) \in Seq(S)
<1>1. Quote \in S
  OBVIOUS
<1>2. <<Quote>> \in Seq(S)
  BY <1>1, Lists
<1>3. Len(s) \in 0..Len(s)
  BY LenProperties
<1>4. Escaped(s)[Len(s)] \in Seq(S)
  BY <1>3, EscapedIs
<1>5. QED
  BY <1>1, <1>2, <1>4, ConcatProperties DEF Serialize

LEMMA Marks ==
  /\ Quote # Backslash /\ Quote # Comma /\ Backslash # Comma
  /\ Quote \notin Unescaped /\ Comma \notin Unescaped
  /\ Quote \notin Controls /\ Backslash \notin Controls /\ Comma \notin Controls
  /\ Backslash \in Unescaped
<1>1. Quote # Backslash /\ Quote # Comma /\ Backslash # Comma
  BY DEF Quote, Backslash, Comma
<1>2. {Quote, Backslash, Comma} \cap Controls = {}
  BY Zenon DEF Quote, Backslash, Comma, Controls
<1>3. QED
  BY <1>1, <1>2 DEF Unescaped

\* What can follow a backslash, and what can be a digit behind a "u".
LEMMA Escapes ==
  /\ Quote \in Itself /\ Backslash \in Itself
  /\ Quote \notin Hex /\ Backslash \notin Hex
  /\ \A ch \in Controls : ch \notin Itself /\ ch \notin DOMAIN Meaning /\ ch # "u" /\ ch \notin Hex
<1> DEFINE Letters09 == {"0", "1", "2", "3", "4", "5", "6", "7", "8", "9"}
           LettersAF == {"a", "b", "c", "d", "e", "f", "A", "B", "C", "D", "E", "F"}
<1>1. Range(Digits) = Letters09
  <2>1. DOMAIN Digits = {1, 2, 3, 4, 5, 6, 7, 8, 9, 10}
    BY DEF Digits
  <2>2. Range(Digits) = {Digits[1], Digits[2], Digits[3], Digits[4], Digits[5],
                         Digits[6], Digits[7], Digits[8], Digits[9], Digits[10]}
    BY <2>1 DEF Range
  <2>3. QED
    BY <2>2 DEF Digits
<1>2. Hex = Letters09 \cup LettersAF
  BY <1>1 DEF Hex
<1>3. DOMAIN Meaning = {"b", "f", "n", "r", "t"}
  BY DEF Meaning
<1>4. Controls \cap (Itself \cup {"u", "b", "f", "n", "r", "t"}) = {}
  BY Zenon DEF Controls, Itself, Quote, Backslash
<1>5. Controls \cap (Letters09 \cup LettersAF) = {}
  BY Zenon DEF Controls
<1>6. {Quote, Backslash} \cap (Letters09 \cup LettersAF) = {}
  BY Zenon DEF Quote, Backslash
<1>7. Quote \in Itself /\ Backslash \in Itself
  BY DEF Itself
<1> HIDE DEF Letters09, LettersAF
<1>8. Quote \notin Hex /\ Backslash \notin Hex
  BY <1>2, <1>6
<1>9. ASSUME NEW ch \in Controls
      PROVE  ch \notin Itself /\ ch \notin DOMAIN Meaning /\ ch # "u" /\ ch \notin Hex
  BY <1>2, <1>3, <1>4, <1>5, Zenon
<1>10. QED
  BY <1>7, <1>8, <1>9

\* The reader is outside of a string and has found these; or inside of one that
\* begins with t.
Underway(S, r) == r \in Readers(S) /\ r.refused = FALSE /\ r.escape = 0
Outside(S, r, F) == Underway(S, r) /\ r.inside = FALSE /\ r.found = F
Inside(S, r, F, t) == Underway(S, r) /\ r.inside = TRUE /\ r.found = F /\ r.string = t

\* Outside of a string the reader waits for a quote.
LEMMA Waits ==
  ASSUME NEW S, NEW F, NEW r, Outside(S, r, F), NEW ch \in S, ch # Quote
  PROVE  Outside(S, After(r, <<ch>>), F)
<1>1. r \in Readers(S) /\ r.inside = FALSE /\ r.refused = FALSE
  BY DEF Outside, Underway
<1>2. After(r, <<ch>>) = Read(r, ch)
  BY <1>1, AfterOne
<1>3. Read(r, ch) = r
  BY <1>1, ReadCases DEF ReadOutside
<1>4. QED
  BY <1>2, <1>3

LEMMA Opens ==
  ASSUME NEW S, Quote \in S, NEW F, NEW r, Outside(S, r, F)
  PROVE  Inside(S, After(r, <<Quote>>), F, <<>>)
<1>1. r \in Readers(S) /\ r.inside = FALSE /\ r.refused = FALSE /\ r.escape = 0 /\ r.found = F
  BY DEF Outside, Underway
<1>2. After(r, <<Quote>>) = Read(r, Quote)
  BY <1>1, AfterOne
<1>3. Read(r, Quote) = [r EXCEPT !.inside = TRUE, !.string = <<>>]
  <2>1. Read(r, Quote) = ReadOutside(r, Quote)
    BY <1>1, ReadCases
  <2>2. QED
    BY <2>1 DEF ReadOutside
<1>4. Read(r, Quote) \in Readers(S)
  BY <1>1, ReadType
<1> DEFINE q == [r EXCEPT !.inside = TRUE, !.string = <<>>]
<1>5. q.inside = TRUE /\ q.refused = FALSE /\ q.escape = 0 /\ q.found = F /\ q.string = <<>>
  BY <1>1 DEF Readers
<1> HIDE DEF q
<1>6. QED
  BY <1>2, <1>3, <1>4, <1>5 DEF Inside, Underway, q

LEMMA Closes ==
  ASSUME NEW S, Quote \in S, NEW F, NEW t, NEW r, Inside(S, r, F, t)
  PROVE  Outside(S, After(r, <<Quote>>), Append(F, t))
<1>1. r \in Readers(S) /\ r.inside = TRUE /\ r.refused = FALSE /\ r.escape = 0 /\ r.found = F /\ r.string = t
  BY DEF Inside, Underway
<1>2. After(r, <<Quote>>) = Read(r, Quote)
  BY <1>1, AfterOne
<1>3. Read(r, Quote) = [r EXCEPT !.inside = FALSE, !.found = Append(r.found, r.string)]
  <2>1. Read(r, Quote) = ReadPlain(r, Quote)
    BY <1>1, ReadCases
  <2>2. QED
    BY <2>1, Marks DEF ReadPlain
<1>4. Read(r, Quote) \in Readers(S)
  BY <1>1, ReadType
<1> DEFINE q == [r EXCEPT !.inside = FALSE, !.found = Append(r.found, r.string)]
<1>5. q.inside = FALSE /\ q.refused = FALSE /\ q.escape = 0 /\ q.found = Append(F, t)
  BY <1>1 DEF Readers
<1> HIDE DEF q
<1>6. QED
  BY <1>2, <1>3, <1>4, <1>5 DEF Outside, Underway, q

LEMMA PairOf ==
  ASSUME NEW S, NEW a \in S, NEW b \in S
  PROVE  <<a>> \o <<b>> = <<a, b>>
<1> DEFINE z == <<a, b>>
           x == <<a>>
           y == <<b>>
<1>1. x \in Seq(S) /\ y \in Seq(S) /\ z \in Seq(S)
  BY Lists
<1>2. Len(x) = 1 /\ Len(y) = 1 /\ Len(z) = 2 /\ x[1] = a /\ y[1] = b /\ z[1] = a /\ z[2] = b
  OBVIOUS
<1> HIDE DEF x, y, z
<1>3. x \o y \in Seq(S) /\ Len(x \o y) = 2 /\ (x \o y)[1] = a /\ (x \o y)[2] = b
  BY <1>1, <1>2, ConcatProperties
<1>4. \A i \in 1..2 : i = 1 \/ i = 2
  OBVIOUS
<1>5. \A i \in 1..2 : (x \o y)[i] = z[i]
  BY <1>2, <1>3, <1>4
<1>6. x \o y = z
  BY <1>1, <1>2, <1>3, <1>5, SeqEqual
<1>7. QED
  BY <1>6 DEF x, y, z

\* What stands for two characters is read one after the other.
LEMMA ReadTwo ==
  ASSUME NEW S, NEW q \in Readers(S), NEW a \in S, NEW b \in S
  PROVE  After(q, <<a, b>>) = Read(Read(q, a), b)
<1>1. <<a>> \in Seq(S) /\ <<b>> \in Seq(S)
  BY Lists
<1>2. ReadInTurn(q, <<a>>, <<b>>)
  BY <1>1, AfterBoth
<1>3. <<a>> \o <<b>> = <<a, b>>
  BY PairOf
<1>4. After(q, <<a>>) = Read(q, a) /\ Read(q, a) \in Readers(S)
  BY AfterOne, ReadType
<1>5. After(Read(q, a), <<b>>) = Read(Read(q, a), b)
  BY <1>4, AfterOne
<1>6. QED
  BY <1>2, <1>3, <1>4, <1>5 DEF ReadInTurn

\* A quote or a backslash behind a backslash stands for itself.
LEMMA QuoteEscaped ==
  ASSUME NEW r, NEW ch \in {Quote, Backslash}
  PROVE  ReadEscaped(r, ch) = Appended(r, ch, 0)
<1>1. ch \in Itself /\ ch \notin DOMAIN Meaning /\ ch # "u"
  <2>1. DOMAIN Meaning = {"b", "f", "n", "r", "t"}
    BY DEF Meaning
  <2>2. {Quote, Backslash} \cap {"u", "b", "f", "n", "r", "t"} = {}
    BY Zenon DEF Quote, Backslash
  <2>3. QED
    BY <2>1, <2>2, Escapes
<1>2. QED
  BY <1>1 DEF ReadEscaped

\* What stands for a character that needs no other escape is read as it.
LEMMA WrittenIsRead ==
  ASSUME NEW S, Quote \in S, Backslash \in S, NEW F, NEW t, NEW r, Inside(S, r, F, t),
         NEW ch \in S, ch \notin Unescaped
  PROVE  Inside(S, After(r, Written(ch)), F, Append(t, ch))
<1>1. /\ r \in Readers(S) /\ r.inside = TRUE /\ r.refused = FALSE /\ r.escape = 0
      /\ r.found = F /\ r.string = t
  BY DEF Inside, Underway
<1>2. ch # Backslash /\ ch \notin Controls
  BY DEF Unescaped
<1>3. CASE ch # Quote
  <2>1. After(r, Written(ch)) = Read(r, ch)
    BY <1>1, <1>3, AfterOne DEF Written
  <2>2. Read(r, ch) = ReadPlain(r, ch)
    BY <1>1, ReadCases
  <2>3. ReadPlain(r, ch) = [r EXCEPT !.escape = 0, !.string = Append(r.string, ch)]
    BY <1>2, <1>3 DEF ReadPlain, Appended
  <2>4. Read(r, ch) \in Readers(S)
    BY <1>1, ReadType
  <2> DEFINE q == [r EXCEPT !.escape = 0, !.string = Append(r.string, ch)]
  <2>5. /\ q.inside = TRUE /\ q.refused = FALSE /\ q.escape = 0
        /\ q.found = F /\ q.string = Append(t, ch)
    BY <1>1 DEF Readers
  <2> HIDE DEF q
  <2>6. QED
    BY <2>1, <2>2, <2>3, <2>4, <2>5 DEF Inside, Underway, q
<1>4. CASE ch = Quote
  <2> DEFINE p == Read(r, Backslash)
             q == Read(p, Quote)
  <2>1. p \in Readers(S)
    BY <1>1, ReadType
  <2>2. After(r, Written(ch)) = q
    <3>1. Written(ch) = <<Backslash, Quote>>
      BY <1>4 DEF Written
    <3>2. After(r, <<Backslash, Quote>>) = q
      BY <1>1, ReadTwo
    <3>3. QED
      BY <3>1, <3>2
  <2>3. p = [r EXCEPT !.escape = 5]
    <3>1. p = ReadPlain(r, Backslash)
      BY <1>1, ReadCases
    <3>2. QED
      BY <3>1, Marks DEF ReadPlain
  <2>4. p.inside = TRUE /\ p.refused = FALSE /\ p.escape = 5 /\ p.found = F /\ p.string = t
    BY <1>1, <2>3 DEF Readers
  <2>5. q \in Readers(S)
    BY <2>1, ReadType
  <2> HIDE DEF p
  <2>6. q = [p EXCEPT !.escape = 0, !.string = Append(p.string, Quote)]
    <3>1. q = ReadEscaped(p, Quote)
      BY <2>1, <2>4, ReadCases
    <3>2. QED
      BY <3>1, QuoteEscaped DEF Appended
  <2>7. /\ q.inside = TRUE /\ q.refused = FALSE /\ q.escape = 0
        /\ q.found = F /\ q.string = Append(t, Quote)
    BY <2>1, <2>4, <2>6 DEF Readers
  <2> HIDE DEF q
  <2>8. QED
    BY <1>4, <2>2, <2>5, <2>7 DEF Inside, Underway
<1>5. QED
  BY <1>3, <1>4

LEMMA Grows ==
  ASSUME NEW S, NEW s \in Seq(S), NEW i \in 1..Len(s)
  PROVE  SubSeq(s, 1, i) = Append(SubSeq(s, 1, i - 1), s[i])
<1> DEFINE t == SubSeq(s, 1, i - 1)
<1>1. Len(s) \in Nat /\ i \in 1..Len(s) /\ 1 \in 1..Len(s) /\ 1 \in 1..i /\ i - 1 \in 1..Len(s) \cup {0}
  BY LenProperties
<1>2. SubSeq(s, 1, i) = t \o <<s[i]>>
  BY <1>1, SubSeqRecursiveSecond
<1>3. t \in Seq(S) /\ s[i] \in S
  BY <1>1, SubSeqProperties, ElementOfSeq
<1> HIDE DEF t
<1>4. Append(t, s[i]) = t \o <<s[i]>>
  BY <1>3, AppendIsConcat
<1>5. QED
  BY <1>2, <1>4 DEF t

\* A string is read quote by quote.
LEMMA StringInTurn ==
  ASSUME NEW S, Quote \in S, Backslash \in S, NEW s \in Seq(S), NEW r \in Readers(S)
  PROVE  After(r, Serialize(s))
            = After(After(After(r, <<Quote>>), Escaped(s)[Len(s)]), <<Quote>>)
<1> DEFINE e == Escaped(s)[Len(s)]
<1>1. <<Quote>> \in Seq(S) /\ e \in Seq(S)
  BY SerializeType
<1> HIDE DEF e
<1>2. ReadInTurn(r, <<Quote>>, e)
  BY <1>1, AfterBoth
<1>3. <<Quote>> \o e \in Seq(S)
  BY <1>1, ConcatProperties
<1>4. ReadInTurn(r, <<Quote>> \o e, <<Quote>>)
  BY <1>1, <1>3, AfterBoth
<1>5. QED
  BY <1>2, <1>4 DEF ReadInTurn, Serialize, e

\* A string that needs no other escape is read as it was written.
LEMMA StringIsRead ==
  ASSUME NEW S, Quote \in S, Backslash \in S, NEW s \in Seq(S), Range(s) \cap Unescaped = {},
         NEW F, NEW r, Outside(S, r, F)
  PROVE  Outside(S, After(r, Serialize(s)), Append(F, s))
<1> DEFINE n == Len(s)
           e == Escaped(s)
           p == After(r, <<Quote>>)
           begins(i) == SubSeq(s, 1, i)
           P == {i \in 0..n : Inside(S, After(p, e[i]), F, begins(i))}
<1>1. n \in Nat /\ \A i \in 1..n : s[i] \in S /\ s[i] \notin Unescaped
  <2>1. n \in Nat /\ \A i \in 1..n : s[i] \in S /\ s[i] \in Range(s)
    BY LenProperties, ElementOfSeq DEF Range
  <2>2. QED
    BY <2>1
<1>2. e[0] = <<>> /\ (\A i \in 0..n : e[i] \in Seq(S)) /\ \A i \in 1..n : e[i] = e[i - 1] \o Written(s[i])
  BY EscapedIs
<1>3. Inside(S, p, F, <<>>)
  BY Opens
<1>4. p \in Readers(S) /\ r \in Readers(S)
  BY <1>3 DEF Inside, Outside, Underway
<1> HIDE DEF n, e, p
<1>5. 0 \in P
  <2>1. After(p, <<>>) = p
    BY <1>4, AfterNothing
  <2>2. begins(0) = <<>>
    BY SubSeqEmpty
  <2>3. 0 \in 0..n
    BY <1>1
  <2>4. QED
    BY <1>2, <1>3, <2>1, <2>2, <2>3
<1>6. ASSUME NEW i \in 1..n, i - 1 \in P
      PROVE  i \in P
  <2>1. i \in 0..n /\ i - 1 \in 0..n /\ Inside(S, After(p, e[i - 1]), F, begins(i - 1))
    BY <1>1, <1>6
  <2>2. Written(s[i]) \in Seq(S)
    BY <1>1, WrittenType
  <2>3. After(p, e[i]) = After(After(p, e[i - 1]), Written(s[i]))
    <3>1. ReadInTurn(p, e[i - 1], Written(s[i]))
      BY <1>2, <1>4, <2>1, <2>2, AfterBoth
    <3>2. QED
      BY <1>2, <3>1 DEF ReadInTurn
  <2>4. begins(i) = Append(begins(i - 1), s[i])
    BY Grows DEF n
  <2> HIDE DEF begins
  <2>5. Inside(S, After(p, e[i]), F, begins(i))
    BY <1>1, <2>1, <2>3, <2>4, WrittenIsRead
  <2>6. QED
    BY <2>1, <2>5
<1>7. Inside(S, After(p, e[n]), F, s)
  <2>1. begins(n) = s
    BY SubSeqFull DEF n
  <2>2. \A i \in P : Inside(S, After(p, e[i]), F, begins(i))
    OBVIOUS
  <2> HIDE DEF P, begins
  <2>3. \A i \in 0..n : i \in P
    BY <1>1, <1>5, <1>6, UpTo
  <2>4. n \in P
    BY <1>1, <2>3
  <2>5. QED
    BY <2>1, <2>2, <2>4
<1>8. Outside(S, After(After(p, e[n]), <<Quote>>), Append(F, s))
  BY <1>7, Closes
<1>9. After(r, Serialize(s)) = After(After(p, e[n]), <<Quote>>)
  BY <1>4, StringInTurn DEF p, e, n
<1>10. QED
  BY <1>8, <1>9

-----------------------------------------------------------------------------
(***************************************************************************)
(* With a backslash or a control character in it, it is not: the reader    *)
(* refuses the text, or it falls behind the string, and sooner or later    *)
(* finds another one.                                                      *)
(***************************************************************************)

\* What a character does to a reader that is inside of a string: it makes it
\* refuse the text, escapes the next one, is part of the string, or ends it.
Goes(p, q) == p.inside = TRUE /\ p.refused = FALSE /\ p.found = q.found
Adds(p, q, ch) == Goes(p, q) /\ p.escape = 0 /\ p.string = Append(q.string, ch)
Reacts(S, q, ch, p) ==
    /\ p \in Readers(S)
    /\ ch \in Controls => p.refused
    /\ q.escape = 0 =>
          /\ ch = Backslash => Goes(p, q) /\ p.escape = 5 /\ p.string = q.string
          /\ ch \notin Controls \cup {Backslash, Quote} => Adds(p, q, ch)
          /\ ch = Quote => /\ p.inside = FALSE /\ p.refused = FALSE /\ p.escape = 0
                           /\ p.found = Append(q.found, q.string)
    /\ q.escape = 5 /\ ch \in {Quote, Backslash} => Adds(p, q, ch)
    /\ q.escape \in 1..4 /\ ch \in {Quote, Backslash} => p.refused
    /\ q.escape # 0 =>
          \/ p.refused
          \/ Goes(p, q) /\ p.escape \in 0..4 /\ Len(p.string) <= Len(q.string) + 1

LEMMA AppendedIs ==
  ASSUME NEW S, NEW q \in Readers(S), q.inside = TRUE, q.refused = FALSE, NEW ch \in Readable(S)
  PROVE  /\ Adds(Appended(q, ch, 0), q, ch)
         /\ Len(Appended(q, ch, 0).string) = Len(q.string) + 1
<1>1. /\ q.string \in Seq(Readable(S)) /\ Len(Append(q.string, ch)) = Len(q.string) + 1
  <2>1. q.string \in Seq(Readable(S))
    BY DEF Readers
  <2>2. QED
    BY <2>1, AppendProperties
<1>2. Adds(Appended(q, ch, 0), q, ch)
  BY DEF Readers, Appended, Adds, Goes
<1>3. QED
  BY <1>1, <1>2 DEF Adds

LEMMA ReadInside ==
  ASSUME NEW S, NEW q \in Readers(S), q.inside = TRUE, q.refused = FALSE, NEW ch \in S
  PROVE  Reacts(S, q, ch, Read(q, ch))
<1> DEFINE p == Read(q, ch)
           escapes == [q EXCEPT !.escape = 5]
           ends == [q EXCEPT !.inside = FALSE, !.found = Append(q.found, q.string)]
           adds == Appended(q, ch, 0)
<1>1. p \in Readers(S)
  BY ReadType
<1>2. q.escape \in 0..5 /\ Len(q.string) \in Nat
  <2>1. q.string \in Seq(Readable(S)) /\ q.escape \in 0..5
    BY DEF Readers
  <2>2. QED
    BY <2>1, LenProperties
<1>3. ch \in Readable(S) /\ Unicode \in Readable(S) /\ \A c \in DOMAIN Meaning : Meaning[c] \in Readable(S)
  BY Widened DEF Readable, Range
<1>4. Refused(q).refused
  <2>1. 0 \in 0..5
    OBVIOUS
  <2>2. QED
    BY <1>3, <2>1, Changes
<1>5. Adds(adds, q, ch) /\ Len(adds.string) = Len(q.string) + 1
  BY <1>3, AppendedIs
<1>6. CASE q.escape = 0
  <2>1. p = ReadPlain(q, ch)
    BY <1>6, ReadCases
  <2>2. ch \in Controls => p = Refused(q)
    BY <2>1, Marks DEF ReadPlain
  <2>3. ch = Backslash => p = escapes
    BY <2>1, Marks DEF ReadPlain
  <2>4. ch \notin Controls \cup {Backslash, Quote} => p = adds
    BY <2>1 DEF ReadPlain
  <2>5. ch = Quote => p = ends
    BY <2>1, Marks DEF ReadPlain
  <2>6. Goes(escapes, q) /\ escapes.escape = 5 /\ escapes.string = q.string
    BY DEF Readers, Goes
  <2>7. /\ ends.inside = FALSE /\ ends.refused = FALSE /\ ends.escape = 0
        /\ ends.found = Append(q.found, q.string)
    BY <1>6 DEF Readers
  <2> HIDE DEF p, escapes, ends, adds
  <2>8. QED
    BY <1>1, <1>4, <1>5, <1>6, <2>2, <2>3, <2>4, <2>5, <2>6, <2>7 DEF Reacts, p
<1>7. CASE q.escape = 5
  <2>1. p = ReadEscaped(q, ch)
    BY <1>7, ReadCases
  <2>2. ch \in Controls => p = Refused(q)
    BY <2>1, Escapes DEF ReadEscaped
  <2>3. ch \in {Quote, Backslash} => p = adds
    BY <2>1, QuoteEscaped
  <2> DEFINE digits == [q EXCEPT !.escape = 4]
  <2>4. \/ p = Refused(q) \/ p = adds \/ p = digits
        \/ \E c \in DOMAIN Meaning : p = Appended(q, Meaning[c], 0)
    BY <2>1 DEF ReadEscaped
  <2>5. Goes(digits, q) /\ digits.escape = 4 /\ digits.string = q.string
    BY DEF Readers, Goes
  <2>6. \A c \in DOMAIN Meaning : /\ Goes(Appended(q, Meaning[c], 0), q)
                                  /\ Appended(q, Meaning[c], 0).escape = 0
                                  /\ Len(Appended(q, Meaning[c], 0).string) = Len(q.string) + 1
    BY <1>3, AppendedIs DEF Adds
  <2> HIDE DEF p, digits, adds
  <2>7. p.refused \/ (Goes(p, q) /\ p.escape \in 0..4 /\ Len(p.string) <= Len(q.string) + 1)
    <3>1. CASE p = Refused(q)
      BY <1>4, <3>1
    <3>2. CASE p = adds
      BY <1>2, <1>5, <3>2 DEF Adds
    <3>3. CASE p = digits
      BY <1>2, <2>5, <3>3 DEF Goes
    <3>4. CASE \E c \in DOMAIN Meaning : p = Appended(q, Meaning[c], 0)
      BY <1>2, <2>6, <3>4
    <3>5. QED
      BY <2>4, <3>1, <3>2, <3>3, <3>4
  <2>8. QED
    BY <1>1, <1>4, <1>5, <1>7, <2>2, <2>3, <2>7 DEF Reacts, p
<1>8. CASE q.escape \in 1..4
  <2>1. p = ReadDigit(q, ch)
    BY <1>8, ReadCases
  <2>2. ch \in Controls \cup {Quote, Backslash} => p = Refused(q)
    BY <2>1, Escapes DEF ReadDigit
  <2> DEFINE less == [q EXCEPT !.escape = q.escape - 1]
             char == Appended(q, Unicode, 0)
  <2>3. p = Refused(q) \/ p = less \/ p = char
    BY <2>1 DEF ReadDigit
  <2>4. Goes(less, q) /\ less.escape = q.escape - 1 /\ less.string = q.string
    BY DEF Readers, Goes
  <2>5. Goes(char, q) /\ char.escape = 0 /\ Len(char.string) = Len(q.string) + 1
    BY <1>3, AppendedIs DEF Adds
  <2> HIDE DEF p, less, char
  <2>6. p.refused \/ (Goes(p, q) /\ p.escape \in 0..4 /\ Len(p.string) <= Len(q.string) + 1)
    <3>1. CASE p = Refused(q)
      BY <1>4, <3>1
    <3>2. CASE p = less
      BY <1>2, <1>8, <2>4, <3>2 DEF Goes
    <3>3. CASE p = char
      BY <1>2, <2>5, <3>3 DEF Goes
    <3>4. QED
      BY <2>3, <3>1, <3>2, <3>3
  <2>7. QED
    BY <1>1, <1>4, <1>8, <2>2, <2>6 DEF Reacts, p
<1>9. QED
  BY <1>2, <1>6, <1>7, <1>8

\* The k-th string found is not s, or the text is refused: a reader forgets
\* nothing.
Lost(S, q, k, s) ==
    q \in Readers(S) /\ (q.refused \/ (k \in 1..Len(q.found) /\ q.found[k] # s))

LEMMA LostByOne ==
  ASSUME NEW S, NEW q, NEW k, NEW s, Lost(S, q, k, s), NEW ch \in S
  PROVE  Lost(S, Read(q, ch), k, s)
<1> DEFINE p == Read(q, ch)
<1>1. q \in Readers(S)
  BY DEF Lost
<1>2. /\ q.inside \in BOOLEAN /\ q.refused \in BOOLEAN /\ q.escape \in 0..5
      /\ q.found \in Seq(Seq(Readable(S))) /\ q.string \in Seq(Readable(S))
  BY <1>1 DEF Readers
<1>3. p \in Readers(S)
  BY <1>1, ReadType
<1>4. CASE q.refused
  <2>1. p = q
    BY <1>1, <1>4, ReadCases
  <2>2. QED
    BY <2>1
<1>5. CASE ~q.refused
  <2>1. k \in 1..Len(q.found) /\ q.found[k] # s
    BY <1>5 DEF Lost
  <2>2. p.refused \/ p.found = q.found \/ p.found = Append(q.found, q.string)
    <3>1. CASE q.inside = TRUE
      <4>1. Reacts(S, q, ch, p)
        BY <1>1, <1>2, <1>5, <3>1, ReadInside
      <4> HIDE DEF p
      <4>2. CASE q.escape # 0
        BY <4>1, <4>2 DEF Reacts, Goes
      <4>3. CASE q.escape = 0 /\ ch \notin Controls \cup {Backslash, Quote}
        BY <4>1, <4>3 DEF Reacts, Adds, Goes
      <4>4. CASE q.escape = 0 /\ ch \in Controls \cup {Backslash, Quote}
        BY <4>1, <4>4 DEF Reacts, Goes
      <4>5. QED
        BY <4>2, <4>3, <4>4
    <3>2. CASE q.inside = FALSE
      <4>1. p = ReadOutside(q, ch)
        BY <1>1, <1>5, <3>2, ReadCases
      <4>2. p = q \/ p = [q EXCEPT !.inside = TRUE, !.string = <<>>]
        BY <4>1 DEF ReadOutside
      <4>3. QED
        BY <1>1, <4>2 DEF Readers
    <3>3. QED
      BY <1>2, <3>1, <3>2
  <2> HIDE DEF p
  <2>3. CASE p.refused
    BY <1>3, <2>3 DEF Lost, p
  <2>4. CASE p.found = q.found
    BY <1>3, <2>1, <2>4 DEF Lost, p
  <2>5. CASE p.found = Append(q.found, q.string)
    <3>1. Len(q.found) \in Nat /\ Len(p.found) = Len(q.found) + 1
          /\ \A i \in 1..Len(q.found) : p.found[i] = q.found[i]
      BY <1>2, <2>5, LenProperties, AppendProperties
    <3>2. k \in 1..Len(p.found)
      BY <2>1, <3>1
    <3>3. QED
      BY <1>3, <2>1, <3>1, <3>2 DEF Lost, p
  <2>6. QED
    BY <2>2, <2>3, <2>4, <2>5
<1>6. QED
  BY <1>4, <1>5

LEMMA StaysLost ==
  ASSUME NEW S, NEW q, NEW k, NEW s, Lost(S, q, k, s), NEW text \in Seq(S)
  PROVE  Lost(S, After(q, text), k, s)
<1> DEFINE f == Reading(q, text)
           n == Len(text)
           P == {i \in 0..n : Lost(S, f[i], k, s)}
<1>1. q \in Readers(S)
  BY DEF Lost
<1>2. f[0] = q /\ \A i \in 1..n : f[i] = Read(f[i - 1], text[i])
  <2>1. Reads(f, q, text)
    BY <1>1, ReadingIs
  <2>2. QED
    BY <2>1 DEF Reads
<1>3. n \in Nat /\ \A i \in 1..n : text[i] \in S
  BY LenProperties, ElementOfSeq
<1> HIDE DEF f, n
<1>4. 0 \in P
  BY <1>2, <1>3
<1>5. ASSUME NEW i \in 1..n, i - 1 \in P
      PROVE  i \in P
  <2>1. i \in 0..n /\ Lost(S, f[i - 1], k, s)
    BY <1>3, <1>5
  <2>2. Lost(S, f[i], k, s)
    BY <1>2, <1>3, <2>1, LostByOne
  <2>3. QED
    BY <2>1, <2>2
<1>6. \A i \in P : Lost(S, f[i], k, s)
  OBVIOUS
<1> HIDE DEF P
<1>7. \A i \in 0..n : i \in P
  BY <1>3, <1>4, <1>5, UpTo
<1>8. Lost(S, f[n], k, s)
  BY <1>3, <1>6, <1>7
<1>9. QED
  BY <1>8 DEF After, f, n

\* A string that ends as another one than s.
LEMMA EndsAsAnother ==
  ASSUME NEW S, NEW F \in Seq(Seq(Readable(S))), NEW t \in Seq(Readable(S)), NEW s, t # s,
         NEW p \in Readers(S), p.found = Append(F, t)
  PROVE  Lost(S, p, Len(F) + 1, s)
<1>1. Len(F) \in Nat /\ Len(p.found) = Len(F) + 1 /\ p.found[Len(F) + 1] = t
  BY LenProperties, AppendProperties
<1>2. Len(F) + 1 \in 1..Len(p.found)
  BY <1>1
<1>3. QED
  BY <1>1, <1>2 DEF Lost

\* A backslash makes the reader fall behind, a pending escape is one of s, and
\* a control character would have been refused.
Backslashed(s, i) == \E j \in 1..i : s[j] = Backslash
Controlled(s, i) == \E j \in 1..i : s[j] \in Controls
Short(S, q, F, s, i) ==
    /\ q \in Readers(S) /\ q.inside = TRUE /\ q.refused = FALSE /\ q.found = F
    /\ ~Controlled(s, i)
    /\ Len(q.string) <= i
    /\ Backslashed(s, i) => Len(q.string) <= i - 1
    /\ q.escape # 0 => Backslashed(s, i)
    /\ q.escape = 5 => i >= 1 /\ s[i] = Backslash

\* A step by which the string grows by one, at most, keeps the reader short.
LEMMA ShortOn ==
  ASSUME NEW S, NEW s, NEW F, NEW i \in Nat, i >= 1, NEW q, Short(S, q, F, s, i - 1),
         NEW p \in Readers(S), Goes(p, q), s[i] \notin Controls,
         Len(p.string) <= Len(q.string) + 1,
         s[i] = Backslash => q.escape # 0 \/ Len(p.string) <= Len(q.string),
         p.escape # 0 => q.escape # 0 \/ s[i] = Backslash,
         p.escape = 5 => s[i] = Backslash
  PROVE  Short(S, p, F, s, i)
<1> DEFINE n == Len(q.string)
           m == Len(p.string)
<1>1. /\ q.found = F /\ ~Controlled(s, i - 1) /\ n <= i - 1
      /\ (Backslashed(s, i - 1) => n <= (i - 1) - 1)
      /\ (q.escape # 0 => Backslashed(s, i - 1))
  BY DEF Short
<1>2. n \in Nat /\ m \in Nat
  <2>1. p.string \in Seq(Readable(S)) /\ q.string \in Seq(Readable(S))
    BY DEF Short, Readers
  <2>2. QED
    BY <2>1, LenProperties
<1>3. \A j \in 1..i : j \in 1..(i - 1) \/ j = i
  OBVIOUS
<1>4. ~Controlled(s, i)
  BY <1>1, <1>3 DEF Controlled
<1>5. Backslashed(s, i) <=> Backslashed(s, i - 1) \/ s[i] = Backslash
  <2>1. i \in 1..i /\ \A j \in 1..(i - 1) : j \in 1..i
    OBVIOUS
  <2>2. QED
    BY <1>3, <2>1 DEF Backslashed
<1>6. p.inside = TRUE /\ p.refused = FALSE /\ p.found = F
  BY <1>1 DEF Goes
<1> HIDE DEF n, m
<1>7. m <= n + 1 /\ (s[i] = Backslash => q.escape # 0 \/ m <= n)
  BY DEF n, m
<1>8. m <= i /\ (Backslashed(s, i) => m <= i - 1)
  <2>1. m <= i
    BY <1>1, <1>2, <1>7 DEF n
  <2>2. n <= i - 1 /\ (Backslashed(s, i - 1) => n <= (i - 1) - 1)
    BY <1>1 DEF n
  <2>3. CASE Backslashed(s, i - 1)
    BY <1>2, <1>7, <2>2, <2>3
  <2>4. CASE ~Backslashed(s, i - 1) /\ s[i] = Backslash
    <3>1. m <= n
      BY <1>1, <1>7, <2>4
    <3>2. QED
      BY <1>2, <2>2, <3>1
  <2>5. QED
    BY <1>5, <2>1, <2>3, <2>4
<1>9. p.escape # 0 => Backslashed(s, i)
  BY <1>1, <1>5
<1>10. QED
  BY <1>4, <1>6, <1>8, <1>9 DEF Short, m

LEMMA StaysShort ==
  ASSUME NEW S, Quote \in S, Backslash \in S, NEW s \in Seq(S), NEW F \in Seq(Seq(Readable(S))),
         NEW i \in 1..Len(s), NEW q, Short(S, q, F, s, i - 1)
  PROVE  \/ Short(S, After(q, Written(s[i])), F, s, i)
         \/ Lost(S, After(q, Written(s[i])), Len(F) + 1, s)
<1> DEFINE ch == s[i]
           n == Len(q.string)
           p == Read(q, ch)
<1>1. /\ q \in Readers(S) /\ q.inside = TRUE /\ q.refused = FALSE /\ q.found = F
      /\ n <= i - 1 /\ (Backslashed(s, i - 1) => n <= (i - 1) - 1)
      /\ (q.escape # 0 => Backslashed(s, i - 1))
  BY DEF Short
<1>2. q.string \in Seq(Readable(S)) /\ q.escape \in 0..5
  BY <1>1 DEF Readers
<1>3. ch \in S /\ n \in Nat /\ Len(s) \in Nat /\ i \in Nat /\ i >= 1 /\ i <= Len(s)
  BY <1>2, LenProperties, ElementOfSeq
<1>4. Quote \in Readable(S) /\ Backslash \in Readable(S) /\ ch \in Readable(S)
  BY <1>3, Widened
<1>5. Reacts(S, q, ch, p)
  BY <1>1, <1>3, ReadInside
<1>6. \A c \in Readable(S) : Len(Append(q.string, c)) = n + 1 /\ Append(q.string, c) \in Seq(Readable(S))
  BY <1>2, AppendProperties
<1>7. q.escape = 0 \/ q.escape = 5 \/ q.escape \in 1..4
  BY <1>2
<1>8. CASE ch # Quote
  <2>1. After(q, Written(ch)) = p
    BY <1>1, <1>3, <1>8, AfterOne DEF Written
  <2>2. p \in Readers(S)
    BY <1>5 DEF Reacts
  <2> HIDE DEF p
  <2>3. CASE p.refused
    <3>1. Lost(S, p, Len(F) + 1, s)
      BY <2>2, <2>3 DEF Lost
    <3>2. QED
      BY <2>1, <3>1
  <2>4. CASE ~p.refused
    <3>1. ch \notin Controls
      BY <1>5, <2>4 DEF Reacts
    <3>2. CASE q.escape = 0 /\ ch = Backslash
      <4>1. Goes(p, q) /\ p.escape = 5 /\ p.string = q.string
        BY <1>5, <3>2 DEF Reacts
      <4>2. Len(p.string) <= n /\ Len(p.string) <= n + 1
        BY <1>3, <4>1
      <4>3. QED
        BY <1>3, <2>1, <2>2, <3>1, <3>2, <4>1, <4>2, ShortOn
    <3>3. CASE q.escape = 0 /\ ch # Backslash
      <4>1. Goes(p, q) /\ p.escape = 0 /\ p.string = Append(q.string, ch)
        BY <1>5, <1>8, <3>1, <3>3 DEF Reacts, Adds
      <4>2. Len(p.string) <= n + 1
        BY <1>3, <1>4, <1>6, <4>1
      <4>3. QED
        BY <1>3, <2>1, <2>2, <3>1, <3>3, <4>1, <4>2, ShortOn
    <3>4. CASE q.escape # 0
      <4>1. Goes(p, q) /\ p.escape \in 0..4 /\ Len(p.string) <= n + 1
        BY <1>5, <2>4, <3>4 DEF Reacts
      <4>2. p.escape # 5
        BY <4>1
      <4>3. QED
        BY <1>3, <2>1, <2>2, <3>1, <3>4, <4>1, <4>2, ShortOn
    <3>5. QED
      BY <3>2, <3>3, <3>4
  <2>5. QED
    BY <2>3, <2>4
<1>9. CASE ch = Quote
  <2> DEFINE b == Read(q, Backslash)
             c == Read(b, Quote)
  <2>1. After(q, Written(ch)) = c
    <3>1. Written(ch) = <<Backslash, Quote>>
      BY <1>9 DEF Written
    <3>2. After(q, <<Backslash, Quote>>) = c
      BY <1>1, ReadTwo
    <3>3. QED
      BY <3>1, <3>2
  <2>2. Reacts(S, q, Backslash, b)
    BY <1>1, ReadInside
  <2>3. b \in Readers(S) /\ c \in Readers(S)
    BY <1>1, ReadType
  <2>4. ch \notin Controls /\ ch # Backslash
    BY <1>9, Marks
  <2> HIDE DEF b
  <2>5. CASE q.escape = 0
    <3>1. Goes(b, q) /\ b.escape = 5 /\ b.string = q.string
      BY <2>2, <2>5 DEF Reacts
    <3>2. Reacts(S, b, Quote, c)
      BY <2>3, <3>1, ReadInside DEF Goes
    <3>3. Adds(c, b, Quote)
      BY <3>1, <3>2 DEF Reacts
    <3> HIDE DEF c
    <3>4. Goes(c, q) /\ c.escape = 0 /\ c.string = Append(q.string, Quote)
      BY <3>1, <3>3 DEF Adds, Goes
    <3>5. Len(c.string) <= n + 1
      BY <1>3, <1>4, <1>6, <3>4
    <3>6. QED
      BY <1>3, <2>1, <2>3, <2>4, <3>4, <3>5, ShortOn
  <2>6. CASE q.escape = 5
    <3> DEFINE u == Append(q.string, Backslash)
    <3>1. Goes(b, q) /\ b.escape = 0 /\ b.string = u
      BY <2>2, <2>6 DEF Reacts, Adds
    <3>2. Reacts(S, b, Quote, c)
      BY <2>3, <3>1, ReadInside DEF Goes
    <3> HIDE DEF c
    <3>3. c.found = Append(F, u)
      BY <1>1, <3>1, <3>2 DEF Reacts, Goes
    <3>4. u \in Seq(Readable(S)) /\ Len(u) = n + 1
      BY <1>4, <1>6
    <3> HIDE DEF u
    <3>5. n + 1 <= i - 1
      BY <1>1, <1>3, <2>6
    <3>6. Len(u) # Len(s)
      BY <1>3, <3>4, <3>5
    <3>7. u # s
      BY <3>6
    <3>8. Lost(S, c, Len(F) + 1, s)
      BY <2>3, <3>3, <3>4, <3>7, EndsAsAnother
    <3>9. QED
      BY <2>1, <3>8
  <2>7. CASE q.escape \in 1..4
    <3>1. b.refused
      BY <2>2, <2>7 DEF Reacts
    <3>2. Lost(S, b, Len(F) + 1, s)
      BY <2>3, <3>1 DEF Lost
    <3>3. Lost(S, c, Len(F) + 1, s)
      BY <3>2, LostByOne
    <3>4. QED
      BY <2>1, <3>3
  <2>8. QED
    BY <1>7, <2>5, <2>6, <2>7
<1>10. QED
  BY <1>8, <1>9

\* A string with a backslash or a control character is not read as it was
\* written: by the next string of the batch the reader has refused the text, has
\* found another one, or has lost count.
LEMMA UnescapedIsLost ==
  ASSUME NEW S, Quote \in S, Backslash \in S, Comma \in S,
         NEW s \in Seq(S), Range(s) \cap Unescaped # {},
         NEW F \in Seq(Seq(Readable(S))), NEW r, Outside(S, r, F)
  PROVE  Lost(S, After(After(After(r, Serialize(s)), <<Comma>>), <<Quote>>), Len(F) + 1, s)
<1> DEFINE n == Len(s)
           e == Escaped(s)
           k == Len(F) + 1
           p == After(r, <<Quote>>)
           P == {i \in 0..n : Short(S, After(p, e[i]), F, s, i) \/ Lost(S, After(p, e[i]), k, s)}
           q == After(p, e[n])
           a == After(q, <<Quote>>)
           b == After(a, <<Comma>>)
           c == After(b, <<Quote>>)
<1>1. n \in Nat /\ \A i \in 1..n : s[i] \in S
  BY LenProperties, ElementOfSeq
<1>2. e[0] = <<>> /\ (\A i \in 0..n : e[i] \in Seq(S)) /\ \A i \in 1..n : e[i] = e[i - 1] \o Written(s[i])
  BY EscapedIs
<1>3. r \in Readers(S)
  BY DEF Outside, Underway
<1>4. Inside(S, p, F, <<>>)
  BY Opens
<1>5. /\ p \in Readers(S) /\ p.inside = TRUE /\ p.refused = FALSE /\ p.escape = 0
      /\ p.found = F /\ p.string = <<>>
  BY <1>4 DEF Inside, Underway
<1>6. <<Quote>> \in Seq(S) /\ <<Comma>> \in Seq(S)
  BY Lists
<1>7. After(r, Serialize(s)) = a
  BY <1>3, StringInTurn
<1> HIDE DEF n, e, p
<1>8. 0 \in P
  <2>1. After(p, e[0]) = p
    BY <1>2, <1>5, AfterNothing
  <2>2. ~Backslashed(s, 0) /\ ~Controlled(s, 0)
    BY DEF Backslashed, Controlled
  <2>3. Len(p.string) <= 0
    BY <1>5
  <2>4. Short(S, p, F, s, 0)
    BY <1>5, <2>2, <2>3 DEF Short
  <2>5. 0 \in 0..n
    BY <1>1
  <2>6. QED
    BY <2>1, <2>4, <2>5
<1>9. ASSUME NEW i \in 1..n, i - 1 \in P
      PROVE  i \in P
  <2>1. i \in 0..n /\ i - 1 \in 0..n
        /\ (Short(S, After(p, e[i - 1]), F, s, i - 1) \/ Lost(S, After(p, e[i - 1]), k, s))
    BY <1>1, <1>9
  <2>2. Written(s[i]) \in Seq(S)
    BY <1>1, WrittenType
  <2>3. After(p, e[i]) = After(After(p, e[i - 1]), Written(s[i]))
    <3>1. ReadInTurn(p, e[i - 1], Written(s[i]))
      BY <1>2, <1>5, <2>1, <2>2, AfterBoth
    <3>2. QED
      BY <1>2, <3>1 DEF ReadInTurn
  <2>4. Short(S, After(p, e[i]), F, s, i) \/ Lost(S, After(p, e[i]), k, s)
    <3>1. CASE Lost(S, After(p, e[i - 1]), k, s)
      <4> HIDE DEF k
      <4>1. QED
        BY <2>2, <2>3, <3>1, StaysLost
    <3>2. CASE Short(S, After(p, e[i - 1]), F, s, i - 1)
      BY <2>3, <3>2, StaysShort DEF n
    <3>3. QED
      BY <2>1, <3>1, <3>2
  <2>5. QED
    BY <2>1, <2>4
<1>10. Short(S, q, F, s, n) \/ Lost(S, q, k, s)
  <2>1. \A i \in P : Short(S, After(p, e[i]), F, s, i) \/ Lost(S, After(p, e[i]), k, s)
    OBVIOUS
  <2> HIDE DEF P, k
  <2>2. \A i \in 0..n : i \in P
    BY <1>1, <1>8, <1>9, UpTo
  <2>3. n \in P
    BY <1>1, <2>2
  <2>4. QED
    BY <2>1, <2>3
<1> HIDE DEF q
<1>11. CASE Lost(S, q, k, s)
  <2> HIDE DEF k
  <2>1. Lost(S, a, k, s)
    BY <1>6, <1>11, StaysLost
  <2> HIDE DEF a
  <2>2. Lost(S, b, k, s)
    BY <1>6, <2>1, StaysLost
  <2> HIDE DEF b
  <2>3. Lost(S, c, k, s)
    BY <1>6, <2>2, StaysLost
  <2>4. QED
    BY <1>7, <2>3 DEF b, k
<1>12. CASE Short(S, q, F, s, n)
  <2>1. /\ q \in Readers(S) /\ q.inside = TRUE /\ q.refused = FALSE /\ q.found = F
        /\ ~Controlled(s, n) /\ (Backslashed(s, n) => Len(q.string) <= n - 1)
        /\ (q.escape = 5 => n >= 1 /\ s[n] = Backslash)
    BY <1>12 DEF Short
  <2>2. Backslashed(s, n)
    <3>1. PICK j \in 1..n : s[j] \in Unescaped
      BY <1>1, LenProperties DEF Range, n
    <3>2. QED
      BY <2>1, <3>1 DEF Backslashed, Controlled, Unescaped
  <2>3. q.string \in Seq(Readable(S)) /\ Len(q.string) \in Nat /\ q.escape \in 0..5
    BY <2>1, LenProperties DEF Readers
  <2>4. a = Read(q, Quote)
    BY <2>1, AfterOne
  <2>5. Reacts(S, q, Quote, a)
    BY <2>1, <2>4, ReadInside
  <2>6. ASSUME Lost(S, a, k, s)
        PROVE  Lost(S, c, k, s)
    <3> HIDE DEF k, a
    <3>1. Lost(S, b, k, s)
      BY <1>6, <2>6, StaysLost
    <3> HIDE DEF b
    <3>2. QED
      BY <1>6, <3>1, StaysLost
  <2>7. CASE q.escape = 0
    <3>1. a \in Readers(S) /\ a.found = Append(F, q.string)
      BY <2>1, <2>5, <2>7 DEF Reacts
    <3>2. q.string # s
      <4>1. Len(q.string) # n
        BY <1>1, <2>1, <2>2, <2>3
      <4>2. QED
        BY <4>1 DEF n
    <3> HIDE DEF a
    <3>3. Lost(S, a, k, s)
      BY <2>3, <3>1, <3>2, EndsAsAnother
    <3>4. QED
      BY <1>7, <2>6, <3>3 DEF b, c, k
  <2>8. CASE q.escape \in 1..4
    <3>1. a \in Readers(S) /\ a.refused
      BY <2>5, <2>8 DEF Reacts
    <3>2. Lost(S, a, k, s)
      BY <3>1 DEF Lost
    <3>3. QED
      BY <1>7, <2>6, <3>2 DEF b, c, k
  <2>9. CASE q.escape = 5
    <3> DEFINE t == Append(q.string, Quote)
               u == Append(t, Comma)
    <3>1. a \in Readers(S) /\ Goes(a, q) /\ a.escape = 0 /\ a.string = t
      BY <2>5, <2>9 DEF Reacts, Adds
    <3>2. t \in Seq(Readable(S)) /\ Comma \in Readable(S)
      BY <2>3, Widened, AppendProperties
    <3> HIDE DEF a, t
    <3>3. b = Read(a, Comma)
      BY <3>1, AfterOne
    <3>4. Reacts(S, a, Comma, b)
      BY <3>1, <3>3, ReadInside DEF Goes
    <3>5. b \in Readers(S) /\ Goes(b, a) /\ b.escape = 0 /\ b.string = u
      BY <3>1, <3>4, Marks DEF Reacts, Adds
    <3>6. u \in Seq(Readable(S)) /\ Len(t) \in Nat /\ Len(u) = Len(t) + 1 /\ u[Len(t) + 1] = Comma
      BY <3>2, AppendProperties, LenProperties
    <3> HIDE DEF b, u
    <3>7. c = Read(b, Quote)
      BY <3>5, AfterOne
    <3>8. Reacts(S, b, Quote, c)
      BY <3>5, <3>7, ReadInside DEF Goes
    <3>9. c \in Readers(S) /\ c.found = Append(F, u)
      BY <2>1, <3>1, <3>5, <3>8 DEF Reacts, Goes
    <3>10. u # s
      <4>1. ASSUME u = s PROVE FALSE
        <5>1. s[n] = Comma
          BY <3>6, <4>1 DEF n
        <5>2. QED
          BY <2>1, <2>9, <5>1, Marks
      <4>2. QED
        BY <4>1
    <3> HIDE DEF c
    <3>11. Lost(S, c, k, s)
      BY <3>6, <3>9, <3>10, EndsAsAnother
    <3>12. QED
      BY <1>7, <3>11 DEF a, b, c
  <2>10. QED
    BY <2>3, <2>7, <2>8, <2>9
<1>13. QED
  BY <1>10, <1>11, <1>12

-----------------------------------------------------------------------------
(***************************************************************************)
(* Dicts and vectors: the texts of Json::serialize, piece by piece.        *)
(***************************************************************************)

CommaAfter(i, n) == IF i < n THEN <<Comma>> ELSE <<>>
Joins(f, texts) ==
    f[0] = <<>> /\ \A i \in 1..Len(texts) : f[i] = f[i - 1] \o texts[i] \o CommaAfter(i, Len(texts))

LEMMA JoinedIs ==
  ASSUME NEW S, Comma \in S, NEW texts \in Seq(Seq(S))
  PROVE  \E f : Joins(f, texts) /\ Joined(texts) = f[Len(texts)]
<1> DEFINE n == Len(texts)
           D == Seq(S)
           step == [i \in 1..n |-> [t \in D |-> t \o texts[i] \o CommaAfter(i, n)]]
           E(f) == f = [i \in 0..n |-> IF i = 0 THEN <<>>
                                       ELSE f[i - 1] \o texts[i] \o IF i < n THEN <<Comma>> ELSE <<>>]
           g == CHOOSE f : E(f)
<1>1. n \in Nat /\ \A i \in 1..n : texts[i] \in D
  BY LenProperties, ElementOfSeq
<1>2. <<>> \in D /\ \A i \in 1..n : CommaAfter(i, n) \in D
  BY EmptySeq, Lists DEF CommaAfter
<1>3. \A t \in D, u \in D : t \o u \in D
  BY ConcatProperties
<1> HIDE DEF D
<1>4. \A i \in 1..n : \A t \in D : t \o texts[i] \o CommaAfter(i, n) \in D
  BY <1>1, <1>2, <1>3
<1>5. step \in [1..n -> [D -> D]]
  BY <1>4
<1>6. PICK f \in [0..n -> D] : Makes(f, <<>>, step, n)
  <2> HIDE DEF n, step
  <2>1. QED
    BY <1>1, <1>2, <1>5, Iterates
<1>7. \A i \in 0..n : i = 0 \/ (i \in 1..n /\ i - 1 \in 0..n)
  BY <1>1
<1>8. \A i \in 0..n : f[i] = IF i = 0 THEN <<>> ELSE f[i - 1] \o texts[i] \o CommaAfter(i, n)
  BY <1>6, <1>7 DEF Makes
<1>9. E(f)
  BY <1>8 DEF CommaAfter
<1>10. E(g)
  BY <1>9
<1>11. Joined(texts) = g[n]
  BY DEF Joined
<1> HIDE DEF g, n
<1>12. Joins(g, texts)
  <2>1. \A i \in 0..n : g[i] = IF i = 0 THEN <<>> ELSE g[i - 1] \o texts[i] \o CommaAfter(i, n)
    BY <1>10 DEF CommaAfter
  <2>2. 0 \in 0..n /\ \A i \in 1..n : i \in 0..n /\ i # 0
    BY <1>1
  <2>3. QED
    BY <2>1, <2>2 DEF Joins, n
<1>13. QED
  BY <1>11, <1>12 DEF n

LEMMA OneJoined ==
  ASSUME NEW S, Comma \in S, NEW texts \in Seq(Seq(S)), Len(texts) = 1
  PROVE  texts[1] \in Seq(S) /\ Joined(texts) = texts[1]
<1>1. PICK f : Joins(f, texts) /\ Joined(texts) = f[1]
  BY JoinedIs
<1>2. 1 \in 1..1 /\ 1 - 1 = 0 /\ ~(1 < 1)
  OBVIOUS
<1>3. texts[1] \in Seq(S)
  BY <1>2, ElementOfSeq
<1>4. f[1] = <<>> \o texts[1] \o <<>>
  BY <1>1, <1>2 DEF Joins, CommaAfter
<1>5. QED
  BY <1>1, <1>3, <1>4, ConcatEmptySeq

LEMMA TwoJoined ==
  ASSUME NEW S, Comma \in S, NEW texts \in Seq(Seq(S)), Len(texts) = 2
  PROVE  texts[1] \in Seq(S) /\ texts[2] \in Seq(S) /\ <<Comma>> \in Seq(S)
         /\ Joined(texts) = texts[1] \o <<Comma>> \o texts[2]
<1>1. PICK f : Joins(f, texts) /\ Joined(texts) = f[2]
  BY JoinedIs
<1>2. 1 \in 1..2 /\ 2 \in 1..2 /\ 1 - 1 = 0 /\ 2 - 1 = 1 /\ 1 < 2 /\ ~(2 < 2)
  OBVIOUS
<1>3. texts[1] \in Seq(S) /\ texts[2] \in Seq(S) /\ <<Comma>> \in Seq(S)
  BY <1>2, ElementOfSeq, Lists
<1>4. f[1] = <<>> \o texts[1] \o <<Comma>> /\ f[2] = f[1] \o texts[2] \o <<>>
  BY <1>1, <1>2 DEF Joins, CommaAfter
<1>5. f[1] = texts[1] \o <<Comma>> /\ f[1] \in Seq(S)
  <2>1. <<>> \o texts[1] = texts[1]
    BY <1>3, ConcatEmptySeq
  <2>2. f[1] = texts[1] \o <<Comma>>
    BY <1>4, <2>1
  <2>3. QED
    BY <1>3, <2>2, ConcatProperties
<1>6. f[1] \o texts[2] \in Seq(S)
  BY <1>3, <1>5, ConcatProperties
<1>7. f[2] = f[1] \o texts[2]
  BY <1>4, <1>6, ConcatEmptySeq
<1>8. QED
  BY <1>1, <1>3, <1>5, <1>7

\* A text in which a reader that is outside of a string finds these strings, and
\* is outside again behind it.
Ready(S, r) == Underway(S, r) /\ r.inside = FALSE
Says(S, text, g) ==
    /\ text \in Seq(S) /\ g \in Seq(Seq(Readable(S)))
    /\ \A r : Ready(S, r) => Outside(S, After(r, text), r.found \o g)

LEMMA ReadyFound == ASSUME NEW S, NEW r, Ready(S, r) PROVE r \in Readers(S) /\ r.found \in Seq(Seq(Readable(S)))
BY DEF Ready, Underway, Readers

LEMMA SaysOf ==
  ASSUME NEW S, NEW text, NEW g, Says(S, text, g), NEW r, Ready(S, r)
  PROVE  /\ Ready(S, After(r, text)) /\ After(r, text).found = r.found \o g
         /\ Outside(S, r, r.found)
BY DEF Says, Ready, Outside

LEMMA SaysBoth ==
  ASSUME NEW S, NEW x, NEW g, Says(S, x, g), NEW y, NEW h, Says(S, y, h)
  PROVE  Says(S, x \o y, g \o h)
<1>1. x \in Seq(S) /\ y \in Seq(S) /\ g \in Seq(Seq(Readable(S))) /\ h \in Seq(Seq(Readable(S)))
  BY DEF Says
<1>2. ASSUME NEW r, Ready(S, r)
      PROVE  Outside(S, After(r, x \o y), r.found \o (g \o h))
  <2> DEFINE q == After(r, x)
             p == After(q, y)
  <2>1. Ready(S, q) /\ q.found = r.found \o g
    BY <1>2, SaysOf
  <2> HIDE DEF q
  <2>2. Outside(S, p, q.found \o h)
    BY <2>1 DEF Says
  <2> HIDE DEF p
  <2>3. (r.found \o g) \o h = r.found \o (g \o h)
    <3> DEFINE D == Seq(Readable(S))
               f == r.found
    <3>1. f \in Seq(D)
      BY <1>2, ReadyFound
    <3>2. g \in Seq(D) /\ h \in Seq(D)
      BY <1>1
    <3> HIDE DEF D, f
    <3>3. (f \o g) \o h = f \o (g \o h)
      BY <3>1, <3>2, ConcatAssociative
    <3>4. QED
      BY <3>3 DEF f
  <2>4. After(r, x \o y) = p
    <3>1. ReadInTurn(r, x, y)
      BY <1>1, <1>2, AfterBoth, ReadyFound
    <3>2. QED
      BY <3>1 DEF ReadInTurn, p, q
  <2>5. QED
    BY <2>1, <2>2, <2>3, <2>4
<1>3. x \o y \in Seq(S) /\ g \o h \in Seq(Seq(Readable(S)))
  BY <1>1, ConcatProperties
<1>4. QED
  BY <1>2, <1>3 DEF Says

LEMMA SaysNothing ==
  ASSUME NEW S, NEW ch \in S, ch # Quote
  PROVE  Says(S, <<ch>>, <<>>)
<1>1. <<ch>> \in Seq(S) /\ <<>> \in Seq(Seq(Readable(S)))
  BY Lists, EmptySeq
<1>2. ASSUME NEW r, Ready(S, r)
      PROVE  Outside(S, After(r, <<ch>>), r.found \o <<>>)
  <2>1. r.found \o <<>> = r.found
    BY <1>2, ReadyFound, ConcatEmptySeq
  <2>2. Outside(S, r, r.found)
    BY <1>2 DEF Outside, Ready
  <2>3. Outside(S, After(r, <<ch>>), r.found)
    BY <2>2, Waits
  <2>4. QED
    BY <2>1, <2>3
<1>3. QED
  BY <1>1, <1>2 DEF Says

LEMMA SaysString ==
  ASSUME NEW S, Quote \in S, Backslash \in S, NEW s \in Seq(S), Range(s) \cap Unescaped = {}
  PROVE  Says(S, Serialize(s), <<s>>)
<1>1. Serialize(s) \in Seq(S) /\ <<s>> \in Seq(Seq(Readable(S))) /\ s \in Seq(Readable(S))
  BY SerializeType, Widened, Lists
<1>2. ASSUME NEW r, Ready(S, r)
      PROVE  Outside(S, After(r, Serialize(s)), r.found \o <<s>>)
  <2>1. Append(r.found, s) = r.found \o <<s>>
    BY <1>1, <1>2, ReadyFound, AppendIsConcat
  <2>2. Outside(S, r, r.found)
    BY <1>2 DEF Outside, Ready
  <2>3. Outside(S, After(r, Serialize(s)), Append(r.found, s))
    BY <2>2, StringIsRead
  <2>4. QED
    BY <2>1, <2>3
<1>3. QED
  BY <1>1, <1>2 DEF Says

\* A text behind which, or behind which and the next string's first quote, the
\* m-th string that the reader has found in it is not s.
Loses(S, text, m, s) ==
    text \in Seq(S) /\ \A r : Ready(S, r) => Lost(S, After(r, text), Len(r.found) + m, s)
Pends(S, text, m, s) ==
    /\ text \in Seq(S)
    /\ \A r : Ready(S, r) =>
          Lost(S, After(After(After(r, text), <<Comma>>), <<Quote>>), Len(r.found) + m, s)

LEMMA PendsString ==
  ASSUME NEW S, Quote \in S, Backslash \in S, Comma \in S,
         NEW s \in Seq(S), Range(s) \cap Unescaped # {}
  PROVE  Pends(S, Serialize(s), 1, s)
<1>1. Serialize(s) \in Seq(S)
  BY SerializeType
<1>2. ASSUME NEW r, Ready(S, r)
      PROVE  Lost(S, After(After(After(r, Serialize(s)), <<Comma>>), <<Quote>>), Len(r.found) + 1, s)
  <2>1. Outside(S, r, r.found) /\ r.found \in Seq(Seq(Readable(S)))
    BY <1>2, ReadyFound DEF Outside, Ready
  <2>2. QED
    BY <2>1, UnescapedIsLost
<1>3. QED
  BY <1>1, <1>2 DEF Pends

Counts(r, text, g, m) == Len(After(r, text).found) + m = Len(r.found) + (Len(g) + m)

LEMMA Counted ==
  ASSUME NEW S, NEW text, NEW g, Says(S, text, g), NEW r, Ready(S, r), NEW m \in Nat
  PROVE  Counts(r, text, g, m)
<1>1. r.found \in Seq(Seq(Readable(S))) /\ g \in Seq(Seq(Readable(S)))
  BY ReadyFound DEF Says
<1>2. After(r, text).found = r.found \o g
  BY SaysOf
<1>3. Len(r.found \o g) = Len(r.found) + Len(g) /\ Len(r.found) \in Nat /\ Len(g) \in Nat
  BY <1>1, ConcatProperties, LenProperties
<1> DEFINE a == Len(r.found)
           b == Len(g)
           c == Len(After(r, text).found)
<1>4. a \in Nat /\ b \in Nat /\ c = a + b
  BY <1>2, <1>3
<1> HIDE DEF a, b, c
<1>5. c + m = a + (b + m)
  BY <1>4
<1>6. QED
  BY <1>5 DEF Counts, a, b, c

LEMMA SaysPends ==
  ASSUME NEW S, NEW x, NEW g, Says(S, x, g), NEW y, NEW m \in Nat, NEW s, Pends(S, y, m, s)
  PROVE  Pends(S, x \o y, Len(g) + m, s)
<1>1. x \in Seq(S) /\ y \in Seq(S)
  BY DEF Says, Pends
<1>2. x \o y \in Seq(S)
  BY <1>1, ConcatProperties
<1>3. ASSUME NEW r, Ready(S, r)
      PROVE  Lost(S, After(After(After(r, x \o y), <<Comma>>), <<Quote>>), Len(r.found) + (Len(g) + m), s)
  <2>1. ReadInTurn(r, x, y)
    BY <1>1, <1>3, AfterBoth, ReadyFound
  <2>2. Ready(S, After(r, x))
    BY <1>3, SaysOf
  <2>3. Len(After(r, x).found) + m = Len(r.found) + (Len(g) + m)
    <3>1. Counts(r, x, g, m)
      BY <1>3, Counted
    <3>2. QED
      BY <3>1 DEF Counts
  <2> DEFINE q == After(r, x)
             k == Len(r.found) + (Len(g) + m)
  <2> HIDE DEF q, k
  <2>4. Lost(S, After(After(After(q, y), <<Comma>>), <<Quote>>), Len(q.found) + m, s)
    BY <2>2 DEF Pends, q
  <2>5. Len(q.found) + m = k
    BY <2>3 DEF q, k
  <2>6. After(r, x \o y) = After(q, y)
    BY <2>1 DEF ReadInTurn, q
  <2>7. Lost(S, After(After(After(r, x \o y), <<Comma>>), <<Quote>>), k, s)
    BY <2>4, <2>5, <2>6
  <2>8. QED
    BY <2>7 DEF k
<1>4. QED
  BY <1>2, <1>3 DEF Pends

LEMMA SaysLoses ==
  ASSUME NEW S, NEW x, NEW g, Says(S, x, g), NEW y, NEW m \in Nat, NEW s, Loses(S, y, m, s)
  PROVE  Loses(S, x \o y, Len(g) + m, s)
<1>1. x \in Seq(S) /\ y \in Seq(S)
  BY DEF Says, Loses
<1>2. x \o y \in Seq(S)
  BY <1>1, ConcatProperties
<1>3. ASSUME NEW r, Ready(S, r)
      PROVE  Lost(S, After(r, x \o y), Len(r.found) + (Len(g) + m), s)
  <2>1. ReadInTurn(r, x, y)
    BY <1>1, <1>3, AfterBoth, ReadyFound
  <2>2. Ready(S, After(r, x))
    BY <1>3, SaysOf
  <2>3. Len(After(r, x).found) + m = Len(r.found) + (Len(g) + m)
    <3>1. Counts(r, x, g, m)
      BY <1>3, Counted
    <3>2. QED
      BY <3>1 DEF Counts
  <2>4. Lost(S, After(After(r, x), y), Len(After(r, x).found) + m, s)
    BY <2>2 DEF Loses
  <2>5. QED
    BY <2>1, <2>3, <2>4 DEF ReadInTurn
<1>4. QED
  BY <1>2, <1>3 DEF Loses

LEMMA LosesOn ==
  ASSUME NEW S, NEW x, NEW m, NEW s, Loses(S, x, m, s), NEW y \in Seq(S)
  PROVE  Loses(S, x \o y, m, s)
<1>1. x \in Seq(S)
  BY DEF Loses
<1>2. x \o y \in Seq(S)
  BY <1>1, ConcatProperties
<1>3. ASSUME NEW r, Ready(S, r)
      PROVE  Lost(S, After(r, x \o y), Len(r.found) + m, s)
  <2>1. ReadInTurn(r, x, y)
    BY <1>1, <1>3, AfterBoth, ReadyFound
  <2> DEFINE k == Len(r.found) + m
             q == After(r, x)
  <2>2. Lost(S, q, k, s)
    BY <1>3 DEF Loses
  <2> HIDE DEF k, q
  <2>3. Lost(S, After(q, y), k, s)
    BY <2>2, StaysLost
  <2>4. QED
    BY <2>1, <2>3 DEF ReadInTurn, k, q
<1>4. QED
  BY <1>2, <1>3 DEF Loses

LEMMA Listing ==
  ASSUME NEW D, NEW n \in Nat, NEW f \in [1..n -> D]
  PROVE  f \in Seq(D) /\ Len(f) = n
OBVIOUS

ItemText(item) == Serialize(item.key) \o <<":">> \o Serialize(item.value)
ItemTexts(items) == [i \in DOMAIN items |-> ItemText(items[i])]

LEMMA DictIs ==
  ASSUME NEW items
  PROVE  DictText(items) = (<<"{">> \o Joined(ItemTexts(items))) \o <<"}">>
BY DEF DictText, ItemTexts, ItemText

LEMMA ItemType ==
  ASSUME NEW S, Quote \in S, Backslash \in S, ":" \in S,
         NEW item \in [key : Seq(S), value : Seq(S)]
  PROVE  ItemText(item) \in Seq(S)
<1>1. item.key \in Seq(S) /\ item.value \in Seq(S)
  OBVIOUS
<1>2. Serialize(item.key) \in Seq(S) /\ Serialize(item.value) \in Seq(S)
  BY <1>1, SerializeType
<1>3. <<":">> \in Seq(S)
  BY Lists
<1>4. QED
  BY <1>2, <1>3, ConcatProperties DEF ItemText

LEMMA ItemTextsType ==
  ASSUME NEW S, Quote \in S, Backslash \in S, ":" \in S,
         NEW items \in Seq([key : Seq(S), value : Seq(S)])
  PROVE  /\ ItemTexts(items) \in Seq(Seq(S)) /\ Len(ItemTexts(items)) = Len(items)
         /\ \A i \in 1..Len(items) : ItemTexts(items)[i] = ItemText(items[i])
<1> DEFINE n == Len(items)
           D == Seq(S)
           T == [key : Seq(S), value : Seq(S)]
           f == ItemTexts(items)
<1>1. n \in Nat /\ DOMAIN items = 1..n /\ \A i \in 1..n : items[i] \in T
  BY LenProperties, ElementOfSeq
<1> HIDE DEF T, n
<1>2. \A i \in 1..n : ItemText(items[i]) \in D
  BY <1>1, ItemType DEF T
<1> HIDE DEF D
<1>3. f \in [1..n -> D] /\ \A i \in 1..n : f[i] = ItemText(items[i])
  BY <1>1, <1>2 DEF ItemTexts
<1> HIDE DEF f
<1>4. f \in Seq(D) /\ Len(f) = n
  BY <1>1, <1>3, Listing
<1>5. QED
  BY <1>3, <1>4 DEF f, D, n

\* A set of characters that the texts of an upload are written with, and what
\* is needed of it.
Zero == <<"0">>
Letters == {Quote, Backslash, Comma, ":", "{", "}", "[", "]",
            "c", "o", "m", "e", "n", "t", "i", "d", "a", "0"}
Plainly(S, s) == s \in Seq(S) /\ Range(s) \cap Unescaped = {}
Writes(S) ==
    /\ Quote \in S /\ Backslash \in S /\ Comma \in S
    /\ \A ch \in {":", "{", "}", "[", "]"} : ch \in S /\ ch # Quote
    /\ Plainly(S, Comment) /\ Plainly(S, Time) /\ Plainly(S, Zero) /\ Plainly(S, DataKey)

LEMMA ShortTexts ==
  ASSUME NEW S, NEW a \in S, NEW b \in S, NEW c \in S, NEW d \in S, NEW e \in S,
         NEW f \in S, NEW g \in S
  PROVE  <<a>> \in Seq(S) /\ <<a, b, c, d>> \in Seq(S) /\ <<a, b, c, d, e, f, g>> \in Seq(S)
OBVIOUS

LEMMA PlainlyOf ==
  ASSUME NEW S, NEW s \in Seq(S \ Unescaped)
  PROVE  Plainly(S, s)
<1>1. s \in Seq(S)
  BY SeqMonotonic
<1>2. \A i \in 1..Len(s) : s[i] \in S \ Unescaped
  BY ElementOfSeq
<1>3. DOMAIN s = 1..Len(s)
  BY LenProperties
<1>4. QED
  BY <1>1, <1>2, <1>3 DEF Plainly, Range

LEMMA LettersWrite ==
  ASSUME NEW S, Letters \subseteq S
  PROVE  Writes(S)
<1>1. Quote \in S /\ Backslash \in S /\ Comma \in S
  BY DEF Letters
<1>2. \A ch \in {":", "{", "}", "[", "]"} : ch \in S /\ ch # Quote
  BY DEF Letters, Quote
<1> DEFINE T == S \ Unescaped
           Names == {"c", "o", "m", "e", "n", "t", "i", "d", "a", "0"}
<1>3. Names \subseteq T
  <2>1. Names \cap Unescaped = {}
    BY Zenon DEF Unescaped, Controls, Backslash
  <2>2. Names \subseteq Letters
    BY DEF Letters
  <2>3. QED
    BY <2>1, <2>2
<1>4. Plainly(S, Comment)
  <2>1. "c" \in T /\ "o" \in T /\ "m" \in T /\ "e" \in T /\ "n" \in T /\ "t" \in T
    BY <1>3
  <2> HIDE DEF T
  <2>2. Comment \in Seq(T)
    BY <2>1, ShortTexts DEF Comment
  <2>3. QED
    BY <2>2, PlainlyOf DEF T
<1>5. Plainly(S, Time)
  <2>1. "t" \in T /\ "i" \in T /\ "m" \in T /\ "e" \in T
    BY <1>3
  <2> HIDE DEF T
  <2>2. Time \in Seq(T)
    BY <2>1, ShortTexts DEF Time
  <2>3. QED
    BY <2>2, PlainlyOf DEF T
<1>6. Plainly(S, Zero)
  <2>1. "0" \in T
    BY <1>3
  <2> HIDE DEF T
  <2>2. Zero \in Seq(T)
    BY <2>1, ShortTexts DEF Zero
  <2>3. QED
    BY <2>2, PlainlyOf DEF T
<1>7. Plainly(S, DataKey)
  <2>1. "d" \in T /\ "a" \in T /\ "t" \in T
    BY <1>3
  <2> HIDE DEF T
  <2>2. DataKey \in Seq(T)
    BY <2>1, ShortTexts DEF DataKey
  <2>3. QED
    BY <2>2, PlainlyOf DEF T
<1>8. QED
  BY <1>1, <1>2, <1>4, <1>5, <1>6, <1>7 DEF Writes

LEMMA ItemSays ==
  ASSUME NEW S, Writes(S), NEW item, Plainly(S, item.key), Plainly(S, item.value)
  PROVE  Says(S, ItemText(item), <<item.key, item.value>>)
<1> DEFINE k == item.key
           v == item.value
           colon == ":"
<1>1. k \in Seq(S) /\ v \in Seq(S) /\ Range(k) \cap Unescaped = {} /\ Range(v) \cap Unescaped = {}
  BY DEF Plainly
<1>2. Quote \in S /\ Backslash \in S /\ colon \in S /\ colon # Quote
  BY DEF Writes
<1>3. ItemText(item) = Serialize(k) \o <<colon>> \o Serialize(v)
  BY DEF ItemText
<1> HIDE DEF k, v, colon
<1>4. Says(S, Serialize(k), <<k>>) /\ Says(S, Serialize(v), <<v>>) /\ Says(S, <<colon>>, <<>>)
  BY <1>1, <1>2, SaysString, SaysNothing
<1>5. Says(S, Serialize(k) \o <<colon>>, <<k>> \o <<>>)
  BY <1>4, SaysBoth
<1>6. Says(S, (Serialize(k) \o <<colon>>) \o Serialize(v), (<<k>> \o <<>>) \o <<v>>)
  BY <1>4, <1>5, SaysBoth
<1>7. (<<k>> \o <<>>) \o <<v>> = <<k, v>>
  <2>1. <<k>> \in Seq(Seq(S))
    BY <1>1, Lists
  <2>2. <<k>> \o <<>> = <<k>>
    BY <2>1, ConcatEmptySeq
  <2>3. <<k>> \o <<v>> = <<k, v>>
    BY <1>1, PairOf
  <2>4. QED
    BY <2>2, <2>3
<1>8. Says(S, ItemText(item), <<k, v>>)
  BY <1>3, <1>6, <1>7
<1>9. QED
  BY <1>8 DEF k, v

\* A dict or a vector: what stands between its brackets.
Bracket == {"{", "}", "[", "]"}
LEMMA BracketsSay ==
  ASSUME NEW S, Writes(S), NEW a \in Bracket, NEW b \in Bracket,
         NEW x, NEW g, Says(S, x, g)
  PROVE  Says(S, (<<a>> \o x) \o <<b>>, g)
<1>1. a \in S /\ a # Quote /\ b \in S /\ b # Quote
  BY DEF Writes, Bracket
<1> DEFINE D == Seq(Readable(S))
<1>2. g \in Seq(D)
  BY DEF Says
<1>3. Says(S, <<a>>, <<>>) /\ Says(S, <<b>>, <<>>)
  BY <1>1, SaysNothing
<1>4. Says(S, <<a>> \o x, <<>> \o g)
  BY <1>3, SaysBoth
<1>5. Says(S, (<<a>> \o x) \o <<b>>, (<<>> \o g) \o <<>>)
  BY <1>3, <1>4, SaysBoth
<1> HIDE DEF D
<1>6. (<<>> \o g) \o <<>> = g
  <2>1. <<>> \o g = g
    BY <1>2, ConcatEmptySeq
  <2>2. g \o <<>> = g
    BY <1>2, ConcatEmptySeq
  <2>3. QED
    BY <2>1, <2>2
<1>7. QED
  BY <1>5, <1>6

LEMMA BracketsLose ==
  ASSUME NEW S, Writes(S), NEW a \in Bracket, NEW b \in Bracket,
         NEW x, NEW m \in Nat, NEW s, Loses(S, x, m, s)
  PROVE  Loses(S, (<<a>> \o x) \o <<b>>, m, s)
<1>1. a \in S /\ a # Quote /\ b \in S /\ b # Quote
  BY DEF Writes, Bracket
<1>2. Says(S, <<a>>, <<>>) /\ <<b>> \in Seq(S)
  BY <1>1, SaysNothing, Lists
<1>3. Loses(S, <<a>> \o x, Len(<<>>) + m, s)
  BY <1>2, SaysLoses
<1>4. Len(<<>>) + m = m
  OBVIOUS
<1>5. Loses(S, <<a>> \o x, m, s)
  BY <1>3, <1>4
<1>6. QED
  BY <1>2, <1>5, LosesOn

\* Two elements with a comma between them.
LEMMA CommaSays ==
  ASSUME NEW S, Writes(S), NEW x, NEW g, Says(S, x, g), NEW y, NEW h, Says(S, y, h)
  PROVE  Says(S, (x \o <<Comma>>) \o y, g \o h)
<1> DEFINE D == Seq(Readable(S))
<1>1. g \in Seq(D)
  BY DEF Says
<1>2. Comma \in S /\ Comma # Quote
  BY Marks DEF Writes
<1>3. Says(S, <<Comma>>, <<>>)
  BY <1>2, SaysNothing
<1>4. Says(S, x \o <<Comma>>, g \o <<>>)
  BY <1>3, SaysBoth
<1> HIDE DEF D
<1>5. g \o <<>> = g
  BY <1>1, ConcatEmptySeq
<1>6. Says(S, x \o <<Comma>>, g)
  BY <1>4, <1>5
<1>7. QED
  BY <1>6, SaysBoth

LEMMA CommaLoses ==
  ASSUME NEW S, Writes(S), NEW x, NEW m, NEW s, Loses(S, x, m, s), NEW y \in Seq(S)
  PROVE  Loses(S, (x \o <<Comma>>) \o y, m, s)
<1>1. <<Comma>> \in Seq(S)
  BY Lists DEF Writes
<1>2. Loses(S, x \o <<Comma>>, m, s)
  BY <1>1, LosesOn
<1>3. QED
  BY <1>2, LosesOn

LEMMA CommaLosesLater ==
  ASSUME NEW S, Writes(S), NEW x, NEW g, Says(S, x, g), NEW m \in Nat, NEW s,
         NEW y, Loses(S, y, m, s)
  PROVE  Loses(S, (x \o <<Comma>>) \o y, Len(g) + m, s)
<1> DEFINE D == Seq(Readable(S))
<1>1. g \in Seq(D)
  BY DEF Says
<1>2. Comma \in S /\ Comma # Quote
  BY Marks DEF Writes
<1>3. Says(S, <<Comma>>, <<>>)
  BY <1>2, SaysNothing
<1>4. Says(S, x \o <<Comma>>, g \o <<>>)
  BY <1>3, SaysBoth
<1> HIDE DEF D
<1>5. g \o <<>> = g
  BY <1>1, ConcatEmptySeq
<1>6. Says(S, x \o <<Comma>>, g)
  BY <1>4, <1>5
<1>7. QED
  BY <1>6, SaysLoses

\* What begins with a string begins with a quote.
Quoted(S, y) ==
    /\ y \in Seq(S)
    /\ \A q \in Readers(S) : \E z \in Seq(S) : After(q, y) = After(After(q, <<Quote>>), z)

LEMMA StringIsQuoted ==
  ASSUME NEW S, Quote \in S, Backslash \in S, NEW s \in Seq(S)
  PROVE  Quoted(S, Serialize(s))
<1> DEFINE e == Escaped(s)[Len(s)]
           z == e \o <<Quote>>
<1>1. e \in Seq(S) /\ <<Quote>> \in Seq(S) /\ Serialize(s) \in Seq(S)
  BY SerializeType
<1>2. z \in Seq(S)
  BY <1>1, ConcatProperties
<1>3. Serialize(s) = <<Quote>> \o z
  <2> HIDE DEF e
  <2>1. (<<Quote>> \o e) \o <<Quote>> = <<Quote>> \o (e \o <<Quote>>)
    BY <1>1, ConcatAssociative
  <2>2. QED
    BY <2>1 DEF Serialize, e
<1> HIDE DEF z
<1>4. ASSUME NEW q \in Readers(S)
      PROVE  After(q, Serialize(s)) = After(After(q, <<Quote>>), z)
  <2>1. ReadInTurn(q, <<Quote>>, z)
    BY <1>1, <1>2, AfterBoth
  <2>2. QED
    BY <1>3, <2>1 DEF ReadInTurn
<1>5. QED
  BY <1>1, <1>2, <1>4 DEF Quoted

LEMMA QuotedOn ==
  ASSUME NEW S, NEW y, Quoted(S, y), NEW x \in Seq(S), Quote \in S
  PROVE  Quoted(S, y \o x)
<1>1. y \in Seq(S)
  BY DEF Quoted
<1>2. y \o x \in Seq(S)
  BY <1>1, ConcatProperties
<1>3. ASSUME NEW q \in Readers(S)
      PROVE  \E z \in Seq(S) : After(q, y \o x) = After(After(q, <<Quote>>), z)
  <2>1. PICK z \in Seq(S) : After(q, y) = After(After(q, <<Quote>>), z)
    BY DEF Quoted
  <2> DEFINE p == After(q, <<Quote>>)
  <2>2. <<Quote>> \in Seq(S)
    BY Lists
  <2>3. p \in Readers(S)
    BY <2>2, AfterType
  <2>4. ReadInTurn(q, y, x)
    BY <1>1, AfterBoth
  <2> HIDE DEF p
  <2>5. ReadInTurn(p, z, x)
    BY <2>3, AfterBoth
  <2>6. z \o x \in Seq(S)
    BY ConcatProperties
  <2>7. After(q, y \o x) = After(p, z \o x)
    BY <2>1, <2>4, <2>5 DEF ReadInTurn, p
  <2>8. QED
    BY <2>6, <2>7 DEF p
<1>4. QED
  BY <1>2, <1>3 DEF Quoted

\* A string that is not read as it was written, a comma and the next element.
LEMMA CommaSettles ==
  ASSUME NEW S, Writes(S), NEW x, NEW m, NEW s, Pends(S, x, m, s), NEW y, Quoted(S, y)
  PROVE  Loses(S, (x \o <<Comma>>) \o y, m, s)
<1>1. x \in Seq(S) /\ y \in Seq(S) /\ <<Comma>> \in Seq(S) /\ <<Quote>> \in Seq(S)
  BY Lists DEF Writes, Pends, Quoted
<1>2. x \o <<Comma>> \in Seq(S)
  BY <1>1, ConcatProperties
<1>3. (x \o <<Comma>>) \o y \in Seq(S)
  BY <1>1, <1>2, ConcatProperties
<1>4. ASSUME NEW r, Ready(S, r)
      PROVE  Lost(S, After(r, (x \o <<Comma>>) \o y), Len(r.found) + m, s)
  <2> DEFINE q == After(r, x \o <<Comma>>)
             p == After(q, <<Quote>>)
             k == Len(r.found) + m
  <2>1. r \in Readers(S)
    BY <1>4, ReadyFound
  <2>2. q = After(After(r, x), <<Comma>>)
    <3>1. ReadInTurn(r, x, <<Comma>>)
      BY <1>1, <2>1, AfterBoth
    <3>2. QED
      BY <3>1 DEF ReadInTurn
  <2>3. After(r, (x \o <<Comma>>) \o y) = After(q, y)
    <3>1. ReadInTurn(r, x \o <<Comma>>, y)
      BY <1>1, <1>2, <2>1, AfterBoth
    <3>2. QED
      BY <3>1 DEF ReadInTurn
  <2>4. q \in Readers(S)
    BY <1>2, <2>1, AfterType
  <2>5. Lost(S, p, k, s)
    BY <1>4, <2>2 DEF Pends
  <2> HIDE DEF q
  <2>6. PICK z \in Seq(S) : After(q, y) = After(p, z)
    BY <2>4 DEF Quoted
  <2> HIDE DEF p, k
  <2>7. Lost(S, After(p, z), k, s)
    BY <2>5, StaysLost
  <2>8. QED
    BY <2>3, <2>6, <2>7 DEF k
<1>5. QED
  BY <1>3, <1>4 DEF Loses

FirstItem(c) == [key |-> Comment, value |-> c]
SecondItem == [key |-> Time, value |-> Zero]
DatumStrings(c) == <<Comment, c>> \o <<Time, Zero>>

LEMMA ItemsOf ==
  ASSUME NEW S, Writes(S), NEW c \in Seq(S)
  PROVE  /\ ItemText(FirstItem(c)) \in Seq(S) /\ ItemText(SecondItem) \in Seq(S)
         /\ Joined(ItemTexts(Datum(c)))
               = (ItemText(FirstItem(c)) \o <<Comma>>) \o ItemText(SecondItem)
<1> DEFINE a == FirstItem(c)
           b == SecondItem
           T == [key : Seq(S), value : Seq(S)]
           items == Datum(c)
           texts == ItemTexts(items)
<1>1. Quote \in S /\ Backslash \in S /\ ":" \in S /\ Comma \in S
      /\ Comment \in Seq(S) /\ Time \in Seq(S) /\ Zero \in Seq(S)
  BY DEF Writes, Plainly
<1>2. a \in T /\ b \in T
  BY <1>1 DEF FirstItem, SecondItem
<1>3. items = <<a, b>>
  BY DEF Datum, FirstItem, SecondItem, Zero
<1> HIDE DEF a, b, T
<1>4. items \in Seq(T) /\ Len(items) = 2 /\ items[1] = a /\ items[2] = b
  <2>1. <<a, b>> \in Seq(T) /\ Len(<<a, b>>) = 2 /\ <<a, b>>[1] = a /\ <<a, b>>[2] = b
    BY <1>2, Lists
  <2>2. QED
    BY <1>3, <2>1
<1> HIDE DEF items
<1>5. texts \in Seq(Seq(S)) /\ Len(texts) = 2
      /\ \A i \in 1..2 : texts[i] = ItemText(items[i])
  BY <1>1, <1>4, ItemTextsType DEF T
<1> HIDE DEF texts
<1>6. 1 \in 1..2 /\ 2 \in 1..2
  OBVIOUS
<1>7. texts[1] = ItemText(a) /\ texts[2] = ItemText(b)
  BY <1>4, <1>5, <1>6
<1>8. texts[1] \in Seq(S) /\ texts[2] \in Seq(S)
      /\ Joined(texts) = texts[1] \o <<Comma>> \o texts[2]
  BY <1>1, <1>5, TwoJoined
<1>9. QED
  BY <1>7, <1>8 DEF a, b, texts, items

LEMMA DatumSays ==
  ASSUME NEW S, Writes(S), NEW c, Plainly(S, c)
  PROVE  Says(S, DictText(Datum(c)), DatumStrings(c))
<1> DEFINE a == FirstItem(c)
           b == SecondItem
           x == ItemText(a)
           y == ItemText(b)
<1>1. Plainly(S, Comment) /\ Plainly(S, Time) /\ Plainly(S, Zero) /\ c \in Seq(S)
  BY DEF Writes, Plainly
<1>2. a.key = Comment /\ a.value = c /\ b.key = Time /\ b.value = Zero
  BY DEF FirstItem, SecondItem
<1> HIDE DEF a, b
<1>3. Says(S, x, <<Comment, c>>)
  <2>1. Says(S, x, <<a.key, a.value>>)
    BY <1>1, <1>2, ItemSays
  <2>2. QED
    BY <1>2, <2>1
<1>4. Says(S, y, <<Time, Zero>>)
  <2>1. Says(S, y, <<b.key, b.value>>)
    BY <1>1, <1>2, ItemSays
  <2>2. QED
    BY <1>2, <2>1
<1>5. Joined(ItemTexts(Datum(c))) = (x \o <<Comma>>) \o y
  BY <1>1, ItemsOf DEF a, b
<1> HIDE DEF x, y
<1>6. Says(S, (x \o <<Comma>>) \o y, DatumStrings(c))
  <2> DEFINE g == <<Comment, c>>
             h == <<Time, Zero>>
  <2>1. Says(S, x, g) /\ Says(S, y, h)
    BY <1>3, <1>4
  <2> HIDE DEF g, h
  <2>2. Says(S, (x \o <<Comma>>) \o y, g \o h)
    BY <2>1, CommaSays
  <2>3. QED
    BY <2>2 DEF g, h, DatumStrings
<1> DEFINE z == (x \o <<Comma>>) \o y
           open == "{"
           close == "}"
<1>7. open \in Bracket /\ close \in Bracket
  BY DEF Bracket
<1>8. DictText(Datum(c)) = (<<open>> \o z) \o <<close>>
  BY <1>5, DictIs
<1> HIDE DEF z, open, close
<1>9. Says(S, (<<open>> \o z) \o <<close>>, DatumStrings(c))
  BY <1>6, <1>7, BracketsSay DEF z
<1>10. QED
  BY <1>8, <1>9

LEMMA DatumLoses ==
  ASSUME NEW S, Writes(S), NEW c \in Seq(S), Range(c) \cap Unescaped # {}
  PROVE  Loses(S, DictText(Datum(c)), 2, c)
<1> DEFINE a == FirstItem(c)
           b == SecondItem
           x == ItemText(a)
           y == ItemText(b)
           colon == ":"
<1>1. Plainly(S, Comment) /\ Comment \in Seq(S) /\ Time \in Seq(S) /\ Zero \in Seq(S)
      /\ Quote \in S /\ Backslash \in S /\ Comma \in S /\ colon \in S /\ colon # Quote
  BY DEF Writes, Plainly
<1>2. Joined(ItemTexts(Datum(c))) = (x \o <<Comma>>) \o y
  BY ItemsOf
<1>3. x = (Serialize(Comment) \o <<colon>>) \o Serialize(c)
  BY DEF ItemText, FirstItem
<1>4. y = (Serialize(Time) \o <<colon>>) \o Serialize(Zero)
  BY DEF ItemText, SecondItem
<1> HIDE DEF x, y, colon
<1>5. Pends(S, x, 2, c)
  <2>1. Says(S, Serialize(Comment), <<Comment>>)
    BY <1>1, SaysString DEF Plainly
  <2>2. Says(S, <<colon>>, <<>>)
    BY <1>1, SaysNothing
  <2>3. Says(S, Serialize(Comment) \o <<colon>>, <<Comment>> \o <<>>)
    BY <2>1, <2>2, SaysBoth
  <2>4. <<Comment>> \o <<>> = <<Comment>>
    <3>1. <<Comment>> \in Seq(Seq(S))
      BY <1>1, Lists
    <3>2. QED
      BY <3>1, ConcatEmptySeq
  <2>5. Says(S, Serialize(Comment) \o <<colon>>, <<Comment>>)
    BY <2>3, <2>4
  <2>6. Pends(S, Serialize(c), 1, c)
    BY <1>1, PendsString
  <2> DEFINE g == <<Comment>>
  <2>7. Len(g) = 1
    OBVIOUS
  <2>8. Says(S, Serialize(Comment) \o <<colon>>, g)
    BY <2>5
  <2> HIDE DEF g
  <2>9. Pends(S, (Serialize(Comment) \o <<colon>>) \o Serialize(c), Len(g) + 1, c)
    BY <2>6, <2>8, SaysPends
  <2>10. Len(g) + 1 = 2
    BY <2>7
  <2>11. QED
    BY <1>3, <2>9, <2>10
<1>6. Quoted(S, y)
  <2>1. Quoted(S, Serialize(Time))
    BY <1>1, StringIsQuoted
  <2>2. <<colon>> \in Seq(S) /\ Serialize(Zero) \in Seq(S)
    BY <1>1, Lists, SerializeType
  <2>3. Quoted(S, Serialize(Time) \o <<colon>>)
    BY <1>1, <2>1, <2>2, QuotedOn
  <2>4. QED
    BY <1>1, <1>4, <2>2, <2>3, QuotedOn
<1> DEFINE z == (x \o <<Comma>>) \o y
           open == "{"
           close == "}"
<1>7. Loses(S, z, 2, c)
  BY <1>5, <1>6, CommaSettles
<1>8. open \in Bracket /\ close \in Bracket
  BY DEF Bracket
<1>9. DictText(Datum(c)) = (<<open>> \o z) \o <<close>>
  BY <1>2, DictIs
<1> HIDE DEF z, open, close
<1>10. Loses(S, (<<open>> \o z) \o <<close>>, 2, c)
  BY <1>7, <1>8, BracketsLose
<1>11. QED
  BY <1>9, <1>10

LEMMA FromTheBeginning ==
  ASSUME NEW S
  PROVE  /\ Ready(S, Reader) /\ Reader.found = <<>> /\ Len(Reader.found) = 0
         /\ \A text : LET q == After(Reader, text)
                      IN Strings(text) = IF q.refused \/ q.inside THEN <<>> ELSE q.found
<1>1. <<>> \in Seq(Readable(S)) /\ <<>> \in Seq(Seq(Readable(S))) /\ Len(<<>>) = 0
  BY EmptySeq
<1>2. /\ Reader \in Readers(S) /\ Reader.inside = FALSE /\ Reader.refused = FALSE
      /\ Reader.escape = 0 /\ Reader.found = <<>>
  BY <1>1 DEF Reader, Readers
<1>3. \A text : LET q == After(Reader, text)
                IN Strings(text) = IF q.refused \/ q.inside THEN <<>> ELSE q.found
  BY DEF Strings, After
<1>4. QED
  BY <1>1, <1>2, <1>3 DEF Ready, Underway

LEMMA SaidIsFound ==
  ASSUME NEW S, NEW text, NEW g, Says(S, text, g)
  PROVE  Strings(text) = g
<1> DEFINE r == Reader
           q == After(r, text)
           D == Seq(Readable(S))
<1>1. Ready(S, r) /\ r.found = <<>>
      /\ Strings(text) = IF q.refused \/ q.inside THEN <<>> ELSE q.found
  BY FromTheBeginning
<1> HIDE DEF r
<1>2. Outside(S, q, r.found \o g)
  BY <1>1 DEF Says
<1> HIDE DEF q
<1>3. q.refused = FALSE /\ q.inside = FALSE /\ q.found = <<>> \o g
  BY <1>1, <1>2 DEF Outside, Underway
<1>4. g \in Seq(D)
  BY DEF Says
<1> HIDE DEF D
<1>5. <<>> \o g = g
  BY <1>4, ConcatEmptySeq
<1>6. QED
  BY <1>1, <1>3, <1>5

\* A text in which a string is lost is not read as the strings g that have it.
LEMMA LostIsNotFound ==
  ASSUME NEW S, NEW text, NEW m \in Nat, NEW s, Loses(S, text, m, s),
         NEW g, m \in 1..Len(g), g[m] = s
  PROVE  Strings(text) # g
<1> DEFINE q == After(Reader, text)
           k == Len(Reader.found) + m
<1>1. Ready(S, Reader) /\ Len(Reader.found) = 0
      /\ Strings(text) = IF q.refused \/ q.inside THEN <<>> ELSE q.found
  BY FromTheBeginning
<1>2. Lost(S, q, k, s)
  BY <1>1 DEF Loses
<1>3. k = m
  BY <1>1
<1> HIDE DEF q, k
<1>4. CASE q.refused \/ q.inside
  <2>1. Strings(text) = <<>>
    BY <1>1, <1>4
  <2>2. g # <<>>
    OBVIOUS
  <2>3. QED
    BY <2>1, <2>2
<1>5. CASE ~(q.refused \/ q.inside)
  BY <1>1, <1>2, <1>3, <1>5 DEF Lost
<1>6. QED
  BY <1>4, <1>5

LEMMA ArrayOfTwo ==
  ASSUME NEW S, Writes(S), NEW a, NEW b, DictText(a) \in Seq(S), DictText(b) \in Seq(S)
  PROVE  ArrayText(<<a, b>>)
            = (<<"[">> \o ((DictText(a) \o <<Comma>>) \o DictText(b))) \o <<"]">>
<1> DEFINE dicts == <<a, b>>
           texts == [i \in DOMAIN dicts |-> DictText(dicts[i])]
<1>1. DOMAIN dicts = 1..2 /\ dicts[1] = a /\ dicts[2] = b
  OBVIOUS
<1>2. ArrayText(dicts) = (<<"[">> \o Joined(texts)) \o <<"]">>
  BY DEF ArrayText
<1> HIDE DEF dicts
<1> DEFINE D == Seq(S)
<1>3. DictText(a) \in D /\ DictText(b) \in D
  OBVIOUS
<1> HIDE DEF D
<1>4. \A i \in 1..2 : i = 1 \/ i = 2
  OBVIOUS
<1>5. 1 \in 1..2 /\ 2 \in 1..2 /\ 2 \in Nat
  OBVIOUS
<1>6. texts \in [1..2 -> D] /\ texts[1] = DictText(a) /\ texts[2] = DictText(b)
  BY <1>1, <1>3, <1>4, <1>5
<1> HIDE DEF texts
<1>7. texts \in Seq(D) /\ Len(texts) = 2
  BY <1>5, <1>6, Listing
<1>8. Comma \in S
  BY DEF Writes
<1>9. Joined(texts) = texts[1] \o <<Comma>> \o texts[2]
  BY <1>7, <1>8, TwoJoined DEF D
<1>10. QED
  BY <1>2, <1>6, <1>9 DEF dicts

\* The strings of two data one after the other.
Batch(c, d) == <<Comment, c, Time, <<"0">>, Comment, d, Time, <<"0">>>>

LEMMA Eight ==
  ASSUME NEW D, NEW a \in D, NEW b \in D, NEW c \in D, NEW d \in D, NEW e \in D
  PROVE  (<<a, b>> \o <<c, d>>) \o (<<a, e>> \o <<c, d>>) = <<a, b, c, d, a, e, c, d>>
<1> DEFINE x == <<a, b>>
           y == <<c, d>>
           z == <<a, e>>
           w == <<a, b, c, d, a, e, c, d>>
<1>1. x \in Seq(D) /\ y \in Seq(D) /\ z \in Seq(D)
  BY Lists
<1>2. /\ Len(x) = 2 /\ Len(y) = 2 /\ Len(z) = 2
      /\ x[1] = a /\ x[2] = b /\ y[1] = c /\ y[2] = d /\ z[1] = a /\ z[2] = e
  BY Lists
<1>3. /\ w \in Seq(D) /\ Len(w) = 8 /\ w[1] = a /\ w[2] = b /\ w[3] = c /\ w[4] = d
      /\ w[5] = a /\ w[6] = e /\ w[7] = c /\ w[8] = d
  OBVIOUS
<1> HIDE DEF x, y, z, w
<1> DEFINE p == x \o y
           q == z \o y
<1>4. 1 \in 1..2 /\ 2 \in 1..2 /\ 2 + 1 = 3 /\ 2 + 2 = 4
  OBVIOUS
<1>5. /\ p \in Seq(D) /\ Len(p) = 4 /\ p[1] = a /\ p[2] = b /\ p[3] = c /\ p[4] = d
  <2>1. p \in Seq(D) /\ JoinOf(x, y, p)
    BY <1>1, Join
  <2> HIDE DEF p
  <2>2. QED
    BY <1>2, <1>4, <2>1 DEF JoinOf
<1>6. /\ q \in Seq(D) /\ Len(q) = 4 /\ q[1] = a /\ q[2] = e /\ q[3] = c /\ q[4] = d
  <2>1. q \in Seq(D) /\ JoinOf(z, y, q)
    BY <1>1, Join
  <2> HIDE DEF q
  <2>2. QED
    BY <1>2, <1>4, <2>1 DEF JoinOf
<1> HIDE DEF p, q
<1> DEFINE t == p \o q
<1>7. t \in Seq(D) /\ Len(t) = 8 /\ t[1] = a /\ t[2] = b /\ t[3] = c /\ t[4] = d
      /\ t[5] = a /\ t[6] = e /\ t[7] = c /\ t[8] = d
  <2>1. t \in Seq(D) /\ JoinOf(p, q, t)
    BY <1>5, <1>6, Join
  <2>2. 1 \in 1..4 /\ 2 \in 1..4 /\ 3 \in 1..4 /\ 4 \in 1..4
        /\ 4 + 1 = 5 /\ 4 + 2 = 6 /\ 4 + 3 = 7 /\ 4 + 4 = 8
    OBVIOUS
  <2> HIDE DEF t
  <2>3. QED
    BY <1>5, <1>6, <2>1, <2>2 DEF JoinOf
<1> HIDE DEF t
<1>8. \A i \in 1..8 : i = 1 \/ i = 2 \/ i = 3 \/ i = 4 \/ i = 5 \/ i = 6 \/ i = 7 \/ i = 8
  OBVIOUS
<1>9. \A i \in 1..8 : t[i] = w[i]
  BY <1>3, <1>7, <1>8
<1>10. t = w
  BY <1>3, <1>7, <1>9, SeqEqual
<1>11. QED
  BY <1>10 DEF t, p, q, x, y, z, w

LEMMA DatumType ==
  ASSUME NEW S, Writes(S), NEW c \in Seq(S)
  PROVE  DictText(Datum(c)) \in Seq(S)
<1>1. CASE Range(c) \cap Unescaped # {}
  BY <1>1, DatumLoses DEF Loses
<1>2. CASE Range(c) \cap Unescaped = {}
  <2>1. Plainly(S, c)
    BY <1>2 DEF Plainly
  <2>2. QED
    BY <2>1, DatumSays DEF Says
<1>3. QED
  BY <1>1, <1>2

LEMMA DatumStringsType ==
  ASSUME NEW S, Writes(S), NEW c \in Seq(S)
  PROVE  DatumStrings(c) \in Seq(Seq(S)) /\ Len(DatumStrings(c)) = 4
<1> DEFINE D == Seq(S)
           x == <<Comment, c>>
           y == <<Time, Zero>>
<1>1. Comment \in D /\ Time \in D /\ Zero \in D /\ c \in D
  BY DEF Writes, Plainly
<1> HIDE DEF D
<1>2. x \in Seq(D) /\ y \in Seq(D) /\ Len(x) = 2 /\ Len(y) = 2
  BY <1>1, Lists
<1> HIDE DEF x, y
<1>3. x \o y \in Seq(D) /\ Len(x \o y) = Len(x) + Len(y)
  BY <1>2, ConcatProperties
<1> DEFINE z == x \o y
<1>4. z \in Seq(D) /\ Len(z) = Len(x) + Len(y)
  BY <1>3
<1> HIDE DEF z
<1>5. 2 + 2 = 4
  OBVIOUS
<1>6. z \in Seq(D) /\ Len(z) = 4
  BY <1>2, <1>4, <1>5
<1>7. QED
  BY <1>6 DEF D, x, y, z, DatumStrings

\* The text of two data.
BatchText(c, d) == (DictText(Datum(c)) \o <<Comma>>) \o DictText(Datum(d))

LEMMA BatchIs ==
  ASSUME NEW S, Writes(S), NEW c \in Seq(S), NEW d \in Seq(S)
  PROVE  \E a \in Bracket : \E b \in Bracket :
            ArrayText(<<Datum(c), Datum(d)>>) = (<<a>> \o BatchText(c, d)) \o <<b>>
<1>1. DictText(Datum(c)) \in Seq(S) /\ DictText(Datum(d)) \in Seq(S)
  BY DatumType
<1>2. ArrayText(<<Datum(c), Datum(d)>>) = (<<"[">> \o BatchText(c, d)) \o <<"]">>
  BY <1>1, ArrayOfTwo DEF BatchText
<1>3. "[" \in Bracket /\ "]" \in Bracket
  BY DEF Bracket
<1>4. QED
  BY <1>2, <1>3, Zenon

LEMMA BatchIsRead ==
  ASSUME NEW S, Writes(S), NEW c, Plainly(S, c), NEW d, Plainly(S, d)
  PROVE  Strings(ArrayText(<<Datum(c), Datum(d)>>)) = Batch(c, d)
<1> DEFINE text == ArrayText(<<Datum(c), Datum(d)>>)
           inner == BatchText(c, d)
           g == DatumStrings(c)
           h == DatumStrings(d)
           D == Seq(S)
<1>1. c \in Seq(S) /\ d \in Seq(S)
  BY DEF Plainly
<1>2. PICK a \in Bracket, b \in Bracket : text = (<<a>> \o inner) \o <<b>>
  BY <1>1, BatchIs
<1>3. Says(S, inner, g \o h)
  <2>1. Says(S, DictText(Datum(c)), g) /\ Says(S, DictText(Datum(d)), h)
    BY DatumSays
  <2> HIDE DEF g, h
  <2>2. QED
    BY <2>1, CommaSays DEF BatchText
<1>4. g \o h = Batch(c, d)
  <2>1. Comment \in D /\ Time \in D /\ Zero \in D /\ c \in D /\ d \in D
    BY <1>1 DEF Writes, Plainly
  <2> HIDE DEF D
  <2>2. g \o h = <<Comment, c, Time, Zero, Comment, d, Time, Zero>>
    BY <2>1, Eight DEF DatumStrings
  <2>3. QED
    BY <2>2 DEF Batch, Zero
<1> HIDE DEF text, inner, g, h
<1>5. Says(S, inner, Batch(c, d))
  BY <1>3, <1>4
<1>6. Says(S, text, Batch(c, d))
  BY <1>2, <1>5, BracketsSay
<1>7. Strings(text) = Batch(c, d)
  BY <1>6, SaidIsFound
<1>8. QED
  BY <1>7 DEF text

LEMMA BatchIsLost ==
  ASSUME NEW S, Writes(S), NEW c \in Seq(S), NEW d \in Seq(S),
         Range(c) \cap Unescaped # {} \/ Range(d) \cap Unescaped # {}
  PROVE  Strings(ArrayText(<<Datum(c), Datum(d)>>)) # Batch(c, d)
<1> DEFINE text == ArrayText(<<Datum(c), Datum(d)>>)
           inner == BatchText(c, d)
<1>1. PICK a \in Bracket, b \in Bracket : text = (<<a>> \o inner) \o <<b>>
  BY BatchIs
<1>2. /\ Batch(c, d)[2] = c /\ Batch(c, d)[6] = d
      /\ 2 \in 1..Len(Batch(c, d)) /\ 6 \in 1..Len(Batch(c, d))
  BY DEF Batch
<1>3. CASE Range(c) \cap Unescaped # {}
  <2>1. Loses(S, DictText(Datum(c)), 2, c)
    BY <1>3, DatumLoses
  <2>2. DictText(Datum(d)) \in Seq(S)
    BY DatumType
  <2>3. Loses(S, inner, 2, c)
    BY <2>1, <2>2, CommaLoses DEF BatchText
  <2> HIDE DEF text, inner
  <2>4. Loses(S, text, 2, c)
    BY <1>1, <2>3, BracketsLose
  <2>5. Strings(text) # Batch(c, d)
    BY <1>2, <2>4, LostIsNotFound
  <2>6. QED
    BY <2>5 DEF text
<1>4. CASE Range(c) \cap Unescaped = {} /\ Range(d) \cap Unescaped # {}
  <2> DEFINE g == DatumStrings(c)
  <2>1. Loses(S, DictText(Datum(d)), 2, d)
    BY <1>4, DatumLoses
  <2>2. Says(S, DictText(Datum(c)), g) /\ Len(g) = 4
    <3>1. Plainly(S, c)
      BY <1>4 DEF Plainly
    <3>2. QED
      BY <3>1, DatumSays, DatumStringsType
  <2> HIDE DEF g
  <2>3. Loses(S, inner, Len(g) + 2, d)
    BY <2>1, <2>2, CommaLosesLater DEF BatchText
  <2>4. Len(g) + 2 = 6
    BY <2>2
  <2>5. Loses(S, inner, 6, d)
    BY <2>3, <2>4
  <2> HIDE DEF text, inner
  <2>6. Loses(S, text, 6, d)
    BY <1>1, <2>5, BracketsLose
  <2>7. Strings(text) # Batch(c, d)
    BY <1>2, <2>6, LostIsNotFound
  <2>8. QED
    BY <2>7 DEF text
<1>5. QED
  BY <1>3, <1>4

\* For every two comments: a JSON reader finds the strings of the batch as they
\* were written if and only if dict.cpp:70, which escapes the quote only, met no
\* backslash and no control character in them, a line's own newline included.
THEOREM CommentsAreRead == CommentsArrive
<1>1. SUFFICES ASSUME NEW c \in Comments, NEW d \in Comments
               PROVE  Strings(ArrayText(<<Datum(c), Datum(d)>>)) = Batch(c, d)
                        <=> (Range(c) \cup Range(d)) \cap Unescaped = {}
  BY DEF CommentsArrive, Batch
<1> DEFINE S == Letters \cup Range(c) \cup Range(d)
<1>2. c \in Seq(Range(c)) /\ d \in Seq(Range(d))
  BY MessageAssumption
<1>3. Letters \subseteq S /\ Range(c) \subseteq S /\ Range(d) \subseteq S
  OBVIOUS
<1> HIDE DEF S
<1>4. c \in Seq(S) /\ d \in Seq(S) /\ Writes(S)
  BY <1>2, <1>3, SeqMonotonic, LettersWrite
<1>5. CASE Range(c) \cap Unescaped # {} \/ Range(d) \cap Unescaped # {}
  BY <1>4, <1>5, BatchIsLost
<1>6. CASE Range(c) \cap Unescaped = {} /\ Range(d) \cap Unescaped = {}
  <2>1. Plainly(S, c) /\ Plainly(S, d)
    BY <1>4, <1>6 DEF Plainly
  <2>2. QED
    BY <1>4, <1>6, <2>1, BatchIsRead
<1>7. QED
  BY <1>5, <1>6

-----------------------------------------------------------------------------
(***************************************************************************)
(* The body of an upload: base64 in a dict.                                *)
(***************************************************************************)

\* The characters of base64, none of which would have to be escaped.
Encoding == {encoding_table[v] : v \in 1..64} \cup {"="}

LEMMA TableNeedsNoEscape == \A v \in 1..64 : encoding_table[v] \notin Unescaped
<1>1. \A v \in 1..64 : encoding_table[v] # Backslash
  BY DEF encoding_table, Backslash
<1>2. \A v \in 1..64 : encoding_table[v] \notin Controls
  BY DEF encoding_table, Controls
<1>3. QED
  BY <1>1, <1>2 DEF Unescaped

LEMMA EncodedIsPlain ==
  ASSUME NEW data \in Seq(Bytes), NEW S, Encoding \subseteq S
  PROVE  Plainly(S, base64_encode(data))
<1> DEFINE n == OutputLength(data)
           text == base64_encode(data)
           T == S \ Unescaped
<1>1. n \in Nat
  BY Lengths
<1>2. \A v \in 1..64 : encoding_table[v] \in T
  BY TableNeedsNoEscape DEF Encoding
<1>3. "=" \in T
  <2>1. "=" \notin Unescaped
    BY Zenon DEF Unescaped, Controls, Backslash
  <2>2. QED
    BY <2>1 DEF Encoding
<1> HIDE DEF T
<1>4. ASSUME NEW j \in 1..n
      PROVE  text[j] \in T
  <2>1. Sextet(data, j) + 1 \in 1..64
    <3>1. j \in Nat \ {0}
      BY <1>1, SMT
    <3>2. PICK v \in 0..63 : v = Sextet(data, j)
      BY <3>1, SextetRange, Zenon
    <3>3. v + 1 \in 1..64
      OBVIOUS
    <3>4. QED
      BY <3>2, <3>3
  <2>2. text[j] = IF j > n - Padding(data) THEN "=" ELSE encoding_table[Sextet(data, j) + 1]
    BY DEF base64_encode
  <2>3. QED
    BY <1>2, <1>3, <2>1, <2>2
<1>5. text = [j \in 1..n |-> text[j]]
  BY DEF base64_encode
<1> HIDE DEF text, n
<1>6. text \in [1..n -> T]
  BY <1>4, <1>5
<1>7. text \in Seq(T)
  BY <1>1, <1>6, Listing
<1>8. QED
  BY <1>7, PlainlyOf DEF T, text

LEMMA OneItemSays ==
  ASSUME NEW S, Writes(S), NEW k, Plainly(S, k), NEW v, Plainly(S, v)
  PROVE  Says(S, DictText(<<[key |-> k, value |-> v]>>), <<k, v>>)
<1> DEFINE item == [key |-> k, value |-> v]
           T == [key : Seq(S), value : Seq(S)]
           items == <<item>>
           x == ItemText(item)
           texts == ItemTexts(items)
<1>1. Quote \in S /\ Backslash \in S /\ ":" \in S /\ Comma \in S /\ k \in Seq(S) /\ v \in Seq(S)
  BY DEF Writes, Plainly
<1>2. item \in T /\ item.key = k /\ item.value = v
  BY <1>1
<1> HIDE DEF item, T
<1>3. items \in Seq(T) /\ Len(items) = 1 /\ items[1] = item
  BY <1>2, Lists
<1>4. Says(S, x, <<k, v>>)
  <2>1. Says(S, x, <<item.key, item.value>>)
    BY <1>2, ItemSays
  <2>2. QED
    BY <1>2, <2>1
<1> HIDE DEF items
<1>5. texts \in Seq(Seq(S)) /\ Len(texts) = 1 /\ \A i \in 1..1 : texts[i] = ItemText(items[i])
  BY <1>1, <1>3, ItemTextsType DEF T
<1> HIDE DEF texts
<1>6. 1 \in 1..1
  OBVIOUS
<1>7. texts[1] = x
  BY <1>3, <1>5, <1>6
<1>8. Joined(texts) = x
  <2>1. Joined(texts) = texts[1]
    BY <1>1, <1>5, OneJoined
  <2>2. QED
    BY <1>7, <2>1
<1> HIDE DEF x
<1> DEFINE open == "{"
           close == "}"
           g == <<k, v>>
<1>9. open \in Bracket /\ close \in Bracket
  BY DEF Bracket
<1>10. DictText(items) = (<<open>> \o x) \o <<close>>
  BY <1>8, DictIs DEF texts
<1>11. Says(S, x, g)
  BY <1>4
<1> HIDE DEF open, close, g
<1>12. Says(S, (<<open>> \o x) \o <<close>>, g)
  BY <1>9, <1>11, BracketsSay
<1>13. QED
  BY <1>10, <1>12 DEF items, item, g

\* For every outcome of deflate, of any length and any bytes: the server finds
\* the two strings of the body, and the second of them decodes to it.
THEOREM EveryUploadArrives == DataArrive
<1>1. SUFFICES ASSUME NEW z \in Zipped
               PROVE  Len(Strings(Body(z))) = 2 /\ Decoded(Strings(Body(z))[2]) = z
  BY DEF DataArrive
<1> DEFINE S == Letters \cup Encoding
           text == base64_encode(z)
<1>2. z \in Seq(Bytes)
  BY MessageAssumption
<1>3. Letters \subseteq S /\ Encoding \subseteq S
  OBVIOUS
<1> HIDE DEF S
<1>4. Writes(S) /\ Plainly(S, text)
  BY <1>2, <1>3, LettersWrite, EncodedIsPlain
<1>5. Decoded(text) = z
  BY <1>2, EncodedIsDecoded
<1> HIDE DEF text
<1>6. Plainly(S, DataKey)
  BY <1>4 DEF Writes
<1>7. Says(S, DictText(<<[key |-> DataKey, value |-> text]>>), <<DataKey, text>>)
  BY <1>4, <1>6, OneItemSays
<1>8. Says(S, Body(z), <<DataKey, text>>)
  BY <1>7 DEF Body, text
<1>9. Strings(Body(z)) = <<DataKey, text>>
  BY <1>8, SaidIsFound
<1>10. Len(<<DataKey, text>>) = 2 /\ <<DataKey, text>>[2] = text
  OBVIOUS
<1>11. QED
  BY <1>5, <1>9, <1>10

-----------------------------------------------------------------------------
(***************************************************************************)
(* The reply, and some beginning of it.                                    *)
(***************************************************************************)

\* The decimal digits.
LEMMA DigitsDiffer == \A d, e \in 1..10 : Digits[d] = Digits[e] => d = e
  BY DEF Digits

LEMMA NoOtherDigits ==
  /\ \A d \in 1..10 : Digits[d] \in Range(Digits) /\ Digits[d] # " "
  /\ "H" \notin Range(Digits)
<1>1. DOMAIN Digits = 1..10
  BY DEF Digits
<1>2. \A d \in 1..10 : Digits[d] # " "
  <2> DEFINE N == {"0", "1", "2", "3", "4", "5", "6", "7", "8", "9"}
  <2>1. \A d \in 1..10 : Digits[d] \in N
    BY DEF Digits
  <2>2. " " \notin N
    OBVIOUS
  <2> HIDE DEF N
  <2>3. QED
    BY <2>1, <2>2
<1>3. \A d \in 1..10 : Digits[d] # "H"
  BY DEF Digits
<1>4. QED
  BY <1>1, <1>2, <1>3 DEF Range

DigitAt(word, i) == CHOOSE d \in 0..9 : Digits[d + 1] = word[i]

LEMMA DigitIs ==
  ASSUME NEW word, NEW i, NEW d \in 0..9, word[i] = Digits[d + 1]
  PROVE  DigitAt(word, i) = d
<1>1. \A e \in 0..9 : Digits[e + 1] = Digits[d + 1] => e = d
  <2>1. \A e \in 0..9 : e + 1 \in 1..10
    OBVIOUS
  <2>2. \A e \in 0..9 : e + 1 = d + 1 => e = d
    OBVIOUS
  <2>3. d + 1 \in 1..10
    OBVIOUS
  <2>4. QED
    BY <2>1, <2>2, <2>3, DigitsDiffer
<1>2. \E e \in 0..9 : Digits[e + 1] = word[i]
  OBVIOUS
<1>3. DigitAt(word, i) \in 0..9 /\ Digits[DigitAt(word, i) + 1] = word[i]
  BY <1>2, Zenon DEF DigitAt
<1>4. QED
  BY <1>1, <1>3

LEMMA MaxOf ==
  ASSUME NEW n \in Nat, NEW P \in SUBSET (0..n), n \in P
  PROVE  Max(P) = n
<1>1. \A y \in P : n >= y
  OBVIOUS
<1>2. \A x \in P : x >= n => x = n
  OBVIOUS
<1>3. \E x \in P : \A y \in P : x >= y
  BY <1>1
<1>4. Max(P) \in P /\ \A y \in P : Max(P) >= y
  BY <1>3 DEF Max
<1>5. QED
  BY <1>2, <1>4

LEMMA AllDigits ==
  ASSUME NEW word, NEW n \in Nat, Len(word) = n, \A i \in 1..n : word[i] \in Range(Digits)
  PROVE  DigitsOf(word) = n
<1> DEFINE P == {m \in 0..n : \A i \in 1..m : word[i] \in Range(Digits)}
<1>1. P \in SUBSET (0..n) /\ n \in P
  OBVIOUS
<1>2. DigitsOf(word) = Max(P)
  BY DEF DigitsOf
<1> HIDE DEF P
<1>3. QED
  BY <1>1, <1>2, MaxOf

LEMMA NoDigits ==
  ASSUME NEW word, Len(word) \in Nat, Len(word) > 0 => word[1] \notin Range(Digits)
  PROVE  DigitsOf(word) = 0
<1> DEFINE P == {m \in 0..Len(word) : \A i \in 1..m : word[i] \in Range(Digits)}
<1>1. P = {0}
  <2>1. \A m \in 0..Len(word) : m # 0 => 1 \in 1..m /\ Len(word) > 0
    OBVIOUS
  <2>2. \A m \in P : m = 0
    BY <2>1
  <2>3. 0 \in 0..Len(word) /\ \A i \in 1..0 : FALSE
    OBVIOUS
  <2>4. 0 \in P
    BY <2>3
  <2>5. QED
    BY <2>2, <2>4
<1>2. DigitsOf(word) = Max(P)
  BY DEF DigitsOf
<1> HIDE DEF P
<1>3. Max({0}) = 0
  <2>1. {0} \in SUBSET (0..0) /\ 0 \in {0} /\ 0 \in Nat
    OBVIOUS
  <2>2. QED
    BY <2>1, MaxOf
<1>4. QED
  BY <1>1, <1>2, <1>3

\* The number of the digits, one behind the other.
ByDigits(f, word, w) ==
    /\ f[0] = 0 /\ \A i \in 0..w : f[i] \in Nat
    /\ \A i \in 1..w : f[i] = 10 * f[i - 1] + DigitAt(word, i)

LEMMA NumberIs ==
  ASSUME NEW word, NEW w \in Nat, DigitsOf(word) = w, \A i \in 1..w : DigitAt(word, i) \in 0..9
  PROVE  ByDigits(Number(word), word, w) /\ atoi(word) = Number(word)[w]
<1> DEFINE step == [i \in 1..w |-> [x \in Nat |-> 10 * x + DigitAt(word, i)]]
           E(f) == f = [i \in 0..w |-> IF i = 0 THEN 0 ELSE 10 * f[i - 1] + DigitAt(word, i)]
           number == Number(word)
<1>1. \A x \in Nat : \A d \in 0..9 : 10 * x + d \in Nat
  OBVIOUS
<1>2. step \in [1..w -> [Nat -> Nat]]
  BY <1>1
<1>3. PICK f \in [0..w -> Nat] : Makes(f, 0, step, w)
  <2> HIDE DEF step
  <2>1. 0 \in Nat
    OBVIOUS
  <2>2. QED
    BY <1>2, <2>1, Iterates
<1>4. \A i \in 0..w : i = 0 \/ (i \in 1..w /\ i - 1 \in 0..w)
  OBVIOUS
<1>5. \A i \in 0..w : f[i] = IF i = 0 THEN 0 ELSE 10 * f[i - 1] + DigitAt(word, i)
  BY <1>3, <1>4 DEF Makes
<1>6. E(f)
  BY <1>5
<1>7. E(number)
  BY <1>6 DEF Number, DigitAt
<1> HIDE DEF number
<1>8. number[0] = 0 /\ \A i \in 1..w : number[i] = 10 * number[i - 1] + DigitAt(word, i)
  <2>1. \A i \in 0..w : number[i] = IF i = 0 THEN 0 ELSE 10 * number[i - 1] + DigitAt(word, i)
    BY <1>7
  <2>2. 0 \in 0..w /\ \A i \in 1..w : i \in 0..w /\ i # 0
    OBVIOUS
  <2>3. QED
    BY <2>1, <2>2
<1>9. \A i \in 0..w : number[i] \in Nat
  <2> DEFINE P == {i \in 0..w : number[i] \in Nat}
  <2>1. 0 \in P
    BY <1>8
  <2>2. ASSUME NEW i \in 1..w, i - 1 \in P
        PROVE  i \in P
    <3>1. number[i - 1] \in Nat /\ i \in 0..w
      BY <2>2
    <3>2. number[i] \in Nat
      BY <1>1, <1>8, <3>1
    <3>3. QED
      BY <3>1, <3>2
  <2>3. \A i \in P : number[i] \in Nat
    OBVIOUS
  <2> HIDE DEF P
  <2>4. \A i \in 0..w : i \in P
    BY <2>1, <2>2, UpTo
  <2>5. QED
    BY <2>3, <2>4
<1>10. QED
  BY <1>8, <1>9 DEF ByDigits, number, atoi

LEMMA MinOf ==
  ASSUME NEW P \in SUBSET Nat, NEW n \in P, \A y \in P : n <= y
  PROVE  Min(P) = n
<1>1. \A x \in P : n >= x => x = n
  OBVIOUS
<1>2. \E x \in P : \A y \in P : x <= y
  OBVIOUS
<1>3. Min(P) \in P /\ \A y \in P : Min(P) <= y
  BY <1>2 DEF Min
<1>4. QED
  BY <1>1, <1>3

\* A status line of fifteen characters, of which the ninth and the thirteenth
\* are spaces and those between them the digits of a number.
Blank == " "
StatusLine(line, a, b, c) ==
    /\ \E S : line \in Seq(S)
    /\ Len(line) = 15
    /\ line[1] \notin Range(Digits)
    /\ \A j \in 1..15 : line[j] = Blank <=> j = 9 \/ j = 13
    /\ line[10] = Digits[a + 1] /\ line[11] = Digits[b + 1] /\ line[12] = Digits[c + 1]

LEMMA Spelled ==
  ASSUME NEW h, NEW t, NEW p, NEW s, NEW i, NEW d, NEW o, NEW e, NEW x, NEW y, NEW z,
         NEW O, NEW K
  PROVE  LET line == <<h, t, t, p, s, i, d, o, e, x, y, z, e, O, K>>
             S == {h, t, p, s, i, d, o, e, x, y, z, O, K}
         IN /\ line \in Seq(S) /\ Len(line) = 15
            /\ line[1] = h /\ line[2] = t /\ line[3] = t /\ line[4] = p /\ line[5] = s
            /\ line[6] = i /\ line[7] = d /\ line[8] = o /\ line[9] = e /\ line[10] = x
            /\ line[11] = y /\ line[12] = z /\ line[13] = e /\ line[14] = O /\ line[15] = K
OBVIOUS

LEMMA ReplyIs ==
  ASSUME NEW a \in 0..9, NEW b \in 0..9, NEW c \in 0..9, NEW code,
         code \div 100 = a, (code \div 10) % 10 = b, code % 10 = c
  PROVE  StatusLine(Reply(code), a, b, c)
<1> DEFINE line == Reply(code)
           h == "H"
           t == "T"
           p == "P"
           s == "/"
           i == "1"
           d == "."
           o == "0"
           x == Digits[a + 1]
           y == Digits[b + 1]
           z == Digits[c + 1]
           O == "O"
           K == "K"
<1>1. line = <<h, t, t, p, s, i, d, o, Blank, x, y, z, Blank, O, K>>
  BY DEF Reply, Blank
<1>2. x # Blank /\ y # Blank /\ z # Blank
  <2>1. a + 1 \in 1..10 /\ b + 1 \in 1..10 /\ c + 1 \in 1..10
    OBVIOUS
  <2>2. QED
    BY <2>1, NoOtherDigits DEF Blank
<1>3. /\ h # Blank /\ t # Blank /\ p # Blank /\ s # Blank /\ i # Blank /\ d # Blank
      /\ o # Blank /\ O # Blank /\ K # Blank
  BY DEF Blank
<1>4. h \notin Range(Digits)
  BY NoOtherDigits
<1> HIDE DEF line, h, t, p, s, i, d, o, x, y, z, O, K
<1>5. /\ line \in Seq({h, t, p, s, i, d, o, Blank, x, y, z, O, K}) /\ Len(line) = 15
      /\ line[1] = h /\ line[2] = t /\ line[3] = t /\ line[4] = p /\ line[5] = s
      /\ line[6] = i /\ line[7] = d /\ line[8] = o /\ line[9] = Blank /\ line[10] = x
      /\ line[11] = y /\ line[12] = z /\ line[13] = Blank /\ line[14] = O /\ line[15] = K
  BY <1>1, Spelled
<1>6. \A j \in 1..15 : \/ j = 1 \/ j = 2 \/ j = 3 \/ j = 4 \/ j = 5 \/ j = 6 \/ j = 7 \/ j = 8
                       \/ j = 9 \/ j = 10 \/ j = 11 \/ j = 12 \/ j = 13 \/ j = 14 \/ j = 15
  OBVIOUS
<1>7. \A j \in 1..15 : line[j] = Blank <=> j = 9 \/ j = 13
  BY <1>2, <1>3, <1>5, <1>6
<1>8. line[1] \notin Range(Digits)
  BY <1>4, <1>5
<1>9. QED
  BY <1>5, <1>7, <1>8 DEF StatusLine, line, x, y, z

LEMMA PieceOf ==
  ASSUME NEW S, NEW s \in Seq(S), NEW m \in 1..(Len(s) + 1), NEW n \in (m - 1)..Len(s)
  PROVE  /\ SubSeq(s, m, n) \in Seq(S) /\ Len(SubSeq(s, m, n)) = n - (m - 1)
         /\ \A i \in 1..(n - (m - 1)) : SubSeq(s, m, n)[i] = s[(m - 1) + i]
<1> DEFINE t == SubSeq(s, m, n)
<1>1. Len(s) \in Nat
  BY LenProperties
<1>2. m \in Int /\ n \in Int /\ \A i \in m..n : i \in 1..Len(s)
  BY <1>1
<1>3. \A i \in m..n : s[i] \in S
  BY <1>2, ElementOfSeq
<1>4. /\ t \in Seq(S) /\ Len(t) = IF m <= n THEN n - m + 1 ELSE 0
      /\ \A i \in 1..(n - m + 1) : t[i] = s[m + i - 1]
  BY <1>2, <1>3, SubSeqProperties
<1> HIDE DEF t
<1>5. (IF m <= n THEN n - m + 1 ELSE 0) = n - (m - 1) /\ n - m + 1 = n - (m - 1)
      /\ \A i \in 1..(n - (m - 1)) : m + i - 1 = (m - 1) + i
  BY <1>1, <1>2
<1>6. \A i \in 1..(n - (m - 1)) : t[i] = s[(m - 1) + i]
  BY <1>4, <1>5
<1>7. QED
  BY <1>4, <1>5, <1>6 DEF t

\* Where the spaces of some beginning of it are.
LEMMA SpacesOf ==
  ASSUME NEW line, NEW a, NEW b, NEW c, StatusLine(line, a, b, c), NEW n \in 0..15
  PROVE  LET text == SubSeq(line, 1, n)
         IN /\ \E S : text \in Seq(S)
            /\ Len(text) = n /\ \A i \in 1..n : text[i] = line[i]
            /\ \A i \in 1..15 : SpaceFrom(text, i) = {j \in i..n : j = 9 \/ j = 13}
<1> DEFINE text == SubSeq(line, 1, n)
<1>1. PICK S : line \in Seq(S)
  BY DEF StatusLine
<1>2. Len(line) = 15 /\ \A j \in 1..15 : line[j] = Blank <=> j = 9 \/ j = 13
  BY DEF StatusLine
<1>3. 1 \in 1..(Len(line) + 1) /\ n \in (1 - 1)..Len(line)
      /\ n - (1 - 1) = n /\ \A i \in 1..n : (1 - 1) + i = i
  BY <1>2
<1>4. text \in Seq(S) /\ Len(text) = n - (1 - 1)
      /\ \A i \in 1..(n - (1 - 1)) : text[i] = line[(1 - 1) + i]
  BY <1>1, <1>3, PieceOf
<1> HIDE DEF text
<1>5. Len(text) = n /\ \A i \in 1..n : text[i] = line[i]
  BY <1>3, <1>4
<1>6. ASSUME NEW i \in 1..15
      PROVE  SpaceFrom(text, i) = {j \in i..n : j = 9 \/ j = 13}
  <2>1. \A j \in i..n : j \in 1..n /\ j \in 1..15
    OBVIOUS
  <2>2. SpaceFrom(text, i) = {j \in i..n : text[j] = Blank}
    BY <1>5 DEF SpaceFrom, Blank
  <2>3. QED
    BY <1>2, <1>5, <2>1, <2>2
<1>7. QED
  BY <1>4, <1>5, <1>6 DEF text

\* What is left of the line is the status' first w digits.
DigitsFrom(word, w, a, b, c) ==
    /\ Len(word) = w
    /\ w >= 1 => word[1] = Digits[a + 1]
    /\ w >= 2 => word[2] = Digits[b + 1]
    /\ w >= 3 => word[3] = Digits[c + 1]

LEMMA WordIs ==
  ASSUME NEW line, NEW a, NEW b, NEW c, StatusLine(line, a, b, c),
         NEW n \in 9..15, NEW m \in 9..n, m <= 12
  PROVE  DigitsFrom(SubSeq(SubSeq(line, 1, n), 10, m), m - 9, a, b, c)
<1> DEFINE text == SubSeq(line, 1, n)
           word == SubSeq(text, 10, m)
<1>1. n \in 0..15
  OBVIOUS
<1>2. (\E S : text \in Seq(S)) /\ Len(text) = n /\ \A i \in 1..n : text[i] = line[i]
  BY <1>1, SpacesOf
<1> HIDE DEF text
<1>3. PICK S : text \in Seq(S)
  BY <1>2
<1>4. 10 \in 1..(Len(text) + 1) /\ m \in (10 - 1)..Len(text) /\ 10 - 1 = 9
  BY <1>2
<1>5. Len(word) = m - (10 - 1) /\ \A i \in 1..(m - (10 - 1)) : word[i] = text[(10 - 1) + i]
  BY <1>3, <1>4, PieceOf
<1> HIDE DEF word
<1>6. Len(word) = m - 9 /\ \A i \in 1..(m - 9) : word[i] = line[9 + i]
  <2>1. \A i \in 1..(m - 9) : 9 + i \in 1..n
    OBVIOUS
  <2>2. QED
    BY <1>2, <1>4, <1>5, <2>1
<1>7. /\ m - 9 >= 1 => 1 \in 1..(m - 9)
      /\ m - 9 >= 2 => 2 \in 1..(m - 9)
      /\ m - 9 >= 3 => 3 \in 1..(m - 9)
      /\ 9 + 1 = 10 /\ 9 + 2 = 11 /\ 9 + 3 = 12
  OBVIOUS
<1>8. line[10] = Digits[a + 1] /\ line[11] = Digits[b + 1] /\ line[12] = Digits[c + 1]
  BY DEF StatusLine
<1>9. QED
  BY <1>6, <1>7, <1>8 DEF DigitsFrom, word, text

\* A number of less than three digits, or all three of them.
Amounts(v, whole, a, b, c) == IF whole THEN v = 100 * a + 10 * b + c ELSE v \in 0..99

LEMMA ValueOf ==
  ASSUME NEW a \in 0..9, NEW b \in 0..9, NEW c \in 0..9, NEW w \in 0..3,
         NEW word, DigitsFrom(word, w, a, b, c)
  PROVE  Amounts(atoi(word), w = 3, a, b, c)
<1>1. /\ Len(word) = w
      /\ w >= 1 => word[1] = Digits[a + 1]
      /\ w >= 2 => word[2] = Digits[b + 1]
      /\ w >= 3 => word[3] = Digits[c + 1]
  BY DEF DigitsFrom
<1>2. \A i \in 1..w : (i = 1 /\ w >= 1) \/ (i = 2 /\ w >= 2) \/ (i = 3 /\ w >= 3)
  OBVIOUS
<1>3. \A i \in 1..w : word[i] \in Range(Digits)
  <2>1. a + 1 \in 1..10 /\ b + 1 \in 1..10 /\ c + 1 \in 1..10
    OBVIOUS
  <2>2. Digits[a + 1] \in Range(Digits) /\ Digits[b + 1] \in Range(Digits)
        /\ Digits[c + 1] \in Range(Digits)
    BY <2>1, NoOtherDigits
  <2>3. QED
    BY <1>1, <1>2, <2>2
<1>4. w \in Nat
  OBVIOUS
<1>5. DigitsOf(word) = w
  BY <1>1, <1>3, <1>4, AllDigits
<1>6. /\ w >= 1 => DigitAt(word, 1) = a
      /\ w >= 2 => DigitAt(word, 2) = b
      /\ w >= 3 => DigitAt(word, 3) = c
  BY <1>1, DigitIs
<1>7. \A i \in 1..w : DigitAt(word, i) \in 0..9
  BY <1>2, <1>6
<1>8. ByDigits(Number(word), word, w) /\ atoi(word) = Number(word)[w]
  BY <1>4, <1>5, <1>7, NumberIs
<1> DEFINE f == Number(word)
<1>9. f[0] = 0 /\ \A i \in 1..w : f[i] = 10 * f[i - 1] + DigitAt(word, i)
  BY <1>8 DEF ByDigits
<1> HIDE DEF f
<1>10. /\ w >= 1 => 1 \in 1..w /\ 1 - 1 = 0
       /\ w >= 2 => 2 \in 1..w /\ 2 - 1 = 1
       /\ w >= 3 => 3 \in 1..w /\ 3 - 1 = 2
  OBVIOUS
<1>11. w >= 1 => f[1] = 10 * f[0] + a
  BY <1>6, <1>9, <1>10
<1>12. w >= 2 => f[2] = 10 * f[1] + b
  BY <1>6, <1>9, <1>10
<1>13. w >= 3 => f[3] = 10 * f[2] + c
  BY <1>6, <1>9, <1>10
<1>14. (w >= 1 => f[1] = a) /\ (w >= 2 => f[2] = 10 * a + b) /\ (w >= 3 => f[3] = 100 * a + 10 * b + c)
  BY <1>9, <1>11, <1>12, <1>13
<1>15. w = 0 \/ w = 1 \/ w = 2 \/ w = 3
  OBVIOUS
<1>16. /\ w = 0 => f[w] = 0
       /\ w = 1 => f[w] = a
       /\ w = 2 => f[w] = 10 * a + b
       /\ w = 3 => f[w] = 100 * a + 10 * b + c
  BY <1>9, <1>14
<1>17. a \in 0..99 /\ 10 * a + b \in 0..99 /\ 0 \in 0..99
  OBVIOUS
<1>18. atoi(word) = f[w]
  BY <1>8 DEF f
<1>19. IF w = 3 THEN f[w] = 100 * a + 10 * b + c ELSE f[w] \in 0..99
  BY <1>15, <1>16, <1>17
<1>20. QED
  BY <1>18, <1>19 DEF Amounts

\* The status of some beginning of the line.
LEMMA StatusIs ==
  ASSUME NEW line, NEW a \in 0..9, NEW b \in 0..9, NEW c \in 0..9,
         StatusLine(line, a, b, c), NEW n \in 0..15
  PROVE  Amounts(StatusOf(SubSeq(line, 1, n)), n >= 12, a, b, c)
<1> DEFINE text == SubSeq(line, 1, n)
           first == SpaceFrom(text, 1)
           begin == IF first = {} THEN 1 ELSE Min(first) + 1
           second == SpaceFrom(text, begin)
           end == IF second = {} THEN Len(text) + 1 ELSE Min(second)
<1>1. StatusOf(text) = atoi(SubSeq(text, begin, end - 1))
  BY DEF StatusOf
<1>2. /\ (\E S : text \in Seq(S)) /\ Len(text) = n /\ \A i \in 1..n : text[i] = line[i]
      /\ \A i \in 1..15 : SpaceFrom(text, i) = {j \in i..n : j = 9 \/ j = 13}
  BY SpacesOf
<1>3. 1 \in 1..15 /\ 10 \in 1..15
  OBVIOUS
<1>4. first = {j \in 1..n : j = 9 \/ j = 13}
  BY <1>2, <1>3
<1>5. CASE n < 9
  <2>1. first = {}
    BY <1>4, <1>5
  <2>2. begin = 1
    BY <2>1
  <2>3. second = {}
    BY <2>1, <2>2
  <2>4. end = n + 1
    BY <1>2, <2>3
  <2> HIDE DEF begin, end, second, first
  <2>5. end - 1 = n
    BY <2>4
  <2>6. StatusOf(text) = atoi(SubSeq(text, 1, n))
    BY <1>1, <2>2, <2>5
  <2>7. SubSeq(text, 1, n) = text
    <3> HIDE DEF text
    <3>1. PICK S : text \in Seq(S)
      BY <1>2
    <3>2. QED
      BY <1>2, <3>1, SubSeqFull
  <2>8. DigitsOf(text) = 0
    <3>1. line[1] \notin Range(Digits)
      BY DEF StatusLine
    <3>2. n > 0 => 1 \in 1..n
      OBVIOUS
    <3>3. n \in Nat
      OBVIOUS
    <3> HIDE DEF text
    <3>4. QED
      BY <1>2, <3>1, <3>2, <3>3, NoDigits
  <2> HIDE DEF text
  <2>9. atoi(text) = 0
    <3>1. ByDigits(Number(text), text, 0) /\ atoi(text) = Number(text)[0]
      BY <2>8, NumberIs
    <3>2. QED
      BY <3>1 DEF ByDigits
  <2>10. StatusOf(text) = 0
    BY <2>6, <2>7, <2>9
  <2>11. ~(n >= 12) /\ 0 \in 0..99
    BY <1>5
  <2>12. QED
    BY <2>10, <2>11 DEF text, Amounts
<1>6. CASE n >= 9
  <2>1. Min(first) = 9 /\ first # {}
    <3>1. first \in SUBSET Nat /\ 9 \in first /\ \A y \in first : 9 <= y
      BY <1>4, <1>6
    <3> HIDE DEF first
    <3>2. QED
      BY <3>1, MinOf
  <2>2. begin = 10
    <3> HIDE DEF first
    <3>1. QED
      BY <2>1
  <2>3. second = {j \in 10..n : j = 9 \/ j = 13}
    <3> HIDE DEF begin
    <3>1. QED
      BY <1>2, <1>3, <2>2
  <2> HIDE DEF begin, first
  <2> DEFINE m == end - 1
  <2>4. m = (IF n <= 12 THEN n ELSE 12)
    <3>1. CASE n <= 12
      <4>1. second = {}
        BY <2>3, <3>1
      <4>2. end = n + 1
        BY <1>2, <4>1
      <4> HIDE DEF end
      <4>3. QED
        BY <3>1, <4>2
    <3>2. CASE n > 12
      <4>1. second \in SUBSET Nat /\ 13 \in second /\ \A y \in second : 13 <= y
        BY <2>3, <3>2
      <4> HIDE DEF second
      <4>2. Min(second) = 13 /\ second # {}
        BY <4>1, MinOf
      <4>3. end = 13
        BY <4>2
      <4> HIDE DEF end
      <4>4. QED
        BY <3>2, <4>3
    <3>3. QED
      BY <3>1, <3>2
  <2> HIDE DEF end, second
  <2>5. StatusOf(text) = atoi(SubSeq(text, 10, m))
    BY <1>1, <2>2
  <2> HIDE DEF m
  <2>6. m \in 9..n /\ m <= 12 /\ n \in 9..15
    BY <1>6, <2>4
  <2>7. m - 9 \in 0..3 /\ (m - 9 < 3 <=> n < 12) /\ (m - 9 = 3 <=> n >= 12)
    BY <1>6, <2>4
  <2> DEFINE word == SubSeq(text, 10, m)
             w == m - 9
  <2>8. DigitsFrom(word, w, a, b, c)
    BY <2>6, WordIs
  <2> HIDE DEF word, w, text
  <2>9. w \in 0..3
    BY <2>7 DEF w
  <2>10. Amounts(atoi(word), w = 3, a, b, c)
    BY <2>8, <2>9, ValueOf
  <2>11. w = 3 <=> n >= 12
    BY <2>7 DEF w
  <2>12. StatusOf(text) = atoi(word)
    BY <2>5 DEF word
  <2>13. QED
    BY <2>10, <2>11, <2>12 DEF text, Amounts
<1>7. QED
  BY <1>5, <1>6

\* For every code from 100 to 599 and every cut of the reply: core.cpp takes the
\* upload for refused exactly if it was and all three digits have arrived.
THEOREM OnlyWholeRefusalsSeen == RefusalsSeen
<1>1. SUFFICES ASSUME NEW code \in Codes, NEW n \in 0..Len(Reply(code))
               PROVE  StatusOf(Received(code, n)) >= 400 <=> code >= 400 /\ n >= LastDigit
  BY DEF RefusalsSeen
<1> DEFINE a == code \div 100
           b == (code \div 10) % 10
           c == code % 10
<1>2. code \in 100..599
  BY MessageAssumption
<1>3. a \in 0..9 /\ b \in 0..9 /\ c \in 0..9 /\ code = 100 * a + 10 * b + c
  BY <1>2, SMT
<1>4. StatusLine(Reply(code), a, b, c)
  <2> HIDE DEF a, b, c
  <2>1. code \div 100 = a /\ (code \div 10) % 10 = b /\ code % 10 = c
    BY DEF a, b, c
  <2>2. QED
    BY <1>3, <2>1, ReplyIs
<1>5. n \in 0..15
  BY <1>4 DEF StatusLine
<1> DEFINE status == StatusOf(Received(code, n))
<1> HIDE DEF a, b, c
<1>6. Amounts(status, n >= 12, a, b, c)
  BY <1>3, <1>4, <1>5, StatusIs DEF Received
<1> HIDE DEF status
<1>7. CASE n >= 12
  <2>1. status = code
    BY <1>3, <1>6, <1>7 DEF Amounts
  <2>2. QED
    BY <1>7, <2>1 DEF status, LastDigit
<1>8. CASE ~(n >= 12)
  <2>1. status \in 0..99
    BY <1>6, <1>8 DEF Amounts
  <2>2. ~(status >= 400)
    BY <2>1, SMT
  <2>3. QED
    BY <1>8, <2>2 DEF status, LastDigit
<1>9. QED
  BY <1>7, <1>8
-----------------------------------------------------------------------------
(***************************************************************************)
(* What is heard: the newline of a line is in its datum's comment.         *)
(***************************************************************************)
LEMMA InputEnds ==
  ASSUME NEW s \in Inputs
  PROVE  s \in Seq(Characters) /\ Len(s) \in Nat /\ Len(s) \in 1..Len(s) /\ s[Len(s)] \in Controls
<1> DEFINE newline == "\n"
           others == Characters \ {newline}
<1>1. newline \in Controls /\ newline \in Characters /\ others \in SUBSET Characters
  BY Zenon DEF Controls, Characters
<1>2. PICK t \in BoundedSeq(others, MaxText) : s = t \o <<newline>>
  BY Zenon DEF Inputs
<1>3. MaxText \in Nat
  BY PipelineAssumption
<1> HIDE DEF newline, others
<1>4. t \in Seq(Characters)
  <2>1. PICK n \in 0..MaxText : t \in [1..n -> others]
    BY <1>3 DEF BoundedSeq, SeqOf
  <2>2. n \in Nat /\ t \in [1..n -> Characters]
    BY <1>1, <1>3, <2>1
  <2>3. QED
    BY <2>2, SeqDef
<1>5. <<newline>> \in Seq(Characters) /\ Len(<<newline>>) = 1 /\ <<newline>>[1] = newline
  BY <1>1, Lists
<1>6. s \in Seq(Characters) /\ JoinOf(t, <<newline>>, s)
  BY <1>2, <1>4, <1>5, Join
<1>7. Len(t) \in Nat /\ 1 \in 1..1
  BY <1>4, LenProperties
<1>8. Len(s) = Len(t) + 1 /\ s[Len(t) + 1] = newline
  BY <1>5, <1>6, <1>7 DEF JoinOf
<1>9. QED
  BY <1>1, <1>6, <1>7, <1>8

\* Unless it is in an escape sequence, Strip keeps it.
LEMMA NewlineStays ==
  ASSUME NEW s \in Inputs, Len(s) \notin InCode(s, 1), Strip(s) # <<>>
  PROVE  Range(Strip(s)) \cap Unescaped # {}
<1> DEFINE n == Len(s)
           first == Min(Shown(s))
           K == {first} \cup NoCode(s, first + 1)
<1>1. s \in Seq(Characters) /\ n \in Nat /\ n \in 1..n /\ s[n] \in Controls
  BY InputEnds
<1>2. Shown(s) # {} /\ Strip(s) = KeptAt(s, K)
  BY <1>1, StripIs
<1>3. first \in 1..n
  <2>1. PICK f : f = SkipSpaces(s, AfterCode(s, 1))
    OBVIOUS
  <2>2. f \in 1..(n + 1) /\ ~(f > n) /\ (f <= n => f = first)
    BY <1>1, <1>2, <2>1, ShownFirst
  <2> HIDE DEF first, n
  <2>3. QED
    BY <1>1, <2>2
<1> HIDE DEF first
<1>4. InCode(s, first + 1) \subseteq InCode(s, 1)
  <2>1. \A k \in (first + 1)..n : k \in 1..n /\ \A j \in (first + 1)..k : j \in 1..k
    BY <1>1, <1>3
  <2>2. QED
    BY <2>1, InCodeIs
<1>5. K \in SUBSET (1..n)
  BY <1>1, <1>3 DEF NoCode
<1>6. n \in K
  <2>1. n = first \/ n \in (first + 1)..n
    BY <1>1, <1>3
  <2>2. QED
    BY <1>4, <2>1 DEF NoCode
<1> HIDE DEF K
<1>7. PICK k \in 1..Cardinality(K) : Nth(K, k) = n
  BY <1>1, <1>5, <1>6, Numbered
<1>8. KeptAt(s, K)[k] = s[n] /\ k \in DOMAIN KeptAt(s, K)
  BY <1>7 DEF KeptAt
<1>9. s[n] \in Range(Strip(s)) /\ s[n] \in Unescaped
  BY <1>1, <1>2, <1>8 DEF Range, Unescaped
<1>10. QED
  BY <1>9

LEMMA CommentIsLine ==
  ASSUME NEW s, NEW d \in Format(s), d.kind \in {"ap", "apstation"}
  PROVE  d.comment = Strip(s) /\ Strip(s) # <<>>
<1> DEFINE line == Strip(s)
<1>1. Kind(line) # "none"
  <2>1. Kind(line) = "none" => Format(s) = {[kind |-> "none"]}
    BY DEF Format
  <2>2. QED
    BY <2>1
<1>2. d.comment = line
  BY <1>1 DEF Format, Dies
<1>3. ~(Len(line) <= MinSize)
  BY <1>1 DEF Kind
<1>4. Len(<<>>) <= MinSize
  BY LineParserAssumption
<1>5. QED
  BY <1>2, <1>3, <1>4

LEMMA ArrayOfOne ==
  ASSUME NEW S, Writes(S), NEW a, DictText(a) \in Seq(S)
  PROVE  ArrayText(<<a>>) = (<<"[">> \o DictText(a)) \o <<"]">>
<1> DEFINE dicts == <<a>>
           texts == [i \in DOMAIN dicts |-> DictText(dicts[i])]
           D == Seq(S)
<1>1. DOMAIN dicts = 1..1 /\ dicts[1] = a
  OBVIOUS
<1>2. ArrayText(dicts) = (<<"[">> \o Joined(texts)) \o <<"]">>
  BY DEF ArrayText
<1> HIDE DEF dicts, D
<1>3. texts \in [1..1 -> D] /\ texts[1] = DictText(a) /\ 1 \in Nat
  BY <1>1 DEF D
<1> HIDE DEF texts
<1>4. texts \in Seq(D) /\ Len(texts) = 1
  BY <1>3, Listing
<1>5. Joined(texts) = texts[1]
  BY <1>4, OneJoined DEF D, Writes
<1>6. QED
  BY <1>2, <1>3, <1>5 DEF dicts

\* A comment that needs another escape than the quote's is lost in a batch of one.
LEMMA OneIsLost ==
  ASSUME NEW S, Writes(S), NEW c \in Seq(S), Range(c) \cap Unescaped # {}
  PROVE  Strings(ArrayText(<<Datum(c)>>)) # <<Comment, c, Time, <<"0">>>>
<1> DEFINE text == DictText(Datum(c))
           g == <<Comment, c, Time, <<"0">>>>
           open == "["
           close == "]"
<1>1. Loses(S, text, 2, c)
  BY DatumLoses
<1>2. open \in Bracket /\ close \in Bracket
  BY DEF Bracket
<1>3. ArrayText(<<Datum(c)>>) = (<<open>> \o text) \o <<close>>
  BY <1>1, ArrayOfOne DEF Loses
<1>4. 2 \in 1..Len(g) /\ g[2] = c
  OBVIOUS
<1> HIDE DEF text, g, open, close
<1>5. Loses(S, (<<open>> \o text) \o <<close>>, 2, c)
  BY <1>1, <1>2, BracketsLose
<1>6. QED
  BY <1>3, <1>4, <1>5, LostIsNotFound DEF g

\* Whatever a line has in it: its datum does not reach a JSON reader as it was
\* written unless an escape sequence has taken its newline.
LEMMA NoLineArrives == HeardArrives
<1>1. SUFFICES ASSUME NEW s \in Inputs, NEW d \in Format(s), d.kind \in {"ap", "apstation"},
                      Len(s) \notin InCode(s, 1)
               PROVE  Strings(ArrayText(<<Datum(d.comment)>>))
                        # <<Comment, d.comment, Time, <<"0">>>>
  BY DEF HeardArrives
<1> DEFINE S == Letters \cup Characters
           c == Strip(s)
<1>2. d.comment = c /\ c # <<>>
  BY <1>1, CommentIsLine
<1>3. Range(c) \cap Unescaped # {}
  BY <1>1, <1>2, NewlineStays
<1>4. Letters \subseteq S /\ Characters \subseteq S
  OBVIOUS
<1>5. c \in Seq(Characters)
  BY InputEnds, StripClean
<1> HIDE DEF S, c
<1>6. c \in Seq(S) /\ Writes(S)
  BY <1>4, <1>5, SeqMonotonic, LettersWrite
<1>7. QED
  BY <1>2, <1>3, <1>6, OneIsLost

\* What the two ends make of each other's texts, whatever the comments, the bytes
\* and the codes are: the three parts of Message's promise together, and that
\* the ordinary line is not among the comments which arrive.
THEOREM UploadsAreUnderstood == Spec => []UploadIsUnderstood
<1>1. BothEndsUnderstand
  BY EveryUploadArrives, CommentsAreRead, OnlyWholeRefusalsSeen DEF BothEndsUnderstand
<1>2. UploadIsUnderstood
  BY <1>1, NoLineArrives DEF UploadIsUnderstood
<1>3. QED
  BY <1>2, PTL
=============================================================================
