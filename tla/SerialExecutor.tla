--------------------------- MODULE SerialExecutor ---------------------------
(***************************************************************************)
(* What a pool of the program promises to the code that pushes into it:    *)
(* jobs run one at a time, in the order in which they were pushed, each    *)
(* exactly once.  No thread, no lock and no wake-up appears here; the      *)
(* module ThreadPool, which has them, is shown to implement this one.      *)
(***************************************************************************)
EXTENDS Sequences, Functions

CONSTANT Jobs       \* the job objects; a push moves one into the pool for good

VARIABLES waiting,  \* the jobs pushed and not started, oldest first
          current,  \* the job being run: a sequence of at most one job
          finished  \* the jobs that have run, in the order they ran

vars == <<waiting, current, finished>>

Init == /\ waiting = <<>>
        /\ current = <<>>
        /\ finished = <<>>

\* The pool takes ownership of a job it has never held.
Submit(j) == /\ j \notin Range(waiting) \cup Range(current) \cup Range(finished)
             /\ waiting' = Append(waiting, j)
             /\ UNCHANGED <<current, finished>>

\* The oldest job starts, and only when no other job is running.
Start == /\ current = <<>>
         /\ waiting # <<>>
         /\ current' = <<Head(waiting)>>
         /\ waiting' = Tail(waiting)
         /\ UNCHANGED finished

\* The running job ends.
Complete == /\ current # <<>>
            /\ finished' = Append(finished, Head(current))
            /\ current' = <<>>
            /\ UNCHANGED waiting

Next == (\E j \in Jobs : Submit(j)) \/ Start \/ Complete

Spec == Init /\ [][Next]_vars
=============================================================================
