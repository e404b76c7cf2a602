\* Three workers, as num_checker in yah.conf, and four jobs: more jobs than
\* workers, so that every worker can be busy, asleep or racing for the mutex
\* while jobs wait.
CONSTANTS
    Workers = {w1, w2, w3}
    Jobs = {j1, j2, j3, j4}
    NoOne = NoOne
    NoJob = NoJob
SPECIFICATION FairSpec
INVARIANTS PoolTypeOK OneJobAtATime FirstInFirstOut SomeoneIsAwake
PROPERTIES EveryJobRuns ImplementsSerialExecutor
