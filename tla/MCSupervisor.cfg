\* The service's process, and two more at once: a second start, a reload, or
\* two reloads; one edit of the configuration.
CONSTANTS
    Pids = {p1, p2, p3}
    NoPid = NoPid
    MaxCommands = 2
    MaxEdits = 1
SPECIFICATION FairSpec
INVARIANTS SupervisorTypeOK OneOwner PidFileNamesOwner ChildExitIsPending
PROPERTIES ServiceRuns ReloadTakesEffect TermEnds
\* A stopped service stays stopped.
CHECK_DEADLOCK FALSE
