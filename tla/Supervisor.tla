----------------------------- MODULE Supervisor -----------------------------
(***************************************************************************)
(* The life of yah's processes: main (src/base/yah.cpp), precheck and the  *)
(* lock file (src/src/check.cpp), the signal handlers (src/src/signal.cpp),*)
(* the fork of airodump-ng and the loop that reads it (src/src/core.cpp,   *)
(* src/src/yah_pty.cpp), under systemd/yah.service and an administrator.   *)
(*                                                                         *)
(* A process is `yah start' or `yah reload', under a pid that the kernel   *)
(* may use again after its end.  Signals are pending until a handler runs, *)
(* and a second one of a kind merges with the first.                       *)
(***************************************************************************)
EXTENDS Naturals

CONSTANTS Pids,        \* the pids of yah processes
          NoPid,       \* none of them
          MaxCommands, \* bound: how many commands the administrator gives
          MaxEdits     \* bound: how often the configuration file is edited

ASSUME SupervisorAssumption ==
    /\ Pids # {} /\ NoPid \notin Pids
    /\ MaxCommands \in Nat /\ MaxEdits \in Nat

VARIABLES
    proc,     \* per pid, what the process knows and where it is
    lock,     \* who has the fcntl lock on the lock file
    pidFile,  \* the pid written in the lock file; NoPid: the file is empty
    file,     \* the version of the configuration file
    wanted,   \* systemd: is the service to run?
    main,     \* systemd: the service's main process
    commands, \* history: how many commands were given
    lost      \* history: processes that never saw their child's SIGCHLD

vars == <<proc, lock, pidFile, file, wanted, main, commands, lost>>
system == <<file, wanted, commands>>

\* handle() has run: SIGHUP, SIGCHLD and SIGTERM no longer do what they do by
\* default (end, nothing, end).
HandlingPc == {"fork", "assign", "select", "read"}
\* run_airodump has returned: airodump_pid is known.
ReadingPc == {"select", "read"}
LockedPc == {"truncate", "write", "wlan", "handle", "abort"} \cup HandlingPc

\* The child: forked and not yet execl'd; airodump-ng; airodump-ng after a
\* SIGTERM; ended; a second yah, when execl has failed and the child goes on
\* in core_start; and a yah that signals itself for ever.
Children == {"none", "forked", "airodump", "told", "exited", "second", "spin"}

Process == [pc : {"none", "check", "lock", "look", "send"} \cup LockedPc,
            reload : BOOLEAN,                 \* `yah reload'?
            conf : 0..MaxEdits,               \* the version of config
            target : Pids \cup {NoPid},       \* reload: the pid it has read
            child : Children,
            chld : {"no", "child", "other"},  \* pending SIGCHLD: whose?
            hup : BOOLEAN, term : BOOLEAN,    \* pending SIGHUP, SIGTERM
            validated : BOOLEAN]              \* has Validate's child ended?

Absent == [pc |-> "none", reload |-> FALSE, conf |-> 0, target |-> NoPid,
           child |-> "none", chld |-> "no", hup |-> FALSE, term |-> FALSE,
           validated |-> FALSE]

SupervisorTypeOK ==
    /\ proc \in [Pids -> Process]
    /\ lock \in {NoPid} \cup {p \in Pids : proc[p].pc \in LockedPc}
    /\ main \in {NoPid} \cup {p \in Pids : proc[p].pc # "none" /\ ~proc[p].reload}
    /\ pidFile \in Pids \cup {NoPid}
    /\ file \in 0..MaxEdits
    /\ wanted \in BOOLEAN
    /\ commands \in 0..MaxCommands
    /\ lost \subseteq Pids

Init == /\ proc = [p \in Pids |-> Absent]
        /\ lock = NoPid /\ pidFile = NoPid
        /\ file = 0
        /\ wanted = TRUE /\ main = NoPid
        /\ commands = 0 /\ lost = {}

At(p, pc) == proc[p].pc = pc
Handling(p) == proc[p].pc \in HandlingPc
Reading(p) == proc[p].pc \in ReadingPc

Goes(p, pc) ==
    /\ proc' = [proc EXCEPT ![p].pc = pc]
    /\ UNCHANGED <<main, lost, system>>

\* Mutant of Ended: the lock outlives its process.
EndedWithLock(D) ==
    /\ proc' = [p \in Pids |-> IF p \in D THEN Absent ELSE proc[p]]
    /\ main' = IF main \in D THEN NoPid ELSE main
    /\ lost' = lost \ D
    /\ UNCHANGED lock

\* Processes end: the kernel drops their locks, the pid in the lock file
\* stays, and their children end (systemd ends what is left of the service).
Ended(D) ==
    /\ proc' = [p \in Pids |-> IF p \in D THEN Absent ELSE proc[p]]
    /\ lock' = IF lock \in D THEN NoPid ELSE lock
    /\ main' = IF main \in D THEN NoPid ELSE main
    /\ lost' = lost \ D

Ends(D) == Ended(D) /\ UNCHANGED <<pidFile, system>>
-----------------------------------------------------------------------------
(***************************************************************************)
(* yah start: from main to the loop.                                       *)
(***************************************************************************)
Started(p) == proc' = [proc EXCEPT ![p] = [Absent EXCEPT !.pc = "check", !.conf = file]]

\* check_is_root and check_airodump.
PrecheckPasses(p) == At(p, "check") /\ Goes(p, "lock") /\ UNCHANGED <<lock, pidFile>>
PrecheckFails(p) == At(p, "check") /\ Ends({p})

\* Mutants of Lock: a shared lock (F_RDLCK); the file opened with O_TRUNC; and
\* a lock file that may not exist (O_EXCL).
LockShared(p) ==
    At(p, "lock") /\ Goes(p, "truncate") /\ lock' = p /\ UNCHANGED pidFile
LockTruncating(p) ==
    /\ At(p, "lock")
    /\ pidFile' = NoPid
    /\ \/ lock = NoPid /\ Goes(p, "truncate") /\ lock' = p
       \/ lock # NoPid /\ proc[p].reload /\ Goes(p, "look") /\ UNCHANGED lock
       \/ lock # NoPid /\ ~proc[p].reload /\ Ended({p}) /\ UNCHANGED system
LockExclusive(p) ==
    /\ At(p, "lock")
    /\ \/ pidFile = NoPid /\ Goes(p, "truncate") /\ lock' = p /\ UNCHANGED pidFile
       \/ pidFile # NoPid /\ Ends({p})

\* check_lockfile's fcntl(F_SETLK): a start that does not get the lock
\* returns 1, a reload goes on to read the file.
Lock(p) ==
    /\ At(p, "lock")
    /\ \/ lock = NoPid /\ Goes(p, "truncate") /\ lock' = p /\ UNCHANGED pidFile
       \/ lock # NoPid /\ proc[p].reload /\ Goes(p, "look") /\ UNCHANGED <<lock, pidFile>>
       \/ lock # NoPid /\ ~proc[p].reload /\ Ends({p})

\* ftruncate(fd, 0), and then the pid is written: two calls.
Truncate(p) ==
    /\ At(p, "truncate") /\ Goes(p, "write")
    /\ pidFile' = NoPid /\ UNCHANGED lock
WritePid(p) ==
    /\ At(p, "write")
    /\ Goes(p, IF proc[p].reload THEN "abort" ELSE "wlan")
    /\ pidFile' = p /\ UNCHANGED lock

\* check_wlan, which may find no device, and check_init_sql.
WlanFound(p) == At(p, "wlan") /\ Goes(p, "handle") /\ UNCHANGED <<lock, pidFile>>
WlanMissing(p) == At(p, "wlan") /\ Ends({p})

\* SignalHandler::handle; then core_start makes the caches and the pools.
Handle(p) == At(p, "handle") /\ Goes(p, "fork") /\ UNCHANGED <<lock, pidFile>>

\* yah_pty_fork, and then airodump_pid = pid.
Fork(p) ==
    /\ At(p, "fork")
    /\ proc' = [proc EXCEPT ![p].pc = "assign", ![p].child = "forked"]
    /\ UNCHANGED <<lock, pidFile, main, lost, system>>
Assign(p) == At(p, "assign") /\ Goes(p, "select") /\ UNCHANGED <<lock, pidFile>>

\* The loop: select watches no descriptor, so it returns without news and the
\* loop reads a line.  At the end of the input read fails for ever; as ch is
\* not initialised the loop may also take it for the end of a line.
SelectReturns(p) == At(p, "select") /\ Goes(p, "read") /\ UNCHANGED <<lock, pidFile>>
LineRead(p) == At(p, "read") /\ Goes(p, "select") /\ UNCHANGED <<lock, pidFile>>
-----------------------------------------------------------------------------
(***************************************************************************)
(* The children.                                                           *)
(***************************************************************************)
ChildBecomes(p, c) ==
    /\ proc' = [proc EXCEPT ![p].child = c]
    /\ UNCHANGED <<lock, pidFile, main, lost, system>>

Execl(p) ==
    /\ proc[p].child = "forked"
    /\ ChildBecomes(p, "airodump") \/ ChildBecomes(p, "second")

\* SIGCHLD is sent; it is lost when another child's is still pending.
ChildExits(p) ==
    /\ proc[p].child \in {"airodump", "told"}
    /\ proc' = [proc EXCEPT ![p].child = "exited",
                            ![p].chld = IF @ = "no" THEN "child" ELSE @]
    /\ lost' = IF proc[p].chld = "no" THEN lost ELSE lost \cup {p}
    /\ UNCHANGED <<lock, pidFile, main, system>>

\* Validate runs a shell command and may fork, ten seconds after the process
\* has started: a child that is not airodump-ng ends.  One of them is kept.
OtherChildExits(p) ==
    /\ Handling(p) /\ ~proc[p].validated
    /\ proc' = [proc EXCEPT ![p].validated = TRUE,
                            ![p].chld = IF @ = "no" THEN "other" ELSE @]
    /\ UNCHANGED <<lock, pidFile, main, lost, system>>
-----------------------------------------------------------------------------
(***************************************************************************)
(* The handlers.  One that runs while the main thread is in select makes   *)
(* select fail with EINTR, and only then does the loop look at its child.  *)
(***************************************************************************)
SeenBySelect(p) == At(p, "select") /\ proc[p].child = "exited"

\* sighup_handler: config.reload().
DeliverHup(p) ==
    /\ proc[p].hup
    /\ IF SeenBySelect(p)
       THEN Ends({p})
       ELSE /\ proc' = [proc EXCEPT ![p].hup = FALSE, ![p].conf = file]
            /\ UNCHANGED <<lock, pidFile, main, lost, system>>

\* Mutant of DeliverChld: the handler leaves the child to the loop.
DeliverChldToLoop(p) ==
    /\ proc[p].chld # "no"
    /\ IF SeenBySelect(p)
       THEN Ends({p})
       ELSE /\ proc' = [proc EXCEPT ![p].chld = "no"]
            /\ UNCHANGED <<lock, pidFile, main, lost, system>>

\* sigchld_handler: abort, and so exit(1), when the child is airodump_pid,
\* which is 0 until it has been assigned.
DeliverChld(p) ==
    /\ proc[p].chld # "no"
    /\ IF (proc[p].chld = "child" /\ Reading(p)) \/ SeenBySelect(p)
       THEN Ends({p})
       ELSE /\ proc' = [proc EXCEPT ![p].chld = "no"]
            /\ lost' = IF proc[p].chld = "child" THEN lost \cup {p} ELSE lost
            /\ UNCHANGED <<lock, pidFile, main, system>>

\* Mutant of DeliverTerm: the handler only logs.
DeliverTermLogged(p) ==
    /\ proc[p].term /\ Reading(p)
    /\ proc' = [proc EXCEPT ![p].term = FALSE]
    /\ UNCHANGED <<lock, pidFile, main, lost, system>>

\* sigterm_handler: kill(airodump_pid, SIGTERM), and nothing else: the process
\* ends by the SIGCHLD that follows.  Before the pid is known the call is
\* kill(0, SIGTERM), which makes the same signal pending again: no step here.
\* A child that still runs yah's code, where airodump_pid is 0, signals itself
\* without end.
DeliverTerm(p) ==
    /\ proc[p].term /\ Reading(p)
    /\ IF SeenBySelect(p)
       THEN Ends({p})
       ELSE /\ proc' = [proc EXCEPT
                  ![p].term = FALSE,
                  ![p].child = CASE @ = "airodump" -> "told"
                                 [] @ \in {"forked", "second"} -> "spin"
                                 [] OTHER -> @]
            /\ UNCHANGED <<lock, pidFile, main, lost, system>>
-----------------------------------------------------------------------------
(***************************************************************************)
(* yah reload, once it has failed to get the lock, or has got it.          *)
(***************************************************************************)

\* check_get_locking_pid.  The buffer is not initialised, so an empty file
\* gives any number.
Look(p) ==
    /\ At(p, "look")
    /\ \E t \in IF pidFile = NoPid THEN Pids \cup {NoPid} ELSE {pidFile} :
        proc' = [proc EXCEPT ![p].pc = "send", ![p].target = t]
    /\ UNCHANGED <<lock, pidFile, main, lost, system>>

\* kill(pid, SIGHUP), and the end.
SendHup(p) ==
    /\ At(p, "send")
    /\ LET t == proc[p].target IN
        IF t \in {q \in Pids : Handling(q)}
        THEN /\ proc' = [proc EXCEPT ![p] = Absent, ![t].hup = TRUE]
             /\ UNCHANGED <<lock, pidFile, main, lost, system>>
        ELSE Ends({p, t} \ {NoPid})

\* Nobody had the lock: "no process is running", and abort().
NobodyRuns(p) == At(p, "abort") /\ Ends({p})
-----------------------------------------------------------------------------
(***************************************************************************)
(* systemd (Restart=always, KillMode=mixed) and the administrator.         *)
(***************************************************************************)
Free(p) == At(p, "none")

ServiceStarts(p) ==
    /\ wanted /\ main = NoPid /\ Free(p)
    /\ Started(p)
    /\ main' = p
    /\ UNCHANGED <<lock, pidFile, lost, system>>

\* SIGKILL, when the stop takes too long.
ServiceKilled == ~wanted /\ main # NoPid /\ Ends({main})

Command == commands < MaxCommands /\ commands' = commands + 1

StartByHand(p) ==
    /\ Command /\ Free(p)
    /\ Started(p)
    /\ UNCHANGED <<lock, pidFile, file, wanted, main, lost>>

Reload(p) ==
    /\ Command /\ Free(p)
    /\ proc' = [proc EXCEPT ![p] = [Absent EXCEPT !.pc = "lock", !.reload = TRUE]]
    /\ UNCHANGED <<lock, pidFile, file, wanted, main, lost>>

Stop ==
    /\ Command /\ wanted
    /\ wanted' = FALSE
    /\ UNCHANGED <<pidFile, file>>
    /\ IF main # NoPid /\ Handling(main)
       THEN /\ proc' = [proc EXCEPT ![main].term = TRUE]
            /\ UNCHANGED <<lock, main, lost>>
       ELSE Ended({main} \ {NoPid})

Edit ==
    /\ file < MaxEdits /\ file' = file + 1
    /\ UNCHANGED <<proc, lock, pidFile, wanted, main, commands, lost>>
-----------------------------------------------------------------------------
StartStep(p) == PrecheckPasses(p) \/ PrecheckFails(p) \/ Lock(p) \/ Truncate(p)
                  \/ WritePid(p) \/ WlanFound(p) \/ WlanMissing(p) \/ Handle(p)
                  \/ Fork(p) \/ Assign(p)
LoopStep(p) == SelectReturns(p) \/ LineRead(p)
ReloadStep(p) == Look(p) \/ SendHup(p) \/ NobodyRuns(p)
ChildStep(p) == Execl(p) \/ ChildExits(p) \/ OtherChildExits(p)
Handlers(p) == DeliverHup(p) \/ DeliverChld(p) \/ DeliverTerm(p)

Next == \/ \E p \in Pids : \/ StartStep(p) \/ LoopStep(p) \/ ReloadStep(p)
                           \/ ChildStep(p) \/ Handlers(p)
                           \/ ServiceStarts(p) \/ StartByHand(p) \/ Reload(p)
        \/ ServiceKilled \/ Stop \/ Edit

\* The process's threads run, a pending signal is delivered, airodump-ng obeys
\* a SIGTERM, and systemd restarts the service.  The checks pass again and
\* again when they are made again and again (the device is plugged in at last).
\* Nobody owes a command, an exit of airodump-ng, or a line.
Fairness ==
    /\ \A p \in Pids :
        /\ WF_vars(StartStep(p) \/ ReloadStep(p))
        /\ WF_vars(Handlers(p))
        /\ WF_vars(Execl(p) \/ (proc[p].child = "told" /\ ChildExits(p)))
    /\ WF_vars(\E p \in Pids : ServiceStarts(p))
    /\ SF_vars(\E p \in Pids : PrecheckPasses(p))
    /\ SF_vars(\E p \in Pids : WlanFound(p))

Spec == Init /\ [][Next]_vars
FairSpec == Spec /\ Fairness
-----------------------------------------------------------------------------
(***************************************************************************)
(* Properties.                                                             *)
(***************************************************************************)

\* Only one process at a time is past check_lockfile: the database, the
\* caches and the wireless device have one user, whoever starts yah and when.
OneOwner ==
    \A p, q \in Pids : proc[p].pc \in LockedPc /\ proc[q].pc \in LockedPc => p = q

\* From the write of its pid on, the lock file names the process that runs,
\* whatever other starts, reloads and ends happen meanwhile.
PidFileNamesOwner ==
    \A p \in Pids : proc[p].pc \in LockedPc \ {"truncate", "write"} => pidFile = p

\* As long as the service is wanted, some yah comes to read airodump-ng again
\* after every end, though earlier processes leave the lock file behind.
ServiceRuns == wanted ~> (~wanted \/ \E p \in Pids : Reading(p))

\* The exit of airodump-ng is not forgotten: its SIGCHLD is still to be
\* handled by a process that will know it for its own, unless it came before
\* the pid was known or while another child's was pending.
ChildExitIsPending ==
    \A p \in Pids : proc[p].child = "exited" => proc[p].chld = "child" \/ p \in lost

\* A reload given when the file has its last contents and p reads reaches p,
\* past other starts and their attempts on the lock file, or p ends.
ReloadTakesEffect ==
    \A p \in Pids :
        /\ Reading(p) /\ file = MaxEdits
        /\ \E r \in Pids : At(r, "lock") /\ proc[r].reload
                        /\ \A q \in Pids \ {r} : ~proc[q].reload
        ~> (proc[p].conf = file \/ At(p, "none"))

\* The SIGTERM of a stop ends a service that reads airodump-ng, without SIGKILL,
\* although the handler does not end the process: SIGCHLD has to come back.
TermEnds ==
    /\ main # NoPid /\ ~wanted
    /\ proc[main].term /\ Reading(main) /\ proc[main].child = "airodump"
    ~> (main = NoPid \/ main \in lost)
=============================================================================
