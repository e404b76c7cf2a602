-------------------------- MODULE SupervisorProofs --------------------------
(***************************************************************************)
(* Theorems about module Supervisor: one process owns the lock, the lock   *)
(* file names it, and the exit of airodump-ng is not forgotten, for any    *)
(* number of processes, commands and edits.                                *)
(***************************************************************************)
EXTENDS Supervisor, TLAPS

\* The process that is past check_lockfile has the lock, and the file has its
\* pid from the write on.
Owner ==
    /\ \A p \in Pids : proc[p].pc \in LockedPc => lock = p
    /\ PidFileNamesOwner

\* Only a reload looks for the owner; so systemd's main process never does.
OnlyReloadLooks == \A p \in Pids : proc[p].pc \in {"look", "send"} => proc[p].reload

Inv == SupervisorTypeOK /\ Owner /\ OnlyReloadLooks /\ ChildExitIsPending

LEMMA InitInv == Init => Inv
  BY SupervisorAssumption
     DEF Init, Inv, Owner, OnlyReloadLooks, SupervisorTypeOK, PidFileNamesOwner, ChildExitIsPending,
         Process, Absent, LockedPc, HandlingPc, Children

\* What a process is when it has not begun is a process.
LEMMA AbsentIsProcess == Absent \in Process
  BY SupervisorAssumption DEF Absent, Process, LockedPc, HandlingPc, Children

\* The end of a set of processes keeps the invariant.
LEMMA EndsInv ==
  ASSUME Inv, NEW D \in SUBSET Pids, Ended(D), UNCHANGED pidFile,
         file' = file, wanted' \in BOOLEAN, commands' \in 0..MaxCommands
  PROVE  Inv'
  <1>0. SupervisorTypeOK /\ Owner /\ OnlyReloadLooks /\ ChildExitIsPending
    BY DEF Inv
  <1>1. proc' \in [Pids -> Process]
    BY <1>0, AbsentIsProcess DEF Ended, SupervisorTypeOK
  <1>2. \A p \in Pids : proc'[p] = IF p \in D THEN Absent ELSE proc[p]
    BY DEF Ended
  <1>3. Absent.pc = "none" /\ Absent.child = "none"
    BY DEF Absent
  <1>4. lock' \in {NoPid} \cup {p \in Pids : proc'[p].pc \in LockedPc}
    BY <1>0, <1>2, SupervisorAssumption DEF Ended, SupervisorTypeOK
  <1>5. main' \in {NoPid} \cup {p \in Pids : proc'[p].pc # "none" /\ ~proc'[p].reload}
    BY <1>0, <1>2, SupervisorAssumption DEF Ended, SupervisorTypeOK
  <1>6. SupervisorTypeOK'
    BY <1>0, <1>1, <1>4, <1>5 DEF Ended, SupervisorTypeOK
  <1>7. Owner'
    BY <1>0, <1>2, <1>3, SupervisorAssumption
       DEF Ended, Owner, PidFileNamesOwner, LockedPc, HandlingPc, SupervisorTypeOK
  <1>8. ChildExitIsPending' /\ OnlyReloadLooks'
    BY <1>0, <1>2, <1>3 DEF Ended, ChildExitIsPending, OnlyReloadLooks
  <1> QED BY <1>6, <1>7, <1>8 DEF Inv

\* A step of one process keeps the invariant if it keeps the process on its
\* side of the lock, does not forget an exit, and leaves the lock alone.
LEMMA StepInv ==
  ASSUME Inv, NEW p \in Pids, NEW r \in Process,
         proc' = [proc EXCEPT ![p] = r],
         proc[p].pc \in LockedPc => r.pc \in LockedPc,
         r.pc \in LockedPc => proc[p].pc \in LockedPc,
         r.pc \in LockedPc \ {"truncate", "write"}
           => proc[p].pc \in LockedPc \ {"truncate", "write"},
         main = p => r.pc # "none" /\ ~r.reload,
         r.pc \in {"look", "send"} => r.reload,
         main' = main \/ (main' = p /\ r.pc # "none" /\ ~r.reload),
         r.child = "exited" => r.chld = "child" \/ p \in lost',
         lost' \in {lost, lost \cup {p}},
         UNCHANGED <<lock, pidFile, file, wanted>>, commands' \in 0..MaxCommands
  PROVE  Inv'
  <1>0. SupervisorTypeOK /\ Owner /\ OnlyReloadLooks /\ ChildExitIsPending
    BY DEF Inv
  <1>1. proc' \in [Pids -> Process] /\ \A q \in Pids : proc'[q] = IF q = p THEN r ELSE proc[q]
    BY <1>0 DEF SupervisorTypeOK
  <1>2. SupervisorTypeOK'
    BY <1>0, <1>1 DEF SupervisorTypeOK
  <1>3. Owner'
    BY <1>0, <1>1 DEF Owner, PidFileNamesOwner
  <1>4. ChildExitIsPending' /\ OnlyReloadLooks'
    BY <1>0, <1>1 DEF ChildExitIsPending, OnlyReloadLooks
  <1> QED BY <1>2, <1>3, <1>4 DEF Inv

\* The same for a step that changes only where the process is.
LEMMA GoesInv ==
  ASSUME Inv, NEW p \in Pids, NEW pc, Goes(p, pc), UNCHANGED <<lock, pidFile>>,
         \/ proc[p].pc \notin LockedPc /\ pc \in {"lock", "look"}
               /\ (pc = "look" => proc[p].reload)
         \/ proc[p].pc \in LockedPc \ {"truncate", "write"} /\ pc \in LockedPc
  PROVE  Inv'
  <1>0. SupervisorTypeOK /\ ChildExitIsPending
    BY DEF Inv
  <1> DEFINE r == [proc[p] EXCEPT !.pc = pc]
  <1>1. proc[p] \in Process /\ proc' = [proc EXCEPT ![p] = r]
    BY <1>0 DEF SupervisorTypeOK, Goes
  <1>2. r \in Process /\ r.pc = pc /\ r.reload = proc[p].reload
          /\ r.child = proc[p].child /\ r.chld = proc[p].chld
    BY <1>1 DEF Process, LockedPc, HandlingPc
  <1>3. main = p => ~proc[p].reload
    BY <1>0, SupervisorAssumption DEF SupervisorTypeOK
  <1>4. proc[p].child = "exited" => proc[p].chld = "child" \/ p \in lost
    BY <1>0 DEF ChildExitIsPending
  <1>5. UNCHANGED <<main, lost, file, wanted, commands>>
    BY DEF Goes, system
  <1>6. pc # "none" /\ commands \in 0..MaxCommands
          /\ (pc \in {"look", "send"} => proc[p].reload)
          /\ (pc \in {"lock", "look"} => pc \notin LockedPc)
    BY <1>0 DEF LockedPc, HandlingPc, SupervisorTypeOK
  <1> HIDE DEF r
  <1> QED BY <1>1, <1>2, <1>3, <1>4, <1>5, <1>6, StepInv

\* A start: check_lockfile gives the lock to a process when nobody has it, and
\* the file is emptied and written by the process that has it.
LEMMA StartInv ==
  ASSUME Inv, NEW p \in Pids, StartStep(p)
  PROVE  Inv'
  <1>0. SupervisorTypeOK /\ Owner /\ OnlyReloadLooks /\ ChildExitIsPending
    BY DEF Inv
  <1>1. CASE PrecheckPasses(p)
    BY <1>1, GoesInv DEF PrecheckPasses, At, LockedPc, HandlingPc
  <1>2. CASE PrecheckFails(p) \/ WlanMissing(p)
    <2>1. Ended({p}) /\ UNCHANGED <<pidFile, file, wanted, commands>>
      BY <1>2 DEF PrecheckFails, WlanMissing, Ends, system
    <2> QED BY <1>0, <2>1, EndsInv DEF SupervisorTypeOK
  <1>3. CASE Lock(p)
    <2>1. CASE lock = NoPid /\ Goes(p, "truncate") /\ lock' = p /\ UNCHANGED pidFile
      <3>1. \A q \in Pids : proc[q].pc \notin LockedPc
        BY <1>0, <2>1, SupervisorAssumption DEF Owner
      <3>2. proc' \in [Pids -> Process] /\ \A q \in Pids :
               /\ proc'[q].pc = IF q = p THEN "truncate" ELSE proc[q].pc
               /\ proc'[q].reload = proc[q].reload
               /\ proc'[q].child = proc[q].child /\ proc'[q].chld = proc[q].chld
        BY <1>0, <2>1 DEF SupervisorTypeOK, Process, Goes, LockedPc, HandlingPc
      <3>3. SupervisorTypeOK'
        BY <1>0, <2>1, <3>2 DEF SupervisorTypeOK, Goes, system, LockedPc
      <3>4. Owner' /\ OnlyReloadLooks' /\ ChildExitIsPending'
        BY <1>0, <2>1, <3>1, <3>2
           DEF Owner, PidFileNamesOwner, OnlyReloadLooks, ChildExitIsPending, Goes, LockedPc
      <3> QED BY <3>3, <3>4 DEF Inv
    <2>2. CASE lock # NoPid /\ proc[p].reload /\ Goes(p, "look") /\ UNCHANGED <<lock, pidFile>>
      BY <1>3, <2>2, GoesInv DEF Lock, At, LockedPc, HandlingPc
    <2>3. CASE Ends({p})
      <3>1. Ended({p}) /\ UNCHANGED <<pidFile, file, wanted, commands>>
        BY <2>3 DEF Ends, system
      <3> QED BY <1>0, <3>1, EndsInv DEF SupervisorTypeOK
    <2> QED BY <1>3, <2>1, <2>2, <2>3 DEF Lock
  <1>4. CASE Truncate(p) \/ WritePid(p)
    <2> DEFINE next == IF Truncate(p) THEN "write"
                       ELSE IF proc[p].reload THEN "abort" ELSE "wlan"
    <2>1. Goes(p, next) /\ UNCHANGED lock /\ proc[p].pc \in {"truncate", "write"}
      BY <1>4 DEF Truncate, WritePid, At
    <2>2. next \in {"write", "abort", "wlan"} /\ (next # "write" => pidFile' = p)
            /\ pidFile' \in Pids \cup {NoPid}
      BY <1>4 DEF Truncate, WritePid
    <2>3. lock = p /\ \A q \in Pids : proc[q].pc \in LockedPc => q = p
      BY <1>0, <2>1 DEF Owner, LockedPc
    <2> HIDE DEF next
    <2>4. proc' \in [Pids -> Process] /\ \A q \in Pids :
             /\ proc'[q].pc = IF q = p THEN next ELSE proc[q].pc
             /\ proc'[q].reload = proc[q].reload
             /\ proc'[q].child = proc[q].child /\ proc'[q].chld = proc[q].chld
      BY <1>0, <2>1, <2>2 DEF SupervisorTypeOK, Process, Goes, LockedPc
    <2>5. SupervisorTypeOK'
      BY <1>0, <2>1, <2>2, <2>4 DEF SupervisorTypeOK, Goes, system, LockedPc
    <2>6. Owner' /\ OnlyReloadLooks' /\ ChildExitIsPending'
      BY <1>0, <2>1, <2>2, <2>3, <2>4
         DEF Owner, PidFileNamesOwner, OnlyReloadLooks, ChildExitIsPending, Goes, LockedPc
    <2> QED BY <2>5, <2>6 DEF Inv
  <1>5. CASE WlanFound(p) \/ Handle(p) \/ Assign(p)
    <2>1. PICK pc \in {"handle", "fork", "select"} : Goes(p, pc) /\ UNCHANGED <<lock, pidFile>>
      BY <1>5 DEF WlanFound, Handle, Assign
    <2>2. proc[p].pc \in {"wlan", "handle", "assign"}
      BY <1>5 DEF WlanFound, Handle, Assign, At
    <2> QED BY <2>1, <2>2, GoesInv DEF LockedPc, HandlingPc
  <1>6. CASE Fork(p)
    <2> DEFINE r == [proc[p] EXCEPT !.pc = "assign", !.child = "forked"]
    <2>1. proc[p] \in Process /\ proc' = [proc EXCEPT ![p] = r] /\ proc[p].pc = "fork"
      BY <1>0, <1>6 DEF SupervisorTypeOK, Fork, At
    <2>2. r \in Process /\ r.pc = "assign" /\ r.reload = proc[p].reload /\ r.child = "forked"
      BY <2>1 DEF Process, LockedPc, HandlingPc, Children
    <2>3. (main = p => ~proc[p].reload) /\ commands \in 0..MaxCommands
      BY <1>0, SupervisorAssumption DEF SupervisorTypeOK
    <2>4. UNCHANGED <<lock, pidFile, main, lost, file, wanted, commands>>
      BY <1>6 DEF Fork, system
    <2> HIDE DEF r
    <2> QED BY <2>1, <2>2, <2>3, <2>4, StepInv DEF LockedPc, HandlingPc
  <1> QED BY <1>1, <1>2, <1>3, <1>4, <1>5, <1>6 DEF StartStep

\* The loop, and a reload that looks for the owner or has found none.
LEMMA LoopAndReloadInv ==
  ASSUME Inv, NEW p \in Pids, LoopStep(p) \/ ReloadStep(p)
  PROVE  Inv'
  <1>0. SupervisorTypeOK /\ Owner /\ OnlyReloadLooks /\ ChildExitIsPending
    BY DEF Inv
  <1>1. CASE LoopStep(p)
    <2>1. PICK pc \in {"select", "read"} : Goes(p, pc) /\ UNCHANGED <<lock, pidFile>>
      BY <1>1 DEF LoopStep, SelectReturns, LineRead
    <2>2. proc[p].pc \in {"select", "read"}
      BY <1>1 DEF LoopStep, SelectReturns, LineRead, At
    <2> QED BY <2>1, <2>2, GoesInv DEF LockedPc, HandlingPc
  <1>2. CASE Look(p)
    <2>1. PICK t \in Pids \cup {NoPid} :
            proc' = [proc EXCEPT ![p].pc = "send", ![p].target = t]
      BY <1>0, <1>2 DEF Look, SupervisorTypeOK
    <2> DEFINE r == [proc[p] EXCEPT !.pc = "send", !.target = t]
    <2>2. proc[p] \in Process /\ proc' = [proc EXCEPT ![p] = r] /\ proc[p].pc = "look"
      BY <1>0, <1>2, <2>1 DEF SupervisorTypeOK, Look, At
    <2>3. r \in Process /\ r.pc = "send" /\ r.reload = proc[p].reload
            /\ r.child = proc[p].child /\ r.chld = proc[p].chld
      BY <2>2 DEF Process
    <2>4. /\ main # p /\ proc[p].reload /\ commands \in 0..MaxCommands
          /\ proc[p].child = "exited" => proc[p].chld = "child" \/ p \in lost
      BY <1>0, <2>2, SupervisorAssumption
         DEF SupervisorTypeOK, ChildExitIsPending, OnlyReloadLooks
    <2>5. UNCHANGED <<lock, pidFile, main, lost, file, wanted, commands>>
      BY <1>2 DEF Look, system
    <2>6. "send" \notin LockedPc /\ "look" \notin LockedPc
      BY DEF LockedPc, HandlingPc
    <2> HIDE DEF r
    <2> QED BY <2>2, <2>3, <2>4, <2>5, <2>6, StepInv
  <1>3. CASE SendHup(p) /\ proc[p].target \in {q \in Pids : Handling(q)}
    <2> DEFINE t == proc[p].target
    <2>1. t \in Pids /\ t # p /\ proc' = [proc EXCEPT ![p] = Absent, ![t].hup = TRUE]
            /\ proc[p].pc = "send"
      BY <1>3 DEF SendHup, Handling, HandlingPc, At
    <2>2. lock # p /\ main # p
      <3>1. "send" \notin LockedPc
        BY DEF LockedPc, HandlingPc
      <3> QED BY <1>0, <2>1, <3>1, SupervisorAssumption DEF SupervisorTypeOK, OnlyReloadLooks
    <2>3. UNCHANGED <<lock, pidFile, main, lost, file, wanted, commands>>
      BY <1>3 DEF SendHup, system
    <2> HIDE DEF t
    <2>4. proc' \in [Pids -> Process] /\ \A q \in Pids :
             /\ proc'[q].pc = IF q = p THEN "none" ELSE proc[q].pc
             /\ q # p => /\ proc'[q].reload = proc[q].reload
                         /\ proc'[q].child = proc[q].child /\ proc'[q].chld = proc[q].chld
             /\ q = p => proc'[q].child = "none"
      <3>0. proc[t] \in Process
        BY <1>0, <2>1 DEF SupervisorTypeOK
      <3>1. [proc[t] EXCEPT !.hup = TRUE] \in Process
        BY <3>0 DEF Process
      <3>2. \A q \in Pids : proc'[q] = IF q = p THEN Absent
                                      ELSE IF q = t THEN [proc[t] EXCEPT !.hup = TRUE]
                                      ELSE proc[q]
        BY <1>0, <2>1 DEF SupervisorTypeOK
      <3>3. proc' \in [Pids -> Process]
        BY <1>0, <2>1, <3>1, <3>2, AbsentIsProcess DEF SupervisorTypeOK
      <3> QED BY <1>0, <3>0, <3>1, <3>2, <3>3 DEF SupervisorTypeOK, Process, Absent
    <2>5. SupervisorTypeOK'
      BY <1>0, <2>2, <2>3, <2>4 DEF SupervisorTypeOK
    <2>6. Owner' /\ OnlyReloadLooks' /\ ChildExitIsPending'
      BY <1>0, <2>2, <2>3, <2>4
         DEF Owner, PidFileNamesOwner, OnlyReloadLooks, ChildExitIsPending, LockedPc, HandlingPc
    <2> QED BY <2>5, <2>6 DEF Inv
  <1>4. CASE SendHup(p) /\ proc[p].target \notin {q \in Pids : Handling(q)}
    <2>1. Ends({p, proc[p].target} \ {NoPid})
      BY <1>4 DEF SendHup
    <2>2. {p, proc[p].target} \ {NoPid} \in SUBSET Pids
      BY <1>0 DEF SupervisorTypeOK, Process
    <2> QED BY <1>0, <2>1, <2>2, EndsInv DEF SupervisorTypeOK, Ends, system
  <1>5. CASE NobodyRuns(p)
    <2>1. Ended({p}) /\ UNCHANGED <<pidFile, file, wanted, commands>>
      BY <1>5 DEF NobodyRuns, Ends, system
    <2> QED BY <1>0, <2>1, EndsInv DEF SupervisorTypeOK
  <1> QED BY <1>1, <1>2, <1>3, <1>4, <1>5 DEF ReloadStep

\* The children and the handlers: where the process is does not change.
LEMMA SignalInv ==
  ASSUME Inv, NEW p \in Pids, ChildStep(p) \/ Handlers(p)
  PROVE  Inv'
  <1>0. SupervisorTypeOK /\ Owner /\ OnlyReloadLooks /\ ChildExitIsPending
    BY DEF Inv
  <1>1. CASE Ends({p})
    <2>1. Ended({p}) /\ UNCHANGED <<pidFile, file, wanted, commands>>
      BY <1>1 DEF Ends, system
    <2> QED BY <1>0, <2>1, EndsInv DEF SupervisorTypeOK
  <1>2. ASSUME NEW r \in Process, proc' = [proc EXCEPT ![p] = r],
               r.pc = proc[p].pc, r.reload = proc[p].reload,
               r.child = "exited" => r.chld = "child" \/ p \in lost',
               lost' \in {lost, lost \cup {p}},
               UNCHANGED <<lock, pidFile, main, file, wanted, commands>>
        PROVE  Inv'
    <2>1. main = p => r.pc # "none" /\ ~r.reload
      BY <1>0, <1>2, SupervisorAssumption DEF SupervisorTypeOK
    <2>2. (r.pc \in {"look", "send"} => r.reload) /\ commands \in 0..MaxCommands
      BY <1>0, <1>2 DEF SupervisorTypeOK, OnlyReloadLooks
    <2> QED BY <1>2, <2>1, <2>2, StepInv
  <1>3. proc[p] \in Process /\ (proc[p].child = "exited" => proc[p].chld = "child" \/ p \in lost)
    BY <1>0 DEF SupervisorTypeOK, ChildExitIsPending
  <1>4. ASSUME NEW c \in Children \ {"exited"}, ChildBecomes(p, c)
        PROVE  Inv'
    <2> DEFINE r == [proc[p] EXCEPT !.child = c]
    <2>1. r \in Process /\ r.pc = proc[p].pc /\ r.reload = proc[p].reload /\ r.child = c
      BY <1>3 DEF Process
    <2>2. proc' = [proc EXCEPT ![p] = r] /\ UNCHANGED <<lock, pidFile, main, lost, file, wanted, commands>>
      BY <1>0, <1>4 DEF ChildBecomes, system, SupervisorTypeOK
    <2> HIDE DEF r
    <2> QED BY <1>2, <1>4, <2>1, <2>2
  <1>5. CASE Execl(p)
    BY <1>4, <1>5 DEF Execl, Children
  <1>6. CASE ChildExits(p)
    <2> DEFINE r == [proc[p] EXCEPT !.child = "exited", !.chld = IF @ = "no" THEN "child" ELSE @]
    <2>1. /\ r \in Process /\ r.pc = proc[p].pc /\ r.reload = proc[p].reload
          /\ r.chld = IF proc[p].chld = "no" THEN "child" ELSE proc[p].chld
      BY <1>3 DEF Process, Children
    <2>2. proc' = [proc EXCEPT ![p] = r] /\ UNCHANGED <<lock, pidFile, main, file, wanted, commands>>
      BY <1>0, <1>6 DEF ChildExits, system, SupervisorTypeOK
    <2>3. lost' = IF proc[p].chld = "no" THEN lost ELSE lost \cup {p}
      BY <1>6 DEF ChildExits
    <2> HIDE DEF r
    <2> QED BY <1>2, <2>1, <2>2, <2>3
  <1>7. CASE OtherChildExits(p)
    <2> DEFINE r == [proc[p] EXCEPT !.validated = TRUE, !.chld = IF @ = "no" THEN "other" ELSE @]
    <2>1. /\ r \in Process /\ r.pc = proc[p].pc /\ r.reload = proc[p].reload
          /\ r.child = proc[p].child
          /\ r.chld = IF proc[p].chld = "no" THEN "other" ELSE proc[p].chld
      BY <1>3 DEF Process
    <2>2. proc' = [proc EXCEPT ![p] = r] /\ UNCHANGED <<lock, pidFile, main, lost, file, wanted, commands>>
      BY <1>0, <1>7 DEF OtherChildExits, system, SupervisorTypeOK
    <2> HIDE DEF r
    <2> QED BY <1>2, <1>3, <2>1, <2>2
  <1>8. CASE DeliverHup(p) /\ ~SeenBySelect(p)
    <2> DEFINE r == [proc[p] EXCEPT !.hup = FALSE, !.conf = file]
    <2>1. /\ r \in Process /\ r.pc = proc[p].pc /\ r.reload = proc[p].reload
          /\ r.child = proc[p].child /\ r.chld = proc[p].chld
      BY <1>0, <1>3 DEF Process, SupervisorTypeOK
    <2>2. proc' = [proc EXCEPT ![p] = r] /\ UNCHANGED <<lock, pidFile, main, lost, file, wanted, commands>>
      BY <1>0, <1>8 DEF DeliverHup, system, SupervisorTypeOK
    <2> HIDE DEF r
    <2> QED BY <1>2, <1>3, <2>1, <2>2
  <1>9. CASE DeliverChld(p) /\ ~Ends({p})
    <2> DEFINE r == [proc[p] EXCEPT !.chld = "no"]
    <2>1. /\ r \in Process /\ r.pc = proc[p].pc /\ r.reload = proc[p].reload
          /\ r.child = proc[p].child
      BY <1>3 DEF Process
    <2>2. proc' = [proc EXCEPT ![p] = r] /\ UNCHANGED <<lock, pidFile, main, file, wanted, commands>>
      BY <1>0, <1>9 DEF DeliverChld, system, SupervisorTypeOK
    <2>3. lost' = IF proc[p].chld = "child" THEN lost \cup {p} ELSE lost
      BY <1>9 DEF DeliverChld
    <2> HIDE DEF r
    <2> QED BY <1>2, <1>3, <2>1, <2>2, <2>3
  <1>10. CASE DeliverTerm(p) /\ ~SeenBySelect(p)
    <2>1. PICK c \in Children :
            /\ proc' = [proc EXCEPT ![p].term = FALSE, ![p].child = c]
            /\ c \in {"told", "spin"} \/ c = proc[p].child
      <3>1. proc' = [proc EXCEPT ![p].term = FALSE,
                       ![p].child = CASE @ = "airodump" -> "told"
                                      [] @ \in {"forked", "second"} -> "spin"
                                      [] OTHER -> @]
        BY <1>10 DEF DeliverTerm
      <3>2. CASE proc[p].child = "airodump"
        BY <1>0, <3>1, <3>2 DEF Children, SupervisorTypeOK
      <3>3. CASE proc[p].child \in {"forked", "second"}
        BY <1>0, <3>1, <3>3 DEF Children, SupervisorTypeOK
      <3>4. CASE proc[p].child \notin {"airodump", "forked", "second"}
        BY <1>0, <1>3, <3>1, <3>4 DEF Process, SupervisorTypeOK
      <3> QED BY <3>2, <3>3, <3>4
    <2> DEFINE r == [proc[p] EXCEPT !.term = FALSE, !.child = c]
    <2>2. /\ r \in Process /\ r.pc = proc[p].pc /\ r.reload = proc[p].reload
          /\ r.child = c /\ r.chld = proc[p].chld
      BY <1>3 DEF Process
    <2>3. proc' = [proc EXCEPT ![p] = r] /\ UNCHANGED <<lock, pidFile, main, lost, file, wanted, commands>>
      BY <1>0, <1>10, <2>1 DEF DeliverTerm, system, SupervisorTypeOK
    <2> HIDE DEF r
    <2> QED BY <1>2, <1>3, <2>1, <2>2, <2>3
  <1> QED
    BY <1>1, <1>5, <1>6, <1>7, <1>8, <1>9, <1>10
       DEF ChildStep, Handlers, DeliverHup, DeliverChld, DeliverTerm

LEMMA CommandInBound ==
  ASSUME SupervisorTypeOK, Command
  PROVE  commands' \in 0..MaxCommands
  BY SupervisorAssumption DEF Command, SupervisorTypeOK

\* systemd and the administrator.
LEMMA OutsideInv ==
  ASSUME Inv, NEW p \in Pids,
         ServiceStarts(p) \/ StartByHand(p) \/ Reload(p) \/ ServiceKilled \/ Stop \/ Edit
  PROVE  Inv'
  <1>0. SupervisorTypeOK /\ Owner /\ OnlyReloadLooks /\ ChildExitIsPending
    BY DEF Inv
  <1>1. CASE ServiceStarts(p) \/ StartByHand(p)
    <2> DEFINE r == [Absent EXCEPT !.pc = "check", !.conf = file]
    <2>1. /\ r \in Process /\ r.pc = "check" /\ ~r.reload /\ r.child = "none"
      BY <1>0, AbsentIsProcess DEF Process, Absent, SupervisorTypeOK
    <2>2. proc' = [proc EXCEPT ![p] = r] /\ UNCHANGED <<lock, pidFile, lost, file, wanted>>
      BY <1>1 DEF ServiceStarts, StartByHand, Started, system
    <2>3. main' \in {main, p} /\ commands' \in 0..MaxCommands
      BY <1>0, <1>1, SupervisorAssumption
         DEF ServiceStarts, StartByHand, Command, system, SupervisorTypeOK
    <2>4. proc[p].pc = "none" /\ "none" \notin LockedPc /\ "check" \notin LockedPc
      BY <1>1 DEF ServiceStarts, StartByHand, Free, At, LockedPc, HandlingPc
    <2> HIDE DEF r
    <2> QED BY <2>1, <2>2, <2>3, <2>4, StepInv
  <1>2. CASE Reload(p)
    <2> DEFINE r == [Absent EXCEPT !.pc = "lock", !.reload = TRUE]
    <2>1. /\ r \in Process /\ r.pc = "lock" /\ r.reload /\ r.child = "none"
      BY AbsentIsProcess DEF Process, Absent
    <2>2. /\ proc' = [proc EXCEPT ![p] = r]
          /\ UNCHANGED <<lock, pidFile, main, lost, file, wanted>>
      BY <1>2 DEF Reload
    <2>3. commands' \in 0..MaxCommands
      BY <1>0, <1>2, SupervisorAssumption DEF Reload, Command, SupervisorTypeOK
    <2>4. proc[p].pc = "none" /\ "none" \notin LockedPc /\ "lock" \notin LockedPc
      BY <1>2 DEF Reload, Free, At, LockedPc, HandlingPc
    <2>5. main # p
      BY <1>0, <2>4, SupervisorAssumption DEF SupervisorTypeOK
    <2> HIDE DEF r
    <2> QED BY <2>1, <2>2, <2>3, <2>4, <2>5, StepInv
  <1>3. CASE ServiceKilled
    <2>1. {main} \in SUBSET Pids /\ Ended({main}) /\ UNCHANGED <<pidFile, file, wanted, commands>>
      BY <1>0, <1>3 DEF ServiceKilled, Ends, system, SupervisorTypeOK
    <2> QED BY <1>0, <2>1, EndsInv DEF SupervisorTypeOK
  <1>4. CASE Stop /\ main # NoPid /\ Handling(main)
    <2> DEFINE r == [proc[main] EXCEPT !.term = TRUE]
    <2>1. main \in Pids /\ proc[main] \in Process /\ proc' = [proc EXCEPT ![main] = r]
      BY <1>0, <1>4 DEF Stop, SupervisorTypeOK
    <2>2. /\ r \in Process /\ r.pc = proc[main].pc /\ r.reload = proc[main].reload
          /\ r.child = proc[main].child /\ r.chld = proc[main].chld
      BY <2>1 DEF Process
    <2>3. UNCHANGED <<lock, pidFile, main, lost, file>> /\ wanted' = FALSE
            /\ commands' \in 0..MaxCommands
      BY <1>0, <1>4, CommandInBound DEF Stop
    <2> HIDE DEF r
    <2>4. /\ proc' \in [Pids -> Process]
          /\ \A q \in Pids : /\ proc'[q].pc = proc[q].pc /\ proc'[q].reload = proc[q].reload
                            /\ proc'[q].child = proc[q].child /\ proc'[q].chld = proc[q].chld
      BY <1>0, <2>1, <2>2 DEF SupervisorTypeOK
    <2>5. SupervisorTypeOK'
      BY <1>0, <2>3, <2>4 DEF SupervisorTypeOK
    <2>6. Owner' /\ OnlyReloadLooks' /\ ChildExitIsPending'
      BY <1>0, <2>3, <2>4 DEF Owner, PidFileNamesOwner, OnlyReloadLooks, ChildExitIsPending
    <2> QED BY <2>5, <2>6 DEF Inv
  <1>5. CASE Stop /\ ~(main # NoPid /\ Handling(main))
    <2>1. {main} \ {NoPid} \in SUBSET Pids /\ Ended({main} \ {NoPid})
            /\ UNCHANGED <<pidFile, file>>
      BY <1>0, <1>5 DEF Stop, SupervisorTypeOK
    <2>2. wanted' = FALSE /\ commands' \in 0..MaxCommands
      BY <1>0, <1>5, CommandInBound DEF Stop
    <2> QED BY <2>1, <2>2, EndsInv
  <1>6. CASE Edit
    <2>1. SupervisorTypeOK'
      BY <1>0, <1>6, SupervisorAssumption DEF Edit, SupervisorTypeOK
    <2>2. Owner' /\ OnlyReloadLooks' /\ ChildExitIsPending'
      BY <1>0, <1>6 DEF Edit, Owner, PidFileNamesOwner, OnlyReloadLooks, ChildExitIsPending
    <2> QED BY <2>1, <2>2 DEF Inv
  <1> QED BY <1>1, <1>2, <1>3, <1>4, <1>5, <1>6

LEMMA NextInv == Inv /\ [Next]_vars => Inv'
  <1> SUFFICES ASSUME Inv, [Next]_vars PROVE Inv'
    OBVIOUS
  <1>1. CASE \E p \in Pids : StartStep(p)
    BY <1>1, StartInv
  <1>2. CASE \E p \in Pids : LoopStep(p) \/ ReloadStep(p)
    BY <1>2, LoopAndReloadInv
  <1>3. CASE \E p \in Pids : ChildStep(p) \/ Handlers(p)
    BY <1>3, SignalInv
  <1>4. CASE \E p \in Pids : ServiceStarts(p) \/ StartByHand(p) \/ Reload(p)
    BY <1>4, OutsideInv
  <1>5. CASE ServiceKilled \/ Stop \/ Edit
    <2>1. PICK p \in Pids : TRUE
      BY SupervisorAssumption
    <2> QED BY <1>5, <2>1, OutsideInv
  <1>6. CASE UNCHANGED vars
    BY <1>6 DEF vars, Inv, Owner, OnlyReloadLooks, SupervisorTypeOK, PidFileNamesOwner,
                ChildExitIsPending
  <1> QED BY <1>1, <1>2, <1>3, <1>4, <1>5, <1>6 DEF Next

\* In every reachable state the processes, the lock and systemd's record of
\* the main process have their types: above all the lock belongs to a living
\* process that has passed check_lockfile (check.cpp:78).
THEOREM TypeCorrect == Spec => []SupervisorTypeOK
  <1>1. Inv => SupervisorTypeOK
    BY DEF Inv
  <1> QED BY <1>1, InitInv, NextInv, PTL DEF Spec

\* At most one process is past check_lockfile, for any number of starts by
\* systemd and by hand and of reloads that find the lock free.
THEOREM OneProcessOwns == Spec => []OneOwner
  <1>1. Inv => OneOwner
    BY DEF Inv, Owner, OneOwner
  <1> QED BY <1>1, InitInv, NextInv, PTL DEF Spec

\* The lock file names the process that has the lock, once it has been
\* written, so a reload signals that process (check.cpp:117).
THEOREM FileNamesOwner == Spec => []PidFileNamesOwner
  <1>1. Inv => PidFileNamesOwner
    BY DEF Inv, Owner
  <1> QED BY <1>1, InitInv, NextInv, PTL DEF Spec

\* The exit of airodump-ng is pending or was lost in one of the two known ways
\* (signal.cpp:16): no other order of signals, forks and handlers hides it.
THEOREM ExitIsPending == Spec => []ChildExitIsPending
  <1>1. Inv => ChildExitIsPending
    BY DEF Inv
  <1> QED BY <1>1, InitInv, NextInv, PTL DEF Spec
=============================================================================
