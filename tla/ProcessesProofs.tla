--------------------------- MODULE ProcessesProofs ---------------------------
(***************************************************************************)
(* Proofs about Processes, for every number of slots, every memory map and *)
(* every layout, in three parts: types, the scheduler's variables, pids,   *)
(* wake-ups and the fate of the dead; the life cycle of a slot; who owns   *)
(* which page.                                                             *)
(*                                                                         *)
(* What the scheduler reads of the process table is separated from what    *)
(* the memory operations do.  TableInv is the part of the invariant that   *)
(* speaks of a table; a lemma per table operation says that it keeps it.   *)
(* MemInv says which frames the processes hold and that the bitmap agrees. *)
(***************************************************************************)
EXTENDS Processes, MemoryLemmas

-----------------------------------------------------------------------------
(***************************************************************************)
(* The process table.                                                      *)
(***************************************************************************)

(* A pid below np names one process of the table, a parent is older. *)
PidsOf(t, np) ==
  \A s \in Slots : t[s].state # "UNUSED" =>
    /\ t[s].parentPID < t[s].pid
    /\ t[s].pid < np
    /\ \A r \in Slots : t[r].state # "UNUSED" /\ t[r].pid = t[s].pid => s = r

(* A sleeping process of the table has children, none of them a zombie. *)
SleepersOf(t) ==
  \A s \in Slots : t[s].state = "SLEEPING" =>
    /\ \E c \in Slots : t[c].state # "UNUSED" /\ t[c].parentPID = t[s].pid
    /\ \A c \in Slots : t[c].parentPID = t[s].pid => t[c].state # "ZOMBIE"

(* Between two operations no slot is half filled. *)
NoEmbryo(t) == \A s \in Slots : t[s].state # "EMBRYO"

TableInv(t, np) ==
  /\ t \in [Slots -> Process]
  /\ PidsOf(t, np)
  /\ SleepersOf(t)
  /\ NoEmbryo(t)

(* Exactly the process in slot cur of the table runs. *)
Runs(t, cur) == \A s \in Slots : t[s].state = "RUNNING" <=> s = cur

(* Between t and e the dead stay dead and keep their pids. *)
DeadKept(t, e) ==
  \A s \in Slots : t[s].state = "ZOMBIE" =>
    e[s].state = "ZOMBIE" /\ e[s].pid = t[s].pid

(* findProcByPID finds the process with the pid when there is one. *)
LEMMA FindByPid ==
  ASSUME NEW t \in [Slots -> Process], NEW pid \in Nat
  PROVE  \/ /\ findProcByPID(t, pid) = NoProc
            /\ \A s \in Slots : t[s].state # "UNUSED" => t[s].pid # pid
         \/ /\ findProcByPID(t, pid) \in Slots
            /\ t[findProcByPID(t, pid)].state # "UNUSED"
            /\ t[findProcByPID(t, pid)].pid = pid
<1> DEFINE S == {s \in Slots : t[s].state # "UNUSED" /\ t[s].pid = pid}
<1>1. findProcByPID(t, pid) = IF S = {} THEN NoProc ELSE Min(S)
  BY DEF findProcByPID, FirstSlot
<1>2. S \in SUBSET Nat
  BY ProcessAssumption DEF Slots
<1>3. CASE S = {}
  BY <1>1, <1>3
<1>4. CASE S # {}
  <2>1. Min(S) \in S
    BY <1>2, <1>4, MinNat
  <2> QED BY <2>1, <1>1, <1>4
<1> QED BY <1>3, <1>4

(* A process that is alive may become runnable or be run. *)
LEMMA SetAwake ==
  ASSUME NEW t, NEW np, TableInv(t, np), NEW s \in Slots,
         NEW state \in {"RUNNABLE", "RUNNING"},
         t[s].state \in {"RUNNABLE", "RUNNING", "SLEEPING"}
  PROVE  /\ TableInv(SetState(t, s, state), np)
         /\ DeadKept(t, SetState(t, s, state))
         /\ SetState(t, s, state)[s].state = state
         /\ \A r \in Slots \ {s} : SetState(t, s, state)[r] = t[r]
<1> DEFINE e == SetState(t, s, state)
<1>1. /\ t \in [Slots -> Process] /\ PidsOf(t, np) /\ SleepersOf(t) /\ NoEmbryo(t)
  BY DEF TableInv
<1>2. e = [t EXCEPT ![s].state = state]
  BY DEF SetState
<1>3. /\ e \in [Slots -> Process]
      /\ e[s].state = state /\ e[s].pid = t[s].pid
      /\ e[s].parentPID = t[s].parentPID
      /\ \A r \in Slots \ {s} : e[r] = t[r]
  BY <1>1, <1>2 DEF Process, ProcStates
<1> HIDE DEF e
<1>4. PidsOf(e, np)
  BY <1>1, <1>3 DEF PidsOf
<1>5. SleepersOf(e)
  BY <1>1, <1>3 DEF SleepersOf
<1>6. NoEmbryo(e)
  BY <1>1, <1>3 DEF NoEmbryo
<1>7. DeadKept(t, e)
  BY <1>1, <1>3 DEF DeadKept
<1> QED BY <1>3, <1>4, <1>5, <1>6, <1>7 DEF TableInv, e

(* processExit makes a zombie of s, wakes its parent, and changes nothing  *)
(* else the scheduler reads.                                               *)
LEMMA ExitKeepsTable ==
  ASSUME NEW t, NEW np \in Nat, TableInv(t, np), NEW s \in Slots,
         t[s].state # "UNUSED", NEW status \in Int
  PROVE  /\ TableInv(processExit(t, s, status), np)
         /\ DeadKept(t, processExit(t, s, status))
         /\ processExit(t, s, status)[s].state = "ZOMBIE"
         /\ \A r \in Slots \ {s} :
              processExit(t, s, status)[r].state = "RUNNING" <=> t[r].state = "RUNNING"
<1> DEFINE dead   == [t EXCEPT ![s].exitStatus = status, ![s].state = "ZOMBIE"]
           parent == findProcByPID(dead, t[s].parentPID)
           e      == processExit(t, s, status)
           wakes  == /\ t[s].parentPID # 0
                     /\ parent # NoProc
                     /\ dead[parent].state = "SLEEPING"
<1>1. /\ t \in [Slots -> Process] /\ PidsOf(t, np) /\ SleepersOf(t) /\ NoEmbryo(t)
  BY DEF TableInv
<1>2. e = IF wakes THEN SetState(dead, parent, "RUNNABLE") ELSE dead
  BY DEF processExit
<1>3. /\ dead \in [Slots -> Process]
      /\ dead[s].state = "ZOMBIE" /\ dead[s].pid = t[s].pid
      /\ dead[s].parentPID = t[s].parentPID
      /\ \A r \in Slots \ {s} : dead[r] = t[r]
  BY <1>1 DEF Process, ProcStates
<1>4. t[s].parentPID \in Nat /\ t[s].pid \in Nat
  BY <1>1 DEF Process
<1> HIDE DEF dead
<1>5. \/ parent = NoProc /\ \A r \in Slots : dead[r].state # "UNUSED" => dead[r].pid # t[s].parentPID
      \/ parent \in Slots /\ dead[parent].state # "UNUSED" /\ dead[parent].pid = t[s].parentPID
  BY <1>3, <1>4, FindByPid
<1>6. parent # s
  BY <1>1, <1>3, <1>4, <1>5, ProcessAssumption DEF PidsOf, NoProc, Slots
<1> HIDE DEF parent
<1>7. CASE wakes
  <2>1. e = [dead EXCEPT ![parent].state = "RUNNABLE"]
    BY <1>2, <1>7 DEF SetState
  <2>2. parent \in Slots /\ t[parent].state = "SLEEPING"
        /\ t[parent].pid = t[s].parentPID
    BY <1>3, <1>5, <1>6, <1>7
  <2>3. /\ e \in [Slots -> Process]
        /\ e[s].state = "ZOMBIE" /\ e[parent].state = "RUNNABLE"
        /\ \A r \in Slots : e[r].pid = t[r].pid /\ e[r].parentPID = t[r].parentPID
        /\ \A r \in Slots \ {s, parent} : e[r].state = t[r].state
    BY <1>3, <1>6, <2>1, <2>2 DEF Process, ProcStates
  <2> HIDE DEF e, wakes
  <2>4. PidsOf(e, np)
    BY <1>1, <2>2, <2>3 DEF PidsOf
  <2>5. SleepersOf(e)
    <3> SUFFICES ASSUME NEW q \in Slots, e[q].state = "SLEEPING"
                 PROVE  /\ \E c \in Slots : e[c].state # "UNUSED" /\ e[c].parentPID = e[q].pid
                        /\ \A c \in Slots : e[c].parentPID = e[q].pid => e[c].state # "ZOMBIE"
      BY DEF SleepersOf
    <3>1. q # s /\ q # parent /\ t[q].state = "SLEEPING"
      BY <2>3
    <3>2. t[q].pid # t[s].parentPID
      BY <1>1, <2>2, <3>1 DEF PidsOf
    <3>3. PICK c \in Slots : t[c].state # "UNUSED" /\ t[c].parentPID = t[q].pid
      BY <1>1, <3>1 DEF SleepersOf
    <3>4. e[c].state # "UNUSED" /\ e[c].parentPID = e[q].pid
      BY <2>3, <3>3
    <3>5. ASSUME NEW d \in Slots, e[d].parentPID = e[q].pid
          PROVE  e[d].state # "ZOMBIE"
      BY <1>1, <2>3, <3>1, <3>2, <3>5 DEF SleepersOf
    <3> QED BY <3>4, <3>5
  <2>6. NoEmbryo(e) /\ DeadKept(t, e)
    BY <1>1, <2>2, <2>3 DEF NoEmbryo, DeadKept
  <2>7. \A r \in Slots \ {s} : e[r].state = "RUNNING" <=> t[r].state = "RUNNING"
    BY <2>2, <2>3
  <2> QED BY <2>3, <2>4, <2>5, <2>6, <2>7 DEF TableInv, e
<1>8. CASE ~wakes
  <2>1. e = dead
    BY <1>2, <1>8
  <2>2. \A q \in Slots : t[q].state = "SLEEPING" /\ q # s => t[q].pid # t[s].parentPID
    <3> SUFFICES ASSUME NEW q \in Slots, t[q].state = "SLEEPING", q # s,
                        t[q].pid = t[s].parentPID
                 PROVE  FALSE
      OBVIOUS
    <3>1. t[s].parentPID # 0
      BY <1>1, <1>4 DEF PidsOf, Process
    <3>2. dead[q].state = "SLEEPING" /\ dead[q].pid = t[s].parentPID
      BY <1>3
    <3>3. parent \in Slots /\ dead[parent].state # "UNUSED" /\ dead[parent].pid = t[s].parentPID
      BY <1>5, <3>2
    <3>4. parent = q
      BY <1>1, <1>3, <1>6, <3>3 DEF PidsOf
    <3>5. parent # NoProc
      BY <3>3, ProcessAssumption DEF Slots, NoProc
    <3> QED BY <1>8, <3>1, <3>2, <3>4, <3>5
  <2> HIDE DEF wakes
  <2>3. PidsOf(dead, np)
    BY <1>1, <1>3 DEF PidsOf
  <2>4. SleepersOf(dead)
    BY <1>1, <1>3, <2>2 DEF SleepersOf
  <2>5. NoEmbryo(dead) /\ DeadKept(t, dead)
    BY <1>1, <1>3 DEF NoEmbryo, DeadKept
  <2>6. TableInv(dead, np)
    BY <1>3, <2>3, <2>4, <2>5 DEF TableInv
  <2> QED BY <1>3, <2>1, <2>5, <2>6
<1> QED BY <1>7, <1>8

(* A process with children, none of them a zombie, may go to sleep. *)
LEMMA SleepKeepsTable ==
  ASSUME NEW t, NEW np \in Nat, TableInv(t, np), NEW s \in Slots,
         t[s].state = "RUNNING",
         \E c \in Slots : t[c].state # "UNUSED" /\ t[c].parentPID = t[s].pid,
         \A c \in Slots : t[c].parentPID = t[s].pid => t[c].state # "ZOMBIE"
  PROVE  /\ TableInv(SetState(t, s, "SLEEPING"), np)
         /\ DeadKept(t, SetState(t, s, "SLEEPING"))
         /\ SetState(t, s, "SLEEPING")[s].state = "SLEEPING"
         /\ \A r \in Slots \ {s} : SetState(t, s, "SLEEPING")[r] = t[r]
<1> DEFINE e == SetState(t, s, "SLEEPING")
<1>1. /\ t \in [Slots -> Process] /\ PidsOf(t, np) /\ SleepersOf(t) /\ NoEmbryo(t)
  BY DEF TableInv
<1>2. e = [t EXCEPT ![s].state = "SLEEPING"]
  BY DEF SetState
<1>3. /\ e \in [Slots -> Process]
      /\ e[s].state = "SLEEPING" /\ e[s].pid = t[s].pid
      /\ e[s].parentPID = t[s].parentPID
      /\ \A r \in Slots \ {s} : e[r] = t[r]
  BY <1>1, <1>2 DEF Process, ProcStates
<1> HIDE DEF e
<1>4. PidsOf(e, np)
  BY <1>1, <1>3 DEF PidsOf
<1>5. SleepersOf(e)
  BY <1>1, <1>3 DEF SleepersOf
<1>6. NoEmbryo(e) /\ DeadKept(t, e)
  BY <1>1, <1>3 DEF NoEmbryo, DeadKept
<1> QED BY <1>3, <1>4, <1>5, <1>6 DEF TableInv, e

(* A new process with the next pid may take an unused slot. *)
LEMMA FillKeepsTable ==
  ASSUME NEW t, NEW np \in Nat, TableInv(t, np), NEW s \in Slots,
         t[s].state = "UNUSED", NEW p \in Process, p.state = "RUNNABLE",
         p.pid = np, p.parentPID < np
  PROVE  /\ TableInv([t EXCEPT ![s] = p], np + 1)
         /\ DeadKept(t, [t EXCEPT ![s] = p])
<1> DEFINE e == [t EXCEPT ![s] = p]
<1>1. /\ t \in [Slots -> Process] /\ PidsOf(t, np) /\ SleepersOf(t) /\ NoEmbryo(t)
  BY DEF TableInv
<1>2. /\ e \in [Slots -> Process]
      /\ e[s] = p
      /\ \A r \in Slots \ {s} : e[r] = t[r]
  BY <1>1
<1> HIDE DEF e
<1>3. PidsOf(e, np + 1)
  BY <1>1, <1>2 DEF PidsOf, Process
<1>4. SleepersOf(e)
  BY <1>1, <1>2 DEF SleepersOf
<1>5. NoEmbryo(e) /\ DeadKept(t, e)
  BY <1>1, <1>2 DEF NoEmbryo, DeadKept
<1> QED BY <1>2, <1>3, <1>4, <1>5 DEF TableInv, e

LEMMA ZeroProcessType == ZeroProcess \in Process /\ ZeroProcess.state = "UNUSED"
  BY DEF ZeroProcess, Process, ProcStates, ZeroAddressSpace, AddressSpace, vmNoGuard

(* A slot may be emptied when no sleeping process waits for it. *)
LEMMA EmptyKeepsTable ==
  ASSUME NEW t, NEW np \in Nat, TableInv(t, np), NEW s \in Slots,
         \/ t[s].state = "UNUSED"
         \/ \A q \in Slots : t[q].state = "SLEEPING" => t[q].pid # t[s].parentPID
  PROVE  TableInv([t EXCEPT ![s] = ZeroProcess], np)
<1> DEFINE e == [t EXCEPT ![s] = ZeroProcess]
<1>1. /\ t \in [Slots -> Process] /\ PidsOf(t, np) /\ SleepersOf(t) /\ NoEmbryo(t)
  BY DEF TableInv
<1>2. /\ e \in [Slots -> Process]
      /\ e[s].state = "UNUSED"
      /\ \A r \in Slots \ {s} : e[r] = t[r]
  BY <1>1, ZeroProcessType
<1> HIDE DEF e
<1>3. PidsOf(e, np)
  BY <1>1, <1>2 DEF PidsOf
<1>4. SleepersOf(e)
  BY <1>1, <1>2 DEF SleepersOf
<1>5. NoEmbryo(e)
  BY <1>1, <1>2 DEF NoEmbryo
<1> QED BY <1>2, <1>3, <1>4, <1>5 DEF TableInv, e

-----------------------------------------------------------------------------
(***************************************************************************)
(* The invariant.                                                          *)
(***************************************************************************)

(* The inductive invariant.  TableInv carries PidsUnique and NoLostWakeup; *)
(* the reserved frames stay marked because every free tests the map.       *)
Inv ==
  /\ TypeOK
  /\ KernelRuns => InitialUsed \subseteq used
  /\ TableInv(processTable, nextPID)
  /\ OneRunning

(* What ZombieFinal asks of a step. *)
DeadStep ==
  \A s \in Slots : processTable[s].state = "ZOMBIE" =>
    \/ /\ processTable'[s].state = "ZOMBIE"
       /\ processTable'[s].pid = processTable[s].pid
    \/ /\ processTable'[s] = ZeroProcess
       /\ currentProc # NoProc
       /\ processTable[s].parentPID = Self.pid

SameRunning(t, e) ==
  \A s \in Slots : e[s].state = "RUNNING" <=> t[s].state = "RUNNING"

(* What allocProcess returns. *)
ProcReply(a) ==
  /\ MemoryOK(a.used, a.next)
  /\ a.panic \in Panics
  /\ a.slot \in Slots \cup {NoProc}
  /\ a.pid \in 1..PidLimit
  /\ TableInv(a.table, a.pid)
  /\ DeadKept(processTable, a.table)
  /\ SameRunning(processTable, a.table)

LEMMA InvMemory ==
  ASSUME Inv, KernelRuns
  PROVE  MemoryOK(used, nextFree)
  BY DEF Inv, TypeOK, MemoryOK

LEMMA NoProcType == NoProc \notin Slots
  BY ProcessAssumption DEF NoProc, Slots

LEMMA NoProcessReply ==
  ASSUME Inv, NEW u, NEW n, MemoryOK(u, n), NEW message \in Panics
  PROVE  ProcReply(NoProcess(u, n, message))
<1> DEFINE a == NoProcess(u, n, message)
<1>1. a = [slot |-> NoProc, table |-> processTable, pid |-> nextPID,
           used |-> u, next |-> n, panic |-> message]
  BY DEF NoProcess
<1>2. DeadKept(processTable, processTable) /\ SameRunning(processTable, processTable)
  BY DEF DeadKept, SameRunning
<1>3. nextPID \in 1..PidLimit /\ TableInv(processTable, nextPID)
  BY DEF Inv, TypeOK
<1> HIDE DEF a
<1>4. ProcReply(a)
  BY <1>1, <1>2, <1>3 DEF ProcReply
<1> QED BY <1>4 DEF a

LEMMA StackReturnedReply ==
  ASSUME Inv, NEW table, TableInv(table, nextPID), DeadKept(processTable, table),
         SameRunning(processTable, table), NEW freed, freed.ok \in BOOLEAN,
         MemoryOK(freed.used, freed.next)
  PROVE  ProcReply(StackReturned(table, freed))
<1> DEFINE a == StackReturned(table, freed)
           message == IF freed.ok THEN "none" ELSE "failed to release kernel stack page"
<1>1. a = [slot |-> NoProc, table |-> table, pid |-> nextPID,
           used |-> freed.used, next |-> freed.next, panic |-> message]
  BY DEF StackReturned
<1>2. message \in Panics
  BY DEF Panics
<1>3. nextPID \in 1..PidLimit
  BY DEF Inv, TypeOK
<1> HIDE DEF a, message
<1>4. ProcReply(a)
  BY <1>1, <1>2, <1>3 DEF ProcReply
<1> QED BY <1>4 DEF a

LEMMA FillSlotReply ==
  ASSUME Inv, NEW slot \in Slots, processTable[slot].state = "UNUSED",
         NEW entry \in {"none", "init", "worker"}, NEW parentPID \in Nat,
         parentPID < nextPID, nextPID # PidLimit, NEW stack \in Frames,
         NEW space \in SpaceReplies
  PROVE  ProcReply(FillSlot(slot, entry, parentPID, stack, space))
<1>1. MemoryOK(space.used, space.next) /\ space.panic \in Panics
      /\ space.vm \in AddressSpace
  BY DEF SpaceReplies, SpacePanics, Panics, MemoryOK
<1>2. nextPID \in Nat /\ nextPID + 1 \in 1..PidLimit
  BY ProcessAssumption DEF Inv, TypeOK
<1>3. CASE space.panic # "none"
  BY <1>1, <1>3, NoProcessReply DEF FillSlot
<1>4. CASE space.panic = "none" /\ ~space.ok
  <2> DEFINE table == [processTable EXCEPT ![slot] = ZeroProcess]
             freed == freePageInPool(space.used, space.next, stack, "kernel")
  <2>1. TableInv(table, nextPID)
    BY <1>2, EmptyKeepsTable DEF Inv
  <2>2. DeadKept(processTable, table) /\ SameRunning(processTable, table)
    BY ZeroProcessType DEF DeadKept, SameRunning, Inv, TypeOK
  <2>3. freed.ok \in BOOLEAN /\ MemoryOK(freed.used, freed.next)
    BY <1>1, FreePageMemory DEF Pools
  <2>4. FillSlot(slot, entry, parentPID, stack, space) = StackReturned(table, freed)
    BY <1>4 DEF FillSlot
  <2> HIDE DEF table, freed
  <2> QED BY <2>1, <2>2, <2>3, <2>4, StackReturnedReply
<1>5. CASE space.panic = "none" /\ space.ok
  <2> DEFINE new == [ZeroProcess EXCEPT
                       !.state = "RUNNABLE", !.pid = nextPID,
                       !.parentPID = parentPID, !.entry = entry,
                       !.kernelStack = stack, !.vm = space.vm]
             table == [processTable EXCEPT ![slot] = new]
             a == FillSlot(slot, entry, parentPID, stack, space)
  <2>1. /\ new \in Process /\ new.state = "RUNNABLE" /\ new.pid = nextPID
        /\ new.parentPID = parentPID
    BY <1>1, <1>2, ZeroProcessType DEF Process, ProcStates
  <2>2. a = [slot |-> slot, table |-> table, pid |-> nextPID + 1,
             used |-> space.used, next |-> space.next, panic |-> "none"]
    BY <1>5 DEF FillSlot
  <2> HIDE DEF new, a
  <2>3. TableInv(table, nextPID + 1) /\ DeadKept(processTable, table)
    BY <1>2, <2>1, FillKeepsTable DEF Inv
  <2>4. SameRunning(processTable, table)
    BY <2>1 DEF SameRunning, Inv, TypeOK
  <2> HIDE DEF table
  <2>5. ProcReply(a)
    BY <1>1, <1>2, <1>5, <2>2, <2>3, <2>4 DEF ProcReply
  <2> QED BY <2>5 DEF a
<1> QED
  <2>1. space.ok \in BOOLEAN
    BY DEF SpaceReplies
  <2> QED BY <1>3, <1>4, <1>5, <2>1

LEMMA AllocProcessReply ==
  ASSUME Inv, KernelRuns, NEW entry \in {"none", "init", "worker"},
         NEW parentPID \in Nat, parentPID < nextPID
  PROVE  ProcReply(allocProcess(entry, parentPID))
<1> DEFINE kstack == allocContigFromPool(used, nextFree, "kernel", 1)
           free   == {s \in Slots : processTable[s].state = "UNUSED"}
           slot   == FirstSlot(free)
<1>1. ContigReply(used, "kernel", 1, kstack)
  BY InvMemory, AllocContigEffect DEF MemoryOK, Pools
<1> HIDE DEF kstack
<1>2. kstack.frame \in Frames \cup {NoFrame} /\ MemoryOK(kstack.used, kstack.next)
  BY <1>1, InvMemory, PoolFramesType DEF ContigReply, MemoryOK, Pools
<1>3. slot = NoProc \/ (slot \in Slots /\ processTable[slot].state = "UNUSED")
  <2>1. free \in SUBSET Nat
    BY ProcessAssumption DEF Slots
  <2>2. CASE free = {}
    BY <2>2 DEF FirstSlot
  <2>3. CASE free # {}
    <3>1. Min(free) \in free
      BY <2>1, <2>3, MinNat
    <3> QED BY <2>3, <3>1 DEF FirstSlot
  <2> QED BY <2>2, <2>3
<1>4. allocProcess(entry, parentPID) = WithStack(kstack, entry, parentPID)
  BY DEF allocProcess, kstack
<1>5. WithStack(kstack, entry, parentPID) =
        IF kstack.frame = NoFrame
        THEN NoProcess(kstack.used, kstack.next, "none")
        ELSE IF slot = NoProc
        THEN StackReturned(processTable,
               freePageInPool(kstack.used, kstack.next, kstack.frame, "kernel"))
        ELSE IF nextPID = PidLimit
        THEN NoProcess(kstack.used, kstack.next, "pid space exhausted")
        ELSE FillSlot(slot, entry, parentPID, kstack.frame,
                      vmInitProcess(kstack.used, kstack.next))
  BY DEF WithStack
<1>6. ProcReply(NoProcess(kstack.used, kstack.next, "none"))
      /\ ProcReply(NoProcess(kstack.used, kstack.next, "pid space exhausted"))
  BY <1>2, NoProcessReply DEF Panics
<1>7. ProcReply(StackReturned(processTable,
        freePageInPool(kstack.used, kstack.next, kstack.frame, "kernel")))
  <2> DEFINE freed == freePageInPool(kstack.used, kstack.next, kstack.frame, "kernel")
  <2>1. freed.ok \in BOOLEAN /\ MemoryOK(freed.used, freed.next)
    BY <1>2, FreePageMemory DEF Pools
  <2>2. DeadKept(processTable, processTable) /\ SameRunning(processTable, processTable)
    BY DEF DeadKept, SameRunning
  <2> HIDE DEF freed
  <2>3. ProcReply(StackReturned(processTable, freed))
    BY <2>1, <2>2, StackReturnedReply DEF Inv
  <2> QED BY <2>3 DEF freed
<1>8. ASSUME kstack.frame # NoFrame, slot # NoProc, nextPID # PidLimit
      PROVE  ProcReply(FillSlot(slot, entry, parentPID, kstack.frame,
                                vmInitProcess(kstack.used, kstack.next)))
  <2>1. vmInitProcess(kstack.used, kstack.next) \in SpaceReplies
    BY <1>2, InitProcessType
  <2> QED BY <1>2, <1>3, <1>8, <2>1, FillSlotReply
<1> HIDE DEF slot
<1> QED BY <1>4, <1>5, <1>6, <1>7, <1>8

-----------------------------------------------------------------------------
(***************************************************************************)
(* The actions.                                                            *)
(***************************************************************************)

LEMMA DeadKeptStep ==
  ASSUME DeadKept(processTable, processTable')
  PROVE  DeadStep
  BY DEF DeadKept, DeadStep

(* allocProcess, in whatever action calls it. *)
LEMMA CommitKeepsInv ==
  ASSUME Inv, KernelRuns, NEW a, ProcReply(a), Commit(a),
         UNCHANGED <<currentProc, lastScheduledSlot, scheduleRequested, runDepth>>,
         inScheduler' \in BOOLEAN,
         inScheduler' = inScheduler \/ currentProc = NoProc
  PROVE  Inv' /\ DeadStep
<1>1. TypeOK'
  BY DEF Inv, TypeOK, ProcReply, MemoryOK, Commit, TableInv
<1>2. (KernelRuns => InitialUsed \subseteq used)'
  BY DEF ProcReply, MemoryOK, Commit
<1>3. TableInv(processTable', nextPID')
  BY DEF ProcReply, Commit
<1>4. OneRunning'
  BY NoProcType DEF Inv, OneRunning, ProcReply, Commit, SameRunning
<1>5. DeadStep
  BY DeadKeptStep DEF ProcReply, Commit
<1> QED BY <1>1, <1>2, <1>3, <1>4, <1>5 DEF Inv

(* Nobody in table e runs, and the dead of the current table are kept. *)
Unwound(e) ==
  /\ TableInv(e, nextPID)
  /\ DeadKept(processTable, e)
  /\ \A s \in Slots : e[s].state # "RUNNING"

LEMMA DeadKeptTrans ==
  ASSUME NEW t, NEW e, NEW d, DeadKept(t, e), DeadKept(e, d)
  PROVE  DeadKept(t, d)
  BY DEF DeadKept

(* The deferred function of switchToProcess, whatever unwinds: t is the    *)
(* table its caller left, in which nobody but the current process runs.    *)
LEMMA UnwindKeepsInv ==
  ASSUME Inv, ProcessRuns, NEW t, TableInv(t, nextPID),
         DeadKept(processTable, t),
         \A s \in Slots \ {currentProc} : t[s].state # "RUNNING",
         t[currentProc].state \in {"RUNNABLE", "RUNNING", "SLEEPING"},
         NEW signal \in {"yield", "preempt", "exit", "return"},
         NEW status \in Int, Unwind(t, signal, status),
         scheduleRequested' \in BOOLEAN
  PROVE  Inv' /\ DeadStep
<1> DEFINE after == AfterSignal(t, currentProc, signal, status)
           final == IF after[currentProc].state = "RUNNING"
                    THEN processExit(after, currentProc, 0) ELSE after
<1>1. currentProc \in Slots /\ nextPID \in Nat /\ KernelRuns
  BY DEF Inv, TypeOK, ProcessRuns
<1>2. /\ TableInv(after, nextPID) /\ DeadKept(processTable, after)
      /\ after[currentProc].state # "UNUSED"
      /\ \A s \in Slots \ {currentProc} : after[s].state # "RUNNING"
  <2>1. CASE signal \in {"yield", "preempt"}
    <3>1. after = IF t[currentProc].state = "RUNNING"
                  THEN SetState(t, currentProc, "RUNNABLE") ELSE t
      BY <2>1 DEF AfterSignal
    <3>2. CASE t[currentProc].state = "RUNNING"
      <4> DEFINE e == SetState(t, currentProc, "RUNNABLE")
      <4>1. /\ TableInv(e, nextPID) /\ DeadKept(t, e)
            /\ e[currentProc].state = "RUNNABLE"
            /\ \A r \in Slots \ {currentProc} : e[r] = t[r]
        BY <1>1, <3>2, SetAwake
      <4> HIDE DEF e
      <4>2. DeadKept(processTable, e)
        BY <4>1, DeadKeptTrans
      <4>3. after = e
        BY <3>1, <3>2 DEF e
      <4> HIDE DEF after
      <4> QED BY <4>1, <4>2, <4>3
    <3>3. CASE t[currentProc].state # "RUNNING"
      <4>1. after = t
        BY <3>1, <3>3
      <4> HIDE DEF after
      <4> QED BY <4>1
    <3> QED BY <3>2, <3>3
  <2>2. CASE signal = "exit"
    <3> DEFINE e == processExit(t, currentProc, status)
    <3>1. after = e
      BY <2>2 DEF AfterSignal
    <3>2. /\ TableInv(e, nextPID) /\ DeadKept(t, e)
          /\ e[currentProc].state = "ZOMBIE"
          /\ \A r \in Slots \ {currentProc} :
               e[r].state = "RUNNING" <=> t[r].state = "RUNNING"
      BY <1>1, ExitKeepsTable
    <3> HIDE DEF e, after
    <3>3. DeadKept(processTable, e)
      BY <3>2, DeadKeptTrans
    <3> QED BY <3>1, <3>2, <3>3
  <2>3. CASE signal = "return"
    <3>1. after = t
      BY <2>3 DEF AfterSignal
    <3> HIDE DEF after
    <3> QED BY <3>1
  <2> QED BY <2>1, <2>2, <2>3
<1> HIDE DEF after
<1>3. Unwound(final)
  <2>1. CASE after[currentProc].state = "RUNNING"
    <3> DEFINE e == processExit(after, currentProc, 0)
    <3>1. final = e
      BY <2>1
    <3>2. /\ TableInv(e, nextPID) /\ DeadKept(after, e)
          /\ e[currentProc].state = "ZOMBIE"
          /\ \A r \in Slots \ {currentProc} :
               e[r].state = "RUNNING" <=> after[r].state = "RUNNING"
      BY <1>1, <1>2, ExitKeepsTable
    <3> HIDE DEF e, final
    <3>3. DeadKept(processTable, e)
      BY <1>2, <3>2, DeadKeptTrans
    <3> QED BY <1>2, <3>1, <3>2, <3>3 DEF Unwound
  <2>2. CASE after[currentProc].state # "RUNNING"
    BY <1>2, <2>2 DEF Unwound
  <2> QED BY <2>1, <2>2
<1>4. /\ processTable' = final
      /\ currentProc' = NoProc
      /\ runDepth' = runDepth - 1
      /\ UNCHANGED <<nextPID, lastScheduledSlot, inScheduler, memVars>>
  BY DEF Unwind, after
<1> HIDE DEF final
<1>5. runDepth = 1 /\ panic = "none"
  BY <1>1, NoProcType DEF Inv, OneRunning, KernelRuns
<1>6. TypeOK'
  BY <1>3, <1>4, <1>5 DEF Inv, TypeOK, Unwound, TableInv, memVars
<1>7. (KernelRuns => InitialUsed \subseteq used)'
  BY <1>4 DEF Inv, KernelRuns, memVars
<1>8. TableInv(processTable', nextPID') /\ DeadStep
  BY <1>3, <1>4, DeadKeptStep DEF Unwound
<1>9. OneRunning'
  BY <1>3, <1>4, <1>5, NoProcType DEF Unwound, OneRunning
<1> QED BY <1>6, <1>7, <1>8, <1>9 DEF Inv

(* The current process runs and nobody else does. *)
LEMMA CurrentRuns ==
  ASSUME Inv, ProcessRuns
  PROVE  /\ currentProc \in Slots /\ KernelRuns /\ nextPID \in Nat \ {0}
         /\ TableInv(processTable, nextPID)
         /\ DeadKept(processTable, processTable)
         /\ Self.state = "RUNNING" /\ Self = processTable[currentProc]
         /\ Self \in Process /\ Self.pid < nextPID
         /\ \A s \in Slots \ {currentProc} : processTable[s].state # "RUNNING"
         /\ runDepth = 1 /\ inScheduler
<1>1. /\ currentProc \in Slots /\ KernelRuns /\ nextPID \in Nat \ {0}
      /\ TableInv(processTable, nextPID) /\ OneRunning
      /\ processTable \in [Slots -> Process]
  BY DEF Inv, TypeOK, ProcessRuns
<1>2. /\ processTable[currentProc].state = "RUNNING"
      /\ \A s \in Slots \ {currentProc} : processTable[s].state # "RUNNING"
      /\ runDepth = 1 /\ inScheduler
  BY <1>1, NoProcType DEF OneRunning
<1>3. processTable[currentProc].pid < nextPID
  BY <1>1, <1>2 DEF TableInv, PidsOf
<1> QED BY <1>1, <1>2, <1>3 DEF Self, DeadKept

LEMMA RunAgain ==
  ASSUME Inv, ProcessRuns
  PROVE  LET t == SetState(processTable, currentProc, "RUNNABLE")
         IN  /\ TableInv(t, nextPID) /\ DeadKept(processTable, t)
             /\ t[currentProc].state = "RUNNABLE"
             /\ \A s \in Slots \ {currentProc} : t[s].state # "RUNNING"
<1> DEFINE t == SetState(processTable, currentProc, "RUNNABLE")
<1>1. /\ TableInv(t, nextPID) /\ DeadKept(processTable, t)
      /\ t[currentProc].state = "RUNNABLE"
      /\ \A s \in Slots \ {currentProc} : t[s] = processTable[s]
  BY CurrentRuns, SetAwake
<1> HIDE DEF t
<1>2. \A s \in Slots \ {currentProc} : t[s].state # "RUNNING"
  BY <1>1, CurrentRuns
<1> QED BY <1>1, <1>2 DEF t

LEMMA SchedulerRunKeepsInv ==
  ASSUME Inv, schedulerRun
  PROVE  Inv' /\ DeadStep
<1>1. KernelRuns /\ ~inScheduler /\ currentProc = NoProc
      /\ nextPID \in Nat /\ 0 < nextPID
  BY DEF schedulerRun, Inv, TypeOK, OneRunning
<1>2. CASE findProcByPID(processTable, 1) # NoProc
  <2>1. /\ inScheduler' = TRUE
        /\ UNCHANGED <<processTable, nextPID, memVars, currentProc,
                       lastScheduledSlot, scheduleRequested, runDepth>>
    BY <1>2 DEF schedulerRun
  <2>2. TypeOK' /\ OneRunning' /\ (KernelRuns => InitialUsed \subseteq used)'
    BY <2>1 DEF Inv, TypeOK, OneRunning, KernelRuns, memVars
  <2>3. TableInv(processTable', nextPID') /\ DeadStep
    BY <2>1 DEF Inv, DeadStep
  <2> QED BY <2>2, <2>3 DEF Inv
<1>3. CASE findProcByPID(processTable, 1) = NoProc
  <2> DEFINE a == allocProcess("init", 0)
  <2>1. ProcReply(a)
    BY <1>1, AllocProcessReply
  <2>2. /\ Commit(a) /\ inScheduler' = (a.slot # NoProc)
        /\ UNCHANGED <<currentProc, lastScheduledSlot, scheduleRequested, runDepth>>
    BY <1>3 DEF schedulerRun, StartIfCreated
  <2> HIDE DEF a
  <2> QED BY <1>1, <2>1, <2>2, CommitKeepsInv
<1> QED BY <1>2, <1>3

(* Round robin picks a runnable slot, if it picks one. *)
LEMMA PickType ==
  ASSUME Inv, pickNextRunnable # NoProc
  PROVE  /\ pickNextRunnable \in Slots
         /\ processTable[pickNextRunnable].state = "RUNNABLE"
<1>1. RunnableOffsets # {}
      /\ pickNextRunnable = (lastScheduledSlot + Min(RunnableOffsets)) % NPROC
  BY DEF pickNextRunnable
<1>2. RunnableOffsets \in SUBSET Nat
  BY DEF RunnableOffsets
<1>3. Min(RunnableOffsets) \in RunnableOffsets
  BY <1>1, <1>2, MinNat
<1> DEFINE k == Min(RunnableOffsets)
<1>4. k \in 1..NPROC /\ processTable[(lastScheduledSlot + k) % NPROC].state = "RUNNABLE"
  BY <1>3 DEF RunnableOffsets
<1> HIDE DEF k
<1>5. lastScheduledSlot + k \in Nat
  BY <1>4, ProcessAssumption DEF Inv, TypeOK, Slots
<1>6. (lastScheduledSlot + k) % NPROC \in Slots
  BY <1>5, ModRange, ProcessAssumption DEF Slots
<1> QED BY <1>1, <1>4, <1>6 DEF k

LEMMA SwitchKeepsInv ==
  ASSUME Inv, switchToProcess
  PROVE  Inv' /\ DeadStep
<1> DEFINE p == pickNextRunnable
           t == SetState(processTable, p, "RUNNING")
<1>1. p \in Slots /\ processTable[p].state = "RUNNABLE"
  BY PickType DEF switchToProcess
<1>2. /\ KernelRuns /\ inScheduler /\ currentProc = NoProc
      /\ lastScheduledSlot' = p /\ currentProc' = p /\ processTable' = t
      /\ scheduleRequested' = FALSE /\ runDepth' = runDepth + 1
      /\ UNCHANGED <<nextPID, inScheduler, memVars>>
  BY DEF switchToProcess
<1> HIDE DEF p
<1>3. /\ TableInv(t, nextPID) /\ DeadKept(processTable, t)
      /\ t[p].state = "RUNNING"
      /\ \A s \in Slots \ {p} : t[s] = processTable[s]
  BY <1>1, SetAwake DEF Inv
<1> HIDE DEF t
<1>4. runDepth = 0 /\ \A s \in Slots : processTable[s].state # "RUNNING"
  BY <1>2, NoProcType DEF Inv, OneRunning
<1>5. TypeOK'
  <2>1. runDepth' = 1
    BY <1>2, <1>4
  <2>2. processTable' \in [Slots -> Process]
    BY <1>2, <1>3 DEF TableInv
  <2>3. scheduleRequested' \in BOOLEAN
    BY <1>2
  <2> QED BY <1>1, <1>2, <2>1, <2>2, <2>3 DEF Inv, TypeOK, memVars
<1>6. OneRunning'
  BY <1>1, <1>2, <1>3, <1>4, NoProcType DEF OneRunning
<1>7. (KernelRuns => InitialUsed \subseteq used)'
  BY <1>2 DEF Inv, KernelRuns, memVars
<1>8. TableInv(processTable', nextPID') /\ DeadStep
  BY <1>2, <1>3, DeadKeptStep
<1> QED BY <1>5, <1>6, <1>7, <1>8 DEF Inv

LEMMA SchedulerReturnKeepsInv ==
  ASSUME Inv, schedulerReturn
  PROVE  Inv' /\ DeadStep
<1>1. /\ currentProc = NoProc /\ inScheduler' = FALSE
      /\ UNCHANGED <<processTable, nextPID, currentProc, lastScheduledSlot,
                     scheduleRequested, runDepth, memVars>>
  BY DEF schedulerReturn
<1>2. TypeOK' /\ OneRunning' /\ (KernelRuns => InitialUsed \subseteq used)'
  BY <1>1 DEF Inv, TypeOK, OneRunning, KernelRuns, memVars
<1>3. TableInv(processTable', nextPID') /\ DeadStep
  BY <1>1 DEF Inv, DeadStep
<1> QED BY <1>2, <1>3 DEF Inv

LEMMA EntryReturnsKeepsInv ==
  ASSUME Inv, entryReturns
  PROVE  Inv' /\ DeadStep
<1>1. ProcessRuns /\ Unwind(processTable, "return", 0) /\ UNCHANGED scheduleRequested
  BY DEF entryReturns
<1>2. scheduleRequested' \in BOOLEAN
  BY <1>1 DEF Inv, TypeOK
<1> QED BY <1>1, <1>2, CurrentRuns, UnwindKeepsInv

LEMMA ExitKeepsInv ==
  ASSUME Inv, NEW status \in ExitStatuses, sysExit(status)
  PROVE  Inv' /\ DeadStep
<1>1. ProcessRuns /\ Unwind(processTable, "exit", status) /\ UNCHANGED scheduleRequested
  BY DEF sysExit
<1>2. scheduleRequested' \in BOOLEAN /\ status \in Int
  BY <1>1, ProcessAssumption DEF Inv, TypeOK
<1> QED BY <1>1, <1>2, CurrentRuns, UnwindKeepsInv

LEMMA ForkKeepsInv ==
  ASSUME Inv, sysFork
  PROVE  Inv' /\ DeadStep
<1>1. ProcessRuns /\ Commit(allocProcess(Self.entry, Self.pid)) /\ UNCHANGED schedVars
  BY DEF sysFork
<1>2. Self.entry \in {"none", "init", "worker"} /\ Self.pid \in Nat
      /\ Self.pid < nextPID /\ KernelRuns
  BY <1>1, CurrentRuns DEF Process
<1>3. ProcReply(allocProcess(Self.entry, Self.pid))
  BY <1>2, AllocProcessReply
<1>4. inScheduler' \in BOOLEAN
  BY <1>1 DEF Inv, TypeOK, schedVars
<1> QED BY <1>1, <1>2, <1>3, <1>4, CommitKeepsInv DEF schedVars

LEMMA CreateKernelKeepsInv ==
  ASSUME Inv, processCreateKernel
  PROVE  Inv' /\ DeadStep
<1>1. KernelRuns /\ Commit(allocProcess("worker", 0)) /\ UNCHANGED schedVars
  BY DEF processCreateKernel
<1>2. nextPID \in Nat /\ 0 < nextPID /\ inScheduler' \in BOOLEAN
  BY <1>1 DEF Inv, TypeOK, schedVars
<1>3. ProcReply(allocProcess("worker", 0))
  BY <1>1, <1>2, AllocProcessReply
<1> QED BY <1>1, <1>2, <1>3, CommitKeepsInv DEF schedVars

LEMMA YieldKeepsInv ==
  ASSUME Inv, sysYield
  PROVE  Inv' /\ DeadStep
<1> DEFINE t == SetState(processTable, currentProc, "RUNNABLE")
<1>1. ProcessRuns /\ scheduleRequested' \in BOOLEAN
  BY DEF sysYield
<1>2. Unwind(t, "yield", 0)
  BY <1>1, CurrentRuns DEF sysYield
<1>3. /\ TableInv(t, nextPID) /\ DeadKept(processTable, t)
      /\ t[currentProc].state = "RUNNABLE"
      /\ \A s \in Slots \ {currentProc} : t[s].state # "RUNNING"
  BY <1>1, RunAgain
<1> HIDE DEF t
<1> QED BY <1>1, <1>2, <1>3, UnwindKeepsInv

LEMMA TimerKeepsInv ==
  ASSUME Inv, timerInterrupt
  PROVE  Inv' /\ DeadStep
<1> DEFINE t == SetState(processTable, currentProc, "RUNNABLE")
<1>1. ProcessRuns
  BY DEF timerInterrupt
<1>2. Self.state = "RUNNING" /\ runDepth = 1
  BY <1>1, CurrentRuns
<1>3. scheduleRequested' = TRUE
  BY <1>2 DEF timerInterrupt, Inv, TypeOK
<1>4. Unwind(t, "preempt", 0)
  BY <1>2, <1>3 DEF timerInterrupt
<1>5. /\ TableInv(t, nextPID) /\ DeadKept(processTable, t)
      /\ t[currentProc].state = "RUNNABLE"
      /\ \A s \in Slots \ {currentProc} : t[s].state # "RUNNING"
  BY <1>1, RunAgain
<1> HIDE DEF t
<1> QED BY <1>1, <1>3, <1>4, <1>5, UnwindKeepsInv

(* Tables that agree on what the scheduler reads. *)
LEMMA SameSchedule ==
  ASSUME NEW t, NEW np, TableInv(t, np), NEW e \in [Slots -> Process],
         \A s \in Slots : /\ e[s].state = t[s].state
                          /\ e[s].pid = t[s].pid
                          /\ e[s].parentPID = t[s].parentPID
  PROVE  TableInv(e, np) /\ DeadKept(t, e) /\ SameRunning(t, e)
<1>1. PidsOf(e, np)
  BY DEF TableInv, PidsOf
<1>2. SleepersOf(e)
  BY DEF TableInv, SleepersOf
<1>3. NoEmbryo(e) /\ DeadKept(t, e) /\ SameRunning(t, e)
  BY DEF TableInv, NoEmbryo, DeadKept, SameRunning
<1> QED BY <1>1, <1>2, <1>3 DEF TableInv

LEMMA CopyKeepsInv ==
  ASSUME Inv, NEW va \in UserPages, NEW write \in BOOLEAN, userCopy(va, write)
  PROVE  Inv' /\ DeadStep
<1> DEFINE copy == copyPage(Self.vm, used, nextFree, va, write)
<1>1. ProcessRuns /\ Copied(copy) /\ UNCHANGED <<nextPID, schedVars>>
  BY DEF userCopy
<1>2. currentProc \in Slots /\ KernelRuns /\ Self = processTable[currentProc]
      /\ Self \in Process /\ TableInv(processTable, nextPID)
  BY <1>1, CurrentRuns
<1>3. Self.vm \in AddressSpace /\ va \in Nat
  BY <1>2, ProcessAssumption DEF Process
<1>4. copy \in SpaceReplies
  BY <1>2, <1>3, InvMemory, CopyPageType
<1> HIDE DEF copy
<1>5. /\ processTable' = [processTable EXCEPT
                           ![currentProc].vm = copy.vm,
                           ![currentProc].faulted = @ \/ ~copy.ok]
      /\ used' = copy.used /\ nextFree' = copy.next /\ panic' = copy.panic
  BY <1>1 DEF Copied
<1>6. copy.vm \in AddressSpace /\ copy.ok \in BOOLEAN /\ copy.panic \in Panics
      /\ copy.used \in SUBSET Frames /\ InitialUsed \subseteq copy.used
      /\ copy.next \in [Pools -> Nat]
  BY <1>4 DEF SpaceReplies, SpacePanics, Panics
<1>7. processTable \in [Slots -> Process]
  BY DEF Inv, TypeOK
<1>8. /\ processTable' \in [Slots -> Process]
      /\ \A s \in Slots : /\ processTable'[s].state = processTable[s].state
                           /\ processTable'[s].pid = processTable[s].pid
                           /\ processTable'[s].parentPID = processTable[s].parentPID
  <2> DEFINE f == processTable[currentProc].faulted \/ ~copy.ok
             p == [processTable[currentProc] EXCEPT !.vm = copy.vm, !.faulted = f]
  <2>1. f \in BOOLEAN
    OBVIOUS
  <2>2. processTable' = [processTable EXCEPT ![currentProc] = p]
    BY <1>2, <1>5, <1>7 DEF Process
  <2> HIDE DEF f
  <2>3. p \in Process /\ p.state = processTable[currentProc].state
        /\ p.pid = processTable[currentProc].pid
        /\ p.parentPID = processTable[currentProc].parentPID
    BY <1>2, <1>6, <1>7, <2>1 DEF Process
  <2> HIDE DEF p
  <2> QED BY <1>2, <1>7, <2>2, <2>3
<1>9. /\ TableInv(processTable', nextPID) /\ DeadKept(processTable, processTable')
      /\ SameRunning(processTable, processTable')
  BY <1>2, <1>8, SameSchedule
<1>10. TypeOK'
  BY <1>1, <1>5, <1>6, <1>8 DEF Inv, TypeOK, schedVars
<1>11. (KernelRuns => InitialUsed \subseteq used)'
  BY <1>5, <1>6
<1>12. OneRunning'
  BY <1>1, <1>2, <1>9 DEF Inv, OneRunning, SameRunning, schedVars
<1>13. TableInv(processTable', nextPID') /\ DeadStep
  BY <1>1, <1>9, DeadKeptStep
<1> QED BY <1>10, <1>11, <1>12, <1>13 DEF Inv

LEMMA KillKeepsInv ==
  ASSUME Inv, NEW pid \in 1..PidLimit, sysKill(pid)
  PROVE  Inv' /\ DeadStep
<1> DEFINE target == findProcByPID(processTable, pid)
<1>1. ProcessRuns
  BY DEF sysKill
<1>2. CASE target = NoProc
  <2>1. UNCHANGED vars
    BY <1>1, <1>2, CurrentRuns, NoProcType DEF sysKill
  <2> QED BY <2>1 DEF vars, procVars, schedVars, memVars, Inv, TypeOK, OneRunning,
               KernelRuns, DeadStep
<1>3. CASE target = currentProc
  <2>1. Unwind(processTable, "exit", -1) /\ UNCHANGED scheduleRequested
    BY <1>1, <1>3, CurrentRuns, NoProcType DEF sysKill
  <2>2. scheduleRequested' \in BOOLEAN
    BY <2>1 DEF Inv, TypeOK
  <2> QED BY <1>1, <2>1, <2>2, CurrentRuns, UnwindKeepsInv
<1>4. CASE target # NoProc /\ target # currentProc
  <2> DEFINE e == processExit(processTable, target, -1)
  <2>1. processTable' = e /\ UNCHANGED <<nextPID, schedVars, memVars>>
    BY <1>4 DEF sysKill
  <2>2. target \in Slots /\ processTable[target].state # "UNUSED"
    BY <1>4, FindByPid, ProcessAssumption DEF Inv, TypeOK
  <2> HIDE DEF target
  <2>3. /\ TableInv(e, nextPID) /\ DeadKept(processTable, e)
        /\ e[target].state = "ZOMBIE"
        /\ \A r \in Slots \ {target} :
             e[r].state = "RUNNING" <=> processTable[r].state = "RUNNING"
    BY <1>1, <2>2, CurrentRuns, ExitKeepsTable
  <2> HIDE DEF e
  <2>4. TypeOK'
    BY <2>1, <2>3 DEF Inv, TypeOK, TableInv, schedVars, memVars
  <2>5. OneRunning'
    BY <1>4, <2>1, <2>2, <2>3 DEF Inv, OneRunning, schedVars, memVars, KernelRuns
  <2>6. (KernelRuns => InitialUsed \subseteq used)'
    BY <2>1 DEF Inv, KernelRuns, memVars
  <2>7. TableInv(processTable', nextPID') /\ DeadStep
    BY <2>1, <2>3, DeadKeptStep
  <2> QED BY <2>4, <2>5, <2>6, <2>7 DEF Inv
<1> QED BY <1>2, <1>3, <1>4

LEMMA ReleaseMemory ==
  ASSUME Inv, KernelRuns, NEW s \in Slots, releaseProcess(s)
  PROVE  /\ used' \in SUBSET Frames /\ nextFree' \in [Pools -> Nat]
         /\ panic' \in Panics
         /\ panic' = "none" => InitialUsed \subseteq used'
         /\ processTable' = [processTable EXCEPT ![s] = ZeroProcess]
<1> DEFINE ms     == {m \in processTable[s].vm.ptable : m.owned}
           space  == FreeAll(used, nextFree, ms)
           stack  == processTable[s].kernelStack
           kstack == freePageInPool(space.used, space.next, stack, "kernel")
<1>1. /\ used' = kstack.used /\ nextFree' = kstack.next
      /\ panic' = IF ~space.ok THEN "failed to free mapped page"
                  ELSE IF ~kstack.ok THEN "failed to free kernel stack page"
                  ELSE "none"
      /\ processTable' = [processTable EXCEPT ![s] = ZeroProcess]
  BY DEF releaseProcess, ReleaseStack, Released, vmReleaseProcess
<1>2. ms \in SUBSET VMMapping /\ stack \in Frames \cup {NoFrame}
  BY DEF Inv, TypeOK, Process, AddressSpace
<1>3. MemoryOK(used, nextFree)
  BY InvMemory
<1> HIDE DEF ms, stack
<1>4. /\ space.used \in SUBSET Frames /\ space.next \in [Pools -> Nat]
      /\ space.ok => InitialUsed \subseteq space.used
  BY <1>2, <1>3, FreeAllTypes DEF MemoryOK
<1> HIDE DEF space
<1>5. kstack.used \in SUBSET Frames /\ kstack.next \in [Pools -> Nat]
  BY <1>4, FreePageTypes DEF Pools
<1>6. ASSUME space.ok PROVE InitialUsed \subseteq kstack.used
  <2>1. MemoryOK(space.used, space.next)
    BY <1>4, <1>6 DEF MemoryOK
  <2>2. MemoryOK(kstack.used, kstack.next)
    BY <1>2, <2>1, FreePageMemory DEF Pools
  <2> QED BY <2>2 DEF MemoryOK
<1> HIDE DEF kstack
<1>7. panic' \in Panics
  BY <1>1 DEF Panics
<1> QED BY <1>1, <1>5, <1>6, <1>7

LEMMA WaitKeepsInv ==
  ASSUME Inv, sysWait
  PROVE  Inv' /\ DeadStep
<1>1. ProcessRuns
  BY DEF sysWait
<1>2. /\ currentProc \in Slots /\ KernelRuns /\ nextPID \in Nat
      /\ TableInv(processTable, nextPID) /\ Self = processTable[currentProc]
      /\ Self.state = "RUNNING" /\ processTable \in [Slots -> Process]
  BY <1>1, CurrentRuns DEF TableInv
<1>3. CASE /\ ZombieChildren # {}
           /\ releaseProcess(FirstSlot(ZombieChildren))
           /\ UNCHANGED <<nextPID, schedVars>>
  <2> DEFINE z == FirstSlot(ZombieChildren)
  <2>1. z \in ZombieChildren
    <3>1. ZombieChildren \in SUBSET Nat
      BY ProcessAssumption DEF ZombieChildren, Children, Slots
    <3> QED BY <1>3, <3>1, MinNat DEF FirstSlot
  <2>2. z \in Slots /\ processTable[z].state = "ZOMBIE"
        /\ processTable[z].parentPID = Self.pid
    BY <2>1 DEF ZombieChildren, Children
  <2> HIDE DEF z
  <2>3. /\ used' \in SUBSET Frames /\ nextFree' \in [Pools -> Nat]
        /\ panic' \in Panics
        /\ panic' = "none" => InitialUsed \subseteq used'
        /\ processTable' = [processTable EXCEPT ![z] = ZeroProcess]
    BY <1>2, <1>3, <2>2, ReleaseMemory DEF z
  <2>4. \A q \in Slots : processTable[q].state = "SLEEPING"
                           => processTable[q].pid # processTable[z].parentPID
    BY <1>2, <2>2 DEF TableInv, PidsOf
  <2>5. TableInv(processTable', nextPID')
    BY <1>2, <1>3, <2>2, <2>3, <2>4, EmptyKeepsTable
  <2>6. DeadStep
    BY <1>1, <1>2, <2>2, <2>3 DEF DeadStep, ProcessRuns
  <2>7. TypeOK'
    BY <1>3, <2>3, <2>5 DEF Inv, TypeOK, TableInv, schedVars
  <2>8. OneRunning'
    BY <1>2, <1>3, <2>2, <2>3, ZeroProcessType DEF Inv, OneRunning, schedVars
  <2>9. (KernelRuns => InitialUsed \subseteq used)'
    BY <2>3 DEF KernelRuns
  <2> QED BY <2>5, <2>6, <2>7, <2>8, <2>9 DEF Inv
<1>4. CASE UNCHANGED vars
  BY <1>4 DEF vars, procVars, schedVars, memVars, Inv, TypeOK, OneRunning,
              KernelRuns, DeadStep
<1>5. CASE /\ Children(processTable, Self.pid) # {}
           /\ ZombieChildren = {}
           /\ Unwind(SetState(processTable, currentProc, "SLEEPING"), "yield", 0)
           /\ UNCHANGED scheduleRequested
  <2> DEFINE t == SetState(processTable, currentProc, "SLEEPING")
  <2>1. \E c \in Slots : /\ processTable[c].state # "UNUSED"
                         /\ processTable[c].parentPID = processTable[currentProc].pid
    BY <1>2, <1>5 DEF Children
  <2>2. \A c \in Slots : processTable[c].parentPID = processTable[currentProc].pid
                           => processTable[c].state # "ZOMBIE"
    BY <1>2, <1>5 DEF Children, ZombieChildren
  <2>3. /\ TableInv(t, nextPID) /\ DeadKept(processTable, t)
        /\ t[currentProc].state = "SLEEPING"
        /\ \A r \in Slots \ {currentProc} : t[r] = processTable[r]
    BY <1>2, <2>1, <2>2, SleepKeepsTable
  <2> HIDE DEF t
  <2>4. \A s \in Slots \ {currentProc} : t[s].state # "RUNNING"
    BY <1>1, <2>3, CurrentRuns
  <2>5. Unwind(t, "yield", 0) /\ scheduleRequested' \in BOOLEAN
    BY <1>5 DEF t, Inv, TypeOK
  <2> QED BY <1>1, <2>3, <2>4, <2>5, UnwindKeepsInv
<1> QED BY <1>3, <1>4, <1>5 DEF sysWait

-----------------------------------------------------------------------------
(***************************************************************************)
(* The theorems.                                                           *)
(***************************************************************************)

LEMMA InitInv == Init => Inv
<1> SUFFICES ASSUME Init PROVE Inv
  OBVIOUS
<1>1. \A s \in Slots : processTable[s] = ZeroProcess
  BY DEF Init
<1>2. processTable \in [Slots -> Process]
  BY ZeroProcessType DEF Init
<1>3. InitialNextFree \in [Pools -> Nat]
  BY PoolBounds DEF InitialNextFree
<1>4. TypeOK
  <2>1. used \subseteq Frames /\ nextFree \in [Pools -> Nat] /\ panic \in Panics
    BY <1>3 DEF Init, MemInit, InitialUsed, Panics
  <2>2. nextPID \in 1..PidLimit /\ runDepth \in {0, 1}
    BY ProcessAssumption DEF Init
  <2>3. /\ currentProc \in Slots \cup {NoProc}
        /\ lastScheduledSlot \in Slots \cup {-1}
        /\ scheduleRequested \in BOOLEAN /\ inScheduler \in BOOLEAN
    BY DEF Init
  <2> QED BY <1>2, <2>1, <2>2, <2>3 DEF TypeOK
<1>5. PidsOf(processTable, nextPID) /\ SleepersOf(processTable) /\ NoEmbryo(processTable)
  BY <1>1, ZeroProcessType DEF PidsOf, SleepersOf, NoEmbryo
<1>6. OneRunning
  BY <1>1, ZeroProcessType, NoProcType DEF Init, OneRunning
<1> QED BY <1>2, <1>4, <1>5, <1>6 DEF Inv, TableInv, Init, MemInit

LEMMA NextKeepsInv == Inv /\ [Next]_vars => Inv' /\ (DeadStep \/ UNCHANGED vars)
<1> SUFFICES ASSUME Inv, [Next]_vars PROVE Inv' /\ (DeadStep \/ UNCHANGED vars)
  OBVIOUS
<1>1. CASE UNCHANGED vars
  BY <1>1 DEF vars, procVars, schedVars, memVars, Inv, TypeOK, OneRunning, KernelRuns
<1>2. CASE Next
  BY <1>2, SchedulerRunKeepsInv, SwitchKeepsInv, SchedulerReturnKeepsInv,
     EntryReturnsKeepsInv, ForkKeepsInv, ExitKeepsInv, WaitKeepsInv, YieldKeepsInv,
     KillKeepsInv, TimerKeepsInv, CopyKeepsInv, CreateKernelKeepsInv DEF Next
<1> QED BY <1>1, <1>2

LEMMA InvAlways == Spec => []Inv
  BY InitInv, NextKeepsInv, PTL DEF Spec

(* Every variable keeps its type, whatever is called in whatever order.    *)
THEOREM TypeCorrect == Spec => []TypeOK
<1>1. Inv => TypeOK
  BY DEF Inv
<1> QED BY <1>1, InvAlways, PTL

(* The scheduler's variables and the states in the table agree however a   *)
(* process leaves the processor: return, yield, preemption, sleep, exit or *)
(* kill.                                                                   *)
THEOREM SchedulerConsistent == Spec => []OneRunning
<1>1. Inv => OneRunning
  BY DEF Inv
<1> QED BY <1>1, InvAlways, PTL

(* A pid names one process although slots are reused, and parents are      *)
(* older than their children.                                              *)
THEOREM PidsNameOneProcess == Spec => []PidsUnique
<1>1. Inv => PidsUnique
  BY DEF Inv, TableInv, PidsOf, PidsUnique, Live
<1> QED BY <1>1, InvAlways, PTL

(* The exit of a child always reaches a parent asleep in wait.             *)
THEOREM WakeupsNotLost == Spec => []NoLostWakeup
<1>1. Inv => NoLostWakeup
  BY DEF Inv, TableInv, SleepersOf, NoLostWakeup, Children
<1> QED BY <1>1, InvAlways, PTL

(* While a process sleeps another one can run: of the sleepers take the    *)
(* youngest; it has a child, which is younger and not a zombie, so it does *)
(* not sleep either.                                                       *)
THEOREM SleepersNotStuck == Spec => []NoStuckSleeper
<1>1. Inv => NoStuckSleeper
  <2> SUFFICES ASSUME Inv, NEW s0 \in Slots, processTable[s0].state = "SLEEPING"
               PROVE  \E s \in Slots : processTable[s].state \in {"RUNNABLE", "RUNNING"}
    BY DEF NoStuckSleeper
  <2>1. /\ processTable \in [Slots -> Process] /\ PidsOf(processTable, nextPID)
        /\ SleepersOf(processTable) /\ NoEmbryo(processTable) /\ nextPID \in Nat
    BY DEF Inv, TypeOK, TableInv
  <2> DEFINE asleep == {s \in Slots : processTable[s].state = "SLEEPING"}
             ages   == {nextPID - processTable[s].pid : s \in asleep}
  <2>2. \A s \in asleep : processTable[s].pid \in Nat /\ processTable[s].pid < nextPID
    BY <2>1 DEF PidsOf, Process
  <2>3. ages \in SUBSET Nat /\ ages # {}
    <3>1. \A s \in asleep : nextPID - processTable[s].pid \in Nat
      <4> HIDE DEF asleep
      <4> QED BY <2>1, <2>2
    <3>2. s0 \in asleep
      OBVIOUS
    <3> HIDE DEF asleep
    <3>3. nextPID - processTable[s0].pid \in ages
      BY <3>2, Zenon
    <3>4. \A a \in ages : a \in Nat
      BY <3>1, Zenon
    <3> HIDE DEF ages
    <3> QED BY <3>3, <3>4
  <2>4. Min(ages) \in ages /\ \A a \in ages : Min(ages) <= a
    BY <2>3, MinNat
  <2>5. PICK s \in asleep : Min(ages) = nextPID - processTable[s].pid
    BY <2>4
  <2>6. PICK c \in Slots : /\ processTable[c].state # "UNUSED"
                           /\ processTable[c].parentPID = processTable[s].pid
    BY <2>1 DEF SleepersOf
  <2>7. processTable[c].state # "ZOMBIE"
    BY <2>1, <2>6 DEF SleepersOf
  <2>8. processTable[s].pid < processTable[c].pid
    BY <2>1, <2>6 DEF PidsOf
  <2>9. processTable[c].state # "SLEEPING"
    <3> SUFFICES ASSUME c \in asleep PROVE FALSE
      OBVIOUS
    <3>1. nextPID - processTable[c].pid \in ages
      OBVIOUS
    <3>2. Min(ages) <= nextPID - processTable[c].pid
      BY <2>4, <3>1
    <3> HIDE DEF ages
    <3> QED BY <2>1, <2>2, <2>5, <2>8, <3>2
  <2>10. processTable[c].state \in ProcStates /\ processTable[c].state # "EMBRYO"
    BY <2>1 DEF Process, NoEmbryo
  <2> QED BY <2>6, <2>7, <2>9, <2>10 DEF ProcStates
<1> QED BY <1>1, InvAlways, PTL

(* An exited or killed process never runs again, and its slot is emptied   *)
(* only by its own parent.                                                 *)
THEOREM ZombiesStayDead == Spec => ZombieFinal
<1>1. Inv /\ [Next]_vars =>
        [\A s \in Slots : processTable[s].state = "ZOMBIE" =>
           \/ /\ processTable'[s].state = "ZOMBIE"
              /\ processTable'[s].pid = processTable[s].pid
           \/ /\ processTable'[s] = ZeroProcess
              /\ currentProc # NoProc
              /\ processTable[s].parentPID = Self.pid]_vars
  BY NextKeepsInv DEF DeadStep
<1> QED BY <1>1, InvAlways, PTL DEF Spec, ZombieFinal
-----------------------------------------------------------------------------
(***************************************************************************)
(* The process table implements ProcessLife.  A step of Processes changes  *)
(* at most one row of the abstract table.                                  *)
(***************************************************************************)

LiveSlots(t) == {r \in Slots : t[r].state # "UNUSED"}

Row(t, s) == [slot |-> s, pid |-> t[s].pid, parent |-> t[s].parentPID,
              dead |-> t[s].state = "ZOMBIE"]

Rows(t) == {Row(t, s) : s \in LiveSlots(t)}

LifeOf(t, np) == [procs |-> Rows(t), next |-> np]

(* Tables e and t show the same of slot s. *)
RowKept(t, e, s) ==
  /\ e[s].state = "UNUSED" <=> t[s].state = "UNUSED"
  /\ t[s].state # "UNUSED" =>
       /\ e[s].pid = t[s].pid /\ e[s].parentPID = t[s].parentPID
       /\ e[s].state = "ZOMBIE" <=> t[s].state = "ZOMBIE"

RowsKept(t, e, S) == \A s \in S : RowKept(t, e, s)

LEMMA RowFields ==
  ASSUME NEW t, NEW s
  PROVE  /\ Row(t, s).slot = s /\ Row(t, s).pid = t[s].pid
         /\ Row(t, s).parent = t[s].parentPID
         /\ Row(t, s).dead <=> t[s].state = "ZOMBIE"
  BY DEF Row

LEMMA RowSame ==
  ASSUME NEW t, NEW e, NEW s, RowKept(t, e, s), t[s].state # "UNUSED"
  PROVE  Row(e, s) = Row(t, s)
<1>1. /\ e[s].pid = t[s].pid /\ e[s].parentPID = t[s].parentPID
      /\ e[s].state = "ZOMBIE" <=> t[s].state = "ZOMBIE"
  BY DEF RowKept
<1>2. (e[s].state = "ZOMBIE") = (t[s].state = "ZOMBIE")
  BY <1>1
<1> QED BY <1>1, <1>2, Zenon DEF Row

LEMMA RowsSame ==
  ASSUME NEW t, NEW e, NEW S \in SUBSET Slots, RowsKept(t, e, S)
  PROVE  {Row(e, s) : s \in S \cap LiveSlots(e)} = {Row(t, s) : s \in S \cap LiveSlots(t)}
<1>1. S \cap LiveSlots(e) = S \cap LiveSlots(t)
  BY DEF RowsKept, RowKept, LiveSlots
<1>2. \A s \in S \cap LiveSlots(t) : Row(e, s) = Row(t, s)
  BY RowSame DEF RowsKept, LiveSlots
<1> QED BY <1>1, <1>2

(* The rows of a table with one slot apart. *)
LEMMA RowsSplit ==
  ASSUME NEW t, NEW s \in Slots
  PROVE  /\ t[s].state = "UNUSED" =>
              Rows(t) = {Row(t, r) : r \in (Slots \ {s}) \cap LiveSlots(t)}
         /\ t[s].state # "UNUSED" =>
              /\ Rows(t) = {Row(t, r) : r \in (Slots \ {s}) \cap LiveSlots(t)}
                             \cup {Row(t, s)}
              /\ Row(t, s) \notin {Row(t, r) : r \in (Slots \ {s}) \cap LiveSlots(t)}
<1>1. \A r \in Slots : Row(t, r).slot = r
  BY RowFields
<1> DEFINE others == (Slots \ {s}) \cap LiveSlots(t)
<1>2. t[s].state = "UNUSED" => LiveSlots(t) = others
  BY DEF LiveSlots
<1>3. t[s].state # "UNUSED" => LiveSlots(t) = others \cup {s}
  BY DEF LiveSlots
<1>4. \A r \in others : r # s /\ r \in Slots
  OBVIOUS
<1> HIDE DEF others
<1>5. Row(t, s) \notin {Row(t, r) : r \in others}
  BY <1>1, <1>4
<1>6. t[s].state # "UNUSED" => Rows(t) = {Row(t, r) : r \in others} \cup {Row(t, s)}
  BY <1>3 DEF Rows
<1> QED BY <1>2, <1>5, <1>6 DEF Rows, others

LEMMA Stutters ==
  ASSUME NEW t, NEW e, NEW np, RowsKept(t, e, Slots)
  PROVE  LifeOf(e, np) = LifeOf(t, np)
<1>1. Slots \cap LiveSlots(e) = LiveSlots(e) /\ Slots \cap LiveSlots(t) = LiveSlots(t)
  BY DEF LiveSlots
<1>2. {Row(e, s) : s \in Slots \cap LiveSlots(e)} = {Row(t, s) : s \in Slots \cap LiveSlots(t)}
  BY RowsSame
<1>3. Rows(e) = Rows(t)
  BY <1>1, <1>2 DEF Rows
<1> QED BY <1>3 DEF LifeOf

LEMMA LivesInTable ==
  ASSUME NEW t, NEW np, NEW s \in Slots, t[s].state \notin {"UNUSED", "ZOMBIE"}
  PROVE  Life!Lives(LifeOf(t, np), t[s].pid)
<1>1. Row(t, s) \in Rows(t)
  BY DEF Rows, LiveSlots
<1>2. Row(t, s).pid = t[s].pid /\ ~Row(t, s).dead
  BY RowFields
<1> QED BY <1>1, <1>2 DEF Life!Lives, LifeOf

(* A new process takes a free slot. *)
LEMMA IsBirth ==
  ASSUME NEW t, NEW e, NEW np, NEW s \in Slots, RowsKept(t, e, Slots \ {s}),
         t[s].state = "UNUSED", e[s].state \notin {"UNUSED", "ZOMBIE"},
         e[s].pid = np,
         e[s].parentPID = 0 \/ Life!Lives(LifeOf(t, np), e[s].parentPID)
  PROVE  Life!LifeStep(LifeOf(t, np), LifeOf(e, np + 1))
<1> DEFINE others == {Row(t, r) : r \in (Slots \ {s}) \cap LiveSlots(t)}
           p      == Row(e, s)
<1>1. Rows(t) = others
  BY RowsSplit
<1>2. {Row(e, r) : r \in (Slots \ {s}) \cap LiveSlots(e)} = others
  BY RowsSame
<1>3. Rows(e) = others \cup {p} /\ p \notin others
  BY <1>2, RowsSplit
<1>4. \A q \in others : q.slot # s
  <2>1. \A r \in Slots : Row(t, r).slot = r
    BY RowFields
  <2> QED BY <2>1
<1>5. p.slot = s /\ p.pid = np /\ ~p.dead /\ p.parent = e[s].parentPID
  BY RowFields
<1> HIDE DEF others, p
<1>6. LifeOf(t, np).procs = others /\ LifeOf(t, np).next = np
      /\ LifeOf(e, np + 1).procs = others \cup {p}
      /\ LifeOf(e, np + 1) = [procs |-> others \cup {p}, next |-> np + 1]
  BY <1>1, <1>3 DEF LifeOf
<1>7. Life!Birth(LifeOf(t, np), LifeOf(e, np + 1))
  BY <1>3, <1>4, <1>5, <1>6 DEF Life!Birth
<1> QED BY <1>7 DEF Life!LifeStep

(* What a change of the set of processes does to a state of ProcessLife.   *)
LEMMA PoolReplaced ==
  ASSUME NEW A, NEW p, NEW q, NEW n, NEW life, life = [procs |-> A, next |-> n]
  PROVE  [life EXCEPT !.procs = (@ \ {p}) \cup {q}]
           = [procs |-> (A \ {p}) \cup {q}, next |-> n]
<1> DEFINE B == (A \ {p}) \cup {q}
<1>1. life.procs = A
  OBVIOUS
<1>2. [life EXCEPT !.procs = (@ \ {p}) \cup {q}] = [life EXCEPT !.procs = B]
  BY <1>1
<1> HIDE DEF B
<1>3. [life EXCEPT !.procs = B] = [procs |-> B, next |-> n]
  OBVIOUS
<1> QED BY <1>2, <1>3 DEF B

LEMMA PoolReduced ==
  ASSUME NEW A, NEW p, NEW n, NEW life, life = [procs |-> A, next |-> n]
  PROVE  [life EXCEPT !.procs = @ \ {p}] = [procs |-> A \ {p}, next |-> n]
<1> DEFINE B == A \ {p}
<1>1. life.procs = A
  OBVIOUS
<1>2. [life EXCEPT !.procs = @ \ {p}] = [life EXCEPT !.procs = B]
  BY <1>1
<1> HIDE DEF B
<1>3. [life EXCEPT !.procs = B] = [procs |-> B, next |-> n]
  OBVIOUS
<1> QED BY <1>2, <1>3 DEF B

(* One process dies. *)
LEMMA IsDeath ==
  ASSUME NEW t, NEW e, NEW np, NEW s \in Slots, RowsKept(t, e, Slots \ {s}),
         t[s].state \notin {"UNUSED", "ZOMBIE"}, e[s].state = "ZOMBIE",
         e[s].pid = t[s].pid, e[s].parentPID = t[s].parentPID
  PROVE  Life!LifeStep(LifeOf(t, np), LifeOf(e, np))
<1> DEFINE others == {Row(t, r) : r \in (Slots \ {s}) \cap LiveSlots(t)}
           p      == Row(t, s)
           q      == Row(e, s)
<1>1. Rows(t) = others \cup {p} /\ p \notin others
  BY RowsSplit
<1>2. {Row(e, r) : r \in (Slots \ {s}) \cap LiveSlots(e)} = others
  BY RowsSame
<1>3. Rows(e) = others \cup {q}
  BY <1>2, RowsSplit
<1>4. ~p.dead /\ q.dead
  BY RowFields
<1>5. q = [p EXCEPT !.dead = TRUE]
  <2>1. q = [slot |-> s, pid |-> t[s].pid, parent |-> t[s].parentPID, dead |-> TRUE]
    BY DEF Row
  <2> DEFINE T == [slot: {s}, pid: {t[s].pid}, parent: {t[s].parentPID}, dead: BOOLEAN]
             x == [p EXCEPT !.dead = TRUE]
  <2>2. p \in T
    BY DEF Row
  <2> HIDE DEF p
  <2>3. x \in T /\ x.dead
    BY <2>2
  <2> HIDE DEF x
  <2>4. x = [slot |-> s, pid |-> t[s].pid, parent |-> t[s].parentPID, dead |-> TRUE]
    BY <2>3
  <2> QED BY <2>1, <2>4 DEF x
<1> HIDE DEF others, p, q
<1>6. p # q
  BY <1>4
<1>7. /\ LifeOf(t, np).procs = others \cup {p}
      /\ LifeOf(e, np).procs = others \cup {q}
  BY <1>1, <1>3 DEF LifeOf
<1>8. ((others \cup {p}) \ {p}) \cup {q} = others \cup {q}
  BY <1>1
<1>9. LifeOf(e, np) =
        [LifeOf(t, np) EXCEPT !.procs = (@ \ {p}) \cup {[p EXCEPT !.dead = TRUE]}]
  <2>1. LifeOf(t, np) = [procs |-> others \cup {p}, next |-> np]
    BY <1>1 DEF LifeOf
  <2>2. LifeOf(e, np) = [procs |-> others \cup {q}, next |-> np]
    BY <1>3 DEF LifeOf
  <2>3. [LifeOf(t, np) EXCEPT !.procs = (@ \ {p}) \cup {q}]
          = [procs |-> ((others \cup {p}) \ {p}) \cup {q}, next |-> np]
    BY <2>1, PoolReplaced
  <2>4. [LifeOf(t, np) EXCEPT !.procs = (@ \ {p}) \cup {q}] = LifeOf(e, np)
    BY <1>8, <2>2, <2>3, Zenon
  <2> QED BY <1>5, <2>4, Zenon
<1>10. p \in LifeOf(t, np).procs \ LifeOf(e, np).procs
  BY <1>1, <1>6, <1>7
<1>11. Life!Death(LifeOf(t, np), LifeOf(e, np))
  BY <1>4, <1>9, <1>10 DEF Life!Death
<1> QED BY <1>11 DEF Life!LifeStep

(* A living parent empties the slot of a dead child. *)
LEMMA IsReaping ==
  ASSUME NEW t, NEW e, NEW np, NEW s \in Slots, RowsKept(t, e, Slots \ {s}),
         t[s].state = "ZOMBIE", e[s].state = "UNUSED",
         Life!Lives(LifeOf(t, np), t[s].parentPID)
  PROVE  Life!LifeStep(LifeOf(t, np), LifeOf(e, np))
<1> DEFINE others == {Row(t, r) : r \in (Slots \ {s}) \cap LiveSlots(t)}
           p      == Row(t, s)
<1>1. Rows(t) = others \cup {p} /\ p \notin others
  BY RowsSplit
<1>2. {Row(e, r) : r \in (Slots \ {s}) \cap LiveSlots(e)} = others
  BY RowsSame
<1>3. Rows(e) = others
  BY <1>2, RowsSplit
<1>4. p.dead /\ p.parent = t[s].parentPID
  BY RowFields
<1> HIDE DEF others, p
<1>5. LifeOf(t, np).procs = others \cup {p} /\ LifeOf(e, np).procs = others
  BY <1>1, <1>3 DEF LifeOf
<1>6. (others \cup {p}) \ {p} = others
  BY <1>1
<1>7. LifeOf(e, np) = [LifeOf(t, np) EXCEPT !.procs = @ \ {p}]
  <2>1. LifeOf(t, np) = [procs |-> others \cup {p}, next |-> np]
    BY <1>1 DEF LifeOf
  <2>2. LifeOf(e, np) = [procs |-> others, next |-> np]
    BY <1>3 DEF LifeOf
  <2>3. [LifeOf(t, np) EXCEPT !.procs = @ \ {p}]
          = [procs |-> (others \cup {p}) \ {p}, next |-> np]
    BY <2>1, PoolReduced
  <2> QED BY <1>6, <2>2, <2>3, Zenon
<1>8. Life!Reaping(LifeOf(t, np), LifeOf(e, np))
  BY <1>1, <1>4, <1>5, <1>7 DEF Life!Reaping
<1> QED BY <1>8 DEF Life!LifeStep
-----------------------------------------------------------------------------
(* A step of the process table is a step of ProcessLife, or none.          *)
LifeStepped ==
  LET now  == LifeOf(processTable, nextPID)
      then == LifeOf(processTable', nextPID')
  IN  then = now \/ Life!LifeStep(now, then)

LEMMA RowsKeptTrans ==
  ASSUME NEW t, NEW e, NEW d, NEW S, RowsKept(t, e, S), RowsKept(e, d, S)
  PROVE  RowsKept(t, d, S)
  BY DEF RowsKept, RowKept

LEMMA SetStateRows ==
  ASSUME NEW t \in [Slots -> Process], NEW s \in Slots,
         t[s].state \notin {"UNUSED", "ZOMBIE"},
         NEW state \in ProcStates \ {"UNUSED", "ZOMBIE"}
  PROVE  RowsKept(t, SetState(t, s, state), Slots)
<1> DEFINE e == SetState(t, s, state)
<1>1. /\ e[s].state = state /\ e[s].pid = t[s].pid
      /\ e[s].parentPID = t[s].parentPID
      /\ \A r \in Slots \ {s} : e[r] = t[r]
  BY DEF SetState, Process
<1> HIDE DEF e
<1>2. RowsKept(t, e, Slots)
  BY <1>1 DEF RowsKept, RowKept
<1> QED BY <1>2 DEF e

(* processExit kills s and shows nothing else.                             *)
LEMMA ExitRows ==
  ASSUME NEW t, NEW np \in Nat, TableInv(t, np), NEW s \in Slots,
         t[s].state # "UNUSED", NEW status \in Int
  PROVE  LET e == processExit(t, s, status)
         IN  /\ RowsKept(t, e, Slots \ {s})
             /\ e[s].state = "ZOMBIE"
             /\ e[s].pid = t[s].pid /\ e[s].parentPID = t[s].parentPID
<1> DEFINE dead   == [t EXCEPT ![s].exitStatus = status, ![s].state = "ZOMBIE"]
           parent == findProcByPID(dead, t[s].parentPID)
           e      == processExit(t, s, status)
<1>1. t \in [Slots -> Process]
  BY DEF TableInv
<1>2. e = IF /\ t[s].parentPID # 0
             /\ parent # NoProc
             /\ dead[parent].state = "SLEEPING"
          THEN SetState(dead, parent, "RUNNABLE") ELSE dead
  BY DEF processExit
<1>3. /\ dead \in [Slots -> Process]
      /\ dead[s].state = "ZOMBIE" /\ dead[s].pid = t[s].pid
      /\ dead[s].parentPID = t[s].parentPID
      /\ \A r \in Slots \ {s} : dead[r] = t[r]
  BY <1>1 DEF Process, ProcStates
<1>4. t[s].parentPID \in Nat
  BY <1>1 DEF Process
<1> HIDE DEF dead
<1>5. parent # NoProc => parent \in Slots
  BY <1>3, <1>4, FindByPid
<1> HIDE DEF parent
<1>6. RowsKept(t, dead, Slots \ {s})
  BY <1>3 DEF RowsKept, RowKept
<1>7. CASE e = dead
  <2> HIDE DEF e
  <2> QED BY <1>3, <1>6, <1>7 DEF e
<1>8. CASE /\ parent \in Slots /\ dead[parent].state = "SLEEPING"
           /\ e = SetState(dead, parent, "RUNNABLE")
  <2>1. parent # s
    BY <1>3, <1>8
  <2>2. \A r \in Slots \ {parent} : e[r] = dead[r]
    BY <1>3, <1>8 DEF SetState
  <2>3. RowsKept(dead, e, Slots)
    BY <1>3, <1>8, SetStateRows DEF ProcStates
  <2> HIDE DEF e
  <2>4. RowsKept(t, e, Slots \ {s})
    BY <1>6, <2>3 DEF RowsKept, RowKept
  <2> QED BY <1>3, <2>1, <2>2, <2>4 DEF e
<1> QED BY <1>2, <1>5, <1>7, <1>8

LEMMA KeptLife ==
  ASSUME RowsKept(processTable, processTable', Slots), UNCHANGED nextPID
  PROVE  LifeStepped
<1>1. LifeOf(processTable', nextPID) = LifeOf(processTable, nextPID)
  BY Stutters
<1> QED BY <1>1 DEF LifeStepped

(* A process that has not died yet exits, on a table that shows the same   *)
(* as the current one.                                                     *)
LEMMA DeathLife ==
  ASSUME NEW t, TableInv(t, nextPID), nextPID \in Nat,
         RowsKept(processTable, t, Slots), NEW s \in Slots,
         t[s].state \notin {"UNUSED", "ZOMBIE"}, NEW status \in Int,
         processTable' = processExit(t, s, status), UNCHANGED nextPID
  PROVE  LifeStepped
<1>1. /\ RowsKept(t, processTable', Slots \ {s})
      /\ processTable'[s].state = "ZOMBIE"
      /\ processTable'[s].pid = t[s].pid
      /\ processTable'[s].parentPID = t[s].parentPID
  BY ExitRows
<1>2. /\ RowsKept(processTable, processTable', Slots \ {s})
      /\ processTable[s].state \notin {"UNUSED", "ZOMBIE"}
      /\ processTable'[s].pid = processTable[s].pid
      /\ processTable'[s].parentPID = processTable[s].parentPID
  BY <1>1 DEF RowsKept, RowKept
<1>3. Life!LifeStep(LifeOf(processTable, nextPID), LifeOf(processTable', nextPID))
  BY <1>1, <1>2, IsDeath
<1> QED BY <1>3 DEF LifeStepped

LEMMA UnwindLife ==
  ASSUME Inv, ProcessRuns, NEW t, TableInv(t, nextPID),
         RowsKept(processTable, t, Slots),
         t[currentProc].state \in {"RUNNABLE", "RUNNING", "SLEEPING"},
         NEW signal \in {"yield", "preempt", "exit", "return"},
         NEW status \in Int, Unwind(t, signal, status)
  PROVE  LifeStepped
<1> DEFINE after == AfterSignal(t, currentProc, signal, status)
           final == IF after[currentProc].state = "RUNNING"
                    THEN processExit(after, currentProc, 0) ELSE after
<1>1. currentProc \in Slots /\ nextPID \in Nat /\ t \in [Slots -> Process]
  BY DEF Inv, TypeOK, ProcessRuns, TableInv
<1>2. processTable' = final /\ UNCHANGED nextPID
  BY DEF Unwind
<1>3. CASE signal = "exit"
  <2>1. after = processExit(t, currentProc, status)
    BY <1>3 DEF AfterSignal
  <2>2. processExit(t, currentProc, status)[currentProc].state = "ZOMBIE"
    BY <1>1, ExitKeepsTable
  <2> HIDE DEF after
  <2>3. processTable' = processExit(t, currentProc, status)
    BY <1>2, <2>1, <2>2
  <2> QED BY <1>1, <1>2, <2>3, DeathLife
<1>4. CASE signal # "exit"
  <2>1. /\ TableInv(after, nextPID) /\ RowsKept(t, after, Slots)
        /\ after[currentProc].state \in {"RUNNABLE", "RUNNING", "SLEEPING"}
    <3>1. CASE after = t
      <4>1. RowsKept(t, t, Slots)
        BY DEF RowsKept, RowKept
      <4> HIDE DEF after
      <4> QED BY <3>1, <4>1
    <3>2. CASE after = SetState(t, currentProc, "RUNNABLE")
      <4> DEFINE e == SetState(t, currentProc, "RUNNABLE")
      <4>1. TableInv(e, nextPID) /\ e[currentProc].state = "RUNNABLE"
        BY <1>1, SetAwake
      <4>2. RowsKept(t, e, Slots)
        BY <1>1, SetStateRows DEF ProcStates
      <4> HIDE DEF after, e
      <4> QED BY <3>2, <4>1, <4>2 DEF e
    <3> QED BY <1>4, <3>1, <3>2 DEF AfterSignal
  <2> HIDE DEF after
  <2>2. RowsKept(processTable, after, Slots)
    BY <2>1, RowsKeptTrans
  <2>3. CASE after[currentProc].state = "RUNNING"
    BY <1>1, <1>2, <2>1, <2>2, <2>3, DeathLife
  <2>4. CASE after[currentProc].state # "RUNNING"
    BY <1>2, <2>2, <2>4, KeptLife
  <2> QED BY <2>3, <2>4
<1> QED BY <1>3, <1>4

(* allocProcess adds a process with the next pid, or shows nothing. *)
AddsOneOrNone(a, parentPID) ==
  \/ a.pid = nextPID /\ RowsKept(processTable, a.table, Slots)
  \/ /\ a.pid = nextPID + 1
     /\ \E s \in Slots :
          /\ RowsKept(processTable, a.table, Slots \ {s})
          /\ processTable[s].state = "UNUSED"
          /\ a.table[s].state = "RUNNABLE" /\ a.table[s].pid = nextPID
          /\ a.table[s].parentPID = parentPID

LEMMA AllocRows ==
  ASSUME Inv, NEW entry, NEW parentPID
  PROVE  AddsOneOrNone(allocProcess(entry, parentPID), parentPID)
<1> DEFINE a == allocProcess(entry, parentPID)
           free == {s \in Slots : processTable[s].state = "UNUSED"}
           slot == FirstSlot(free)
           kstack == allocContigFromPool(used, nextFree, "kernel", 1)
           space == vmInitProcess(kstack.used, kstack.next)
           cleared == [processTable EXCEPT ![slot] = ZeroProcess]
           new == [ZeroProcess EXCEPT
                     !.state = "RUNNABLE", !.pid = nextPID,
                     !.parentPID = parentPID, !.entry = entry,
                     !.kernelStack = kstack.frame, !.vm = space.vm]
           filled == [processTable EXCEPT ![slot] = new]
<1>1. processTable \in [Slots -> Process]
  BY DEF Inv, TypeOK
<1>2. slot # NoProc => slot \in Slots /\ processTable[slot].state = "UNUSED"
  <2>1. free \in SUBSET Nat
    BY ProcessAssumption DEF Slots
  <2>2. free # {} => Min(free) \in free
    BY <2>1, MinNat
  <2> QED BY <2>2 DEF FirstSlot
<1>3. \/ a.pid = nextPID /\ a.table = processTable
      \/ a.pid = nextPID /\ a.table = cleared /\ slot # NoProc
      \/ a.pid = nextPID + 1 /\ a.table = filled /\ slot # NoProc
  BY DEF allocProcess, WithStack, FillSlot, StackReturned, NoProcess
<1>4. new.state = "RUNNABLE" /\ new.pid = nextPID /\ new.parentPID = parentPID
  BY DEF ZeroProcess
<1> HIDE DEF a, slot, new
<1>5. RowsKept(processTable, processTable, Slots)
  BY DEF RowsKept, RowKept
<1>6. slot # NoProc => RowsKept(processTable, cleared, Slots)
  BY <1>1, <1>2, ZeroProcessType DEF RowsKept, RowKept
<1>7. slot # NoProc => /\ RowsKept(processTable, filled, Slots \ {slot})
                       /\ filled[slot] = new
  BY <1>1, <1>2 DEF RowsKept, RowKept
<1> HIDE DEF cleared, filled
<1>8. AddsOneOrNone(a, parentPID)
  BY <1>2, <1>3, <1>4, <1>5, <1>6, <1>7 DEF AddsOneOrNone
<1> QED BY <1>8 DEF a

LEMMA CommitLife ==
  ASSUME Inv, NEW entry, NEW parentPID, Commit(allocProcess(entry, parentPID)),
         parentPID = 0 \/ Life!Lives(LifeOf(processTable, nextPID), parentPID)
  PROVE  LifeStepped
<1> DEFINE a == allocProcess(entry, parentPID)
<1>1. processTable' = a.table /\ nextPID' = a.pid
  BY DEF Commit
<1>2. AddsOneOrNone(a, parentPID)
  BY AllocRows
<1> HIDE DEF a
<1>3. CASE a.pid = nextPID /\ RowsKept(processTable, a.table, Slots)
  BY <1>1, <1>3, KeptLife
<1>4. ASSUME a.pid = nextPID + 1, NEW s \in Slots,
             RowsKept(processTable, a.table, Slots \ {s}),
             processTable[s].state = "UNUSED",
             a.table[s].state = "RUNNABLE", a.table[s].pid = nextPID,
             a.table[s].parentPID = parentPID
      PROVE  LifeStepped
  <2>1. Life!LifeStep(LifeOf(processTable, nextPID), LifeOf(a.table, nextPID + 1))
    BY <1>4, IsBirth
  <2> QED BY <1>1, <1>4, <2>1 DEF LifeStepped
<1> QED BY <1>2, <1>3, <1>4 DEF AddsOneOrNone

LEMMA SelfLives ==
  ASSUME Inv, ProcessRuns
  PROVE  Life!Lives(LifeOf(processTable, nextPID), Self.pid)
  BY CurrentRuns, LivesInTable

LEMMA WaitLife ==
  ASSUME Inv, sysWait
  PROVE  LifeStepped
<1>1. ProcessRuns
  BY DEF sysWait
<1>2. /\ currentProc \in Slots /\ nextPID \in Nat
      /\ TableInv(processTable, nextPID) /\ Self = processTable[currentProc]
      /\ Self.state = "RUNNING" /\ processTable \in [Slots -> Process]
  BY <1>1, CurrentRuns DEF TableInv
<1>3. CASE /\ ZombieChildren # {}
           /\ releaseProcess(FirstSlot(ZombieChildren))
           /\ UNCHANGED <<nextPID, schedVars>>
  <2> DEFINE z == FirstSlot(ZombieChildren)
  <2>1. z \in ZombieChildren
    <3>1. ZombieChildren \in SUBSET Nat
      BY ProcessAssumption DEF ZombieChildren, Children, Slots
    <3> QED BY <1>3, <3>1, MinNat DEF FirstSlot
  <2>2. z \in Slots /\ processTable[z].state = "ZOMBIE"
        /\ processTable[z].parentPID = Self.pid
    BY <2>1 DEF ZombieChildren, Children
  <2>3. processTable' = [processTable EXCEPT ![z] = ZeroProcess]
    BY <1>3 DEF releaseProcess, ReleaseStack, Released
  <2> HIDE DEF z
  <2>4. /\ RowsKept(processTable, processTable', Slots \ {z})
        /\ processTable'[z].state = "UNUSED"
    BY <1>2, <2>2, <2>3, ZeroProcessType DEF RowsKept, RowKept
  <2>5. Life!Lives(LifeOf(processTable, nextPID), processTable[z].parentPID)
    BY <1>1, <2>2, SelfLives
  <2>6. Life!LifeStep(LifeOf(processTable, nextPID), LifeOf(processTable', nextPID))
    BY <2>2, <2>4, <2>5, IsReaping
  <2> QED BY <1>3, <2>6 DEF LifeStepped
<1>4. CASE UNCHANGED vars
  <2>1. RowsKept(processTable, processTable', Slots) /\ UNCHANGED nextPID
    BY <1>4 DEF vars, procVars, RowsKept, RowKept
  <2> QED BY <2>1, KeptLife
<1>5. CASE /\ Children(processTable, Self.pid) # {}
           /\ ZombieChildren = {}
           /\ Unwind(SetState(processTable, currentProc, "SLEEPING"), "yield", 0)
  <2> DEFINE t == SetState(processTable, currentProc, "SLEEPING")
  <2>1. \E c \in Slots : /\ processTable[c].state # "UNUSED"
                         /\ processTable[c].parentPID = processTable[currentProc].pid
    BY <1>2, <1>5 DEF Children
  <2>2. \A c \in Slots : processTable[c].parentPID = processTable[currentProc].pid
                           => processTable[c].state # "ZOMBIE"
    BY <1>2, <1>5 DEF Children, ZombieChildren
  <2>3. TableInv(t, nextPID) /\ t[currentProc].state = "SLEEPING"
    BY <1>2, <2>1, <2>2, SleepKeepsTable
  <2>4. RowsKept(processTable, t, Slots)
    BY <1>2, SetStateRows DEF ProcStates
  <2> HIDE DEF t
  <2>5. Unwind(t, "yield", 0)
    BY <1>5 DEF t
  <2> QED BY <1>1, <2>3, <2>4, <2>5, UnwindLife
<1> QED BY <1>3, <1>4, <1>5 DEF sysWait

LEMMA KillLife ==
  ASSUME Inv, NEW pid \in 1..PidLimit, sysKill(pid)
  PROVE  LifeStepped
<1> DEFINE target == findProcByPID(processTable, pid)
<1>1. ProcessRuns
  BY DEF sysKill
<1>2. /\ processTable \in [Slots -> Process] /\ nextPID \in Nat
      /\ TableInv(processTable, nextPID) /\ Self.state = "RUNNING"
      /\ Self = processTable[currentProc]
  BY <1>1, CurrentRuns DEF TableInv
<1>3. RowsKept(processTable, processTable, Slots)
  BY DEF RowsKept, RowKept
<1>4. CASE UNCHANGED vars
  <2>1. processTable' = processTable /\ UNCHANGED nextPID
    BY <1>4 DEF vars, procVars
  <2> QED BY <1>3, <2>1, KeptLife
<1>5. CASE Unwind(processTable, "exit", -1)
  BY <1>1, <1>2, <1>3, <1>5, UnwindLife
<1>6. CASE /\ target # NoProc
           /\ processTable' = processExit(processTable, target, -1)
           /\ UNCHANGED <<nextPID, schedVars, memVars>>
  <2>1. target \in Slots /\ processTable[target].state # "UNUSED"
    BY <1>2, <1>6, FindByPid, ProcessAssumption
  <2> HIDE DEF target
  <2>2. CASE processTable[target].state = "ZOMBIE"
    <3>1. /\ RowsKept(processTable, processTable', Slots \ {target})
          /\ processTable'[target].state = "ZOMBIE"
          /\ processTable'[target].pid = processTable[target].pid
          /\ processTable'[target].parentPID = processTable[target].parentPID
      BY <1>2, <1>6, <2>1, ExitRows
    <3>2. RowsKept(processTable, processTable', Slots)
      BY <2>2, <3>1 DEF RowsKept, RowKept
    <3> QED BY <1>6, <3>2, KeptLife
  <2>3. CASE processTable[target].state # "ZOMBIE"
    BY <1>2, <1>3, <1>6, <2>1, <2>3, DeathLife
  <2> QED BY <2>2, <2>3
<1> QED BY <1>4, <1>5, <1>6 DEF sysKill

LEMMA AgainLife ==
  ASSUME Inv, ProcessRuns, NEW signal \in {"yield", "preempt"},
         Unwind(SetState(processTable, currentProc, "RUNNABLE"), signal, 0)
  PROVE  LifeStepped
<1> DEFINE t == SetState(processTable, currentProc, "RUNNABLE")
<1>1. TableInv(t, nextPID) /\ t[currentProc].state = "RUNNABLE"
  BY RunAgain
<1>2. RowsKept(processTable, t, Slots)
  BY CurrentRuns, SetStateRows DEF ProcStates, TableInv
<1> HIDE DEF t
<1>3. Unwind(t, signal, 0)
  BY DEF t
<1> QED BY <1>1, <1>2, <1>3, UnwindLife

LEMMA LeaveLife ==
  ASSUME Inv, ProcessRuns, NEW signal \in {"exit", "return"}, NEW status \in Int,
         Unwind(processTable, signal, status)
  PROVE  LifeStepped
<1>1. RowsKept(processTable, processTable, Slots)
  BY DEF RowsKept, RowKept
<1>2. TableInv(processTable, nextPID) /\ processTable[currentProc].state = "RUNNING"
  BY CurrentRuns
<1> QED BY <1>1, <1>2, UnwindLife

LEMMA CopyLife ==
  ASSUME Inv, NEW va, NEW write, userCopy(va, write)
  PROVE  LifeStepped
<1>1. currentProc \in Slots /\ processTable \in [Slots -> Process]
  BY CurrentRuns DEF userCopy, Inv, TypeOK
<1> DEFINE copy == copyPage(Self.vm, used, nextFree, va, write)
<1>2. processTable' = [processTable EXCEPT
                         ![currentProc].vm = copy.vm,
                         ![currentProc].faulted = @ \/ ~copy.ok]
      /\ UNCHANGED nextPID
  BY DEF userCopy, Copied
<1> HIDE DEF copy
<1>3. RowsKept(processTable, processTable', Slots)
  BY <1>1, <1>2 DEF RowsKept, RowKept, Process
<1> QED BY <1>2, <1>3, KeptLife

LEMMA SchedulerLife ==
  ASSUME Inv, schedulerRun \/ switchToProcess \/ schedulerReturn
  PROVE  LifeStepped
<1>1. CASE UNCHANGED <<processTable, nextPID>>
  <2>1. RowsKept(processTable, processTable', Slots)
    BY <1>1 DEF RowsKept, RowKept
  <2> QED BY <1>1, <2>1, KeptLife
<1>2. CASE Commit(allocProcess("init", 0))
  BY <1>2, CommitLife
<1>3. CASE switchToProcess
  <2>1. pickNextRunnable \in Slots
        /\ processTable[pickNextRunnable].state = "RUNNABLE"
    BY <1>3, PickType DEF switchToProcess
  <2>2. RowsKept(processTable, processTable', Slots) /\ UNCHANGED nextPID
    BY <1>3, <2>1, SetStateRows DEF switchToProcess, Inv, TypeOK, ProcStates
  <2> QED BY <2>2, KeptLife
<1> QED BY <1>1, <1>2, <1>3 DEF schedulerRun, schedulerReturn, StartIfCreated

LEMMA NextLife ==
  ASSUME Inv, Next
  PROVE  LifeStepped
<1>1. CASE schedulerRun \/ switchToProcess \/ schedulerReturn
  BY <1>1, SchedulerLife
<1>2. CASE entryReturns
  BY <1>2, LeaveLife DEF entryReturns
<1>3. CASE sysFork
  BY <1>3, CommitLife, SelfLives DEF sysFork
<1>4. CASE \E status \in ExitStatuses : sysExit(status)
  BY <1>4, LeaveLife, ProcessAssumption DEF sysExit
<1>5. CASE processCreateKernel
  BY <1>5, CommitLife DEF processCreateKernel
<1>6. CASE sysYield
  <2>1. Self.state = "RUNNING" /\ ProcessRuns
    BY <1>6, CurrentRuns DEF sysYield
  <2> QED BY <1>6, <2>1, AgainLife DEF sysYield
<1>7. CASE timerInterrupt
  <2>1. Self.state = "RUNNING" /\ ProcessRuns /\ runDepth = 1
    BY <1>7, CurrentRuns DEF timerInterrupt
  <2>2. scheduleRequested' = TRUE
    BY <1>7, <2>1 DEF timerInterrupt, Inv, TypeOK
  <2>3. Unwind(SetState(processTable, currentProc, "RUNNABLE"), "preempt", 0)
    BY <1>7, <2>1, <2>2 DEF timerInterrupt
  <2> QED BY <2>1, <2>3, AgainLife
<1> QED BY <1>1, <1>2, <1>3, <1>4, <1>5, <1>6, <1>7, WaitLife, KillLife, CopyLife
    DEF Next

(* The abstract state of ImplementsProcessLife. *)
LifeNow ==
  [procs |-> {[slot   |-> s,
               pid    |-> processTable[s].pid,
               parent |-> processTable[s].parentPID,
               dead   |-> processTable[s].state = "ZOMBIE"] :
                s \in {r \in Slots : Live(r)}},
   next  |-> nextPID]

LEMMA LifeNowIs == LifeNow = LifeOf(processTable, nextPID)
  BY DEF LifeNow, LifeOf, Rows, Row, LiveSlots, Live

(* Forks that fail, kills of the dead and waits change nothing else in the *)
(* table, and only a living parent frees a slot.                           *)
THEOREM ImplementsLife == Spec => ImplementsProcessLife
<1>1. Init => Life!LifeInit
  <2> SUFFICES ASSUME Init PROVE LifeNow = [procs |-> {}, next |-> 1]
    BY DEF Life!LifeInit, LifeNow
  <2>1. \A s \in Slots : processTable[s].state = "UNUSED"
    BY ZeroProcessType DEF Init
  <2> QED BY <2>1 DEF LifeNow, Live, Init
<1>2. Inv /\ [Next]_vars => [Life!LifeNext]_LifeNow
  <2> SUFFICES ASSUME Inv, [Next]_vars PROVE [Life!LifeNext]_LifeNow
    OBVIOUS
  <2>1. CASE Next
    <3>1. LifeStepped
      BY <2>1, NextLife
    <3>2. LifeNow' = LifeNow \/ Life!LifeStep(LifeNow, LifeNow')
      BY <3>1, LifeNowIs DEF LifeStepped, LifeNow, LifeOf, Rows, Row, LiveSlots, Live
    <3> QED BY <3>2 DEF Life!LifeNext, LifeNow
  <2>2. CASE UNCHANGED vars
    BY <2>2 DEF vars, procVars, LifeNow, Live
  <2> QED BY <2>1, <2>2
<1> QED BY <1>1, <1>2, InvAlways, PTL DEF Spec, ImplementsProcessLife, Life!LifeSpec, LifeNow

-----------------------------------------------------------------------------
(***************************************************************************)
(* The pages of the processes: the invariant.                              *)
(***************************************************************************)

(* What vmInitProcess and vmGrowStack map: the trap page, which user code  *)
(* cannot reach, and pages of the stack.                                   *)
TrapMapping(m) == m.va = UserTrapPage /\ m.pool = "kernel" /\ m.perm = {"read"}

StackMapping(vm, m) ==
  /\ m.va \in vm.stackBase..(UserStackTop - 1)
  /\ m.pool = "user" /\ m.perm = {"read", "write", "user"}

(* No page and no frame is mapped twice, every mapping owns its frame.     *)
MappingsOK(vm) ==
  /\ IsFiniteSet(vm.ptable)
  /\ \A m \in vm.ptable :
       /\ m.owned
       /\ m.frame \in PoolFrames(m.pool)
       /\ TrapMapping(m) \/ StackMapping(vm, m)
  /\ \A m1, m2 \in vm.ptable :
       m1.va = m2.va \/ m1.frame = m2.frame => m1 = m2

(* The stack is mapped without a gap, its guard page is the page below.    *)
StackOK(vm) ==
  /\ vm.stackBase \in 1..UserStackTop
  /\ \A va \in vm.stackBase..(UserStackTop - 1) : \E m \in vm.ptable : m.va = va
  /\ vm.guard = IF vm.stackBase = UserStackTop THEN vmNoGuard ELSE vm.stackBase - 1

SpaceOK(vm) == vm \in AddressSpace /\ MappingsOK(vm) /\ StackOK(vm)

(* The memory of a process. *)
HoldingsOK(p) ==
  /\ p.kernelStack \in PoolFrames("kernel")
  /\ SpaceOK(p.vm)
  /\ p.kernelStack \notin FramesOf(p.vm)

HeldBy(t, s) ==
  IF t[s].state # "UNUSED" THEN {t[s].kernelStack} \cup FramesOf(t[s].vm) ELSE {}

(* Table t and bitmap u agree, when rest is what no process may hold. *)
Books(t, u, rest) ==
  /\ \A f \in Frames : f \in u <=> f \in rest \/ \E s \in Slots : f \in HeldBy(t, s)
  /\ \A s \in Slots : HeldBy(t, s) \cap rest = {}
  /\ \A r, s \in Slots : r # s => HeldBy(t, r) \cap HeldBy(t, s) = {}

AllHoldingsOK(t) == \A s \in Slots : t[s].state # "UNUSED" => HoldingsOK(t[s])

MemInv ==
  /\ NoInternalPanic
  /\ AllHoldingsOK(processTable)
  /\ KernelRuns => Books(processTable, used, InitialUsed)

-----------------------------------------------------------------------------
(***************************************************************************)
(* The operations on an address space.                                     *)
(***************************************************************************)

(* Adding an entry for a new page and a new frame keeps what MappingsOK    *)
(* asks of the entries, for another stack base w that covers the old ones. *)
LEMMA AddMapping ==
  ASSUME NEW vm, NEW w, MappingsOK(vm), NEW new, w.ptable = vm.ptable \cup {new},
         \A m \in vm.ptable : StackMapping(vm, m) => StackMapping(w, m),
         new.owned, new.frame \in PoolFrames(new.pool),
         TrapMapping(new) \/ StackMapping(w, new),
         \A m \in vm.ptable : m.va # new.va /\ m.frame # new.frame
  PROVE  MappingsOK(w) /\ FramesOf(w) = FramesOf(vm) \cup {new.frame}
<1>1. IsFiniteSet(w.ptable)
  BY FS_AddElement DEF MappingsOK
<1>2. \A m \in w.ptable : /\ m.owned
                          /\ m.frame \in PoolFrames(m.pool)
                          /\ TrapMapping(m) \/ StackMapping(w, m)
  BY DEF MappingsOK
<1>3. \A m1, m2 \in w.ptable : m1.va = m2.va \/ m1.frame = m2.frame => m1 = m2
  BY DEF MappingsOK
<1>4. FramesOf(w) = FramesOf(vm) \cup {new.frame}
  BY DEF FramesOf
<1> QED BY <1>1, <1>2, <1>3, <1>4 DEF MappingsOK

(* What vmInitProcess yields on bitmap u: a frame of the kernel pool, in   *)
(* an address space of which it is the only one; or nothing.               *)
InitReply(u, r) ==
  /\ r.panic = "none"
  /\ MemoryOK(r.used, r.next)
  /\ \/ ~r.ok /\ r.used = u
     \/ /\ r.ok /\ SpaceOK(r.vm)
        /\ \E f \in PoolFrames("kernel") \ u :
             r.used = u \cup {f} /\ FramesOf(r.vm) = {f}

LEMMA InitProcessEffect ==
  ASSUME NEW u, NEW n, MemoryOK(u, n)
  PROVE  InitReply(u, vmInitProcess(u, n))
<1> DEFINE vm == [ptable |-> {}, stackBase |-> UserStackTop, guard |-> vmNoGuard]
           r  == vmInitProcess(u, n)
<1>1. vm \in AddressSpace /\ UserTrapPage \in Nat
  BY LayoutAssumption DEF AddressSpace, vmNoGuard
<1>2. "kernel" \in Pools /\ {"read"} \in SUBSET Perms
  BY DEF Pools, Perms
<1>3. vm.ptable = {} /\ vm.stackBase = UserStackTop /\ vm.guard = vmNoGuard
  OBVIOUS
<1>4. r = MapFreshPage(vm, UserTrapPage, allocPageFromPool(u, n, "kernel"), "kernel",
                       {"read"}, "failed to free trap page")
  BY DEF vmInitProcess
<1> HIDE DEF vm, r
<1>5. FreshReply(vm, UserTrapPage, u, "kernel", {"read"}, r)
  BY <1>1, <1>2, <1>3, <1>4, FreshPage
<1>6. CASE ~r.ok
  BY <1>5, <1>6 DEF FreshReply, InitReply, r
<1>7. CASE r.ok
  <2>1. PICK f \in PoolFrames("kernel") \ u :
          /\ r.used = u \cup {f}
          /\ r.vm = [vm EXCEPT !.ptable =
                       @ \cup {NewMapping(UserTrapPage, f, "kernel", {"read"})}]
    BY <1>5, <1>7 DEF FreshReply
  <2> DEFINE new == NewMapping(UserTrapPage, f, "kernel", {"read"})
  <2>2. /\ new.va = UserTrapPage /\ new.frame = f /\ new.pool = "kernel"
        /\ new.perm = {"read"} /\ new.owned
    BY DEF NewMapping
  <2>3. new \in VMMapping
    BY <1>1, <1>2, PoolFramesType DEF NewMapping, VMMapping
  <2> HIDE DEF new
  <2>4. /\ r.vm \in AddressSpace /\ r.vm.ptable = vm.ptable \cup {new}
        /\ r.vm.stackBase = UserStackTop /\ r.vm.guard = vmNoGuard
    BY <1>1, <1>3, <2>1, <2>3 DEF AddressSpace, new
  <2>5. MappingsOK(vm) /\ FramesOf(vm) = {}
    BY <1>3, FS_EmptySet DEF MappingsOK, FramesOf
  <2>6. MappingsOK(r.vm) /\ FramesOf(r.vm) = FramesOf(vm) \cup {f}
    BY <1>3, <2>2, <2>4, <2>5, AddMapping DEF TrapMapping
  <2>7. StackOK(r.vm)
    BY <2>4, LayoutAssumption DEF StackOK
  <2>8. FramesOf(r.vm) = {f}
    BY <2>5, <2>6
  <2> QED BY <1>5, <1>7, <2>1, <2>4, <2>6, <2>7, <2>8 DEF InitReply, FreshReply, SpaceOK, r
<1> QED BY <1>6, <1>7

(* An address space after a copy from or to it: the same, or with one more *)
(* frame, free until then.                                                 *)
GrowReply(vm, u, r) ==
  /\ r.panic = "none"
  /\ MemoryOK(r.used, r.next)
  /\ SpaceOK(r.vm)
  /\ \/ FramesOf(r.vm) = FramesOf(vm) /\ r.used = u
     \/ \E f \in PoolFrames("user") \ u :
          r.used = u \cup {f} /\ FramesOf(r.vm) = FramesOf(vm) \cup {f}

(* The stack grows by the page below its base.                             *)
LEMMA StackGrows ==
  ASSUME NEW vm, SpaceOK(vm), NEW va \in Nat \ {0}, va + 1 = vm.stackBase,
         NEW f \in PoolFrames("user") \ FramesOf(vm),
         NEW w \in AddressSpace,
         w.ptable = vm.ptable \cup {NewMapping(va, f, "user", {"read", "write", "user"})},
         w.stackBase = va,
         w.guard = IF va = UserStackTop THEN vmNoGuard ELSE va - 1
  PROVE  SpaceOK(w) /\ FramesOf(w) = FramesOf(vm) \cup {f}
<1> DEFINE new == NewMapping(va, f, "user", {"read", "write", "user"})
<1>1. /\ new.va = va /\ new.frame = f /\ new.pool = "user"
      /\ new.perm = {"read", "write", "user"} /\ new.owned
  BY DEF NewMapping
<1> HIDE DEF new
<1>2. /\ vm \in AddressSpace /\ MappingsOK(vm) /\ StackOK(vm)
      /\ vm.stackBase \in 1..UserStackTop /\ UserTrapPage >= UserStackTop
      /\ UserStackTop \in Nat /\ UserTrapPage \in Nat
  BY LayoutAssumption DEF SpaceOK, StackOK
<1>3. w.ptable = vm.ptable \cup {new}
  BY DEF new
<1>4. ASSUME NEW m \in vm.ptable PROVE m.va # va /\ m.frame # f
  <2>1. TrapMapping(m) \/ StackMapping(vm, m)
    BY <1>2 DEF MappingsOK
  <2>2. m.va # va
    BY <1>2, <2>1 DEF TrapMapping, StackMapping
  <2>3. m.frame # f
    BY DEF FramesOf
  <2> QED BY <2>2, <2>3
<1>5. \A m \in vm.ptable : StackMapping(vm, m) => StackMapping(w, m)
  BY <1>2 DEF StackMapping
<1>6. StackMapping(w, new)
  BY <1>1, <1>2 DEF StackMapping
<1>7. MappingsOK(w) /\ FramesOf(w) = FramesOf(vm) \cup {f}
  BY <1>1, <1>2, <1>3, <1>4, <1>5, <1>6, AddMapping
<1>8. \A v \in w.stackBase..(UserStackTop - 1) : \E m \in w.ptable : m.va = v
  <2> SUFFICES ASSUME NEW v \in w.stackBase..(UserStackTop - 1)
               PROVE  \E m \in w.ptable : m.va = v
    OBVIOUS
  <2>1. CASE v = va
    BY <1>1, <1>3, <2>1
  <2>2. CASE v # va
    <3>1. v \in vm.stackBase..(UserStackTop - 1)
      BY <1>2, <2>2
    <3> QED BY <1>2, <1>3, <3>1 DEF StackOK
  <2> QED BY <2>1, <2>2
<1>9. StackOK(w)
  BY <1>2, <1>8 DEF StackOK
<1> QED BY <1>7, <1>9 DEF SpaceOK

LEMMA CopyPageEffect ==
  ASSUME NEW vm, SpaceOK(vm), NEW u, NEW n, MemoryOK(u, n),
         FramesOf(vm) \subseteq u, NEW va \in Nat, NEW write \in BOOLEAN
  PROVE  GrowReply(vm, u, copyPage(vm, u, n, va, write))
<1> DEFINE r == copyPage(vm, u, n, va, write)
<1>1. vm \in AddressSpace /\ vm.stackBase \in 1..UserStackTop
  BY DEF SpaceOK, StackOK
<1>2. RoomBelow(vm)
  <2>1. \A m \in vm.ptable : TrapMapping(m) \/ StackMapping(vm, m)
    BY DEF SpaceOK, MappingsOK
  <2> QED BY <1>1, <2>1, LayoutAssumption DEF RoomBelow, TrapMapping, StackMapping
<1>3. GrowthReply(vm, va, u, r)
  BY <1>1, <1>2, CopyPageTouches DEF TouchReply
<1> HIDE DEF r
<1>4. CASE r.vm = vm /\ r.used = u
  BY <1>3, <1>4 DEF GrowthReply, GrowReply, r
<1>5. ASSUME NEW f \in PoolFrames("user") \ u,
             r.used = u \cup {f}, GrownBy(vm, r.vm, va, f)
      PROVE  GrowReply(vm, u, r)
  <2>1. va \in Nat \ {0}
    BY <1>5, LayoutAssumption DEF GrownBy, UserStackFloor
  <2>2. SpaceOK(r.vm) /\ FramesOf(r.vm) = FramesOf(vm) \cup {f}
    BY <1>3, <1>5, <2>1, StackGrows DEF GrownBy, GrowthReply, StackPerms
  <2> QED BY <1>3, <1>5, <2>2 DEF GrowReply, GrowthReply
<1> QED BY <1>3, <1>4, <1>5 DEF GrowthReply, r

-----------------------------------------------------------------------------
(***************************************************************************)
(* The books.                                                              *)
(***************************************************************************)

(* Tables in which the same slots hold the same memory. *)
SameHoldings(t, e) ==
  \A s \in Slots : /\ e[s].state = "UNUSED" <=> t[s].state = "UNUSED"
                   /\ e[s].kernelStack = t[s].kernelStack
                   /\ e[s].vm = t[s].vm

LEMMA SameBooks ==
  ASSUME NEW t, NEW e, NEW u, NEW rest, SameHoldings(t, e)
  PROVE  /\ Books(t, u, rest) => Books(e, u, rest)
         /\ AllHoldingsOK(t) => AllHoldingsOK(e)
<1>1. \A s \in Slots : HeldBy(e, s) = HeldBy(t, s)
  BY DEF SameHoldings, HeldBy
<1>2. Books(t, u, rest) => Books(e, u, rest)
  BY <1>1 DEF Books
<1>3. AllHoldingsOK(t) => AllHoldingsOK(e)
  BY DEF SameHoldings, AllHoldingsOK, HoldingsOK
<1> QED BY <1>2, <1>3

LEMMA SameHoldingsTrans ==
  ASSUME NEW t, NEW e, NEW d, SameHoldings(t, e), SameHoldings(e, d)
  PROVE  SameHoldings(t, d)
  BY DEF SameHoldings

LEMMA SetStateHoldings ==
  ASSUME NEW t \in [Slots -> Process], NEW s \in Slots, t[s].state # "UNUSED",
         NEW state \in ProcStates \ {"UNUSED"}
  PROVE  SameHoldings(t, SetState(t, s, state))
  BY DEF SameHoldings, SetState, Process

LEMMA ExitHoldings ==
  ASSUME NEW t \in [Slots -> Process], NEW s \in Slots, t[s].state # "UNUSED",
         NEW status \in Int
  PROVE  SameHoldings(t, processExit(t, s, status))
<1> DEFINE dead   == [t EXCEPT ![s].exitStatus = status, ![s].state = "ZOMBIE"]
           parent == findProcByPID(dead, t[s].parentPID)
<1>1. processExit(t, s, status) =
        IF /\ t[s].parentPID # 0
           /\ parent # NoProc
           /\ dead[parent].state = "SLEEPING"
        THEN SetState(dead, parent, "RUNNABLE") ELSE dead
  BY DEF processExit
<1>2. dead \in [Slots -> Process]
  BY DEF Process, ProcStates
<1>3. SameHoldings(t, dead)
  BY DEF SameHoldings, Process
<1>4. t[s].parentPID \in Nat
  BY DEF Process
<1> HIDE DEF dead
<1>5. parent # NoProc => parent \in Slots /\ dead[parent].state # "UNUSED"
  BY <1>2, <1>4, FindByPid
<1> HIDE DEF parent
<1>6. parent # NoProc => SameHoldings(dead, SetState(dead, parent, "RUNNABLE"))
  BY <1>2, <1>5, SetStateHoldings DEF ProcStates
<1> QED BY <1>1, <1>3, <1>6, SameHoldingsTrans

LEMMA ExitTableType ==
  ASSUME NEW t \in [Slots -> Process], NEW s \in Slots, NEW status \in Int
  PROVE  processExit(t, s, status) \in [Slots -> Process]
<1> DEFINE dead   == [t EXCEPT ![s].exitStatus = status, ![s].state = "ZOMBIE"]
           parent == findProcByPID(dead, t[s].parentPID)
<1>1. processExit(t, s, status) =
        IF /\ t[s].parentPID # 0
           /\ parent # NoProc
           /\ dead[parent].state = "SLEEPING"
        THEN SetState(dead, parent, "RUNNABLE") ELSE dead
  BY DEF processExit
<1>2. dead \in [Slots -> Process]
  BY DEF Process, ProcStates
<1>3. t[s].parentPID \in Nat
  BY DEF Process
<1> HIDE DEF dead
<1>4. parent # NoProc => parent \in Slots
  BY <1>2, <1>3, FindByPid
<1> HIDE DEF parent
<1>5. parent # NoProc => SetState(dead, parent, "RUNNABLE") \in [Slots -> Process]
  BY <1>2, <1>4 DEF SetState, Process, ProcStates
<1> QED BY <1>1, <1>2, <1>5

(* Frames that were free go to one slot. *)
LEMMA BooksGrow ==
  ASSUME NEW t, NEW e, NEW u \in SUBSET Frames, NEW rest \in SUBSET Frames,
         Books(t, u, rest), NEW s \in Slots, NEW more \in SUBSET (Frames \ u),
         \A r \in Slots \ {s} : e[r] = t[r],
         HeldBy(e, s) = HeldBy(t, s) \cup more
  PROVE  Books(e, u \cup more, rest)
<1>1. \A r \in Slots \ {s} : HeldBy(e, r) = HeldBy(t, r)
  BY DEF HeldBy
<1>2. \A r \in Slots : HeldBy(t, r) \cap more = {}
  BY DEF Books
<1>3. rest \cap more = {}
  BY DEF Books
<1>4. \A f \in Frames : f \in u \cup more
                          <=> f \in rest \/ \E r \in Slots : f \in HeldBy(e, r)
  BY <1>1 DEF Books
<1>5. \A r \in Slots : HeldBy(e, r) \cap rest = {}
  BY <1>1, <1>3 DEF Books
<1>6. ASSUME NEW q \in Slots, NEW r \in Slots, q # r
      PROVE  HeldBy(e, q) \cap HeldBy(e, r) = {}
  BY <1>1, <1>2, <1>6 DEF Books
<1> QED BY <1>4, <1>5, <1>6 DEF Books

(* The frames of one slot become free. *)
LEMMA BooksShrink ==
  ASSUME NEW t, NEW e, NEW u \in SUBSET Frames, NEW rest \in SUBSET Frames,
         Books(t, u, rest), NEW s \in Slots,
         \A r \in Slots \ {s} : e[r] = t[r], e[s].state = "UNUSED"
  PROVE  Books(e, u \ HeldBy(t, s), rest)
<1>1. \A r \in Slots \ {s} : HeldBy(e, r) = HeldBy(t, r)
  BY DEF HeldBy
<1>2. HeldBy(e, s) = {}
  BY DEF HeldBy
<1>3. ASSUME NEW f \in Frames
      PROVE  f \in u \ HeldBy(t, s) <=> f \in rest \/ \E r \in Slots : f \in HeldBy(e, r)
  <2>1. f \in u <=> f \in rest \/ \E r \in Slots : f \in HeldBy(t, r)
    BY DEF Books
  <2>2. f \in rest => f \notin HeldBy(t, s)
    BY DEF Books
  <2>3. \A r \in Slots \ {s} : f \in HeldBy(t, r) => f \notin HeldBy(t, s)
    BY DEF Books
  <2> QED BY <1>1, <1>2, <2>1, <2>2, <2>3
<1>4. \A r \in Slots : HeldBy(e, r) \cap rest = {}
  BY <1>1, <1>2 DEF Books
<1>5. ASSUME NEW q \in Slots, NEW r \in Slots, q # r
      PROVE  HeldBy(e, q) \cap HeldBy(e, r) = {}
  BY <1>1, <1>2, <1>5 DEF Books
<1> QED BY <1>3, <1>4, <1>5 DEF Books

(* What the processes hold and what the bitmap says, while the kernel runs *)
(* and the frames of rest belong to others.                                *)
MemoryInv(rest) ==
  /\ Inv /\ KernelRuns
  /\ InitialUsed \subseteq rest
  /\ AllHoldingsOK(processTable)
  /\ Books(processTable, used, rest)

(* What allocProcess returns: the books still agree, or there are no pids. *)
AllocReply(a, rest) ==
  /\ AllHoldingsOK(a.table)
  /\ \/ a.panic = "none" /\ Books(a.table, a.used, rest)
     \/ a.panic = "pid space exhausted"

LEMMA ReturnedStackReply ==
  ASSUME NEW rest, NEW table, NEW freed, AllHoldingsOK(table),
         freed.ok, Books(table, freed.used, rest)
  PROVE  AllocReply(StackReturned(table, freed), rest)
<1> DEFINE a == StackReturned(table, freed)
<1>1. a = [slot |-> NoProc, table |-> table, pid |-> nextPID,
           used |-> freed.used, next |-> freed.next, panic |-> "none"]
  BY DEF StackReturned
<1> HIDE DEF a
<1>2. a.table = table /\ a.used = freed.used /\ a.panic = "none"
  BY <1>1
<1>3. AllocReply(a, rest)
  BY <1>2 DEF AllocReply
<1> QED BY <1>3 DEF a

(* The second half of allocProcess, with a kernel stack just taken. *)
LEMMA FillSlotMemory ==
  ASSUME NEW rest \in SUBSET Frames, MemoryInv(rest),
         NEW slot \in Slots, processTable[slot].state = "UNUSED",
         NEW entry, NEW parentPID, NEW n,
         NEW stack \in PoolFrames("kernel") \ used,
         NEW space, MemoryOK(used \cup {stack}, n), InitReply(used \cup {stack}, space)
  PROVE  AllocReply(FillSlot(slot, entry, parentPID, stack, space), rest)
<1> DEFINE a == FillSlot(slot, entry, parentPID, stack, space)
<1>1. /\ processTable \in [Slots -> Process] /\ used \in SUBSET Frames
      /\ InitialUsed \subseteq used /\ AllHoldingsOK(processTable)
      /\ Books(processTable, used, rest) /\ stack \in Frames
  BY PoolFramesType DEF MemoryInv, Inv, TypeOK, Pools
<1>2. space.panic = "none"
  BY DEF InitReply
<1>3. HeldBy(processTable, slot) = {}
  BY DEF HeldBy
<1>4. CASE ~space.ok
  <2> DEFINE table == [processTable EXCEPT ![slot] = ZeroProcess]
             freed == freePageInPool(used \cup {stack}, space.next, stack, "kernel")
  <2>1. space.used = used \cup {stack} /\ space.next \in [Pools -> Nat]
    BY <1>4 DEF InitReply, MemoryOK
  <2>2. a = StackReturned(table, freed)
    BY <1>2, <1>4, <2>1 DEF FillSlot
  <2>3. freed.ok /\ freed.used = used
    <3>1. MemoryOK(used, n) /\ "kernel" \in Pools
      BY <1>1 DEF MemoryOK, Pools
    <3> QED BY <2>1, <3>1, FreeUndoes
  <2> HIDE DEF freed, a
  <2>4. /\ \A r \in Slots \ {slot} : table[r] = processTable[r]
        /\ table[slot].state = "UNUSED"
    BY <1>1, ZeroProcessType
  <2> HIDE DEF table
  <2>5. Books(table, used \ HeldBy(processTable, slot), rest)
    BY <1>1, <2>4, BooksShrink
  <2>6. Books(table, freed.used, rest)
    <3>1. used \ HeldBy(processTable, slot) = freed.used
      BY <1>3, <2>3
    <3> QED BY <2>5, <3>1
  <2>7. AllHoldingsOK(table)
    BY <1>1, <2>4 DEF AllHoldingsOK
  <2> QED BY <2>2, <2>3, <2>6, <2>7, ReturnedStackReply DEF a
<1>5. CASE space.ok
  <2> DEFINE new   == [ZeroProcess EXCEPT
                         !.state = "RUNNABLE", !.pid = nextPID,
                         !.parentPID = parentPID, !.entry = entry,
                         !.kernelStack = stack, !.vm = space.vm]
             table == [processTable EXCEPT ![slot] = new]
  <2>1. a = [slot |-> slot, table |-> table, pid |-> nextPID + 1,
             used |-> space.used, next |-> space.next, panic |-> "none"]
    BY <1>2, <1>5 DEF FillSlot
  <2>2. new.state = "RUNNABLE" /\ new.kernelStack = stack /\ new.vm = space.vm
    BY DEF ZeroProcess
  <2>3. PICK f \in PoolFrames("kernel") \ (used \cup {stack}) :
          space.used = (used \cup {stack}) \cup {f} /\ FramesOf(space.vm) = {f}
    BY <1>5 DEF InitReply
  <2>4. SpaceOK(space.vm)
    BY <1>5 DEF InitReply
  <2> HIDE DEF new
  <2>5. HoldingsOK(new)
    BY <2>2, <2>3, <2>4 DEF HoldingsOK
  <2>6. table[slot] = new /\ \A r \in Slots \ {slot} : table[r] = processTable[r]
    BY <1>1
  <2> HIDE DEF table, a
  <2>7. HeldBy(table, slot) = {stack, f}
    BY <2>2, <2>3, <2>6 DEF HeldBy
  <2>8. {stack, f} \in SUBSET (Frames \ used)
    BY <1>1, <2>3, PoolFramesType DEF Pools
  <2>9. Books(table, used \cup {stack, f}, rest)
    BY <1>1, <1>3, <2>6, <2>7, <2>8, BooksGrow
  <2>10. space.used = used \cup {stack, f}
    BY <2>3
  <2>11. AllHoldingsOK(table)
    BY <1>1, <2>5, <2>6 DEF AllHoldingsOK
  <2>12. a.table = table /\ a.used = space.used /\ a.panic = "none"
    BY <2>1
  <2>13. Books(a.table, a.used, rest)
    BY <2>9, <2>10, <2>12
  <2>14. AllHoldingsOK(a.table)
    BY <2>11, <2>12
  <2>15. AllocReply(a, rest)
    BY <2>12, <2>13, <2>14 DEF AllocReply
  <2> QED BY <2>15 DEF a
<1> QED BY <1>4, <1>5

LEMMA AllocProcessMemory ==
  ASSUME NEW rest \in SUBSET Frames, MemoryInv(rest), NEW entry, NEW parentPID
  PROVE  AllocReply(allocProcess(entry, parentPID), rest)
<1> DEFINE kstack == allocContigFromPool(used, nextFree, "kernel", 1)
           free   == {s \in Slots : processTable[s].state = "UNUSED"}
           slot   == FirstSlot(free)
           freed  == freePageInPool(kstack.used, kstack.next, kstack.frame, "kernel")
           space  == vmInitProcess(kstack.used, kstack.next)
           a      == allocProcess(entry, parentPID)
<1>1. MemoryOK(used, nextFree) /\ AllHoldingsOK(processTable)
      /\ Books(processTable, used, rest)
  BY InvMemory DEF MemoryInv
<1>2. ContigReply(used, "kernel", 1, kstack)
  BY <1>1, AllocContigEffect DEF MemoryOK, Pools
<1>3. a = IF kstack.frame = NoFrame
          THEN NoProcess(kstack.used, kstack.next, "none")
          ELSE IF slot = NoProc
          THEN StackReturned(processTable, freed)
          ELSE IF nextPID = PidLimit
          THEN NoProcess(kstack.used, kstack.next, "pid space exhausted")
          ELSE FillSlot(slot, entry, parentPID, kstack.frame, space)
  BY DEF allocProcess, WithStack
<1>4. slot # NoProc => slot \in Slots /\ processTable[slot].state = "UNUSED"
  <2>1. free \in SUBSET Nat
    BY ProcessAssumption DEF Slots
  <2>2. free # {} => Min(free) \in free
    BY <2>1, MinNat
  <2> QED BY <2>2 DEF FirstSlot
<1> HIDE DEF kstack, slot
<1>5. CASE kstack.frame = NoFrame
  <2> DEFINE none == NoProcess(kstack.used, kstack.next, "none")
  <2>1. kstack.used = used
    <3>1. NoFrame \notin PoolFrames("kernel")
      BY PoolFramesType DEF NoFrame, Frames, Pools
    <3> QED BY <1>2, <1>5, <3>1 DEF ContigReply
  <2>2. none.table = processTable /\ none.used = kstack.used /\ none.panic = "none"
    BY DEF NoProcess
  <2>3. a = none
    BY <1>3, <1>5
  <2> HIDE DEF none, a
  <2>4. AllocReply(a, rest)
    BY <1>1, <2>1, <2>2, <2>3 DEF AllocReply
  <2> QED BY <2>4 DEF a
<1>6. CASE kstack.frame # NoFrame
  <2>1. /\ kstack.frame \in PoolFrames("kernel") \ used
        /\ kstack.used = used \cup {kstack.frame}
        /\ kstack.next \in [Pools -> Nat]
    <3>1. /\ kstack.frame \in PoolFrames("kernel")
          /\ kstack.frame..(kstack.frame + 1 - 1) \subseteq PoolFrames("kernel") \ used
          /\ kstack.used = used \cup kstack.frame..(kstack.frame + 1 - 1)
          /\ kstack.next \in [Pools -> Nat]
      BY <1>2, <1>6 DEF ContigReply
    <3>2. kstack.frame \in Int
      BY <3>1, PoolFramesType, FrameCountAssumption DEF Frames, Pools
    <3>3. kstack.frame..(kstack.frame + 1 - 1) = {kstack.frame}
      BY <3>2
    <3> QED BY <3>1, <3>3
  <2>2. CASE slot = NoProc
    <3>1. freed.ok /\ freed.used = used
      <4>1. "kernel" \in Pools
        BY DEF Pools
      <4> QED BY <1>1, <2>1, <4>1, FreeUndoes
    <3>2. a = StackReturned(processTable, freed)
      BY <1>3, <1>6, <2>2
    <3> HIDE DEF freed, a
    <3>3. AllocReply(a, rest)
      BY <1>1, <3>1, <3>2, ReturnedStackReply
    <3> QED BY <3>3 DEF a
  <2>3. CASE slot # NoProc /\ nextPID = PidLimit
    <3> DEFINE none == NoProcess(kstack.used, kstack.next, "pid space exhausted")
    <3>1. none.table = processTable /\ none.panic = "pid space exhausted"
      BY DEF NoProcess
    <3>2. a = none
      BY <1>3, <1>6, <2>3
    <3> HIDE DEF none, a
    <3>3. AllocReply(a, rest)
      BY <1>1, <3>1, <3>2 DEF AllocReply
    <3> QED BY <3>3 DEF a
  <2>4. CASE slot # NoProc /\ nextPID # PidLimit
    <3>1. MemoryOK(used \cup {kstack.frame}, kstack.next)
      BY <1>1, <2>1, PoolFramesType DEF MemoryOK, Pools
    <3>2. InitReply(used \cup {kstack.frame}, space)
      BY <2>1, <3>1, InitProcessEffect
    <3>3. a = FillSlot(slot, entry, parentPID, kstack.frame, space)
      BY <1>3, <1>6, <2>4
    <3> HIDE DEF space, a
    <3>4. AllocReply(a, rest)
      BY <1>4, <2>1, <2>4, <3>1, <3>2, <3>3, FillSlotMemory
    <3> QED BY <3>4 DEF a
  <2> QED BY <2>2, <2>3, <2>4
<1> QED BY <1>5, <1>6

-----------------------------------------------------------------------------
(***************************************************************************)
(* Releasing a process.                                                    *)
(***************************************************************************)

(* releaseProcess gives back exactly what the process holds, without panic.*)
LEMMA ReleaseEffect ==
  ASSUME NEW rest \in SUBSET Frames, MemoryInv(rest), NEW s \in Slots,
         processTable[s].state # "UNUSED", releaseProcess(s)
  PROVE  panic' = "none" /\ used' = used \ HeldBy(processTable, s)
<1> DEFINE vm     == processTable[s].vm
           stack  == processTable[s].kernelStack
           ms     == {m \in vm.ptable : m.owned}
           space  == FreeAll(used, nextFree, ms)
           kstack == freePageInPool(space.used, space.next, stack, "kernel")
<1>1. /\ used' = kstack.used
      /\ panic' = IF ~space.ok THEN "failed to free mapped page"
                  ELSE IF ~kstack.ok THEN "failed to free kernel stack page"
                  ELSE "none"
  BY DEF releaseProcess, ReleaseStack, Released, vmReleaseProcess
<1>2. HoldingsOK(processTable[s])
  BY DEF MemoryInv, AllHoldingsOK
<1>3. HeldBy(processTable, s) = {stack} \cup FramesOf(vm)
  BY DEF HeldBy
<1>4. HeldBy(processTable, s) \subseteq Frames
  <2>1. \A m \in vm.ptable : m.pool \in Pools /\ m.frame \in PoolFrames(m.pool)
    BY <1>2 DEF HoldingsOK, SpaceOK, AddressSpace, VMMapping, MappingsOK
  <2>2. stack \in PoolFrames("kernel")
    BY <1>2 DEF HoldingsOK
  <2> QED BY <1>3, <2>1, <2>2, PoolFramesType DEF FramesOf, Pools
<1>5. HeldBy(processTable, s) \subseteq used /\ HeldBy(processTable, s) \cap InitialUsed = {}
  BY <1>4 DEF MemoryInv, Books
<1>6. ms = vm.ptable
  BY <1>2 DEF HoldingsOK, SpaceOK, MappingsOK
<1>7. used \in SUBSET Frames /\ InitialUsed \subseteq used /\ nextFree \in [Pools -> Nat]
  BY DEF MemoryInv, Inv, TypeOK
<1>8. ms \in SUBSET VMMapping
  BY <1>2, <1>6 DEF HoldingsOK, SpaceOK, AddressSpace
<1> HIDE DEF ms, vm, stack
<1>9. space.ok /\ space.used = used \ FramesOf(vm) /\ space.next \in [Pools -> Nat]
  <2>1. \A m \in ms : Freeable(used, m.frame, m.pool)
    <3> SUFFICES ASSUME NEW m \in ms PROVE Freeable(used, m.frame, m.pool)
      OBVIOUS
    <3>1. m.pool \in Pools /\ m.frame \in PoolFrames(m.pool)
      BY <1>2, <1>6, <1>8 DEF HoldingsOK, SpaceOK, MappingsOK, VMMapping, vm
    <3>2. m.frame \in used /\ m.frame \notin InitialUsed
      BY <1>3, <1>5, <1>6 DEF FramesOf
    <3> QED BY <3>1, <3>2, HeldIsFreeable
  <2>2. \A m1, m2 \in ms : m1.frame = m2.frame => m1 = m2
    BY <1>2, <1>6 DEF HoldingsOK, SpaceOK, MappingsOK, vm
  <2>3. space.next \in [Pools -> Nat]
    BY <1>7, <1>8, FreeAllTypes
  <2>4. space.ok
    BY <2>1, <2>2 DEF FreeAll
  <2>5. space.used = used \ {m.frame : m \in ms}
    BY DEF FreeAll
  <2> QED BY <1>6, <2>3, <2>4, <2>5 DEF FramesOf
<1> HIDE DEF space
<1>10. Freeable(space.used, stack, "kernel")
  <2>1. stack \in PoolFrames("kernel") /\ stack \notin FramesOf(vm)
    BY <1>2 DEF HoldingsOK, stack, vm
  <2> QED BY <1>3, <1>5, <1>9, <2>1, HeldIsFreeable DEF Pools
<1>11. kstack.ok /\ kstack.used = space.used \ {stack}
  BY <1>10 DEF freePageInPool
<1> HIDE DEF kstack
<1> QED BY <1>1, <1>3, <1>9, <1>11

-----------------------------------------------------------------------------
(***************************************************************************)
(* The pages of the processes: the actions.                                *)
(***************************************************************************)

(* The step keeps the books, or stops the kernel for want of a pid. *)
MemoryKept(rest) ==
  /\ AllHoldingsOK(processTable')
  /\ \/ panic' = "none" /\ Books(processTable', used', rest)
     \/ panic' = "pid space exhausted"

LEMMA SameHoldingsKept ==
  ASSUME NEW rest, MemoryInv(rest), SameHoldings(processTable, processTable'),
         UNCHANGED memVars
  PROVE  MemoryKept(rest)
<1>1. used' = used /\ panic' = "none"
  BY DEF MemoryInv, KernelRuns, memVars
<1>2. Books(processTable', used, rest) /\ AllHoldingsOK(processTable')
  BY SameBooks DEF MemoryInv
<1> QED BY <1>1, <1>2 DEF MemoryKept

LEMMA TableKept ==
  ASSUME NEW rest, MemoryInv(rest), UNCHANGED <<processTable, memVars>>
  PROVE  MemoryKept(rest)
<1>1. SameHoldings(processTable, processTable')
  BY DEF SameHoldings
<1> QED BY <1>1, SameHoldingsKept

LEMMA CommitMemory ==
  ASSUME NEW rest \in SUBSET Frames, MemoryInv(rest), NEW entry, NEW parentPID,
         Commit(allocProcess(entry, parentPID))
  PROVE  MemoryKept(rest)
<1> DEFINE a == allocProcess(entry, parentPID)
<1>1. AllocReply(a, rest)
  BY AllocProcessMemory
<1>2. processTable' = a.table /\ used' = a.used /\ panic' = a.panic
  BY DEF Commit
<1> HIDE DEF a
<1> QED BY <1>1, <1>2 DEF AllocReply, MemoryKept

(* However a process leaves the processor, it keeps its memory. *)
LEMMA UnwindMemory ==
  ASSUME NEW rest, MemoryInv(rest), ProcessRuns,
         NEW t \in [Slots -> Process], SameHoldings(processTable, t),
         t[currentProc].state # "UNUSED",
         NEW signal \in {"yield", "preempt", "exit", "return"},
         NEW status \in Int, Unwind(t, signal, status)
  PROVE  MemoryKept(rest)
<1> DEFINE after == AfterSignal(t, currentProc, signal, status)
<1>1. currentProc \in Slots
  BY DEF MemoryInv, Inv, TypeOK, ProcessRuns
<1>2. after \in [Slots -> Process] /\ SameHoldings(t, after)
  <2>1. SameHoldings(t, t)
    BY DEF SameHoldings
  <2>2. CASE signal \in {"yield", "preempt"}
    <3>1. after = IF t[currentProc].state = "RUNNING"
                  THEN SetState(t, currentProc, "RUNNABLE") ELSE t
      BY <2>2 DEF AfterSignal
    <3>2. SetState(t, currentProc, "RUNNABLE") \in [Slots -> Process]
      BY <1>1 DEF SetState, Process, ProcStates
    <3>3. SameHoldings(t, SetState(t, currentProc, "RUNNABLE"))
      BY <1>1, SetStateHoldings DEF ProcStates
    <3> HIDE DEF after
    <3> QED BY <2>1, <3>1, <3>2, <3>3
  <2>3. CASE signal = "exit"
    <3>1. after = processExit(t, currentProc, status)
      BY <2>3 DEF AfterSignal
    <3>2. processExit(t, currentProc, status) \in [Slots -> Process]
      BY <1>1, ExitTableType
    <3>3. SameHoldings(t, processExit(t, currentProc, status))
      BY <1>1, ExitHoldings
    <3> HIDE DEF after
    <3> QED BY <3>1, <3>2, <3>3
  <2>4. CASE signal = "return"
    <3>1. after = t
      BY <2>4 DEF AfterSignal
    <3> HIDE DEF after
    <3> QED BY <2>1, <3>1
  <2> QED BY <2>2, <2>3, <2>4
<1> DEFINE exit  == processExit(after, currentProc, 0)
           final == IF after[currentProc].state = "RUNNING" THEN exit ELSE after
<1>3. processTable' = final /\ UNCHANGED memVars
  BY DEF Unwind
<1> HIDE DEF after
<1>4. after[currentProc].state # "UNUSED"
  BY <1>1, <1>2 DEF SameHoldings
<1>5. SameHoldings(after, exit) /\ SameHoldings(processTable, after)
  BY <1>1, <1>2, <1>4, ExitHoldings, SameHoldingsTrans
<1> HIDE DEF exit
<1>6. SameHoldings(processTable, final)
  BY <1>5, SameHoldingsTrans
<1> QED BY <1>3, <1>6, SameHoldingsKept

LEMMA SetStateTable ==
  ASSUME Inv, NEW s \in Slots, processTable[s].state # "UNUSED",
         NEW state \in ProcStates \ {"UNUSED"}
  PROVE  /\ SetState(processTable, s, state) \in [Slots -> Process]
         /\ SameHoldings(processTable, SetState(processTable, s, state))
         /\ SetState(processTable, s, state)[s].state # "UNUSED"
<1>1. processTable \in [Slots -> Process]
  BY DEF Inv, TypeOK
<1>2. SetState(processTable, s, state) \in [Slots -> Process]
      /\ SetState(processTable, s, state)[s].state = state
  BY <1>1 DEF SetState, Process
<1> QED BY <1>1, <1>2, SetStateHoldings

LEMMA WaitMemory ==
  ASSUME NEW rest \in SUBSET Frames, MemoryInv(rest), sysWait
  PROVE  MemoryKept(rest)
<1>1. ProcessRuns /\ Inv
  BY DEF sysWait, MemoryInv
<1>2. /\ currentProc \in Slots /\ processTable \in [Slots -> Process]
      /\ processTable[currentProc].state # "UNUSED" /\ used \in SUBSET Frames
  BY <1>1, CurrentRuns DEF Inv, TypeOK
<1>3. CASE /\ ZombieChildren # {}
           /\ releaseProcess(FirstSlot(ZombieChildren))
  <2> DEFINE z == FirstSlot(ZombieChildren)
  <2>1. z \in ZombieChildren
    <3>1. ZombieChildren \in SUBSET Nat
      BY ProcessAssumption DEF ZombieChildren, Children, Slots
    <3> QED BY <1>3, <3>1, MinNat DEF FirstSlot
  <2>2. z \in Slots /\ processTable[z].state # "UNUSED"
    BY <2>1 DEF ZombieChildren, Children
  <2>3. processTable' = [processTable EXCEPT ![z] = ZeroProcess]
    BY <1>3 DEF releaseProcess, ReleaseStack, Released
  <2>4. panic' = "none" /\ used' = used \ HeldBy(processTable, z)
    BY <1>3, <2>2, ReleaseEffect
  <2> HIDE DEF z
  <2>5. /\ \A r \in Slots \ {z} : processTable'[r] = processTable[r]
        /\ processTable'[z].state = "UNUSED"
    BY <1>2, <2>2, <2>3, ZeroProcessType
  <2>6. Books(processTable', used', rest)
    BY <1>2, <2>2, <2>4, <2>5, BooksShrink DEF MemoryInv
  <2>7. AllHoldingsOK(processTable')
    BY <2>5 DEF MemoryInv, AllHoldingsOK
  <2> QED BY <2>4, <2>6, <2>7 DEF MemoryKept
<1>4. CASE UNCHANGED vars
  BY <1>4, TableKept DEF vars, procVars
<1>5. CASE Unwind(SetState(processTable, currentProc, "SLEEPING"), "yield", 0)
  <2> DEFINE t == SetState(processTable, currentProc, "SLEEPING")
  <2>1. /\ t \in [Slots -> Process] /\ SameHoldings(processTable, t)
        /\ t[currentProc].state # "UNUSED"
    BY <1>1, <1>2, SetStateTable DEF ProcStates
  <2> HIDE DEF t
  <2> QED BY <1>1, <1>5, <2>1, UnwindMemory DEF t
<1> QED BY <1>3, <1>4, <1>5 DEF sysWait

LEMMA KillMemory ==
  ASSUME NEW rest \in SUBSET Frames, MemoryInv(rest), NEW pid \in 1..PidLimit,
         sysKill(pid)
  PROVE  MemoryKept(rest)
<1> DEFINE target == findProcByPID(processTable, pid)
<1>1. ProcessRuns /\ Inv
  BY DEF sysKill, MemoryInv
<1>2. /\ currentProc \in Slots /\ processTable \in [Slots -> Process]
      /\ processTable[currentProc].state # "UNUSED"
  BY <1>1, CurrentRuns DEF Inv, TypeOK
<1>3. SameHoldings(processTable, processTable)
  BY DEF SameHoldings
<1>4. CASE UNCHANGED vars
  BY <1>4, TableKept DEF vars, procVars
<1>5. CASE Unwind(processTable, "exit", -1)
  BY <1>1, <1>2, <1>3, <1>5, UnwindMemory
<1>6. CASE /\ target # NoProc
           /\ processTable' = processExit(processTable, target, -1)
           /\ UNCHANGED <<nextPID, schedVars, memVars>>
  <2>1. target \in Slots /\ processTable[target].state # "UNUSED"
    BY <1>2, <1>6, FindByPid, ProcessAssumption
  <2> HIDE DEF target
  <2>2. SameHoldings(processTable, processTable')
    BY <1>2, <1>6, <2>1, ExitHoldings
  <2> QED BY <1>6, <2>2, SameHoldingsKept
<1> QED BY <1>4, <1>5, <1>6 DEF sysKill

LEMMA TimerMemory ==
  ASSUME NEW rest \in SUBSET Frames, MemoryInv(rest), timerInterrupt
  PROVE  MemoryKept(rest)
<1> DEFINE t == SetState(processTable, currentProc, "RUNNABLE")
<1>1. ProcessRuns /\ Inv
  BY DEF timerInterrupt, MemoryInv
<1>2. /\ currentProc \in Slots /\ processTable[currentProc].state # "UNUSED"
      /\ Self.state = "RUNNING"
  BY <1>1, CurrentRuns
<1>3. /\ t \in [Slots -> Process] /\ SameHoldings(processTable, t)
      /\ t[currentProc].state # "UNUSED"
  BY <1>1, <1>2, SetStateTable DEF ProcStates
<1>4. Unwind(t, "preempt", 0) \/ (processTable' = t /\ UNCHANGED memVars)
  BY <1>2 DEF timerInterrupt
<1> HIDE DEF t
<1> QED BY <1>1, <1>3, <1>4, UnwindMemory, SameHoldingsKept

LEMMA YieldMemory ==
  ASSUME NEW rest \in SUBSET Frames, MemoryInv(rest), sysYield
  PROVE  MemoryKept(rest)
<1> DEFINE t == SetState(processTable, currentProc, "RUNNABLE")
<1>1. ProcessRuns /\ Inv
  BY DEF sysYield, MemoryInv
<1>2. /\ currentProc \in Slots /\ processTable[currentProc].state # "UNUSED"
      /\ Self.state = "RUNNING"
  BY <1>1, CurrentRuns
<1>3. /\ t \in [Slots -> Process] /\ SameHoldings(processTable, t)
      /\ t[currentProc].state # "UNUSED"
  BY <1>1, <1>2, SetStateTable DEF ProcStates
<1>4. Unwind(t, "yield", 0)
  BY <1>2 DEF sysYield
<1> HIDE DEF t
<1> QED BY <1>1, <1>3, <1>4, UnwindMemory

(* Entry functions that return, and processes that exit. *)
LEMMA LeaveMemory ==
  ASSUME NEW rest \in SUBSET Frames, MemoryInv(rest), ProcessRuns,
         NEW signal \in {"exit", "return"}, NEW status \in Int,
         Unwind(processTable, signal, status)
  PROVE  MemoryKept(rest)
<1>1. SameHoldings(processTable, processTable)
  BY DEF SameHoldings
<1>2. /\ processTable \in [Slots -> Process]
      /\ processTable[currentProc].state # "UNUSED"
  BY CurrentRuns DEF MemoryInv, Inv, TypeOK
<1> QED BY <1>1, <1>2, UnwindMemory

LEMMA SwitchMemory ==
  ASSUME NEW rest \in SUBSET Frames, MemoryInv(rest), switchToProcess
  PROVE  MemoryKept(rest)
<1>1. pickNextRunnable \in Slots
      /\ processTable[pickNextRunnable].state = "RUNNABLE"
  BY PickType DEF switchToProcess, MemoryInv
<1>2. processTable' = SetState(processTable, pickNextRunnable, "RUNNING")
      /\ UNCHANGED memVars
  BY DEF switchToProcess
<1>3. SameHoldings(processTable, processTable')
  BY <1>1, <1>2, SetStateTable DEF MemoryInv, ProcStates
<1> QED BY <1>2, <1>3, SameHoldingsKept

LEMMA CopyMemory ==
  ASSUME NEW rest \in SUBSET Frames, MemoryInv(rest), NEW va \in UserPages,
         NEW write \in BOOLEAN, userCopy(va, write)
  PROVE  MemoryKept(rest)
<1> DEFINE copy == copyPage(Self.vm, used, nextFree, va, write)
           vm   == processTable[currentProc].vm
<1>1. ProcessRuns /\ Inv /\ Copied(copy)
  BY DEF userCopy, MemoryInv
<1>2. /\ currentProc \in Slots /\ Self = processTable[currentProc]
      /\ processTable \in [Slots -> Process] /\ used \in SUBSET Frames
      /\ processTable[currentProc].state # "UNUSED" /\ va \in Nat
  BY <1>1, CurrentRuns, ProcessAssumption DEF Inv, TypeOK
<1>3. HoldingsOK(processTable[currentProc]) /\ AllHoldingsOK(processTable)
      /\ Books(processTable, used, rest)
  BY <1>2 DEF MemoryInv, AllHoldingsOK
<1>4. SpaceOK(vm) /\ MemoryOK(used, nextFree)
  BY <1>1, <1>3, InvMemory DEF HoldingsOK, MemoryInv
<1>5. FramesOf(vm) \subseteq used
  <2>1. FramesOf(vm) \subseteq Frames
    <3>1. \A m \in vm.ptable : m.pool \in Pools /\ m.frame \in PoolFrames(m.pool)
      BY <1>4 DEF SpaceOK, AddressSpace, VMMapping, MappingsOK
    <3> QED BY <3>1, PoolFramesType DEF FramesOf
  <2>2. FramesOf(vm) \subseteq HeldBy(processTable, currentProc)
    BY <1>2 DEF HeldBy
  <2> QED BY <1>2, <1>3, <2>1, <2>2 DEF Books
<1>6. GrowReply(vm, used, copy)
  BY <1>2, <1>4, <1>5, CopyPageEffect
<1>7. copy \in SpaceReplies
  BY <1>2, <1>4, CopyPageType DEF SpaceOK
<1> HIDE DEF copy
<1>8. /\ processTable' = [processTable EXCEPT
                           ![currentProc].vm = copy.vm,
                           ![currentProc].faulted = @ \/ ~copy.ok]
      /\ used' = copy.used /\ panic' = copy.panic
  BY <1>1 DEF Copied
<1>9. /\ processTable'[currentProc].vm = copy.vm
      /\ processTable'[currentProc].state = processTable[currentProc].state
      /\ processTable'[currentProc].kernelStack = processTable[currentProc].kernelStack
      /\ \A r \in Slots \ {currentProc} : processTable'[r] = processTable[r]
  BY <1>2, <1>8 DEF Process
<1>10. panic' = "none" /\ SpaceOK(copy.vm)
  BY <1>6, <1>8 DEF GrowReply
<1>11. PICK more \in SUBSET (PoolFrames("user") \ used) :
         copy.used = used \cup more /\ FramesOf(copy.vm) = FramesOf(vm) \cup more
  <2>1. CASE FramesOf(copy.vm) = FramesOf(vm) /\ copy.used = used
    <3>1. {} \in SUBSET (PoolFrames("user") \ used) /\ copy.used = used \cup {}
          /\ FramesOf(copy.vm) = FramesOf(vm) \cup {}
      BY <2>1
    <3> QED BY <3>1
  <2>2. CASE \E f \in PoolFrames("user") \ used :
               copy.used = used \cup {f} /\ FramesOf(copy.vm) = FramesOf(vm) \cup {f}
    <3>1. PICK f \in PoolFrames("user") \ used :
            copy.used = used \cup {f} /\ FramesOf(copy.vm) = FramesOf(vm) \cup {f}
      BY <2>2
    <3>2. {f} \in SUBSET (PoolFrames("user") \ used)
      OBVIOUS
    <3> QED BY <3>1, <3>2
  <2> QED BY <1>6, <2>1, <2>2 DEF GrowReply
<1>12. more \in SUBSET (Frames \ used)
  BY <1>11, PoolFramesType DEF Pools
<1>13. HeldBy(processTable', currentProc) = HeldBy(processTable, currentProc) \cup more
  BY <1>2, <1>9, <1>11 DEF HeldBy
<1>14. Books(processTable', used', rest)
  <2>1. Books(processTable', used \cup more, rest)
    BY <1>2, <1>3, <1>9, <1>12, <1>13, BooksGrow
  <2> QED BY <1>8, <1>11, <2>1
<1>15. HoldingsOK(processTable'[currentProc])
  <2>1. /\ processTable[currentProc].kernelStack \in PoolFrames("kernel")
        /\ processTable[currentProc].kernelStack \notin FramesOf(vm)
    BY <1>3 DEF HoldingsOK
  <2>2. processTable[currentProc].kernelStack \notin more
    <3>1. PoolFrames("kernel") \cap PoolFrames("user") = {}
      BY PoolsPartition
    <3> QED BY <1>11, <2>1, <3>1
  <2> QED BY <1>9, <1>10, <1>11, <2>1, <2>2 DEF HoldingsOK
<1>16. AllHoldingsOK(processTable')
  BY <1>3, <1>9, <1>15 DEF AllHoldingsOK
<1> QED BY <1>10, <1>14, <1>16 DEF MemoryKept

LEMMA SchedulerMemory ==
  ASSUME NEW rest \in SUBSET Frames, MemoryInv(rest), schedulerRun \/ schedulerReturn
  PROVE  MemoryKept(rest)
<1>1. CASE UNCHANGED <<processTable, memVars>>
  BY <1>1, TableKept
<1>2. CASE Commit(allocProcess("init", 0))
  BY <1>2, CommitMemory
<1> QED BY <1>1, <1>2 DEF schedulerRun, schedulerReturn, StartIfCreated

(* Every step keeps the books. *)
LEMMA NextMemory ==
  ASSUME NEW rest \in SUBSET Frames, MemoryInv(rest), Next
  PROVE  MemoryKept(rest)
<1>1. CASE schedulerRun \/ schedulerReturn
  BY <1>1, SchedulerMemory
<1>2. CASE entryReturns
  BY <1>2, LeaveMemory DEF entryReturns
<1>3. CASE sysFork
  BY <1>3, CommitMemory DEF sysFork
<1>4. CASE \E status \in ExitStatuses : sysExit(status)
  BY <1>4, LeaveMemory, ProcessAssumption DEF sysExit
<1>5. CASE processCreateKernel
  BY <1>5, CommitMemory DEF processCreateKernel
<1>6. CASE \E va \in UserPages, write \in BOOLEAN : userCopy(va, write)
  BY <1>6, CopyMemory
<1>7. CASE \E pid \in 1..PidLimit : sysKill(pid)
  BY <1>7, KillMemory
<1> QED BY <1>1, <1>2, <1>3, <1>4, <1>5, <1>6, <1>7, SwitchMemory, WaitMemory,
           YieldMemory, TimerMemory DEF Next

LEMMA NextNeedsKernel == Next => KernelRuns
  BY DEF Next, schedulerRun, switchToProcess, schedulerReturn, entryReturns,
     sysFork, sysExit, sysWait, sysYield, sysKill, timerInterrupt, userCopy,
     processCreateKernel, ProcessRuns

-----------------------------------------------------------------------------
(***************************************************************************)
(* The pages of the processes: the theorems.                               *)
(***************************************************************************)

LEMMA InitMemory == Init => MemInv
<1> SUFFICES ASSUME Init PROVE MemInv
  OBVIOUS
<1>1. \A s \in Slots : processTable[s].state = "UNUSED"
  BY ZeroProcessType DEF Init
<1>2. \A s \in Slots : HeldBy(processTable, s) = {}
  BY <1>1 DEF HeldBy
<1>3. used = InitialUsed /\ panic = "none"
  BY DEF Init, MemInit
<1>4. Books(processTable, used, InitialUsed)
  BY <1>2, <1>3 DEF Books
<1> QED BY <1>1, <1>3, <1>4 DEF MemInv, NoInternalPanic, AllHoldingsOK

LEMMA NextKeepsMemory == Inv /\ MemInv /\ [Next]_vars => MemInv'
<1> SUFFICES ASSUME Inv, MemInv, [Next]_vars PROVE MemInv'
  OBVIOUS
<1>1. CASE UNCHANGED vars
  <2>1. processTable' = processTable /\ used' = used /\ panic' = panic
    BY <1>1 DEF vars, procVars, memVars
  <2> QED BY <2>1 DEF MemInv, NoInternalPanic, KernelRuns
<1>2. CASE Next
  <2>1. MemoryInv(InitialUsed)
    BY <1>2, NextNeedsKernel DEF MemInv, MemoryInv
  <2>2. InitialUsed \in SUBSET Frames
    BY DEF InitialUsed
  <2>3. MemoryKept(InitialUsed)
    BY <1>2, <2>1, <2>2, NextMemory
  <2> QED BY <2>3 DEF MemoryKept, MemInv, NoInternalPanic, KernelRuns
<1> QED BY <1>1, <1>2

LEMMA MemInvAlways == Spec => [](Inv /\ MemInv)
<1>1. Init => Inv /\ MemInv
  BY InitInv, InitMemory
<1>2. (Inv /\ MemInv) /\ [Next]_vars => (Inv /\ MemInv)'
  BY NextKeepsInv, NextKeepsMemory
<1> QED BY <1>1, <1>2, PTL DEF Spec

(* The kernel's own assertions never fail: the invariant says that what    *)
(* is freed is used, usable and of its pool, so no free fails.             *)
THEOREM AssertionsHold == Spec => []NoInternalPanic
<1>1. MemInv => NoInternalPanic
  BY DEF MemInv
<1> QED BY <1>1, MemInvAlways, PTL

(* A process has as many frames as mappings, and its kernel stack.         *)
LEMMA HeldCount ==
  ASSUME NEW p, HoldingsOK(p)
  PROVE  Cardinality({p.kernelStack} \cup FramesOf(p.vm)) = 1 + Cardinality(p.vm.ptable)
<1> DEFINE pt == p.vm.ptable
           F  == FramesOf(p.vm)
<1>1. /\ IsFiniteSet(pt) /\ p.kernelStack \notin F
      /\ \A m1, m2 \in pt : m1.frame = m2.frame => m1 = m2
  BY DEF HoldingsOK, SpaceOK, MappingsOK
<1>2. IsFiniteSet(F) /\ Cardinality(F) = Cardinality(pt)
  BY <1>1, FrameCount
<1> HIDE DEF pt, F
<1>3. Cardinality(F \cup {p.kernelStack}) = Cardinality(F) + 1
  BY <1>1, <1>2, FS_AddElement
<1>4. {p.kernelStack} \cup F = F \cup {p.kernelStack}
  OBVIOUS
<1>5. Cardinality({p.kernelStack} \cup F) = Cardinality(F) + 1
  BY <1>3, <1>4, Zenon
<1>6. Cardinality({p.kernelStack} \cup F) = 1 + Cardinality(pt)
  <2>1. Cardinality(pt) \in Nat
    BY <1>1, FS_CardinalityType
  <2> QED BY <1>2, <1>5, <2>1
<1> QED BY <1>6 DEF pt, F

(* No page is lost and none has two owners.                                *)
THEOREM PagesOwned == Spec => []PageOwnership
<1>1. Inv /\ MemInv => PageOwnership
  <2> SUFFICES ASSUME Inv, MemInv, KernelRuns
               PROVE  /\ used = InitialUsed \cup UNION {Held(s) : s \in Slots}
                      /\ \A s, t \in Slots : s # t => Held(s) \cap Held(t) = {}
                      /\ \A s \in Slots : Live(s) =>
                           /\ Cardinality(Held(s)) =
                                1 + Cardinality(processTable[s].vm.ptable)
                           /\ Held(s) \cap InitialUsed = {}
    BY DEF PageOwnership
  <2>1. \A s \in Slots : Held(s) = HeldBy(processTable, s)
    BY DEF Held, HeldBy, FramesOf, Live
  <2>2. Books(processTable, used, InitialUsed) /\ used \in SUBSET Frames
    BY DEF MemInv, Inv, TypeOK
  <2>3. ASSUME NEW s \in Slots, Live(s)
        PROVE  /\ Held(s) \subseteq Frames
               /\ Cardinality(Held(s)) = 1 + Cardinality(processTable[s].vm.ptable)
    <3>1. HoldingsOK(processTable[s])
      BY <2>3 DEF MemInv, AllHoldingsOK, Live
    <3>2. Held(s) = {processTable[s].kernelStack} \cup FramesOf(processTable[s].vm)
      BY <2>1, <2>3 DEF HeldBy, Live
    <3>3. \A m \in processTable[s].vm.ptable :
            m.pool \in Pools /\ m.frame \in PoolFrames(m.pool)
      BY <3>1 DEF HoldingsOK, SpaceOK, AddressSpace, VMMapping, MappingsOK
    <3>4. processTable[s].kernelStack \in PoolFrames("kernel")
      BY <3>1 DEF HoldingsOK
    <3>5. Held(s) \subseteq Frames
      BY <3>2, <3>3, <3>4, PoolFramesType DEF FramesOf, Pools
    <3> QED BY <3>1, <3>2, <3>5, HeldCount
  <2>4. \A s \in Slots : Held(s) \subseteq Frames
    BY <2>3 DEF Held
  <2>5. InitialUsed \subseteq Frames
    BY DEF InitialUsed
  <2>6. used = InitialUsed \cup UNION {Held(s) : s \in Slots}
    <3>1. \A f \in Frames : f \in used <=> f \in InitialUsed \/ \E s \in Slots : f \in Held(s)
      BY <2>1, <2>2 DEF Books
    <3> QED BY <2>2, <2>4, <2>5, <3>1
  <2>7. \A s, t \in Slots : s # t => Held(s) \cap Held(t) = {}
    BY <2>1, <2>2 DEF Books
  <2>8. \A s \in Slots : Held(s) \cap InitialUsed = {}
    BY <2>1, <2>2 DEF Books
  <2> QED BY <2>3, <2>6, <2>7, <2>8
<1> QED BY <1>1, MemInvAlways, PTL

(* User code reaches the pages of its own stack, frames of the user pool,  *)
(* and never the page below.                                               *)
THEOREM ProcessesIsolated == Spec => []Isolation
<1>1. MemInv => Isolation
  <2> SUFFICES ASSUME MemInv, NEW s \in Slots, Live(s)
               PROVE  LET vm       == processTable[s].vm
                          userMaps == {m \in vm.ptable : "user" \in m.perm}
                      IN  /\ {m.va : m \in userMaps} = vm.stackBase..(UserStackTop - 1)
                          /\ \A m \in userMaps :
                               m.pool = "user" /\ {"read", "write"} \subseteq m.perm
                          /\ \A m \in vm.ptable : m.frame \in PoolFrames(m.pool)
                          /\ vm.guard = IF vm.stackBase = UserStackTop THEN vmNoGuard
                                        ELSE vm.stackBase - 1
                          /\ vm.guard # vmNoGuard => vmFindMapping(vm.ptable, vm.guard) = {}
    BY DEF Isolation
  <2> DEFINE vm       == processTable[s].vm
             userMaps == {m \in vm.ptable : "user" \in m.perm}
  <2>1. SpaceOK(vm)
    BY DEF MemInv, AllHoldingsOK, HoldingsOK, Live
  <2> HIDE DEF vm
  <2>2. \A m \in vm.ptable : /\ m.frame \in PoolFrames(m.pool)
                             /\ TrapMapping(m) \/ StackMapping(vm, m)
    BY <2>1 DEF SpaceOK, MappingsOK
  <2>3. vm.stackBase \in 1..UserStackTop /\ UserStackTop \in Nat
        /\ UserTrapPage \in Nat /\ UserTrapPage >= UserStackTop
    BY <2>1, LayoutAssumption DEF SpaceOK, StackOK
  <2>4. \A m \in vm.ptable : "user" \in m.perm <=> StackMapping(vm, m)
    <3>1. \A m \in vm.ptable : TrapMapping(m) => "user" \notin m.perm
      BY DEF TrapMapping
    <3>2. \A m \in vm.ptable : StackMapping(vm, m) => "user" \in m.perm
      BY DEF StackMapping
    <3> QED BY <2>2, <3>1, <3>2
  <2>5. \A m \in userMaps :
          /\ m.va \in vm.stackBase..(UserStackTop - 1) /\ m.pool = "user"
          /\ {"read", "write"} \subseteq m.perm
    BY <2>4 DEF StackMapping
  <2>6. ASSUME NEW va \in vm.stackBase..(UserStackTop - 1)
        PROVE  \E m \in userMaps : m.va = va
    <3>1. PICK m \in vm.ptable : m.va = va
      BY <2>1 DEF SpaceOK, StackOK
    <3>2. ~TrapMapping(m)
      BY <2>3, <3>1 DEF TrapMapping
    <3> QED BY <2>2, <2>4, <3>1, <3>2
  <2>7. {m.va : m \in userMaps} = vm.stackBase..(UserStackTop - 1)
    BY <2>5, <2>6
  <2>8. ASSUME vm.guard # vmNoGuard, NEW m \in vm.ptable
        PROVE  m.va # vm.guard
    <3>1. vm.guard = vm.stackBase - 1
      BY <2>1, <2>8 DEF SpaceOK, StackOK
    <3> QED BY <2>2, <2>3, <3>1 DEF TrapMapping, StackMapping
  <2>9. vm.guard # vmNoGuard => vmFindMapping(vm.ptable, vm.guard) = {}
    BY <2>8 DEF vmFindMapping
  <2>10. vm.guard = IF vm.stackBase = UserStackTop THEN vmNoGuard ELSE vm.stackBase - 1
    BY <2>1 DEF SpaceOK, StackOK
  <2> QED BY <2>2, <2>5, <2>7, <2>9, <2>10 DEF vm
<1> QED BY <1>1, MemInvAlways, PTL
=============================================================================
