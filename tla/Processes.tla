------------------------------ MODULE Processes ------------------------------
(***************************************************************************)
(* The process table, the round-robin scheduler and the process syscalls   *)
(* of cmd/kernel/phase1_kernel.go, with the kernel stack and the address   *)
(* space each process holds.                                               *)
(*                                                                         *)
(* The kernel is single-core and nothing interrupts a kernel operation:    *)
(* timerInterrupt is called from the code of the running process.  An      *)
(* action is therefore one call that code makes, up to its return or to    *)
(* the end of the unwinding its panic starts.  A process that leaves the   *)
(* processor starts again at its entry function, so the only per-process   *)
(* control state is the scheduler's.                                       *)
(***************************************************************************)
EXTENDS PhysicalMemory, VirtualMemory

CONSTANTS
  NPROC,          \* NPROC
  PidLimit,       \* the largest int: allocating a pid beyond it is a panic
  ExitStatuses,   \* statuses passed to the exit syscall
  UserPages       \* user pages that syscalls copy from and to

ASSUME ProcessAssumption ==
  /\ NPROC \in Nat \ {0}
  /\ PidLimit \in Nat \ {0}
  /\ ExitStatuses \subseteq Int
  /\ UserPages \subseteq Nat

VARIABLES
  processTable,
  nextPID,
  currentProc,         \* the slot of currentProc, NoProc for nil
  lastScheduledSlot,
  scheduleRequested,
  runDepth,
  inScheduler          \* is a call of schedulerRun active?

schedVars == <<currentProc, lastScheduledSlot, scheduleRequested, runDepth,
               inScheduler>>

procVars == <<processTable, nextPID, schedVars>>

vars == <<procVars, memVars>>

-----------------------------------------------------------------------------
(***************************************************************************)
(* The process table.                                                      *)
(***************************************************************************)

Slots == 0..(NPROC - 1)

NoProc == -1

ProcStates ==
  {"UNUSED", "EMBRYO", "RUNNABLE", "RUNNING", "SLEEPING", "ZOMBIE"}

Process ==
  [state: ProcStates, pid: Nat, parentPID: Nat, entry: {"none", "init", "worker"},
   kernelStack: Frames \cup {NoFrame}, vm: AddressSpace, faulted: BOOLEAN,
   exitStatus: Int]

ZeroProcess ==
  [state |-> "UNUSED", pid |-> 0, parentPID |-> 0, entry |-> "none",
   kernelStack |-> NoFrame, vm |-> ZeroAddressSpace, faulted |-> FALSE,
   exitStatus |-> 0]

(* The first slot of a set, as a scan of the table finds it. *)
FirstSlot(S) == IF S = {} THEN NoProc ELSE Min(S)

SetState(t, s, state) == [t EXCEPT ![s].state = state]

findProcByPID(t, pid) ==
  FirstSlot({s \in Slots : t[s].state # "UNUSED" /\ t[s].pid = pid})

Children(t, pid) ==
  {s \in Slots : t[s].state # "UNUSED" /\ t[s].parentPID = pid}

(* Outcomes of allocProcess without a process: nothing to undo, and the    *)
(* kernel stack given back.                                                *)
NoProcess(u, n, message) ==
  [slot |-> NoProc, table |-> processTable, pid |-> nextPID,
   used |-> u, next |-> n, panic |-> message]

StackReturned(table, freed) ==
  [slot |-> NoProc, table |-> table, pid |-> nextPID,
   used |-> freed.used, next |-> freed.next,
   panic |-> IF freed.ok THEN "none"
             ELSE "failed to release kernel stack page"]

(* allocProcess once slot and kernel stack are found: without a trap page  *)
(* the slot is emptied again.                                              *)
FillSlot(slot, entry, parentPID, stack, space) ==
  IF space.panic # "none"
  THEN NoProcess(space.used, space.next, space.panic)
  ELSE IF ~space.ok
  THEN StackReturned([processTable EXCEPT ![slot] = ZeroProcess],
                     freePageInPool(space.used, space.next, stack, "kernel"))
  ELSE [slot  |-> slot,
        table |-> [processTable EXCEPT ![slot] =
                     [ZeroProcess EXCEPT
                        !.state = "RUNNABLE", !.pid = nextPID,
                        !.parentPID = parentPID, !.entry = entry,
                        !.kernelStack = stack, !.vm = space.vm]],
        pid   |-> nextPID + 1,
        used  |-> space.used, next |-> space.next, panic |-> "none"]

(* allocProcess after its call of AllocContig, which comes before the      *)
(* search for a slot.                                                      *)
WithStack(kstack, entry, parentPID) ==
  LET slot == FirstSlot({s \in Slots : processTable[s].state = "UNUSED"})
  IN  IF kstack.frame = NoFrame
      THEN NoProcess(kstack.used, kstack.next, "none")
      ELSE IF slot = NoProc
      THEN StackReturned(processTable,
             freePageInPool(kstack.used, kstack.next, kstack.frame, "kernel"))
      ELSE IF nextPID = PidLimit
      THEN NoProcess(kstack.used, kstack.next, "pid space exhausted")
      ELSE FillSlot(slot, entry, parentPID, kstack.frame,
                    vmInitProcess(kstack.used, kstack.next))

allocProcess(entry, parentPID) ==
  WithStack(allocContigFromPool(used, nextFree, "kernel", 1), entry, parentPID)

(* Mutant: nextPID is not advanced. *)
CommitSamePID(alloc) ==
  /\ processTable' = alloc.table
  /\ nextPID' = nextPID
  /\ used' = alloc.used
  /\ nextFree' = alloc.next
  /\ panic' = alloc.panic

(* The outcome of a call of allocProcess becomes the state. *)
Commit(alloc) ==
  /\ processTable' = alloc.table
  /\ nextPID' = alloc.pid
  /\ used' = alloc.used
  /\ nextFree' = alloc.next
  /\ panic' = alloc.panic

(* Mutant: the parent is not woken. *)
processExitSilent(t, s, status) ==
  [t EXCEPT ![s].exitStatus = status, ![s].state = "ZOMBIE"]

(* Mutant: only a process that exits by itself wakes its parent. *)
processExitWhenRunning(t, s, status) ==
  LET dead   == [t EXCEPT ![s].exitStatus = status, ![s].state = "ZOMBIE"]
      parent == findProcByPID(dead, t[s].parentPID)
  IN  IF /\ t[s].state = "RUNNING"
         /\ parent # NoProc
         /\ dead[parent].state = "SLEEPING"
      THEN SetState(dead, parent, "RUNNABLE")
      ELSE dead

(* Mutant: the parent is made runnable whatever its state. *)
processExitWakesAny(t, s, status) ==
  LET dead   == [t EXCEPT ![s].exitStatus = status, ![s].state = "ZOMBIE"]
      parent == findProcByPID(dead, t[s].parentPID)
  IN  IF parent # NoProc THEN SetState(dead, parent, "RUNNABLE") ELSE dead

(* processExit: the parent is woken only when it sleeps in wait. *)
processExit(t, s, status) ==
  LET dead   == [t EXCEPT ![s].exitStatus = status, ![s].state = "ZOMBIE"]
      parent == findProcByPID(dead, t[s].parentPID)
  IN  IF /\ t[s].parentPID # 0
         /\ parent # NoProc
         /\ dead[parent].state = "SLEEPING"
      THEN SetState(dead, parent, "RUNNABLE")
      ELSE dead

(* releaseProcess gives back the owned pages, then the kernel stack. *)
Released(s, space, kstack) ==
  /\ used' = kstack.used
  /\ nextFree' = kstack.next
  /\ panic' = IF ~space.ok THEN "failed to free mapped page"
              ELSE IF ~kstack.ok THEN "failed to free kernel stack page"
              ELSE "none"
  /\ processTable' = [processTable EXCEPT ![s] = ZeroProcess]

ReleaseStack(s, space) ==
  Released(s, space, freePageInPool(space.used, space.next,
                                    processTable[s].kernelStack, "kernel"))

releaseProcess(s) ==
  ReleaseStack(s, vmReleaseProcess(processTable[s].vm, used, nextFree))

-----------------------------------------------------------------------------
(***************************************************************************)
(* The scheduler.  Init is the state main reaches after phase1Init and     *)
(* phase2Init, with every slot unused.                                     *)
(***************************************************************************)

Init ==
  /\ MemInit
  /\ processTable = [s \in Slots |-> ZeroProcess]
  /\ nextPID = 1
  /\ currentProc = NoProc
  /\ lastScheduledSlot = -1
  /\ scheduleRequested = FALSE
  /\ runDepth = 0
  /\ inScheduler = FALSE

(* schedulerRun up to its loop: ensureBootstrapProcess creates the init    *)
(* process unless some process has pid 1, and the call returns at once     *)
(* when that fails.                                                        *)
StartIfCreated(alloc) == Commit(alloc) /\ inScheduler' = (alloc.slot # NoProc)

schedulerRun ==
  /\ KernelRuns /\ ~inScheduler
  /\ \/ /\ findProcByPID(processTable, 1) # NoProc
        /\ inScheduler' = TRUE
        /\ UNCHANGED <<processTable, nextPID, memVars>>
     \/ /\ findProcByPID(processTable, 1) = NoProc
        /\ StartIfCreated(allocProcess("init", 0))
  /\ UNCHANGED <<currentProc, lastScheduledSlot, scheduleRequested, runDepth>>

(* pickNextRunnable: the slots in turn, from the one after the last.       *)
RunnableOffsets ==
  {k \in 1..NPROC :
     processTable[(lastScheduledSlot + k) % NPROC].state = "RUNNABLE"}

(* Mutant: every round starts at the first slot. *)
pickFirstRunnable == FirstSlot({s \in Slots : processTable[s].state = "RUNNABLE"})

pickNextRunnable ==
  IF RunnableOffsets = {} THEN NoProc
  ELSE (lastScheduledSlot + Min(RunnableOffsets)) % NPROC

(* switchToProcess, up to the call of the entry function. *)
switchToProcess ==
  /\ KernelRuns /\ inScheduler /\ currentProc = NoProc
  /\ pickNextRunnable # NoProc
  /\ lastScheduledSlot' = pickNextRunnable
  /\ currentProc' = pickNextRunnable
  /\ processTable' = SetState(processTable, pickNextRunnable, "RUNNING")
  /\ scheduleRequested' = FALSE
  /\ runDepth' = runDepth + 1
  /\ UNCHANGED <<nextPID, inScheduler, memVars>>

(* schedulerRun returns when no process is runnable. *)
schedulerReturn ==
  /\ KernelRuns /\ inScheduler /\ currentProc = NoProc
  /\ pickNextRunnable = NoProc
  /\ inScheduler' = FALSE
  /\ UNCHANGED <<processTable, nextPID, currentProc, lastScheduledSlot,
                 scheduleRequested, runDepth, memVars>>

(* The deferred function of switchToProcess, run on table t when the entry *)
(* function of process s returns ("return") or unwinds with a signal.      *)
AfterSignal(t, s, signal, status) ==
  CASE signal \in {"yield", "preempt"} ->
         IF t[s].state = "RUNNING" THEN SetState(t, s, "RUNNABLE") ELSE t
    [] signal = "exit"   -> processExit(t, s, status)
    [] signal = "return" -> t

(* Mutant: an entry function that returns leaves its process RUNNING. *)
UnwindWithoutExit(t, signal, status) ==
  /\ processTable' = AfterSignal(t, currentProc, signal, status)
  /\ currentProc' = NoProc
  /\ runDepth' = runDepth - 1
  /\ UNCHANGED <<nextPID, lastScheduledSlot, inScheduler, memVars>>

(* Mutant: runDepth is not decremented. *)
UnwindKeepsDepth(t, signal, status) ==
  LET after == AfterSignal(t, currentProc, signal, status)
  IN  /\ processTable' = IF after[currentProc].state = "RUNNING"
                         THEN processExit(after, currentProc, 0)
                         ELSE after
      /\ currentProc' = NoProc
      /\ UNCHANGED <<nextPID, lastScheduledSlot, inScheduler, runDepth, memVars>>

Unwind(t, signal, status) ==
  LET after == AfterSignal(t, currentProc, signal, status)
  IN  /\ processTable' = IF after[currentProc].state = "RUNNING"
                         THEN processExit(after, currentProc, 0)
                         ELSE after
      /\ currentProc' = NoProc
      /\ runDepth' = runDepth - 1
      /\ UNCHANGED <<nextPID, lastScheduledSlot, inScheduler, memVars>>

-----------------------------------------------------------------------------
(***************************************************************************)
(* The calls the code of the running process makes.                        *)
(***************************************************************************)

ProcessRuns == KernelRuns /\ currentProc # NoProc

Self == processTable[currentProc]

entryReturns == ProcessRuns /\ Unwind(processTable, "return", 0)
                            /\ UNCHANGED scheduleRequested

(* The child starts at the same entry function, with an address space and  *)
(* a descriptor table of its own.                                          *)
sysFork ==
  /\ ProcessRuns
  /\ Commit(allocProcess(Self.entry, Self.pid))
  /\ UNCHANGED schedVars

sysExit(status) == ProcessRuns /\ Unwind(processTable, "exit", status)
                               /\ UNCHANGED scheduleRequested

ZombieChildren ==
  {s \in Children(processTable, Self.pid) : processTable[s].state = "ZOMBIE"}

(* wait reaps the first zombie child, or fails without children, or sleeps *)
(* and leaves the processor.                                               *)
sysWait ==
  /\ ProcessRuns
  /\ \/ /\ ZombieChildren # {}
        /\ releaseProcess(FirstSlot(ZombieChildren))
        /\ UNCHANGED <<nextPID, schedVars>>
     \/ /\ Children(processTable, Self.pid) = {}
        /\ UNCHANGED vars
     \/ /\ Children(processTable, Self.pid) # {}
        /\ ZombieChildren = {}
        /\ Unwind(SetState(processTable, currentProc, "SLEEPING"), "yield", 0)
        /\ UNCHANGED scheduleRequested

(* schedulerYield makes the process runnable itself, then unwinds. *)
sysYield ==
  /\ ProcessRuns
  /\ Unwind(IF Self.state = "RUNNING"
            THEN SetState(processTable, currentProc, "RUNNABLE")
            ELSE processTable, "yield", 0)
  /\ scheduleRequested' = TRUE

(* sysKill: a process that kills itself exits through a signal when it was *)
(* started by switchToProcess; any other target becomes a zombie at once.  *)
sysKill(pid) ==
  LET target == findProcByPID(processTable, pid)
  IN  /\ ProcessRuns
      /\ \/ /\ target = NoProc
            /\ UNCHANGED vars
         \/ /\ target = currentProc /\ runDepth > 0
            /\ Unwind(processTable, "exit", -1)
            /\ UNCHANGED scheduleRequested
         \/ /\ target # NoProc
            /\ ~(target = currentProc /\ runDepth > 0)
            /\ processTable' = processExit(processTable, target, -1)
            /\ UNCHANGED <<nextPID, schedVars, memVars>>

(* timerInterrupt with a configured timer: schedulerOnTick makes the       *)
(* running process runnable and the handler unwinds it.                    *)
timerInterrupt ==
  LET ticked == IF Self.state = "RUNNING"
                THEN SetState(processTable, currentProc, "RUNNABLE")
                ELSE processTable
  IN  /\ ProcessRuns
      /\ scheduleRequested' = (scheduleRequested \/ Self.state = "RUNNING")
      /\ IF scheduleRequested' /\ runDepth > 0
         THEN Unwind(ticked, "preempt", 0)
         ELSE /\ processTable' = ticked
              /\ UNCHANGED <<nextPID, currentProc, lastScheduledSlot, runDepth,
                             inScheduler, memVars>>

Copied(copy) ==
  /\ processTable' = [processTable EXCEPT
                        ![currentProc].vm = copy.vm,
                        ![currentProc].faulted = @ \/ ~copy.ok]
  /\ used' = copy.used
  /\ nextFree' = copy.next
  /\ panic' = copy.panic

(* A syscall copies from or to a page of its caller. *)
userCopy(va, write) ==
  /\ ProcessRuns
  /\ Copied(copyPage(Self.vm, used, nextFree, va, write))
  /\ UNCHANGED <<nextPID, schedVars>>

(* processCreateKernel, called while schedulerRun is not active. *)
processCreateKernel ==
  /\ KernelRuns /\ ~inScheduler
  /\ Commit(allocProcess("worker", 0))
  /\ UNCHANGED schedVars

Next ==
  \/ schedulerRun
  \/ switchToProcess
  \/ schedulerReturn
  \/ entryReturns
  \/ sysFork
  \/ \E status \in ExitStatuses : sysExit(status)
  \/ sysWait
  \/ sysYield
  \/ \E pid \in 1..PidLimit : sysKill(pid)
  \/ timerInterrupt
  \/ \E va \in UserPages, write \in BOOLEAN : userCopy(va, write)
  \/ processCreateKernel

Spec == Init /\ [][Next]_vars

(* The fairness liveness needs.  The loop of schedulerRun never stops by   *)
(* itself, and the code of a process gives up the processor after finitely *)
(* many calls: by returning, by a yield, exit, kill or wait, or because it *)
(* calls timerInterrupt.                                                   *)
Relinquish == currentProc # NoProc /\ Next /\ currentProc' = NoProc

FairSpec == Spec /\ WF_vars(switchToProcess) /\ WF_vars(Relinquish)

-----------------------------------------------------------------------------
(***************************************************************************)
(* Properties.  After a panic the kernel has stopped: the invariants that  *)
(* relate several variables speak of the states in which it runs.          *)
(***************************************************************************)

Panics ==
  {"none", "pid space exhausted", "failed to release kernel stack page",
   "failed to free trap page", "failed to free stack page",
   "failed to free mapped page", "failed to free kernel stack page"}

TypeOK ==
  /\ used \subseteq Frames
  /\ nextFree \in [Pools -> Nat]
  /\ panic \in Panics
  /\ processTable \in [Slots -> Process]
  /\ nextPID \in 1..PidLimit
  /\ currentProc \in Slots \cup {NoProc}
  /\ lastScheduledSlot \in Slots \cup {-1}
  /\ scheduleRequested \in BOOLEAN
  /\ runDepth \in {0, 1}
  /\ inScheduler \in BOOLEAN

Live(s) == processTable[s].state # "UNUSED"

(* Whatever unwinds a process, the scheduler's idea of who runs stays in   *)
(* step with the table: exactly the current process is RUNNING, and        *)
(* switchToProcess is active exactly while there is one.                   *)
OneRunning ==
  KernelRuns =>
    /\ \A s \in Slots : processTable[s].state = "RUNNING" <=> s = currentProc
    /\ runDepth = IF currentProc = NoProc THEN 0 ELSE 1
    /\ currentProc # NoProc => inScheduler

(* A pid names one process for the life of the kernel, although slots are  *)
(* reused, and a parent is older than its child: the pid a wait, a kill or *)
(* an exit looks up is the process that was meant.                         *)
PidsUnique ==
  \A s \in Slots : Live(s) =>
    /\ processTable[s].parentPID < processTable[s].pid
    /\ processTable[s].pid < nextPID
    /\ \A t \in Slots : Live(t) /\ processTable[t].pid = processTable[s].pid
                            => s = t

(* A process asleep in wait has something to wait for: a child, and no     *)
(* child has exited already.  Wherever the child's exit falls - before the *)
(* sleep, after it, by a kill - the wake-up is not lost.                   *)
NoLostWakeup ==
  \A s \in Slots : processTable[s].state = "SLEEPING" =>
    LET children == Children(processTable, processTable[s].pid)
    IN  /\ children # {}
        /\ \A c \in children : processTable[c].state # "ZOMBIE"

(* Sleepers never wait on each other: as long as a process sleeps, another *)
(* can run, so schedulerRun does not return to the halt loop and leave     *)
(* a process asleep for ever.                                              *)
NoStuckSleeper ==
  KernelRuns =>
    ((\E s \in Slots : processTable[s].state = "SLEEPING")
       => \E s \in Slots : processTable[s].state \in {"RUNNABLE", "RUNNING"})

(* The frames a process holds: its kernel stack and its mapped pages.      *)
Held(s) ==
  IF Live(s)
  THEN {processTable[s].kernelStack} \cup
         {m.frame : m \in processTable[s].vm.ptable}
  ELSE {}

(* No page is lost and none has two owners: every frame marked used beyond *)
(* the reserved ones is held by exactly one process, once.  Forks that     *)
(* fail halfway, exits, kills and reaping all keep the books.              *)
PageOwnership ==
  KernelRuns =>
    /\ used = InitialUsed \cup UNION {Held(s) : s \in Slots}
    /\ \A s, t \in Slots : s # t => Held(s) \cap Held(t) = {}
    /\ \A s \in Slots : Live(s) =>
         /\ Cardinality(Held(s)) = 1 + Cardinality(processTable[s].vm.ptable)
         /\ Held(s) \cap InitialUsed = {}

(* What user code of a process can reach is its stack and nothing else:    *)
(* contiguous pages of the user pool from stackBase to the top, readable   *)
(* and writable, with the guard page directly below them and unmapped.     *)
(* Kernel frames stay out of reach.                                        *)
Isolation ==
  \A s \in Slots : Live(s) =>
    LET vm       == processTable[s].vm
        userMaps == {m \in vm.ptable : "user" \in m.perm}
    IN  /\ {m.va : m \in userMaps} = vm.stackBase..(UserStackTop - 1)
        /\ \A m \in userMaps : m.pool = "user" /\ {"read", "write"} \subseteq m.perm
        /\ \A m \in vm.ptable : m.frame \in PoolFrames(m.pool)
        /\ vm.guard = IF vm.stackBase = UserStackTop THEN vmNoGuard ELSE vm.stackBase - 1
        /\ vm.guard # vmNoGuard => vmFindMapping(vm.ptable, vm.guard) = {}

(* The kernel's own assertions never fail: every free of a kernel stack,   *)
(* a trap page or a mapped page succeeds.  Only the end of the pid space   *)
(* stops it.                                                               *)
NoInternalPanic == panic \in {"none", "pid space exhausted"}

(* An exited or killed process never runs again and keeps its pid until    *)
(* its own parent reaps it, which empties the slot.                        *)
ZombieFinal ==
  [][\A s \in Slots : processTable[s].state = "ZOMBIE" =>
       \/ /\ processTable'[s].state = "ZOMBIE"
          /\ processTable'[s].pid = processTable[s].pid
       \/ /\ processTable'[s] = ZeroProcess
          /\ currentProc # NoProc
          /\ processTable[s].parentPID = Self.pid]_vars

(* The process table implements the abstract life of processes: forks that *)
(* fail, kills of the dying and of the dead, and waits change nothing else *)
(* in it, and only a living parent frees a slot.                           *)
Life == INSTANCE ProcessLife WITH
          life <- [procs |-> {[slot   |-> s,
                               pid    |-> processTable[s].pid,
                               parent |-> processTable[s].parentPID,
                               dead   |-> processTable[s].state = "ZOMBIE"] :
                                s \in {r \in Slots : Live(r)}},
                   next  |-> nextPID]

ImplementsProcessLife == Life!LifeSpec

(* Round robin starves nobody: while the scheduler runs, a runnable        *)
(* process is run or killed, however the others fork, yield and exit.      *)
NoStarvation ==
  \A s \in Slots :
    (inScheduler /\ processTable[s].state = "RUNNABLE")
      ~> (processTable[s].state # "RUNNABLE" \/ ~KernelRuns)

(* README.md: "exit closes descriptors, reparents children, marks ZOMBIE". *)
(* So the parent of a process is 0 or a process that has not exited.       *)
ChildrenReparented ==
  \A s \in Slots : Live(s) /\ processTable[s].parentPID # 0 =>
    \E t \in Slots : /\ processTable[t].state \notin {"UNUSED", "ZOMBIE"}
                     /\ processTable[t].pid = processTable[s].parentPID

(* README.md asks for "lazy user stack growth", and vmGrowStack lets the   *)
(* stack grow to userStackPages pages.  So the page vmHandleFault rejects  *)
(* as a guard page is not one of those.                                    *)
GuardBelowStack ==
  \A s \in Slots :
    LET guard == processTable[s].vm.guard
    IN  guard # vmNoGuard => guard < UserStackFloor
=============================================================================
