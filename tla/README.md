# A TLA+ verification of the windmills kernel

windmills is a small xv6-like kernel for the ESP32-S3, written in TinyGo. This
directory holds a model of it (physical memory, the runtime heap, virtual memory
and the copying of user memory, processes and the scheduler, interrupts and the
tick lock, the file system, the shell, the console log), the TLC runs that check
the model on small instances, and TLAPS proofs, for every instance, of every
invariant and refinement the runs check except those of the shell. Source paths are relative to the repository;
`PROJECT.json` maps every definition to the lines it models.

## 1. Inventory

The kernel is one Go package, `cmd/kernel`. It runs on one core (the README's
"Concurrency model": phases 0-7 keep the second core parked).

| Component | State | Operations | Used by |
|---|---|---|---|
| Memory map and page allocator (`phase2_memory.go`) | region table, boot-allocator flags and cursor, frame bitmap, two cursors, `mem_init_complete` | `bootAllocatorInit/Disable`, `bootAlloc`, `phase2Init`, `allocPageFromPool`, `allocContigFromPool`, `freePageInPool` | heap, virtual memory, processes |
| Runtime heap (`phase2_memory.go`, `phase3_tinygo_runtime_hooks.go`) | table of 128 allocations | alloc, realloc, free | the TinyGo runtime, from any kernel code |
| Virtual memory (`phase5_vm.go`) | per process: page table, stack base, guard page, `faulted` | init, map, translate, grow stack, handle fault, copyin/copyout, release | processes, syscalls |
| Processes and scheduler (`phase1_kernel.go`) | process table, `nextPID`, `currentProc`, `lastScheduledSlot`, `scheduleRequested`, `runDepth` | create, fork, exit, wait, yield, kill, tick, schedule | boot, user code |
| Interrupt state, spinlock, tick counter (`phase1_kernel.go`) | enable flag, nesting counter, tick lock, tick count | save/restore, lock/unlock, `timerInterrupt`, `monotonicTick` | scheduler, timer device |
| Trap dispatch (`phase1_kernel.go`) | trapframe of the current process | `trapDispatch`, `syscallDispatch` | user code |
| File system and devices (`phase6_fs.go`) | inode table, directories, descriptors, working directories, device sinks | open, read, write, close, link, unlink, mkdir, chdir | syscalls, shell |
| Userland (`phase7_userland.go`) | files under `/bin`, `/init` | shell lines with pipes and redirection, `ls`, `cat`, `echo`, `kill`, `ps`, `sh` | processes (at this commit, the tests) |
| Console log (`consoleIO.go`) | log ring, USB and UART registers | append, dump with retries, write | boot |
| Boot (`main_tinygo.go`) | - | init phases, `schedulerRun`, halt loop | - |

How they interact: everything is a direct call; there are no messages. The
shared state is the frame bitmap, on which the heap, the kernel stacks, the trap
pages and the user stacks all draw. A process gives up the processor by a Go
panic (`yieldSignal`, `preemptSignal`, `exitSignal`) that the deferred function
of `switchToProcess` recovers; it starts again at its entry function. The file
syscalls reach the memory of their caller through `copyin`, `copyout` and
`copyinstr`; the shell calls the file system directly. At this commit the timer
interrupt is a call the running code makes: no vector leads to `timerInterrupt`
yet, and `interruptsEnabled` is a Go variable that masks no hardware. Its lock and
its masking of interrupts are written for a timer that fires by itself and honours
that variable; such a timer is an assumption of `Interrupts`, whose theorems say
that the locking code is ready for it, not that it can go wrong today. The USB endpoint and its host
are the one part of the environment that fails: they stall and disappear.

What is hard here:

* the order of a child's exit, or its kill by a third process, and its parent's
  `wait`; who may be asleep when the scheduler finds nobody runnable;
* unwinding: six ways to leave the processor, one function that must restore the
  scheduler's variables after each of them;
* undoing a half-done `fork`, stack growth or heap allocation when memory, the
  page table or the allocation table is full;
* one pool of frames with several owners and panics on any free that fails;
* the wrap-around search of the allocator with cursors that frees move back;
* a configurable DRAM window that may overlap hardware ranges, and sizes whose
  rounding wraps around;
* link counts kept apart from the directory entries they count, creation and
  unlinking that undo themselves, descriptors that outlive their file, paths
  through `..` and through removed directories;
* buffers and strings that cross pages, end at the last readable byte or run into
  the guard page;
* a shell line that reads the file it writes, and failures found after earlier
  stages have run;
* a log ring that wraps, sent in pieces to a host that may leave in between, or
  come late.

`PROJECT.json` lists these as hazards, each at its line, with the properties
aimed at it. The properties of `Interrupts` are aimed at none of them: their hazard
comes with the timer's vector.

## 2. Modules

| Module | Models | Remarks |
|---|---|---|
| `PageFrames` | memory map, pools, next-fit search, free | operators only: an allocation takes bitmap and cursors and yields new ones, so that callers can chain calls inside one atomic step |
| `PhysicalMemory` | bitmap, cursors, "the kernel has panicked" | the variables all components share |
| `PageAllocator` | boot allocator, `phase2Init`, the allocator under arbitrary callers | `bootPages` and `result` are history: what was handed out and what the last call returned |
| `PagePool` | abstract: what the allocator promises | a set of free frames; allocation picks any suitable one and fails only if there is none |
| `VirtualMemory` | address space of a process | operators only; a page table is the set of its present mappings, addresses are page numbers |
| `Processes` | process table, scheduler, process syscalls, user-memory faults | one action per call the running code can make |
| `RuntimeHeap` | the heap's table and entry points | |
| `Kernel` | `Processes` and `RuntimeHeap` on the same frames | |
| `ProcessLife` | abstract: the life cycle of a process slot | implemented by `Processes` |
| `UserCopy` | `copyin`, `copyout`, `copyinstr` over the bytes of the frames | uses the fault handling of `VirtualMemory`; a call is a fold over its bytes |
| `Inodes` | inode table, directories, paths, file contents, `phase6Init`, `phase7WriteFile` | operators only, on a file-system record like `globalFS` |
| `FileSystem` | the file syscalls, descriptors, working directories, devices | whether a copy from or to user memory succeeds is the caller's choice; `ret` is the result of the last call |
| `Namespace` | abstract: names, objects and the next number | implemented by `FileSystem` |
| `Shell` | init, shell lines and utilities on `Inodes` | text is a sequence of words; recursive, for TLC only |
| `ConsoleLog` | log ring, dump, heartbeat, halt loop | endpoint and host are external; a step is one byte, a time-out or the end of a string |
| `Interrupts` | interrupt flag, nesting count, spinlock, tick counter | a step is one access to shared state; running code calls `timerInterrupt`, and an assumed timer does between any two |
| `MC*` | small instances for TLC | memory maps, addresses and sizes |
| `MemoryLemmas` | what the operators of `PageFrames` and `VirtualMemory` return | TLAPS; every proof about memory rests on it |
| `PageAllocatorProofs` | theorems about `PageAllocator` | TLAPS |
| `ProcessesProofs` | theorems about `Processes`: scheduling, life cycle, memory | TLAPS |
| `KernelProofs` | theorems about `Kernel` | TLAPS; extends `ProcessesProofs` |
| `UserCopyProofs` | theorems about `UserCopy` | TLAPS |
| `FileSystemProofs` | theorems about `FileSystem` | TLAPS |
| `ConsoleLogProofs` | theorems about `ConsoleLog` | TLAPS |
| `InterruptsProofs` | theorems about `Interrupts` | TLAPS |

Correspondence. The bitmap is the set `used` of frames whose bit is set; the
cursors are the function `nextFree` on the pools. A loop that looks for the first
or the lowest element becomes `Min` of the set of hits; the frames a failing
`allocPageFromPool` marks on its way are kept (`used` grows by the unusable
frames passed over). A Go panic that nothing recovers sets `panic` and no action
is enabled after it; the three signals are the argument of `Unwind`.
`currentProc = NoProc` is nil. `inScheduler` stands for the program counter of
`main`: whether `schedulerRun` is active. The pid space ends at `PidLimit`, in
the code the largest `int`, where `allocProcess` panics; in the runs it is also
the bound on the number of processes ever created. Words wrap at `WordSize` where
an addition can overflow (`alignUp`, `bootAlloc`).

The atomic step is one call. This is the code's own granularity: a kernel
operation runs to its return or to its panic, because `timerInterrupt` is only
ever called synchronously. `Interrupts` and `ConsoleLog` are finer: the first is
about what would happen between the steps, the second about waits in the middle
of a call.

Files. A path is the sequence `strings.Split` yields, so leading, doubled and
trailing slashes, `.` and `..` are there; a directory is the set of its used
entries, for nothing depends on their order but `ls`, which sorts. The bytes a
process writes name the inode and the place they were written to, so that a byte
in the wrong file is seen at once. In `FileSystem` a slot of the process table is
only unused, alive or a zombie: that is all its descriptors depend on.

User memory. In `UserCopy` a virtual address is a byte address, and the pages of
an address space are the trap page, the stack page a fault adds, and pages mapped
the way the tests of the repository map them (`mapUserRWPage`, and the kernel-only
page of `phase5_vm_test.go`), because the kernel has no loader yet. A fresh stack
page holds what its frame held before; the code does not clear it.

Console. A byte of the log is its number, so order, gaps and repetitions show in
what the host has read. The endpoint takes bytes until it is flushed and none
until the host has read them.

Interrupts. `stack` holds the calls that run, the innermost first; a frame has
its label and its local variables. `TimerFires` is `timerInterrupt` called by
running code, which is all there is at this commit, or by a timer: then a call may
be interrupted at any label while `interruptsEnabled` holds, and so may the handler.

Shell. Only the tests call the shell so far; in the model the entry function of a
process does. A line is run by the running process, the second of three: the first
one has forked twice and waits. A `kill` of another process wakes the waiting parent; a
`kill` of the process itself is a panic (`phase1_kernel.go:362`) that
`switchToProcess` recovers, so the line, the scripts around it and the call of
`phase7RunInit` end there. In the model nothing after it is evaluated, the process
is a zombie, and the next line waits for `switchToProcess`, which picks any
process that can run. `wait` and the rest of the scheduling are in `Processes`.

`Processes` starts in the state `main` reaches before `schedulerRun`, with the
timer configured. `processCreateKernel` may be called whenever `schedulerRun` is
not active, as the tests of the repository do.

## 3. Runs

| Run | Instance | What it shows |
|---|---|---|
| `page_allocator` | 11 frames of 2 bytes, 3 reserved; two hardware ranges overlap the DRAM window; every address of the window and its neighbours is freed | with any call sequence no reserved frame is available (`NeverReserved`), boot pages stay out (`BootPagesKept`), the boot allocator stays retired (`BootRetired`), and the allocator implements `PagePool` (`ImplementsPagePool`) |
| `processes` | 3 slots, 4 pids, 7 kernel and 2 user frames, the first stack page; fair | scheduler and table agree (`OneRunning`), pids name one process (`PidsUnique`), no lost wake-up (`NoLostWakeup`), no stuck sleepers (`NoStuckSleeper`), exact page accounting (`PageOwnership`), user code reaches only its stack, and the guard page is the page below (`Isolation`), no assertion fails (`NoInternalPanic`); under fairness every runnable process is run or killed (`NoStarvation`), and the table implements the life cycle of `ProcessLife` (`ImplementsProcessLife`) |
| `kernel` | 2 slots, 4 pids, 6 kernel frames of which one is unusable, heap table of 2; sizes of zero, one page, two pages and the largest word; null and every address of the kernel pool, aligned or not | every used frame has one owner across both components (`MemoryAccounted`); neither makes a free of the other fail, nor `realloc` one of its own (`OnlyDeclaredPanics`); blocks are large enough (`HeapCovers`) |
| `user_copy` | 2 processes, pages of 2 bytes, 3 kernel and 2 user frames, page tables of 3 entries, 2 data pages, stack, guard and trap page; copies of 1 to 3 bytes from every address | every frame in use has one owner, whatever fails halfway (`PagesAccounted`); in every reachable state every `copyout` stores exactly the prefix that may be written and nothing of anybody else's (`CopyoutPrefix`), `copyin` yields what the process sees (`CopyinExact`), strings end at their zero and nothing beyond is touched (`StringsEndAtZero`) |
| `file_tree` | 8 inodes, directories of 4 entries, 6 paths, one descriptor | `LinksCounted`, `TreeRooted`, `DescriptorsSafe`, and the names implement `Namespace` (`ImplementsNamespace`) |
| `file_io` | files of 2 bytes, 2 descriptors, a file, the uart and the timer, reads and writes of 0, 1 and too many bytes, redirections that fit or not | sizes and offsets stay in range (`TypeOK`), no byte of another file (`FilesKeepApart`), errors change nothing (`ErrorsChangeNothing`) |
| `console_log` | ring of 3 bytes, lines of 1, 2 and 4, chunks of 2, two retries, a host that leaves twice | `RingHoldsLatest`, `DumpComplete`, `StreamInOrder`; `LogDelivered` and `HeartbeatHeard` under fairness |
| `interrupts` | 4 firings, 3 calls on top of one another | `LockMasksInterrupts`, `EnabledRestored`, `TicksExact`; `CallReturns` under fairness |
| `shell` | 16 lines and 2 init lines, files of 8 words, 2 programs, a script, 3 processes | a redirection writes what the line would have shown and adds nothing to a line that fails (`RedirectFaithful`); failing lines, and lines that kill the process they run in, write no file (`OnlyTargetWritten`) |
| `boot_messages_once` | as `console_log` | expected violation: a host that connects after a failed dump reads the beginning of the log twice |
| `children_reparented` | as `processes` | expected violation: `exit` does not reparent |
| `guard_below_stack` | as `processes` | expected violation: the guard page is the next stack page |

Bounds and why they are enough. Three slots hold a parent, a child and a third
process that kills one of them, or a chain of two sleepers and a runner; four
pids make slots be reused. The kernel pool of the `processes` run covers the
slots but not more, so a fork fails for want of a slot; in the `kernel` run the
heap takes frames away, so it also fails for want of a kernel stack or, after
that was taken, of a trap page. Three processes share two user frames, so a stack
page may find none; a full page table and copies that run into the guard page or
the trap page are in `user_copy`. The allocator run has pools of several
frames, some unusable, so that runs wrap, are split and are cut off at the pool's
end. A heap table of two fills up before the memory does, and memory fills up
before the table with larger blocks or with processes. Two inodes more than `phase6Init` makes, with numbers for four
creations, let a slot be reused under an open descriptor and a directory be
removed under its process; root holds `/dev` and `/init`, so four entries fill
it. A file of two bytes is overrun by a write of two at its second byte, and a
tick of two binary digits is read across two calls. Two processes and two user
frames put a page of one next to a page of the other, in either order. A ring of
three bytes with lines of one, two and four is filled exactly, wrapped, and
overrun by one line. Three calls on top of one another are more than the lock
lets happen past `save` and `disable`. The lines of the shell kill their own process
in the first stage, in the last one and in a script; eight words hold that script.

No state constraint is used. The state space is cut off by bounds in the
guards, each a constant: `PidLimit` (a panic of the code too), `InodeIDLimit`,
`SinkLimit`, `TickLimit`, `LogLimit`, `Departures`, `NestLimit`, `FireLimit`, and
`DepthLimit` for scripts that run scripts. `user_copy` uses the symmetry of the
processes.

The runs of the processes, the memory and the files switch deadlock checking off
because the system really may stop: after a panic, when `schedulerRun` has
returned and no process can be created, and where a bound is reached. The other
runs check for deadlock.

Fairness (`FairSpec`). `switchToProcess` is weakly fair: the loop of
`schedulerRun` does not pause. `Relinquish` is weakly fair: the code of a process
gives up the processor after finitely many calls, by returning, sleeping,
yielding, exiting or by calling the timer interrupt. The second is an assumption
on the programs: preemption is only the call they make themselves.

`ConsoleLog` has weak fairness of `Main` (nothing but its own waits, which end,
holds the halt loop up) and of `HostReads` (a connected host polls its
endpoints; one that leaves owes nothing). Nothing makes a host connect: the
liveness properties are about hosts that are connected for good from some time
on. That such a host reads before a wait of `usbWriteByte` runs out is what the
comment at `consoleIO.go:120` computes the length of the wait from. The bytes in
the endpoint are assumed to survive a disconnect, and `LogDelivered` is about the
latest bytes, as many as the ring holds. `Interrupts`
has weak fairness of `Step`: what is on top of the stack runs. The timer is not
required to fire.

Findings. `children_reparented`: the README says that `exit` reparents the
children; `processExit` does not, so the children of an exited process are never
reaped. (The same sentence says that `exit` closes the descriptors; they stay in the
zombie until it is reaped.) The same holds of every process whose parent pid is 0, `init` included.
`guard_below_stack`: after the first growth the guard page is exactly the page
`vmGrowStack` would accept next, so a stack has at most one page. A test
(`phase5_vm_test.go:113`) checks that the page below the first stack page is
rejected; together with the floor 16 pages down, which `vmGrowStack` tests, and
the growth the README asks for, this cannot all be meant.
`boot_messages_once`: `main_tinygo.go:29` says that boot messages appear exactly
once. A dump that gives up a byte has flushed the bytes before it and is sent again
from its beginning, so the host reads those twice; in the run a host that connects
after the first dump has failed. What does hold is `StreamInOrder` and
`DumpComplete`: nothing is lost or out of order.
`ErrorsChangeNothing` states one exception, which no document rules out: `open`
with creation leaves the new file when the process has no free descriptor.

## 4. Proofs

Each theorem holds for every value of the constants that satisfies the stated
assumptions. The assumptions on the memory map are those of `PageFrames`:
`PageSize` is not zero, the base is page-aligned, the reserve fits, hardware
ranges are reserved and not empty; regions may overlap each other and the DRAM
window in any way. `LayoutAssumption` of `VirtualMemory`: the stack area does not
reach page 0, the trap page lies above it.

### Memory lemmas

`MemoryLemmas` says once what each operator returns. `ScanInPool` and
`ScanComplete`: a step of the search stays in the pool, and the wrapped search
visits every frame of it from any cursor. `AllocPageEffect`, `AllocContigEffect`,
`FreePageEffect`: the effect on the bitmap, in the terms of `PagePool`.
`FreshPage`: mapping a page that was just allocated adds one owned entry, or
nothing has happened. `CopyPageTouches`: touching a page changes nothing when it
can be accessed, adds the next page of the stack, or fails without a trace. They
suppose of a bitmap only `MemoryOK`: the frames marked at boot are still marked.
(The module extends `VirtualMemory`, so its constants are in the scope of
`PageAllocatorProofs` too, which does not use them.)

### Page allocator

| Theorem | States |
|---|---|
| `TypeCorrect` | `Spec => []TypeOK` |
| `ReservedNeverAvailable` | `Spec => []NeverReserved` |
| `BootStaysRetired` | `Spec => BootRetired` |
| `PageAllocatorImplementsPagePool` | `Spec => ImplementsPagePool` |
| `BootPagesSurvive` | `Spec => []BootPagesKept`, given `SizesFit` |

That an allocation never returns a reserved frame also depends on the bits
`pageAllocatorInit` set never being cleared. The inductive invariant therefore
adds to `TypeOK`: once memory is initialised `InitialUsed` is part of `used`, the
boot allocator is disabled, and a disabled boot allocator is not enabled. It is
kept because `freePageInPool` tests the memory map again before it clears a bit.
The refinement follows action by action; calls before `phase2Init` and panics map
to failed calls and stuttering steps.

`BootPagesSurvive` needs `BootInv`: while the boot allocator is enabled its
cursor is in the reserve, and the pages handed out are frames of the reserve. It
has a hypothesis, `SizesFit`: no requested size, added to the end of the reserve
and rounded up, runs past the last word. The code adds without a test, so a
request that large would wrap the cursor around; it asks for none.

### Processes

| Theorem | States |
|---|---|
| `TypeCorrect` | `Spec => []TypeOK` |
| `SchedulerConsistent` | `Spec => []OneRunning` |
| `PidsNameOneProcess` | `Spec => []PidsUnique` |
| `WakeupsNotLost` | `Spec => []NoLostWakeup` |
| `SleepersNotStuck` | `Spec => []NoStuckSleeper` |
| `ZombiesStayDead` | `Spec => ZombieFinal` |
| `ImplementsLife` | `Spec => ImplementsProcessLife` |
| `AssertionsHold` | `Spec => []NoInternalPanic` |
| `PagesOwned` | `Spec => []PageOwnership` |
| `ProcessesIsolated` | `Spec => []Isolation` |

Assumption: `ProcessAssumption` (at least one slot and one pid).

Scheduling. The inductive invariant `Inv` is `TypeOK`, `OneRunning`, "while the
kernel runs the bits `pageAllocatorInit` set are still set", and `TableInv`: the
table is typed, pids are below `nextPID` and unique with parents older than
children, a sleeper has children and no zombie among them, and no slot is left
`EMBRYO` between two operations. The properties need each other: that an exit
wakes the right sleeper depends on the pid naming one slot; that the new process
of a fork is no sleeper's twin depends on its pid being fresh; that `wait` may
empty a slot without taking a sleeper's last child depends on `OneRunning` and on
unique pids, because the child's only parent is then running. `TableInv` is a
predicate of a table, so that one lemma per table operation (`ExitKeepsTable`,
`SleepKeepsTable`, `FillKeepsTable`, `EmptyKeepsTable`, `SetAwake`) serves every
action, and the intermediate tables of an action that calls several operations,
too. `NoStuckSleeper` follows without further induction: among the sleepers take
the one with the largest pid; it has a child that is younger and no zombie, so
the child is no sleeper and can run.

Life cycle. Under `Inv` every action changes what `ProcessLife` shows of the slots
in one of four ways: a free slot filled, one process dead, a dead child reaped by
its living parent, or nothing. Actions that call several operations (a kill that
unwinds, an exit out of the trampoline) are split at the intermediate table.
`ZombieFinal` is a statement of its own; the `processes` run has it as part of
`ImplementsProcessLife`.

Memory. `MemInv` adds that no internal panic has happened; that every slot in use
has a kernel stack of the kernel pool and an address space with the trap page and
a stack without gaps, in which no page and no frame occurs twice and every mapping
owns its frame; and `Books`: a frame is marked exactly when it is reserved or one
slot holds it. `Books(t, u, rest)` takes the table, the bitmap and the frames that
belong to no process as arguments. So the lemmas hold for the intermediate bitmaps
of a fork that fails halfway, and `Kernel` uses them with the heap's blocks in
`rest`. No free fails because what a slot holds is marked, usable and of the
recorded pool.

### Processes and heap together

| Theorem | States |
|---|---|
| `MemoryIsAccounted` | `KernelSpec => []MemoryAccounted` |
| `PanicsAreDeclared` | `KernelSpec => []OnlyDeclaredPanics` |
| `AllocationsCover` | `KernelSpec => []HeapCovers` |

Assumption: `HeapAssumption` (sizes are words). The invariant `KInv`: the blocks
of the heap are runs of unreserved frames of the kernel pool, apart from each
other and with room for their size, and while the kernel runs `Books` holds with
the reserved frames and the blocks as `rest`. `PagesCover` is the arithmetic: a
size rounded up to pages leaves room for itself, or the addition wraps around and
leaves no page at all, in which case the allocation fails.

### User memory

| Theorem | States |
|---|---|
| `FramesAccounted` | `Spec => []PagesAccounted` |
| `CopyoutStoresPrefix` | `Spec => []CopyoutPrefix` |
| `CopyinReadsAll` | `Spec => []CopyinExact` |
| `StringsStopAtZero` | `Spec => []StringsEndAtZero` |

Assumption: `UserCopyAssumption` (payloads are sequences of naturals no longer
than the address space, data pages lie below the stack). The length matters:
addresses wrap around, and a longer payload would overwrite its own beginning.

The inductive invariant `Inv`: every address space is sound (no page or frame
twice, every mapping owned, the room for the stack empty below its base) and
`Books`. That gives `PagesAccounted`. The other three speak about the result of a
call in any reachable state. A call is a fold of the body of its loop; the lemmas
`CopyoutWalk`, `CopyinWalk` and `CopyinstrWalk` turn it into the sequence of the
states before and after its rounds, and `CountUp` (a set of numbers with 0 and the
successors of its members) carries a statement from the first to the last.
`Reached` says that after `k` rounds `d` bytes have been accessed and, if that is
not all, the next cannot be. `OutBytes`, `InBytes` and `InString` say what has been
copied by then. The core is that a byte stored is not overwritten by a later one:
addresses of different rounds differ (`AddressesDiffer`), and different addresses
that can be accessed are different places (`OnePlace`), because no frame is mapped
twice. Other processes keep their bytes because the frames a copy adds to the
stack were free.

### File system

| Theorem | States |
|---|---|
| `FileSystemInvariant` | `Spec => []FilesInv` |
| `FileSystemTypes` | `Spec => []TypeOK` |
| `CountsNeverDrift` | `Spec => []LinksCounted` |
| `DirectoriesFormTree` | `Spec => []TreeRooted` |
| `DescriptorsSound` | `Spec => []DescriptorsSafe` |
| `ContentsSeparate` | `Spec => []FilesKeepApart` |
| `ErrorsLeaveNoTrace` | `Spec => ErrorsChangeNothing` |
| `NamesImplementNamespace` | `Spec => ImplementsNamespace` |

Assumptions: `InodesAssumption` (room for the inodes and the directories
`phase6Init` makes) and `FileSystemAssumption`.

`TreeInv` has a part for each thing that must not drift: `SlotsOK` (free slots
are cleared, numbers are unique and below the next one, the root is there),
`DirsOK` (only directories have entries, with different names, of inodes that
exist, never of the root), `CountsOK` (the link count is the number of entries
that name the inode, and not zero) and `ParentsOK` (a directory has one name, in
an older directory, the one its parent field names; this is what makes the tree
one). `DescsOK` says that a descriptor holds a number given out before, which is
why a slot that is used again is never taken for the old file. `BytesOK`: every
byte of a file was written to that file, at that place. Each operator of `Inodes`
has a lemma that says what it changes, and each syscall one that chains them.

Two inductions on data are avoided. The walk along a path is a fold; that it ends
in a live directory is shown by its shortest counterexample. And the state after
`phase6Init` is evaluated symbolically, call by call, for every size of the tables
(the lemmas that end in `Booted`). The names in the type of a directory are those
that occur in paths (`PathNames`), a set the provers can reason about where
`STRING` is none.

### Console log

| Theorem | States |
|---|---|
| `RingKeepsLatest` | `Spec => []RingHoldsLatest` |
| `EmptiedRingWasSent` | `Spec => []DumpComplete` |
| `HostSeesNoGap` | `Spec => []StreamInOrder` |

Assumption: `ConsoleLogAssumption` (sizes and limits are not zero). The invariant
`LogInv` has four parts. `RingOK`: the cursor is the length of the log modulo the
size of the ring, and each of the latest bytes is in its place. `OutOK`: what is
being written is the ring from its oldest byte on, in one piece or two, or the
heartbeat. `EndpointOK`: log bytes and heartbeat bytes are not mixed in the
endpoint. `StreamOK`: during a dump, what has reached the host and the endpoint
ends with exactly the bytes this dump has handed over. They hold for every size of
the ring, line, chunk and retry limit, and however often the host leaves.

### Interrupts

| Theorem | States |
|---|---|
| `LockIsInnermost` | `Spec => []LockMasksInterrupts` |
| `InterruptsComeBack` | `Spec => []EnabledRestored` |
| `NoTickLost` | `Spec => []TicksExact` |

Every call on the stack but the top one was interrupted, so it is still before
`disable` (`Waiting`). Hence the interrupt flag, the nesting count and the lock are
functions of the label of the top (`Masked`), and the tick being stored is the one
after the count (`Counted`). With the types these are the invariant `IInv`, for
every depth of nesting and number of firings.

### What stays with TLC

* Liveness under fairness: `NoStarvation`, `LogDelivered`, `HeartbeatHeard`,
  `CallReturns`. This prover does not reach it.
* `Shell`: a line may run a script, whose lines are run in the same way, and its
  operators are recursive; `RedirectFaithful` and `OnlyTargetWritten` are checked
  on the lines of the `shell` run.
* The expected violations, which are counterexamples.

## 5. Not modelled

What `clearMemory` and `copyMemory` move for the heap, register contexts and
trapframes, the assembly stubs, the linker script, the board test programs
(standalone, not part of the kernel), delays, the UART writer (nothing calls it)
and the host builds of boot and console, which are empty. `vmUnmapPage` has no
caller. The two-call read of the timer device may mix two ticks; nothing promises
that it does not. Lines of `ps` leave out the name of the process, and the shell
resolves paths from the root, the working directory of a process that has not
called `chdir`. A negative or huge number as a descriptor or pid is one
representative out of range.

## 6. Plan

Done: every component of the kernel has its module and runs, and every invariant
and refinement of the runs but those of `Shell` its theorem.

Left:

1. `Shell` without recursion: pipelines as folds over their stages and the depth
   of scripts as a function, which would bring `OnlyTargetWritten` into reach.
2. `ProcessLife`, `Namespace` and `PagePool` are safety specifications; the
   liveness of `ProcessLife` (a process that can run is run) is checked only as
   `NoStarvation` of `Processes`.
3. `Processes` and `FileSystem` on one process table: the descriptors of a zombie
   and the pages of a zombie are released by the same `wait`.
4. `UserCopy` as the copying of `FileSystem`, whose syscalls choose whether a copy
   succeeds.
