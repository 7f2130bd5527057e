------------------------------ MODULE UserCopy ------------------------------
(***************************************************************************)
(* copyin, copyout (cmd/kernel/phase5_vm.go) and copyinstr (phase6_fs.go), *)
(* byte by byte over physical memory: the way every path, buffer and file  *)
(* content passes between a process and the kernel.                        *)
(*                                                                         *)
(* An address space begins with its trap page.  The first touch below the  *)
(* top of the stack adds a stack page; data pages and pages for the kernel *)
(* alone are mapped as the repository's tests map them.  A call is a fold  *)
(* of the loop's body over the bytes; it takes and yields the state m of   *)
(* the loop.  The flag faulted, which no code reads, is in Processes.      *)
(***************************************************************************)
EXTENDS VirtualMemory, PhysicalMemory, SequencesExt

CONSTANTS
  Procs,           \* processes, each with an address space
  Payloads,        \* byte sequences passed to copyout
  DataPages,       \* pages that may be mapped
  Counts,          \* byte counts passed to copyin
  MaxPathLength    \* maxPathLength

(* A payload is a slice, which is never longer than the address space. *)
ASSUME UserCopyAssumption ==
  /\ Payloads \subseteq Seq(Nat) /\ Counts \subseteq Nat
  /\ \A src \in Payloads : Len(src) <= WordSize
  /\ DataPages \subseteq 1..(UserStackFloor - 1)
  /\ MaxPathLength \in Nat \ {0}

VARIABLES
  vms,       \* vm of the processes
  mem        \* the bytes of the frames

vars == <<vms, mem, memVars>>

Offsets == 0..(PageSize - 1)

Zeroes == [x \in Offsets |-> 0]

Init ==
  /\ MemInit
  /\ vms = [p \in Procs |-> ZeroAddressSpace]
  /\ mem = [f \in Frames |-> Zeroes]

-----------------------------------------------------------------------------
(***************************************************************************)
(* Copying.                                                                *)
(***************************************************************************)

PageOf(va) == va \div PageSize

FrameOf(vm, va) == (CHOOSE e \in vmFindMapping(vm.ptable, PageOf(va)) : TRUE).frame

ByteAt(vm, memory, va) == memory[FrameOf(vm, va)][va % PageSize]

(* The k-th address from va on; addresses wrap around. *)
Address(va, k) == (va + k - 1) % WordSize

LoopStart(p) ==
  [ok |-> TRUE, vm |-> vms[p], used |-> used, next |-> nextFree, panic |-> "none",
   mem |-> mem, buf |-> <<>>]

(* One round up to the access: the address is translated, if need be after *)
(* a fault; a round that fails is the last.                                *)
Reach(m, va, write) ==
  LET r == copyPage(m.vm, m.used, m.next, PageOf(va), write)
  IN  IF ~m.ok THEN m
      ELSE [m EXCEPT !.ok = r.ok, !.vm = r.vm, !.used = r.used, !.next = r.next,
                     !.panic = r.panic]

StoreByte(m, va, b) ==
  IF ~m.ok THEN m
  ELSE [m EXCEPT !.mem[FrameOf(m.vm, va)][va % PageSize] = b]

LoadByte(m, va) ==
  IF ~m.ok THEN m ELSE [m EXCEPT !.buf = Append(@, ByteAt(m.vm, m.mem, va))]

Rounds(n) == [k \in 1..n |-> k]

(* Mutant: only the first address is translated. *)
copyoutAtOnce(m, va, src) ==
  FoldLeft(LAMBDA s, k :
             IF ~s.ok THEN s
             ELSE LET x == (va % PageSize) + k - 1
                      f == FrameOf(s.vm, va) + (x \div PageSize)
                  IN  IF f \notin Frames THEN s
                      ELSE [s EXCEPT !.mem[f][x % PageSize] = src[k]],
           IF src = <<>> THEN m ELSE Reach(m, va, TRUE), Rounds(Len(src)))

copyout(m, va, src) ==
  FoldLeft(LAMBDA s, k :
             StoreByte(Reach(s, Address(va, k), TRUE), Address(va, k), src[k]),
           m, Rounds(Len(src)))

(* Mutant: a byte that cannot be read is skipped. *)
copyinSkips(m, n, va) ==
  FoldLeft(LAMBDA s, k :
             LET r == LoadByte(Reach(s, Address(va, k), FALSE), Address(va, k))
             IN  IF r.ok THEN r ELSE [r EXCEPT !.ok = TRUE, !.buf = Append(@, 0)],
           m, Rounds(n))

copyin(m, n, va) ==
  FoldLeft(LAMBDA s, k :
             LoadByte(Reach(s, Address(va, k), FALSE), Address(va, k)),
           m, Rounds(n))

Terminated(m) == 0 \in ToSet(m.buf)

(* Mutant: the longest string there may be is copied and then searched. *)
copyinstrWhole(m, va) ==
  LET r == copyin(m, MaxPathLength, va)
  IN  [r EXCEPT !.ok  = @ /\ Terminated(r),
                !.buf = SubSeq(@, 1, SelectInSeq(@, LAMBDA b : b = 0) - 1)]

(* The bytes are copied one by one until the terminator, which is not part *)
(* of the string.                                                          *)
copyinstr(m, va) ==
  LET r == FoldLeft(LAMBDA s, k : IF Terminated(s) THEN s
                                  ELSE copyin(s, 1, Address(va, k)),
                    m, Rounds(MaxPathLength))
  IN  IF Terminated(r) THEN [r EXCEPT !.buf = Front(@)]
      ELSE [r EXCEPT !.ok = FALSE, !.buf = <<>>]

-----------------------------------------------------------------------------
(***************************************************************************)
(* Actions.                                                                *)
(***************************************************************************)

Mapped(p) == vms[p] # ZeroAddressSpace

Becomes(p, r) ==
  /\ vms' = [vms EXCEPT ![p] = r.vm]
  /\ used' = r.used /\ nextFree' = r.next /\ panic' = r.panic

vmInit(p) ==
  /\ KernelRuns /\ ~Mapped(p)
  /\ vmInitProcess(used, nextFree).ok
  /\ Becomes(p, vmInitProcess(used, nextFree))
  /\ UNCHANGED mem

(* A cleared page of the pool is mapped. *)
mapPage(p, va, pool, perm) ==
  LET page   == allocPageFromPool(used, nextFree, pool)
      mapped == MapFreshPage(vms[p], va, page, pool, perm, "failed to free page")
  IN  /\ KernelRuns /\ Mapped(p) /\ vmFindMapping(vms[p].ptable, va) = {}
      /\ mapped.ok
      /\ Becomes(p, mapped)
      /\ mem' = [mem EXCEPT ![page.frame] = Zeroes]

release(p) ==
  LET freed == vmReleaseProcess(vms[p], used, nextFree)
  IN  /\ KernelRuns /\ Mapped(p)
      /\ IF freed.ok
         THEN Becomes(p, [vm |-> ZeroAddressSpace, used |-> freed.used,
                          next |-> freed.next, panic |-> "none"])
         ELSE panic' = "failed to free mapped page" /\ UNCHANGED <<vms, used, nextFree>>
      /\ UNCHANGED mem

Copied(p, r) ==
  /\ KernelRuns /\ Mapped(p)
  /\ Becomes(p, r)
  /\ mem' = r.mem

Addresses == 0..(WordSize - 1)

Next ==
  \E p \in Procs :
    \/ vmInit(p)
    \/ \E va \in DataPages :
         \/ mapPage(p, va, "user", {"read", "write", "user"})
         \/ mapPage(p, va, "kernel", {"read", "write"})
    \/ release(p)
    \/ \E va \in Addresses, src \in Payloads : Copied(p, copyout(LoopStart(p), va, src))
    \/ \E va \in Addresses, n \in Counts : Copied(p, copyin(LoopStart(p), n, va))
    \/ \E va \in Addresses : Copied(p, copyinstr(LoopStart(p), va))

Spec == Init /\ [][Next]_vars

-----------------------------------------------------------------------------
(***************************************************************************)
(* Properties.                                                             *)
(***************************************************************************)

(* The frames an address space holds. *)
Held(p) == {e.frame : e \in vms[p].ptable}

(* Every frame in use is reserved or mapped in one address space: a stack  *)
(* page that does not fit into the page table, a copy that fails halfway   *)
(* and a release leave none behind and give none back twice.               *)
PagesAccounted ==
  /\ panic = "none"
  /\ used = InitialUsed \cup UNION {Held(p) : p \in Procs}
  /\ \A p \in Procs : Cardinality(Held(p)) = Cardinality(vms[p].ptable)
  /\ \A p, q \in Procs : p # q => Held(p) \cap Held(q) = {}

(* How many of the first n bytes from va on user code may access. *)
Accessible(vm, va, n, perm) ==
  Max({k \in 0..n : \A j \in 1..k :
         vmTranslate(vm.ptable, PageOf(Address(va, j)), {perm})})

(* Everything the pages of an address space hold. *)
View(vm, memory) == [e \in vm.ptable |-> memory[e.frame]]

(* The bytes of r.vm that the first n from va on are not among. *)
SameElsewhere(vm, r, va, n) ==
  \A e \in vm.ptable, x \in Offsets :
    \/ \E k \in 1..n : Address(va, k) = e.va * PageSize + x
    \/ r.mem[e.frame][x] = mem[e.frame][x]

StoredPrefix(p, va, src, r, done) ==
  /\ r.ok = (done = Len(src))
  /\ \A k \in 1..done : ByteAt(r.vm, r.mem, Address(va, k)) = src[k]
  /\ SameElsewhere(vms[p], r, va, done)
  /\ \A q \in Procs \ {p} : View(vms[q], r.mem) = View(vms[q], mem)

(* copyout stores the bytes in order up to the first one the process may   *)
(* not write, whatever pages, stack growth or frames lie between, and      *)
(* succeeds when there is none.  It changes no other byte of the process   *)
(* and nothing that another process or the kernel has mapped.              *)
CopyoutPrefix ==
  \A p \in Procs, va \in Addresses, src \in Payloads :
    Mapped(p) =>
      LET r == copyout(LoopStart(p), va, src)
      IN  StoredPrefix(p, va, src, r, Accessible(r.vm, va, Len(src), "write"))

LoadedAll(va, n, r, done) ==
  /\ r.ok = (done = n)
  /\ r.buf = [k \in 1..done |-> ByteAt(r.vm, mem, Address(va, k))]
  /\ r.mem = mem

(* copyin yields what the process sees, and fails when it may not read     *)
(* some of it.                                                             *)
CopyinExact ==
  \A p \in Procs, va \in Addresses, n \in Counts :
    Mapped(p) =>
      LET r == copyin(LoopStart(p), n, va)
      IN  LoadedAll(va, n, r, Accessible(r.vm, va, n, "read"))

(* The places of the zeroes among the first n bytes from va on. *)
ZeroesIn(vm, va, n) == {k \in 1..n : ByteAt(vm, mem, Address(va, k)) = 0}

StringUpTo(p, va, r, zeroes) ==
  /\ r.ok = (zeroes # {})
  /\ r.ok => r.buf = [k \in 1..(Min(zeroes) - 1) |-> ByteAt(r.vm, mem, Address(va, k))]
  /\ r.ok /\ Accessible(vms[p], va, Min(zeroes), "read") = Min(zeroes) =>
       r.vm = vms[p] /\ r.used = used

(* copyinstr finds the string that ends at the first zero, also when the   *)
(* zero is the last byte that may be read, and touches nothing beyond it:  *)
(* no fault, no page added to the stack.                                   *)
StringsEndAtZero ==
  \A p \in Procs, va \in Addresses :
    Mapped(p) =>
      LET r == copyinstr(LoopStart(p), va)
      IN  StringUpTo(p, va, r,
            ZeroesIn(r.vm, va, Accessible(r.vm, va, MaxPathLength, "read")))
=============================================================================
