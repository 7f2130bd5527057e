----------------------------- MODULE RuntimeHeap -----------------------------
(***************************************************************************)
(* The page-granular heap under the TinyGo runtime                         *)
(* (cmd/kernel/phase2_memory.go, linked by phase3_tinygo_runtime_hooks.go).*)
(* It takes runs of frames from the kernel pool and remembers them in a    *)
(* fixed table.  Nothing else is known about the pool's other users: they  *)
(* may change the bitmap between two calls (see module Kernel).            *)
(***************************************************************************)
EXTENDS PhysicalMemory

CONSTANTS
  MaxRuntimeHeapAllocs,   \* maxRuntimeHeapAllocs
  HeapSizes,              \* sizes (uintptr), in bytes, the runtime asks for
  HeapAddresses           \* addresses it passes to realloc and free

ASSUME HeapAssumption ==
  /\ MaxRuntimeHeapAllocs \in Nat \ {0}
  /\ HeapSizes \subseteq 0..(WordSize - 1)
  /\ HeapAddresses \subseteq Nat

VARIABLE
  runtimeHeapAllocs   \* the table; field size is history: the bytes asked for

heapVars == <<runtimeHeapAllocs>>

-----------------------------------------------------------------------------

HeapSlots == 1..MaxRuntimeHeapAllocs

ZeroEntry == [inUse |-> FALSE, base |-> NoFrame, pages |-> 0, size |-> 0]

HeapInit == runtimeHeapAllocs = [i \in HeapSlots |-> ZeroEntry]

(* The slots of the table that hold the allocation at an address. *)
Tracked(table, address) ==
  {i \in HeapSlots : table[i].inUse /\ FrameAddress(table[i].base) = address}

FreeSlots(table) == {i \in HeapSlots : ~table[i].inUse}

(* Mutant: the frame behind the run is given back as well. *)
FreeRunLong(u, n, f, count) ==
  LET freed == {g \in f..(f + count) : Freeable(u, g, "kernel")}
  IN  [ok   |-> TRUE,
       used |-> u \ freed,
       next |-> [n EXCEPT !["kernel"] = Min({@} \cup freed)]]

(* count frames from f on are given back to the kernel pool one by one, up *)
(* to the first that cannot be.                                            *)
FreeRun(u, n, f, count) ==
  LET stuck == {i \in 0..(count - 1) : ~Freeable(u, f + i, "kernel")}
      freed == f..(f + (IF stuck = {} THEN count ELSE Min(stuck)) - 1)
  IN  [ok   |-> stuck = {},
       used |-> u \ freed,
       next |-> [n EXCEPT !["kernel"] = Min({@} \cup freed)]]

(* A run just allocated is entered in the first free slot of the table, or *)
(* given back when the table is full.                                      *)
TrackRun(table, alloc, pageCount, size) ==
  LET undone == FreeRun(alloc.used, alloc.next, alloc.frame, pageCount)
  IN  IF alloc.frame = NoFrame
      THEN [ok |-> FALSE, table |-> table, used |-> alloc.used,
            next |-> alloc.next]
      ELSE IF FreeSlots(table) = {}
      THEN [ok |-> FALSE, table |-> table, used |-> undone.used,
            next |-> undone.next]
      ELSE [ok    |-> TRUE,
            table |-> [table EXCEPT ![Min(FreeSlots(table))] =
                         [inUse |-> TRUE, base |-> alloc.frame,
                          pages |-> pageCount, size |-> size]],
            used  |-> alloc.used, next |-> alloc.next]

runtimeHeapAlloc(table, u, n, size) ==
  LET pageCount == AlignUp(size) \div PageSize
  IN  IF size = 0
      THEN [ok |-> FALSE, table |-> table, used |-> u, next |-> n]
      ELSE TrackRun(table, allocContigFromPool(u, n, "kernel", pageCount),
                    pageCount, size)

(* Untrack first, then free: a failure leaves the allocation untracked. *)
FreeSlot(table, u, n, i) ==
  LET freed == FreeRun(u, n, table[i].base, table[i].pages)
  IN  [ok |-> freed.ok, table |-> [table EXCEPT ![i] = ZeroEntry],
       used |-> freed.used, next |-> freed.next]

runtimeHeapFree(table, u, n, address) ==
  IF Tracked(table, address) = {}
  THEN [ok |-> FALSE, table |-> table, used |-> u, next |-> n]
  ELSE FreeSlot(table, u, n, Min(Tracked(table, address)))

HeapUpdate(r) ==
  /\ runtimeHeapAllocs' = r.table
  /\ used' = r.used
  /\ nextFree' = r.next

-----------------------------------------------------------------------------
(***************************************************************************)
(* The entry points of the runtime.  clearMemory and copyMemory touch only *)
(* bytes of the allocations named, which the model does not hold.          *)
(***************************************************************************)

Allocated(r) ==
  /\ HeapUpdate(r)
  /\ panic' = IF r.ok THEN "none" ELSE "allocation failed"

tinygoRuntimeAlloc(size) ==
  /\ KernelRuns
  /\ size # 0
  /\ Allocated(runtimeHeapAlloc(runtimeHeapAllocs, used, nextFree, size))

tinygoRuntimeFree(address) ==
  /\ KernelRuns
  /\ HeapUpdate(runtimeHeapFree(runtimeHeapAllocs, used, nextFree, address))
  /\ panic' = panic

(* The second half of a realloc, after the new allocation was tried. *)
OldFreed(old) ==
  /\ HeapUpdate(old)
  /\ panic' = IF old.ok THEN "none" ELSE "realloc free failed"

FreeOld(fresh, address) ==
  IF fresh.ok
  THEN OldFreed(runtimeHeapFree(fresh.table, fresh.used, fresh.next, address))
  ELSE Allocated(fresh)

(* The new allocation is made and filled before the old one is given back. *)
tinygoRuntimeRealloc(address, size) ==
  /\ KernelRuns
  /\ \/ /\ size = 0 /\ address # 0
        /\ tinygoRuntimeFree(address)
     \/ /\ size # 0 /\ address = 0
        /\ tinygoRuntimeAlloc(size)
     \/ /\ size # 0 /\ address # 0
        /\ Tracked(runtimeHeapAllocs, address) = {}
        /\ panic' = "realloc invalid address"
        /\ UNCHANGED <<runtimeHeapAllocs, used, nextFree>>
     \/ /\ size # 0 /\ address # 0
        /\ Tracked(runtimeHeapAllocs, address) # {}
        /\ FreeOld(runtimeHeapAlloc(runtimeHeapAllocs, used, nextFree, size),
                   address)

HeapNext ==
  \/ \E size \in HeapSizes : tinygoRuntimeAlloc(size)
  \/ \E address \in HeapAddresses : tinygoRuntimeFree(address)
  \/ \E address \in HeapAddresses, size \in HeapSizes :
       tinygoRuntimeRealloc(address, size)

-----------------------------------------------------------------------------
(***************************************************************************)
(* Properties.                                                             *)
(***************************************************************************)

(* The frames of the allocation in slot i of the table. *)
Block(i) ==
  LET e == runtimeHeapAllocs[i]
  IN  IF e.inUse THEN e.base..(e.base + e.pages - 1) ELSE {}

HeapFrames == UNION {Block(i) : i \in HeapSlots}

(* An allocation is never smaller than what was asked for, not even for a  *)
(* size whose rounding up to a page wraps around.                          *)
HeapCovers ==
  \A i \in HeapSlots :
    runtimeHeapAllocs[i].inUse =>
      runtimeHeapAllocs[i].pages * PageSize >= runtimeHeapAllocs[i].size
=============================================================================
