---------------------------- MODULE PageAllocator ----------------------------
(***************************************************************************)
(* Physical memory ownership (cmd/kernel/phase2_memory.go): the boot       *)
(* allocator, phase2Init, which retires it for good, and the page-frame    *)
(* allocator that takes over.  The callers are arbitrary: they may call in *)
(* any order, before phase2Init too, and may pass any address to a free.   *)
(***************************************************************************)
EXTENDS PhysicalMemory

CONSTANTS
  BootSizes,    \* sizes, in bytes, asked of bootAlloc
  PageCounts,   \* page counts asked of allocContigFromPool
  Addresses     \* addresses passed to freePageInPool

ASSUME CallerAssumption ==
  /\ BootSizes \subseteq Nat
  /\ PageCounts \subseteq Nat
  /\ Addresses \subseteq Nat

VARIABLES
  mem_init_complete,
  bootAllocator,   \* bootAllocatorEnabled, ...PermanentlyDisabled, ...Cursor
  bootPages,       \* history: the frames bootAlloc has handed out
  result           \* what the last call returned

vars == <<mem_init_complete, bootAllocator, bootPages, result, memVars>>

bootVars == <<mem_init_complete, bootAllocator, bootPages>>

-----------------------------------------------------------------------------

FramesOfPool == [pool \in Pools |-> {f \in PoolFrames(pool) : Usable(f)}]

Result(call, pool, frame) == [call |-> call, pool |-> pool, frame |-> frame]

Init ==
  /\ mem_init_complete = FALSE
  /\ bootAllocator = [enabled |-> FALSE, disabled |-> FALSE, cursor |-> 0]
  /\ bootPages = {}
  /\ used = {}
  /\ nextFree = [pool \in Pools |-> 0]
  /\ result = Result("none", "none", NoFrame)
  /\ panic = "none"

(* A panic in the boot allocator: nothing runs any more. *)
Panic ==
  /\ panic' = "boot allocator"
  /\ UNCHANGED <<bootVars, used, nextFree, result>>

(* Mutant: a disabled boot allocator can be started again. *)
bootAllocatorRestart ==
  /\ KernelRuns
  /\ bootAllocator' = [bootAllocator EXCEPT !.enabled = TRUE,
                                            !.cursor = MemoryBase]
  /\ UNCHANGED <<mem_init_complete, bootPages, used, nextFree, result, panic>>

bootAllocatorInit ==
  /\ KernelRuns
  /\ \/ bootAllocator.disabled /\ Panic
     \/ /\ ~bootAllocator.disabled
        /\ bootAllocator' = [bootAllocator EXCEPT !.enabled = TRUE,
                                                  !.cursor = MemoryBase]
        /\ UNCHANGED <<mem_init_complete, bootPages, used, nextFree, result,
                       panic>>

bootAllocatorDisable ==
  /\ KernelRuns
  /\ bootAllocator' = [bootAllocator EXCEPT !.enabled = FALSE,
                                            !.disabled = TRUE]
  /\ UNCHANGED <<mem_init_complete, bootPages, used, nextFree, result,
                 panic>>

bootAlloc(size) ==
  LET bytes == AlignUp(size)
      next  == (bootAllocator.cursor + bytes) % WordSize
      first == (bootAllocator.cursor - MemoryBase) \div PageSize
  IN  /\ KernelRuns
      /\ \/ /\ ~bootAllocator.enabled \/ next > FrameAddress(ReserveFrames)
            /\ Panic
         \/ /\ bootAllocator.enabled /\ next <= FrameAddress(ReserveFrames)
            /\ bootAllocator' = [bootAllocator EXCEPT !.cursor = next]
            /\ bootPages' = bootPages \cup
                              first..(first + (bytes \div PageSize) - 1)
            /\ UNCHANGED <<mem_init_complete, used, nextFree, result, panic>>

(* phase2Init: bootAllocatorInit panics the second time. *)
phase2Init ==
  /\ KernelRuns
  /\ \/ bootAllocator.disabled /\ Panic
     \/ /\ ~bootAllocator.disabled
        /\ bootAllocator' = [enabled |-> FALSE, disabled |-> TRUE,
                             cursor |-> MemoryBase]
        /\ used' = InitialUsed
        /\ nextFree' = InitialNextFree
        /\ mem_init_complete' = TRUE
        /\ UNCHANGED <<bootPages, result, panic>>

(* Before initMemoryPools the pools are empty: poolBounds fails. *)
AllocPage(pool) ==
  LET alloc == allocPageFromPool(used, nextFree, pool)
  IN  /\ KernelRuns
      /\ \/ /\ ~mem_init_complete
            /\ result' = Result("AllocPage", pool, NoFrame)
            /\ UNCHANGED <<used, nextFree>>
         \/ /\ mem_init_complete
            /\ used' = alloc.used
            /\ nextFree' = alloc.next
            /\ result' = Result("AllocPage", pool, alloc.frame)
      /\ UNCHANGED <<bootVars, panic>>

AllocContig(pool, count) ==
  LET alloc == allocContigFromPool(used, nextFree, pool, count)
  IN  /\ KernelRuns
      /\ \/ /\ ~mem_init_complete
            /\ result' = Result("AllocContig", pool, NoFrame)
            /\ UNCHANGED <<used, nextFree>>
         \/ /\ mem_init_complete
            /\ used' = alloc.used
            /\ nextFree' = alloc.next
            /\ result' = Result("AllocContig", pool, alloc.frame)
      /\ UNCHANGED <<bootVars, panic>>

(* The region table is empty before phase2Init: no address is usable. *)
FreePage(pool, address) ==
  LET f    == FrameFromAddress(address)
      freed == freePageInPool(used, nextFree, f, pool)
  IN  /\ KernelRuns
      /\ \/ /\ ~mem_init_complete
            /\ result' = Result("FreePage", pool, NoFrame)
            /\ UNCHANGED <<used, nextFree>>
         \/ /\ mem_init_complete
            /\ used' = freed.used
            /\ nextFree' = freed.next
            /\ result' = Result("FreePage", pool,
                                IF freed.ok THEN f ELSE NoFrame)
      /\ UNCHANGED <<bootVars, panic>>

Next ==
  \/ bootAllocatorInit
  \/ bootAllocatorDisable
  \/ \E size \in BootSizes : bootAlloc(size)
  \/ phase2Init
  \/ \E pool \in Pools :
       \/ AllocPage(pool)
       \/ \E count \in PageCounts : AllocContig(pool, count)
       \/ \E address \in Addresses : FreePage(pool, address)

Spec == Init /\ [][Next]_vars

-----------------------------------------------------------------------------
(***************************************************************************)
(* Properties.                                                             *)
(***************************************************************************)

TypeOK ==
  /\ mem_init_complete \in BOOLEAN
  /\ bootAllocator \in [enabled: BOOLEAN, disabled: BOOLEAN, cursor: Nat]
  /\ bootPages \subseteq Int
  /\ used \subseteq Frames
  /\ nextFree \in [Pools -> Nat]
  /\ result \in [call: {"none", "AllocPage", "AllocContig", "FreePage"},
                 pool: Pools \cup {"none"}, frame: Frames \cup {NoFrame}]
  /\ panic \in {"none", "boot allocator"}

(* The frames an allocation can still return. *)
Available == IF mem_init_complete THEN Frames \ used ELSE {}

(* A frame that can be handed out lies in no reserved range of the memory  *)
(* map, even where the configurable DRAM window overlaps a hardware range, *)
(* and the two pools cover it.                                             *)
NeverReserved ==
  \A f \in Available :
    /\ \E pool \in Pools : f \in PoolFrames(pool)
    /\ \A i \in DOMAIN regionTable :
         regionTable[i].reserved => ~AddressInRegion(FrameAddress(f), regionTable[i])

(* A page the boot allocator handed out is never in circulation in the     *)
(* page allocator: early-boot data survives phase2Init.                    *)
BootPagesKept == bootPages \cap Available = {}

(* Once disabled the boot allocator hands out nothing more, whatever is    *)
(* called afterwards, and page frames are owned only after that.           *)
BootRetired ==
  [][bootAllocator.disabled =>
       /\ bootAllocator'.disabled /\ ~bootAllocator'.enabled
       /\ bootPages' = bootPages]_vars

(* The allocator implements PagePool: the next-fit search takes a suitable *)
(* free frame whenever its pool has one, the wrap-around included, returns *)
(* only such frames, and a free of any address gives back exactly the      *)
(* handed-out frame of the pool at that address or nothing.                *)
Abstract == INSTANCE PagePool
  WITH Pool <- Pools, FramesOf <- FramesOfPool, Counts <- PageCounts,
       open <- mem_init_complete, free <- Available, reply <- result

ImplementsPagePool == Abstract!Spec
=============================================================================
