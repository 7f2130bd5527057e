----------------------------- MODULE PageFrames -----------------------------
(***************************************************************************)
(* The data structure behind the page-frame allocator of                   *)
(* cmd/kernel/phase2_memory.go: the memory map, the two frame pools and    *)
(* the next-fit search over the frame bitmap.                              *)
(*                                                                         *)
(* The module has no variables.  An operation takes the bitmap u (the set  *)
(* of frames whose bit is set) and the cursors n (nextFreeFrame and        *)
(* userNextFreeFrame, indexed by pool) and yields a record with the frame  *)
(* it returns and the new bitmap and cursors, so that the modules that     *)
(* call the allocator several times in one kernel operation can chain      *)
(* calls.                                                                  *)
(***************************************************************************)
EXTENDS Integers, Sequences, FiniteSetsExt

CONSTANTS
  PageSize,         \* pageSizeBytes
  PageFrameCount,   \* pageFrameCount
  ReserveFrames,    \* bootAllocatorReserveSize / pageSizeBytes
  MemoryBase,       \* physicalMemoryBase
  WordSize,         \* the number of values of a uintptr
  HardwareRegions   \* the ROM, IRAM and peripheral entries of the memory map

(***************************************************************************)
(* A row of regionTable.  addMemoryRegion panics on an empty range.        *)
(***************************************************************************)
MemoryRegion ==
  [start: Nat, end: Nat, kind: {"ROM", "IRAM", "DRAM", "Peripheral"},
   reserved: BOOLEAN]

ASSUME PageSizeAssumption == PageSize \in Nat \ {0}

ASSUME FrameCountAssumption ==
  /\ PageFrameCount \in Nat
  /\ ReserveFrames \in 0..PageFrameCount

ASSUME BaseAssumption ==
  /\ MemoryBase \in Nat
  /\ MemoryBase % PageSize = 0
  /\ WordSize \in Nat \ {0}

ASSUME RegionAssumption ==
  /\ HardwareRegions \in Seq(MemoryRegion)
  /\ \A i \in DOMAIN HardwareRegions :
       /\ HardwareRegions[i].start < HardwareRegions[i].end
       /\ HardwareRegions[i].reserved

-----------------------------------------------------------------------------
(***************************************************************************)
(* The memory map.                                                         *)
(***************************************************************************)

Frames == 0..(PageFrameCount - 1)

(* The value an allocation returns when it fails, and the frame number of  *)
(* an address that has none.                                               *)
NoFrame == -1

FrameAddress(f) == MemoryBase + f * PageSize

(* Mutant: a size is rounded down. *)
AlignDown(value) == value - (value % PageSize)

(* alignUp to a page: the addition wraps around at the word size.          *)
AlignUp(value) ==
  LET sum == (value + PageSize - 1) % WordSize
  IN  sum - (sum % PageSize)

(* The table buildMemoryMap leaves behind: the hardware ranges, then the   *)
(* boot reserve and the usable rest of the DRAM window.                    *)
regionTable ==
  HardwareRegions \o
  << [start |-> MemoryBase, end |-> FrameAddress(ReserveFrames),
      kind |-> "DRAM", reserved |-> TRUE],
     [start |-> FrameAddress(ReserveFrames), end |-> FrameAddress(PageFrameCount),
      kind |-> "DRAM", reserved |-> FALSE] >>

AddressInRegion(address, region) ==
  address >= region.start /\ address < region.end

RegionsOf(address) ==
  {i \in DOMAIN regionTable : AddressInRegion(address, regionTable[i])}

(* Mutant: any row may make the address usable, not only the first. *)
UsableInAnyRegion(address) ==
  \E i \in RegionsOf(address) :
    regionTable[i].kind = "DRAM" /\ ~regionTable[i].reserved

(* Mutant: the boot reserve counts as usable. *)
UsableIfDRAM(address) ==
  /\ RegionsOf(address) # {}
  /\ regionTable[Min(RegionsOf(address))].kind = "DRAM"

(* findMemoryRegion returns the first row that holds the address; the      *)
(* DRAM window may overlap a hardware range, because its base is           *)
(* configurable.                                                           *)
IsUsableDRAMAddress(address) ==
  /\ RegionsOf(address) # {}
  /\ LET region == regionTable[Min(RegionsOf(address))]
     IN  region.kind = "DRAM" /\ ~region.reserved

Usable(f) == IsUsableDRAMAddress(FrameAddress(f))

FrameFromAddress(address) ==
  IF \/ address < MemoryBase
     \/ address >= FrameAddress(PageFrameCount)
     \/ address % PageSize # 0
  THEN NoFrame
  ELSE (address - MemoryBase) \div PageSize

-----------------------------------------------------------------------------
(***************************************************************************)
(* The pools: initMemoryPools gives the first half of the usable frames to *)
(* the kernel, all of them when a half would be empty.                     *)
(***************************************************************************)

Pools == {"kernel", "user"}

KernelFrameCount ==
  LET usableFrameCount == PageFrameCount - ReserveFrames
      half             == usableFrameCount \div 2
  IN  IF half = 0 THEN usableFrameCount ELSE half

PoolStart(pool) ==
  IF pool = "kernel" THEN ReserveFrames ELSE ReserveFrames + KernelFrameCount

PoolEnd(pool) ==
  IF pool = "kernel" THEN ReserveFrames + KernelFrameCount ELSE PageFrameCount

PoolFrames(pool) == PoolStart(pool)..(PoolEnd(pool) - 1)

PoolSpan(pool) == PoolEnd(pool) - PoolStart(pool)

(* Mutant: the loop over the frames runs one too far. *)
InitialUsedPastEnd == {f \in 0..PageFrameCount : ~Usable(f)}

(* What pageAllocatorInit and initMemoryPools leave behind: every frame    *)
(* that is not usable DRAM is marked used, for good.                       *)
InitialUsed == {f \in Frames : ~Usable(f)}

InitialNextFree == [pool \in Pools |-> PoolStart(pool)]

-----------------------------------------------------------------------------
(***************************************************************************)
(* The next-fit search.  A cursor outside its pool counts as the start of  *)
(* the pool; the k-th frame looked at is k frames further on, wrapping.    *)
(***************************************************************************)

BaseFrame(n, pool) ==
  IF n[pool] \in PoolFrames(pool) THEN n[pool] ELSE PoolStart(pool)

ScanFrame(n, pool, k) ==
  PoolStart(pool) +
    ((BaseFrame(n, pool) - PoolStart(pool) + k) % PoolSpan(pool))

(* Mutant: the last frame of a round is not looked at. *)
ScanStepsShort(pool) == 0..(PoolSpan(pool) - 2)

ScanSteps(pool) == 0..(PoolSpan(pool) - 1)

NextAfter(pool, f) == IF f >= PoolEnd(pool) THEN PoolStart(pool) ELSE f

Allocatable(u, f) == f \notin u /\ Usable(f)

PageHits(u, n, pool) ==
  {k \in ScanSteps(pool) : Allocatable(u, ScanFrame(n, pool, k))}

(* A frame the scan passes over is used already or, when it is free but    *)
(* not usable DRAM, is marked used on the way.                             *)
allocPageFromPool(u, n, pool) ==
  IF PageHits(u, n, pool) = {}
  THEN [frame |-> NoFrame, used |-> u \cup PoolFrames(pool), next |-> n]
  ELSE LET k == Min(PageHits(u, n, pool))
           f == ScanFrame(n, pool, k)
       IN  [frame |-> f,
            used  |-> u \cup {ScanFrame(n, pool, j) : j \in 0..k},
            next  |-> [n EXCEPT ![pool] = NextAfter(pool, f + 1)]]

ContigHits(u, n, pool, count) ==
  {k \in ScanSteps(pool) :
     LET candidate == ScanFrame(n, pool, k)
     IN  /\ candidate + count <= PoolEnd(pool)
         /\ \A f \in candidate..(candidate + count - 1) : Allocatable(u, f)}

CountFits(pool, count) == count # 0 /\ count <= PoolSpan(pool)

allocContigFromPool(u, n, pool, count) ==
  IF ~CountFits(pool, count) \/ ContigHits(u, n, pool, count) = {}
  THEN [frame |-> NoFrame, used |-> u, next |-> n]
  ELSE LET candidate == ScanFrame(n, pool, Min(ContigHits(u, n, pool, count)))
       IN  [frame |-> candidate,
            used  |-> u \cup candidate..(candidate + count - 1),
            next  |-> [n EXCEPT ![pool] = NextAfter(pool, candidate + count)]]

(* Mutant: the first frame of a pool counts as outside it. *)
FreeableAboveStart(u, f, pool) ==
  /\ f \in Frames
  /\ Usable(f)
  /\ f \in PoolFrames(pool) \ {PoolStart(pool)}
  /\ f \in u

(* The conditions under which freePageInPool gives frame f back.           *)
Freeable(u, f, pool) ==
  /\ f \in Frames
  /\ Usable(f)
  /\ f \in PoolFrames(pool)
  /\ f \in u

(* Mutant: the bit is not cleared. *)
freePageKeepsBit(u, n, f, pool) ==
  [ok |-> Freeable(u, f, pool), used |-> u, next |-> n]

freePageInPool(u, n, f, pool) ==
  IF ~Freeable(u, f, pool)
  THEN [ok |-> FALSE, used |-> u, next |-> n]
  ELSE [ok   |-> TRUE,
        used |-> u \ {f},
        next |-> IF n[pool] \notin PoolFrames(pool) \/ f < n[pool]
                 THEN [n EXCEPT ![pool] = f]
                 ELSE n]
=============================================================================
