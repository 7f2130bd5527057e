------------------------- MODULE PageAllocatorProofs -------------------------
(***************************************************************************)
(* Proofs about PageAllocator, for every memory map, every number of       *)
(* frames and every set of calls.                                          *)
(***************************************************************************)
EXTENDS PageAllocator, MemoryLemmas

-----------------------------------------------------------------------------
(***************************************************************************)
(* The memory map.                                                         *)
(***************************************************************************)

LEMMA DivBound ==
  ASSUME NEW p \in Nat \ {0}, NEW c \in Nat, NEW a \in Nat, a < c * p
  PROVE  a \div p \in 0..(c - 1)
<1>1. a \div p \in Nat /\ (a \div p) * p <= a
  OBVIOUS
<1>2. (a \div p) * p < c * p
  BY <1>1
<1>3. a \div p < c
  BY <1>1, <1>2
<1> QED
  BY <1>1, <1>3

(* The frame number of an address is a frame of the window or NoFrame. *)
LEMMA FrameFromAddressType ==
  ASSUME NEW address \in Nat
  PROVE  FrameFromAddress(address) \in Frames \cup {NoFrame}
<1>1. CASE address < MemoryBase \/ address >= FrameAddress(PageFrameCount) \/ address % PageSize # 0
  BY <1>1 DEF FrameFromAddress
<1>2. CASE ~(address < MemoryBase \/ address >= FrameAddress(PageFrameCount) \/ address % PageSize # 0)
  <2>1. PageFrameCount * PageSize \in Nat
    BY PageSizeAssumption, FrameCountAssumption
  <2>2. address - MemoryBase \in Nat /\ address - MemoryBase < PageFrameCount * PageSize
    BY <1>2, <2>1, BaseAssumption DEF FrameAddress
  <2>3. (address - MemoryBase) \div PageSize \in 0..(PageFrameCount - 1)
    BY <2>2, DivBound, PageSizeAssumption, FrameCountAssumption
  <2> QED
    BY <1>2, <2>3 DEF FrameFromAddress, Frames
<1> QED
  BY <1>1, <1>2

(* A usable frame lies above the reserve and outside every reserved range: *)
(* the only row of the table that makes it usable is the last one, so no   *)
(* earlier row holds its address.                                          *)
LEMMA UsableFrames ==
  ASSUME NEW f \in Frames, Usable(f)
  PROVE  /\ f \in ReserveFrames..(PageFrameCount - 1)
         /\ \A i \in DOMAIN regionTable :
              regionTable[i].reserved =>
                ~AddressInRegion(FrameAddress(f), regionTable[i])
<1> DEFINE a == FrameAddress(f)
           hw == Len(HardwareRegions)
<1>1. hw \in Nat /\ DOMAIN HardwareRegions = 1..hw
  BY RegionAssumption
<1>2. /\ DOMAIN regionTable = 1..(hw + 2)
      /\ \A i \in 1..hw : regionTable[i] = HardwareRegions[i]
      /\ regionTable[hw + 1].reserved
      /\ regionTable[hw + 2] =
           [start |-> FrameAddress(ReserveFrames), end |-> FrameAddress(PageFrameCount),
            kind |-> "DRAM", reserved |-> FALSE]
  BY <1>1, RegionAssumption DEF regionTable
<1>3. \A i \in 1..(hw + 1) : regionTable[i].reserved
  BY <1>1, <1>2, RegionAssumption
<1>4. RegionsOf(a) \in SUBSET Nat /\ RegionsOf(a) # {}
  BY <1>1, <1>2 DEF RegionsOf, Usable, IsUsableDRAMAddress
<1> DEFINE m == Min(RegionsOf(a))
<1>5. m \in RegionsOf(a) /\ \A i \in RegionsOf(a) : m <= i
  BY <1>4, MinNat
<1>6. ~regionTable[m].reserved
  BY DEF Usable, IsUsableDRAMAddress
<1> HIDE DEF m
<1>7. m = hw + 2
  BY <1>1, <1>2, <1>3, <1>5, <1>6 DEF RegionsOf
<1>8. \A i \in 1..(hw + 1) : ~AddressInRegion(a, regionTable[i])
  BY <1>1, <1>2, <1>5, <1>7 DEF RegionsOf
<1>9. a >= FrameAddress(ReserveFrames)
  BY <1>2, <1>5, <1>7 DEF RegionsOf, AddressInRegion
<1>10. f \in Nat /\ ReserveFrames \in Nat /\ PageSize \in Nat \ {0} /\ MemoryBase \in Nat
  BY PageSizeAssumption, FrameCountAssumption, BaseAssumption DEF Frames
<1>11. f * PageSize >= ReserveFrames * PageSize
  BY <1>9, <1>10 DEF FrameAddress
<1>12. f >= ReserveFrames
  BY <1>10, <1>11
<1> QED
  BY <1>1, <1>2, <1>8, <1>10, <1>12, FrameCountAssumption DEF Frames

-----------------------------------------------------------------------------
(***************************************************************************)
(* The inductive invariant.                                                *)
(***************************************************************************)

(* Once the kernel owns memory, the frames that are not usable DRAM are    *)
(* marked used - the search relies on it to pass them over - and the boot  *)
(* allocator is retired.                                                   *)
Inv ==
  /\ TypeOK
  /\ mem_init_complete => InitialUsed \subseteq used
  /\ mem_init_complete => bootAllocator.disabled
  /\ bootAllocator.disabled => ~bootAllocator.enabled

LEMMA AlignUpType ==
  ASSUME NEW value \in Nat
  PROVE  AlignUp(value) \in Nat
<1> DEFINE sum == (value + PageSize - 1) % WordSize
<1>1. value + PageSize - 1 \in Nat /\ PageSize \in Nat \ {0} /\ WordSize \in Nat \ {0}
  BY PageSizeAssumption, BaseAssumption
<1>2. sum \in Nat
  BY <1>1, ModRange
<1>3. sum % PageSize <= sum /\ sum % PageSize \in Nat
  BY <1>1, <1>2
<1> QED
  BY <1>2, <1>3 DEF AlignUp

LEMMA InitInv == Init => Inv
<1> SUFFICES ASSUME Init PROVE Inv
  OBVIOUS
<1>1. TypeOK
  BY DEF Init, TypeOK, Result, Pools, Frames, NoFrame
<1> QED
  BY <1>1 DEF Init, Inv

LEMMA InitialUsedType == InitialUsed \in SUBSET Frames
  BY DEF InitialUsed

LEMMA InitialNextFreeType == InitialNextFree \in [Pools -> Nat]
  BY PoolBounds DEF InitialNextFree

(* Every call preserves the invariant. *)
LEMMA NextInv == Inv /\ [Next]_vars => Inv'
<1> SUFFICES ASSUME Inv, [Next]_vars PROVE Inv'
  OBVIOUS
<1> USE DEF Inv
<1>1. CASE Panic
  BY <1>1 DEF Panic, bootVars, TypeOK
<1>2. CASE bootAllocatorInit
  <2>1. CASE Panic
    BY <1>1, <2>1
  <2>2. CASE ~Panic
    <3>1. /\ ~bootAllocator.disabled
          /\ bootAllocator' = [bootAllocator EXCEPT !.enabled = TRUE, !.cursor = MemoryBase]
          /\ UNCHANGED <<mem_init_complete, bootPages, used, nextFree, result, panic>>
      BY <1>2, <2>2 DEF bootAllocatorInit
    <3>2. bootAllocator' \in [enabled: BOOLEAN, disabled: BOOLEAN, cursor: Nat]
      BY <3>1, BaseAssumption DEF TypeOK
    <3>3. ~bootAllocator'.disabled
      BY <3>1 DEF TypeOK
    <3> QED
      BY <3>1, <3>2, <3>3 DEF TypeOK
  <2> QED
    BY <2>1, <2>2
<1>3. CASE bootAllocatorDisable
  BY <1>3 DEF bootAllocatorDisable, TypeOK
<1>4. ASSUME NEW size \in BootSizes, bootAlloc(size) PROVE Inv'
  <2> DEFINE bytes == AlignUp(size)
             next  == (bootAllocator.cursor + bytes) % WordSize
             first == (bootAllocator.cursor - MemoryBase) \div PageSize
  <2>1. bytes \in Nat /\ bootAllocator.cursor \in Nat
    BY AlignUpType, CallerAssumption DEF TypeOK
  <2>2. next \in Nat
    BY <2>1, ModRange, BaseAssumption
  <2>3. first \in Int /\ bytes \div PageSize \in Int
    BY <2>1, PageSizeAssumption, BaseAssumption
  <2>4. first..(first + (bytes \div PageSize) - 1) \subseteq Int
    BY <2>3
  <2> HIDE DEF bytes, next, first
  <2>5. \/ Panic
        \/ /\ bootAllocator.enabled
           /\ bootAllocator' = [bootAllocator EXCEPT !.cursor = next]
           /\ bootPages' = bootPages \cup first..(first + (bytes \div PageSize) - 1)
           /\ UNCHANGED <<mem_init_complete, used, nextFree, result, panic>>
    BY <1>4 DEF bootAlloc, bytes, next, first
  <2> QED
    BY <1>1, <2>2, <2>4, <2>5 DEF TypeOK
<1>5. CASE phase2Init
  <2>1. CASE Panic
    BY <1>1, <2>1
  <2>2. CASE ~Panic
    <3>1. /\ bootAllocator' = [enabled |-> FALSE, disabled |-> TRUE, cursor |-> MemoryBase]
          /\ used' = InitialUsed /\ nextFree' = InitialNextFree
          /\ mem_init_complete' = TRUE
          /\ UNCHANGED <<bootPages, result, panic>>
      BY <1>5, <2>2 DEF phase2Init
    <3> QED
      BY <3>1, BaseAssumption, InitialUsedType, InitialNextFreeType DEF TypeOK
  <2> QED
    BY <2>1, <2>2
<1>6. ASSUME NEW pool \in Pools, AllocPage(pool) PROVE Inv'
  <2> DEFINE alloc == allocPageFromPool(used, nextFree, pool)
  <2>1. CASE ~mem_init_complete
    <3>1. /\ result' = Result("AllocPage", pool, NoFrame)
          /\ UNCHANGED <<used, nextFree, mem_init_complete, bootAllocator, bootPages, panic>>
      BY <1>6, <2>1 DEF AllocPage, bootVars
    <3> QED
      BY <3>1 DEF TypeOK, Result
  <2>2. CASE mem_init_complete
    <3>1. /\ alloc.next \in [Pools -> Nat]
          /\ alloc.used \in SUBSET Frames /\ used \subseteq alloc.used
          /\ alloc.frame \in Frames \cup {NoFrame}
      <4>1. /\ used \in SUBSET Frames /\ InitialUsed \subseteq used
            /\ nextFree \in [Pools -> Nat]
        BY <2>2 DEF TypeOK
      <4>2. PageReply(used, pool, alloc)
        BY <4>1, AllocPageEffect
      <4> HIDE DEF alloc
      <4> QED
        BY <4>1, <4>2, PoolFramesType DEF PageReply
    <3> HIDE DEF alloc
    <3>2. /\ used' = alloc.used /\ nextFree' = alloc.next
          /\ result' = Result("AllocPage", pool, alloc.frame)
          /\ UNCHANGED <<bootVars, panic>>
      BY <1>6, <2>2 DEF AllocPage, alloc
    <3> QED
      BY <2>2, <3>1, <3>2 DEF TypeOK, bootVars, Result
  <2> QED
    BY <2>1, <2>2
<1>7. ASSUME NEW pool \in Pools, NEW count \in PageCounts, AllocContig(pool, count) PROVE Inv'
  <2> DEFINE alloc == allocContigFromPool(used, nextFree, pool, count)
  <2>1. CASE ~mem_init_complete
    <3>1. /\ result' = Result("AllocContig", pool, NoFrame)
          /\ UNCHANGED <<used, nextFree, mem_init_complete, bootAllocator, bootPages, panic>>
      BY <1>7, <2>1 DEF AllocContig, bootVars
    <3> QED
      BY <3>1 DEF TypeOK, Result
  <2>2. CASE mem_init_complete
    <3>1. /\ alloc.next \in [Pools -> Nat]
          /\ alloc.used \in SUBSET Frames /\ used \subseteq alloc.used
          /\ alloc.frame \in Frames \cup {NoFrame}
      <4>1. /\ used \in SUBSET Frames /\ InitialUsed \subseteq used
            /\ nextFree \in [Pools -> Nat] /\ count \in Nat
        BY <2>2, CallerAssumption DEF TypeOK
      <4>2. ContigReply(used, pool, count, alloc)
        BY <4>1, AllocContigEffect
      <4> HIDE DEF alloc
      <4> QED
        BY <4>1, <4>2, PoolFramesType DEF ContigReply
    <3> HIDE DEF alloc
    <3>2. /\ used' = alloc.used /\ nextFree' = alloc.next
          /\ result' = Result("AllocContig", pool, alloc.frame)
          /\ UNCHANGED <<bootVars, panic>>
      BY <1>7, <2>2 DEF AllocContig, alloc
    <3> QED
      BY <2>2, <3>1, <3>2 DEF TypeOK, bootVars, Result
  <2> QED
    BY <2>1, <2>2
<1>8. ASSUME NEW pool \in Pools, NEW address \in Addresses, FreePage(pool, address) PROVE Inv'
  <2> DEFINE f == FrameFromAddress(address)
             freed == freePageInPool(used, nextFree, f, pool)
  <2>1. CASE ~mem_init_complete
    <3>1. /\ result' = Result("FreePage", pool, NoFrame)
          /\ UNCHANGED <<used, nextFree, mem_init_complete, bootAllocator, bootPages, panic>>
      BY <1>8, <2>1 DEF FreePage, bootVars
    <3> QED
      BY <3>1 DEF TypeOK, Result
  <2>2. CASE mem_init_complete
    <3>1. f \in Frames \cup {NoFrame}
      BY FrameFromAddressType, CallerAssumption
    <3>2. /\ freed.next \in [Pools -> Nat]
          /\ freed.used \in SUBSET Frames /\ InitialUsed \subseteq freed.used
      <4>1. /\ used \in SUBSET Frames /\ InitialUsed \subseteq used
            /\ nextFree \in [Pools -> Nat]
        BY <2>2 DEF TypeOK
      <4>2. FreeReply(used, pool, f, freed)
        BY <3>1, <4>1, FreePageEffect
      <4> HIDE DEF f, freed
      <4> QED
        BY <3>1, <4>1, <4>2 DEF FreeReply
    <3> HIDE DEF f, freed
    <3>3. /\ used' = freed.used /\ nextFree' = freed.next
          /\ result' = Result("FreePage", pool, IF freed.ok THEN f ELSE NoFrame)
          /\ UNCHANGED <<bootVars, panic>>
      BY <1>8, <2>2 DEF FreePage, f, freed
    <3> QED
      BY <2>2, <3>1, <3>2, <3>3 DEF TypeOK, bootVars, Result
  <2> QED
    BY <2>1, <2>2
<1>9. CASE UNCHANGED vars
  BY <1>9 DEF vars, memVars, TypeOK
<1> QED
  BY <1>2, <1>3, <1>4, <1>5, <1>6, <1>7, <1>8, <1>9 DEF Next

LEMMA InvHolds == Spec => []Inv
  BY InitInv, NextInv, PTL DEF Spec

-----------------------------------------------------------------------------
(***************************************************************************)
(* The theorems.                                                           *)
(***************************************************************************)

(* Whatever sequence of calls is made, before phase2Init or after it, the  *)
(* bitmap, the cursors and the results stay within their types.            *)
THEOREM TypeCorrect == Spec => []TypeOK
  BY InvHolds, PTL DEF Inv

(* No frame of a reserved or hardware range is ever available to           *)
(* allocPageFromPool or allocContigFromPool.                               *)
THEOREM ReservedNeverAvailable == Spec => []NeverReserved
<1>1. Inv => NeverReserved
  <2> SUFFICES ASSUME Inv, NEW f \in Available
               PROVE  /\ \E pool \in Pools : f \in PoolFrames(pool)
                      /\ \A i \in DOMAIN regionTable :
                           regionTable[i].reserved =>
                             ~AddressInRegion(FrameAddress(f), regionTable[i])
    BY DEF NeverReserved
  <2>1. f \in Frames /\ Usable(f)
    BY DEF Inv, Available, InitialUsed
  <2> QED
    BY <2>1, UsableFrames, PoolsPartition
<1> QED
  BY <1>1, InvHolds, PTL

(* Once retired by phase2Init the boot allocator stays retired. *)
THEOREM BootStaysRetired == Spec => BootRetired
<1>1. Inv /\ [Next]_vars =>
        [bootAllocator.disabled =>
           /\ bootAllocator'.disabled /\ ~bootAllocator'.enabled
           /\ bootPages' = bootPages]_vars
  <2> SUFFICES ASSUME Inv, [Next]_vars, bootAllocator.disabled
               PROVE  /\ bootAllocator'.disabled /\ ~bootAllocator'.enabled
                      /\ bootPages' = bootPages
    OBVIOUS
  <2> USE DEF Inv, TypeOK, Panic, bootVars
  <2>1. CASE UNCHANGED vars
    BY <2>1 DEF vars
  <2>2. CASE Next
    BY <2>2 DEF Next, bootAllocatorInit, bootAllocatorDisable, bootAlloc, phase2Init,
                AllocPage, AllocContig, FreePage
  <2> QED
    BY <2>1, <2>2
<1> QED
  BY <1>1, InvHolds, PTL DEF Spec, BootRetired

-----------------------------------------------------------------------------
(***************************************************************************)
(* Pages of the boot allocator.  bootAlloc adds the size to its cursor     *)
(* without a test for overflow, so the result needs sizes for which        *)
(* nothing wraps around.                                                   *)
(***************************************************************************)

SizesFit ==
  \A size \in BootSizes : FrameAddress(ReserveFrames) + size + PageSize <= WordSize

(* The cursor stays in the reserve, and so does what was handed out. *)
BootInv ==
  /\ bootAllocator.enabled =>
       bootAllocator.cursor \in MemoryBase..FrameAddress(ReserveFrames)
  /\ bootPages \subseteq 0..(ReserveFrames - 1)

LEMMA ProductBound ==
  ASSUME NEW p \in Nat \ {0}, NEW k \in Nat, NEW c \in Nat, k * p <= c * p
  PROVE  k <= c
  OBVIOUS

LEMMA BootAllocInReserve ==
  ASSUME Inv, BootInv, SizesFit, NEW size \in BootSizes, bootAlloc(size)
  PROVE  BootInv'
<1> DEFINE bytes == AlignUp(size)
           cursor == bootAllocator.cursor
           next  == (cursor + bytes) % WordSize
           first == (cursor - MemoryBase) \div PageSize
           end   == FrameAddress(ReserveFrames)
           count == bytes \div PageSize
<1>1. \/ UNCHANGED <<bootAllocator, bootPages>>
      \/ /\ bootAllocator.enabled /\ next <= end
         /\ bootAllocator' = [bootAllocator EXCEPT !.cursor = next]
         /\ bootPages' = bootPages \cup first..(first + count - 1)
  BY DEF bootAlloc, Panic, bootVars
<1>2. CASE UNCHANGED <<bootAllocator, bootPages>>
  BY <1>2 DEF BootInv
<1>3. CASE /\ bootAllocator.enabled /\ next <= end
           /\ bootAllocator' = [bootAllocator EXCEPT !.cursor = next]
           /\ bootPages' = bootPages \cup first..(first + count - 1)
  <2>1. /\ size \in Nat /\ PageSize \in Nat \ {0} /\ WordSize \in Nat \ {0}
        /\ MemoryBase \in Nat /\ ReserveFrames \in Nat
    BY CallerAssumption, PageSizeAssumption, BaseAssumption, FrameCountAssumption
  <2>2. ReserveFrames * PageSize \in Nat /\ end = MemoryBase + ReserveFrames * PageSize
    BY <2>1 DEF FrameAddress
  <2>3. cursor \in MemoryBase..end
    BY <1>3 DEF BootInv
  <2>4. size + PageSize - 1 \in 0..(WordSize - 1) /\ end + size + PageSize <= WordSize
    BY <2>1, <2>2 DEF SizesFit
  <2>5. bytes \in Nat /\ bytes <= size + PageSize - 1
    <3>1. (size + PageSize - 1) % WordSize = size + PageSize - 1
      BY <2>1, <2>4, ModWithin
    <3>2. (size + PageSize - 1) % PageSize \in 0..(size + PageSize - 1)
      BY <2>1
    <3> QED BY <2>1, <3>1, <3>2 DEF AlignUp
  <2> HIDE DEF bytes, end, cursor
  <2>6. cursor + bytes \in 0..(WordSize - 1)
    BY <2>1, <2>2, <2>3, <2>4, <2>5
  <2>7. next = cursor + bytes
    BY <2>1, <2>6, ModWithin
  <2> HIDE DEF next
  <2>8. next \in MemoryBase..end
    <3>1. next <= end
      BY <1>3
    <3> QED BY <2>1, <2>2, <2>3, <2>5, <2>7, <3>1
  <2>9. /\ first \in Nat /\ count \in Nat
        /\ first * PageSize <= cursor - MemoryBase /\ count * PageSize <= bytes
    <3>1. cursor - MemoryBase \in Nat
      BY <2>1, <2>2, <2>3
    <3> QED BY <2>1, <2>5, <3>1
  <2> HIDE DEF first, count
  <2>10. (first + count) * PageSize <= ReserveFrames * PageSize
    <3>1. (first + count) * PageSize = first * PageSize + count * PageSize
      BY <2>1, <2>9
    <3> QED BY <2>1, <2>2, <2>3, <2>5, <2>7, <2>8, <2>9, <3>1
  <2>11. first + count <= ReserveFrames
    BY <2>1, <2>9, <2>10, ProductBound
  <2>12. first..(first + count - 1) \subseteq 0..(ReserveFrames - 1)
    BY <2>1, <2>9, <2>11
  <2>13. bootAllocator'.cursor = next
    BY <1>3 DEF Inv, TypeOK
  <2> QED BY <1>3, <2>8, <2>12, <2>13 DEF BootInv, end
<1> QED BY <1>1, <1>2, <1>3

LEMMA NextBootInv ==
  ASSUME SizesFit
  PROVE  Inv /\ BootInv /\ [Next]_vars => BootInv'
<1> SUFFICES ASSUME Inv, BootInv, [Next]_vars PROVE BootInv'
  OBVIOUS
<1>1. MemoryBase \in MemoryBase..FrameAddress(ReserveFrames)
  <2>1. ReserveFrames * PageSize \in Nat
    BY FrameCountAssumption, PageSizeAssumption
  <2> QED BY <2>1, BaseAssumption DEF FrameAddress
<1>2. CASE bootAllocatorInit \/ bootAllocatorDisable \/ phase2Init
  <2>1. \/ /\ bootAllocator' = bootAllocator
           /\ bootPages' = bootPages
        \/ /\ bootAllocator' = [bootAllocator EXCEPT !.enabled = TRUE, !.cursor = MemoryBase]
           /\ bootPages' = bootPages
        \/ /\ bootAllocator' = [bootAllocator EXCEPT !.enabled = FALSE, !.disabled = TRUE]
           /\ bootPages' = bootPages
        \/ /\ bootAllocator' = [enabled |-> FALSE, disabled |-> TRUE, cursor |-> MemoryBase]
           /\ bootPages' = bootPages
    BY <1>2 DEF bootAllocatorInit, bootAllocatorDisable, phase2Init, Panic, bootVars
  <2>2. bootAllocator'.enabled => bootAllocator' = bootAllocator \/ bootAllocator'.cursor = MemoryBase
    <3>1. bootAllocator \in [enabled: BOOLEAN, disabled: BOOLEAN, cursor: Nat]
      BY DEF Inv, TypeOK
    <3>2. CASE bootAllocator' = [bootAllocator EXCEPT !.enabled = TRUE, !.cursor = MemoryBase]
      BY <3>1, <3>2
    <3>3. CASE bootAllocator' = [bootAllocator EXCEPT !.enabled = FALSE, !.disabled = TRUE]
      <4>1. ~bootAllocator'.enabled
        BY <3>1, <3>3
      <4> QED BY <4>1
    <3>4. CASE bootAllocator' = [enabled |-> FALSE, disabled |-> TRUE, cursor |-> MemoryBase]
      BY <3>4
    <3> QED BY <2>1, <3>2, <3>3, <3>4
  <2> QED BY <1>1, <2>1, <2>2 DEF BootInv
<1>3. CASE UNCHANGED vars
  BY <1>3 DEF vars, BootInv
<1>4. ASSUME NEW pool \in Pools,
             \/ AllocPage(pool)
             \/ \E count \in PageCounts : AllocContig(pool, count)
             \/ \E address \in Addresses : FreePage(pool, address)
      PROVE  BootInv'
  BY <1>4 DEF AllocPage, AllocContig, FreePage, bootVars, BootInv
<1> QED BY <1>2, <1>3, <1>4, BootAllocInReserve DEF Next

(* As long as no size makes the cursor wrap around, a page the boot        *)
(* allocator handed out never comes into circulation.                      *)
THEOREM BootPagesSurvive ==
  ASSUME SizesFit
  PROVE  Spec => []BootPagesKept
<1>1. Init => BootInv
  BY DEF Init, BootInv
<1>2. Inv /\ BootInv /\ [Next]_vars => BootInv'
  BY NextBootInv
<1>3. Inv /\ BootInv => BootPagesKept
  <2> SUFFICES ASSUME Inv, BootInv, NEW f \in bootPages, f \in Available PROVE FALSE
    BY DEF BootPagesKept
  <2>1. f \in Frames /\ Usable(f)
    BY DEF Inv, Available, InitialUsed
  <2>2. f \in ReserveFrames..(PageFrameCount - 1)
    BY <2>1, UsableFrames
  <2> QED BY <2>2, FrameCountAssumption DEF BootInv
<1> QED BY <1>1, <1>2, <1>3, InvHolds, PTL DEF Spec

-----------------------------------------------------------------------------
(***************************************************************************)
(* The refinement.  Under the invariant the frames whose bit is clear are  *)
(* exactly the free frames of the abstract pools.                          *)
(***************************************************************************)

LEMMA FreeInPool ==
  ASSUME Inv, NEW pool \in Pools
  PROVE  /\ mem_init_complete => Abstract!FreeIn(pool) = PoolFrames(pool) \ used
         /\ ~mem_init_complete => Abstract!FreeIn(pool) = {}
<1>1. Abstract!FreeIn(pool) = Available \cap {f \in PoolFrames(pool) : Usable(f)}
  BY DEF Abstract!FreeIn, FramesOfPool
<1>2. ASSUME mem_init_complete
      PROVE  Available \cap {f \in PoolFrames(pool) : Usable(f)} = PoolFrames(pool) \ used
  <2>1. Available = Frames \ used /\ InitialUsed \subseteq used
    BY <1>2 DEF Available, Inv
  <2> QED
    BY <2>1, PoolFramesType DEF InitialUsed
<1> QED
  BY <1>1, <1>2 DEF Available

(* Opening the pools: phase2Init frees exactly the usable frames of both. *)
LEMMA AllUsable ==
  Frames \ InitialUsed = UNION {FramesOfPool[pool] : pool \in Pools}
<1>1. ASSUME NEW f \in Frames, Usable(f)
      PROVE  \E pool \in Pools : f \in PoolFrames(pool)
  BY <1>1, UsableFrames, PoolsPartition
<1>2. \A pool \in Pools : FramesOfPool[pool] = {f \in PoolFrames(pool) : Usable(f)}
  BY DEF FramesOfPool
<1> QED
  BY <1>1, <1>2, PoolFramesType DEF InitialUsed

(* A step that leaves bitmap, phase and result alone is a stutter. *)
LEMMA StutterStep ==
  ASSUME UNCHANGED <<mem_init_complete, used, result>>
  PROVE  UNCHANGED Abstract!poolVars
  BY DEF Abstract!poolVars, Available

LEMMA AllocPageStep ==
  ASSUME Inv, NEW pool \in Pools, AllocPage(pool)
  PROVE  Abstract!AllocPage(pool)
<1> DEFINE alloc == allocPageFromPool(used, nextFree, pool)
<1>1. mem_init_complete' = mem_init_complete
  BY DEF AllocPage, bootVars
<1>2. CASE ~mem_init_complete
  <2>1. result' = Result("AllocPage", pool, NoFrame) /\ Available' = Available
    BY <1>1, <1>2 DEF AllocPage, Available
  <2> QED
    BY <1>1, <1>2, <2>1, FreeInPool DEF Abstract!AllocPage, Abstract!Reply, Result
<1>3. CASE mem_init_complete
  <2>1. PageReply(used, pool, alloc)
    BY <1>3, AllocPageEffect DEF Inv, TypeOK
  <2>2. used' = alloc.used /\ result' = Result("AllocPage", pool, alloc.frame)
    BY <1>3 DEF AllocPage
  <2> HIDE DEF alloc
  <2>3. Available = Frames \ used /\ Available' = Frames \ alloc.used
    BY <1>1, <1>3, <2>2 DEF Available
  <2>4. Abstract!FreeIn(pool) = PoolFrames(pool) \ used
    BY <1>3, FreeInPool
  <2>5. CASE alloc.frame = NoFrame /\ PoolFrames(pool) \subseteq used /\ alloc.used = used
    BY <1>1, <2>2, <2>3, <2>4, <2>5 DEF Abstract!AllocPage, Abstract!Reply, Result
  <2>6. CASE alloc.frame \in PoolFrames(pool) \ used /\ alloc.used = used \cup {alloc.frame}
    <3>1. Available' = Available \ {alloc.frame}
      BY <2>3, <2>6
    <3> QED
      BY <1>1, <2>2, <2>4, <2>6, <3>1 DEF Abstract!AllocPage, Abstract!Reply, Result
  <2> QED
    BY <2>1, <2>5, <2>6 DEF PageReply
<1> QED
  BY <1>2, <1>3

LEMMA AllocContigStep ==
  ASSUME Inv, NEW pool \in Pools, NEW count \in PageCounts, AllocContig(pool, count)
  PROVE  Abstract!AllocContig(pool, count)
<1> DEFINE alloc == allocContigFromPool(used, nextFree, pool, count)
           run(f) == f..(f + count - 1)
<1>1. mem_init_complete' = mem_init_complete
  BY DEF AllocContig, bootVars
<1>2. CASE ~mem_init_complete
  <2>1. result' = Result("AllocContig", pool, NoFrame) /\ Available' = Available
    BY <1>1, <1>2 DEF AllocContig, Available
  <2>2. Abstract!FreeRuns(pool, count) = {}
    BY <1>2, FreeInPool DEF Abstract!FreeRuns
  <2> QED
    BY <1>1, <2>1, <2>2 DEF Abstract!AllocContig, Abstract!Reply, Result
<1>3. CASE mem_init_complete
  <2>1. ContigReply(used, pool, count, alloc)
    BY <1>3, AllocContigEffect, CallerAssumption DEF Inv, TypeOK
  <2>2. used' = alloc.used /\ result' = Result("AllocContig", pool, alloc.frame)
    BY <1>3 DEF AllocContig
  <2> HIDE DEF alloc
  <2>3. Available = Frames \ used /\ Available' = Frames \ alloc.used
    BY <1>1, <1>3, <2>2 DEF Available
  <2>4. Abstract!FreeRuns(pool, count) =
          {f \in PoolFrames(pool) \ used : count > 0 /\ run(f) \subseteq PoolFrames(pool) \ used}
    BY <1>3, FreeInPool DEF Abstract!FreeRuns
  <2>5. CASE /\ alloc.frame = NoFrame /\ alloc.used = used
             /\ count > 0 => \A f \in PoolFrames(pool) : ~(run(f) \subseteq PoolFrames(pool) \ used)
    <3>1. Abstract!FreeRuns(pool, count) = {}
      BY <2>4, <2>5
    <3> QED
      BY <1>1, <2>2, <2>3, <2>5, <3>1 DEF Abstract!AllocContig, Abstract!Reply, Result
  <2>6. CASE /\ count > 0 /\ alloc.frame \in PoolFrames(pool)
             /\ run(alloc.frame) \subseteq PoolFrames(pool) \ used
             /\ alloc.used = used \cup run(alloc.frame)
    <3>1. Available' = Available \ run(alloc.frame)
      BY <2>3, <2>6
    <3>2. alloc.frame \in run(alloc.frame)
      BY <2>6, PoolFramesType, CallerAssumption DEF Frames
    <3>3. alloc.frame \in Abstract!FreeRuns(pool, count)
      BY <2>4, <2>6, <3>2
    <3> QED
      BY <1>1, <2>2, <3>1, <3>3 DEF Abstract!AllocContig, Abstract!Reply, Result
  <2> QED
    BY <2>1, <2>5, <2>6 DEF ContigReply
<1> QED
  BY <1>2, <1>3

LEMMA FreePageStep ==
  ASSUME Inv, NEW pool \in Pools, NEW address \in Addresses, FreePage(pool, address)
  PROVE  \E f \in FramesOfPool[pool] \cup {NoFrame} : Abstract!FreePage(pool, f)
<1> DEFINE g == FrameFromAddress(address)
           freed == freePageInPool(used, nextFree, g, pool)
<1>1. mem_init_complete' = mem_init_complete
  BY DEF FreePage, bootVars
<1>2. FramesOfPool[pool] = {f \in PoolFrames(pool) : Usable(f)}
  BY DEF FramesOfPool
<1>3. NoFrame \notin FramesOfPool[pool]
  BY <1>2, PoolFramesType DEF Frames, NoFrame
<1>4. ASSUME result' = Result("FreePage", pool, NoFrame), used' = used
      PROVE  Abstract!FreePage(pool, NoFrame)
  BY <1>1, <1>3, <1>4 DEF Abstract!FreePage, Abstract!Reply, Result, Available
<1>5. CASE ~mem_init_complete
  BY <1>4, <1>5 DEF FreePage
<1>6. CASE mem_init_complete
  <2>1. g \in Frames \cup {NoFrame}
    BY FrameFromAddressType, CallerAssumption
  <2>2. FreeReply(used, pool, g, freed)
    BY <1>6, <2>1, FreePageEffect DEF Inv, TypeOK
  <2>3. used' = freed.used /\ result' = Result("FreePage", pool, IF freed.ok THEN g ELSE NoFrame)
    BY <1>6 DEF FreePage
  <2> HIDE DEF g, freed
  <2>4. CASE ~freed.ok
    BY <1>4, <2>2, <2>3, <2>4 DEF FreeReply
  <2>5. CASE freed.ok
    <3>1. g \in PoolFrames(pool) /\ Usable(g) /\ g \in used /\ used' = used \ {g}
      BY <2>2, <2>3, <2>5 DEF FreeReply
    <3>2. g \in FramesOfPool[pool] /\ g \in Frames
      BY <1>2, <3>1, PoolFramesType
    <3>3. g \in FramesOfPool[pool] \ Available /\ Available' = Available \cup {g}
      BY <1>1, <1>6, <3>1, <3>2 DEF Available
    <3>4. Abstract!FreePage(pool, g)
      BY <1>1, <1>6, <2>3, <2>5, <3>3 DEF Abstract!FreePage, Abstract!Reply, Result
    <3> QED
      BY <3>2, <3>4
  <2> QED
    BY <2>4, <2>5
<1> QED
  BY <1>5, <1>6

(* The bitmap allocator with its cursors implements PagePool: an           *)
(* allocation succeeds whenever its pool has a suitable free frame or run, *)
(* wherever the cursor stands, never hands out a frame twice, and a free   *)
(* of any address gives back that frame or nothing.                        *)
THEOREM PageAllocatorImplementsPagePool == Spec => ImplementsPagePool
<1>1. Init => Abstract!Init
  BY DEF Init, Abstract!Init, Abstract!Reply, Result, Available
<1>2. Inv /\ [Next]_vars => [Abstract!Next]_(Abstract!poolVars)
  <2> SUFFICES ASSUME Inv, [Next]_vars PROVE Abstract!Next \/ UNCHANGED Abstract!poolVars
    BY DEF Abstract!poolVars
  <2>1. CASE UNCHANGED vars
    BY <2>1, StutterStep DEF vars, memVars
  <2>2. CASE bootAllocatorInit \/ bootAllocatorDisable \/ \E size \in BootSizes : bootAlloc(size)
    <3>1. UNCHANGED <<mem_init_complete, used, result>>
      BY <2>2 DEF bootAllocatorInit, bootAllocatorDisable, bootAlloc, Panic, bootVars
    <3> QED
      BY <3>1, StutterStep
  <2>3. CASE phase2Init
    <3>1. CASE Panic
      BY <3>1, StutterStep DEF Panic, bootVars
    <3>2. CASE ~Panic
      <4>1. /\ ~bootAllocator.disabled /\ used' = InitialUsed /\ mem_init_complete' = TRUE
            /\ result' = result
        BY <2>3, <3>2 DEF phase2Init
      <4>2. ~mem_init_complete
        BY <4>1 DEF Inv
      <4>3. Available' = UNION {FramesOfPool[pool] : pool \in Pools}
        BY <4>1, AllUsable DEF Available
      <4>4. Abstract!Open
        BY <4>1, <4>2, <4>3 DEF Abstract!Open
      <4> QED
        BY <4>4 DEF Abstract!Next
    <3> QED
      BY <3>1, <3>2
  <2>4. ASSUME NEW pool \in Pools, AllocPage(pool) PROVE Abstract!Next
    BY <2>4, AllocPageStep DEF Abstract!Next
  <2>5. ASSUME NEW pool \in Pools, NEW count \in PageCounts, AllocContig(pool, count)
        PROVE  Abstract!Next
    BY <2>5, AllocContigStep DEF Abstract!Next
  <2>6. ASSUME NEW pool \in Pools, NEW address \in Addresses, FreePage(pool, address)
        PROVE  Abstract!Next
    BY <2>6, FreePageStep DEF Abstract!Next
  <2> QED
    BY <2>1, <2>2, <2>3, <2>4, <2>5, <2>6 DEF Next
<1> QED
  BY <1>1, <1>2, InvHolds, PTL DEF Spec, ImplementsPagePool, Abstract!Spec
=============================================================================
