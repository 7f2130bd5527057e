---------------------------- MODULE MemoryLemmas ----------------------------
(***************************************************************************)
(* What the operators of PageFrames and VirtualMemory return, for every    *)
(* memory map, every split of it into frames and pools and every layout of *)
(* an address space: the facts that the proofs about all components with   *)
(* memory rest on.                                                         *)
(***************************************************************************)
EXTENDS VirtualMemory, TLAPS, FiniteSetTheorems, WellFoundedInduction

-----------------------------------------------------------------------------
(***************************************************************************)
(* Arithmetic.                                                             *)
(***************************************************************************)

(* A non-empty set of naturals has a least element, and Min finds it. *)
LEMMA MinNat ==
  ASSUME NEW S \in SUBSET Nat, S # {}
  PROVE  Min(S) \in S /\ \A y \in S : Min(S) <= y
<1> DEFINE R == OpToRel(<, Nat)
<1>1. \A x, y \in Nat : <<y, x>> \in R <=> y < x
  BY DEF OpToRel
<1> HIDE DEF R
<1>2. PICK x \in S : \A y \in S : ~(<<y, x>> \in R)
  BY NatLessThanWellFounded, WFMin DEF R
<1>3. ASSUME NEW y \in S PROVE x <= y
  <2>1. x \in Nat /\ y \in Nat
    OBVIOUS
  <2>2. ~(y < x)
    BY <1>1, <1>2, <2>1, Zenon
  <2> QED
    BY <2>1, <2>2
<1> QED
  BY <1>3 DEF Min

(* Reduction modulo the length of a cycle that has been entered once. *)
LEMMA ModWithin ==
  ASSUME NEW b \in Nat \ {0}, NEW a \in 0..(b - 1)
  PROVE  a % b = a /\ (a + b) % b = a
  OBVIOUS

LEMMA ModRange ==
  ASSUME NEW b \in Nat \ {0}, NEW a \in Nat
  PROVE  a % b \in 0..(b - 1)
  OBVIOUS

-----------------------------------------------------------------------------
(***************************************************************************)
(* The pools.                                                              *)
(***************************************************************************)

(* The pools are consecutive intervals of the frames above the reserve. *)
LEMMA PoolBounds ==
  /\ KernelFrameCount \in Nat
  /\ \A pool \in Pools :
       /\ PoolStart(pool) \in Nat /\ PoolEnd(pool) \in Nat
       /\ PoolSpan(pool) \in Nat
       /\ PoolSpan(pool) = PoolEnd(pool) - PoolStart(pool)
       /\ ReserveFrames <= PoolStart(pool)
       /\ PoolEnd(pool) <= PageFrameCount
<1>1. KernelFrameCount \in 0..(PageFrameCount - ReserveFrames)
  BY FrameCountAssumption DEF KernelFrameCount
<1> QED
  BY <1>1, FrameCountAssumption DEF Pools, PoolStart, PoolEnd, PoolSpan

LEMMA PoolFramesType ==
  \A pool \in Pools : PoolFrames(pool) \subseteq Frames
  BY PoolBounds, FrameCountAssumption DEF PoolFrames, Frames

(* Together they are all frames above the reserve, and they share none. *)
LEMMA PoolsPartition ==
  /\ UNION {PoolFrames(pool) : pool \in Pools} = ReserveFrames..(PageFrameCount - 1)
  /\ PoolFrames("kernel") \cap PoolFrames("user") = {}
<1>1. KernelFrameCount \in 0..(PageFrameCount - ReserveFrames)
  BY FrameCountAssumption DEF KernelFrameCount
<1>2. PoolFrames("kernel") = ReserveFrames..(ReserveFrames + KernelFrameCount - 1)
  BY <1>1, FrameCountAssumption DEF PoolFrames, PoolStart, PoolEnd
<1>3. PoolFrames("user") = (ReserveFrames + KernelFrameCount)..(PageFrameCount - 1)
  BY <1>1, FrameCountAssumption DEF PoolFrames, PoolStart, PoolEnd
<1>4. UNION {PoolFrames(pool) : pool \in Pools} = PoolFrames("kernel") \cup PoolFrames("user")
  BY DEF Pools
<1>5. PoolFrames("kernel") \cup PoolFrames("user") = ReserveFrames..(PageFrameCount - 1)
  BY <1>1, <1>2, <1>3, FrameCountAssumption
<1>6. PoolFrames("kernel") \cap PoolFrames("user") = {}
  BY <1>1, <1>2, <1>3, FrameCountAssumption
<1> QED
  BY <1>4, <1>5, <1>6

-----------------------------------------------------------------------------
(***************************************************************************)
(* The next-fit search.                                                    *)
(***************************************************************************)

(* The search looks only at frames of its pool. *)
LEMMA ScanInPool ==
  ASSUME NEW n \in [Pools -> Nat], NEW pool \in Pools,
         NEW k \in ScanSteps(pool)
  PROVE  ScanFrame(n, pool, k) \in PoolFrames(pool)
<1>1. PoolSpan(pool) \in Nat \ {0} /\ k \in Nat
  BY PoolBounds DEF ScanSteps
<1>2. BaseFrame(n, pool) \in PoolStart(pool)..(PoolEnd(pool) - 1)
  BY <1>1, PoolBounds DEF BaseFrame, PoolFrames
<1>3. (BaseFrame(n, pool) - PoolStart(pool) + k) \in Nat
  BY <1>1, <1>2, PoolBounds
<1>4. (BaseFrame(n, pool) - PoolStart(pool) + k) % PoolSpan(pool)
        \in 0..(PoolSpan(pool) - 1)
  BY <1>1, <1>3, ModRange
<1> QED
  BY <1>4, PoolBounds DEF ScanFrame, PoolFrames

(* The search looks at every frame of its pool, those before the cursor    *)
(* after it has wrapped around.                                            *)
LEMMA ScanComplete ==
  ASSUME NEW n \in [Pools -> Nat], NEW pool \in Pools,
         NEW f \in PoolFrames(pool)
  PROVE  \E k \in ScanSteps(pool) : ScanFrame(n, pool, k) = f
<1> DEFINE s == PoolStart(pool)
           b == BaseFrame(n, pool)
           span == PoolSpan(pool)
<1>1. span \in Nat \ {0} /\ s \in Nat /\ f - s \in 0..(span - 1)
  BY PoolBounds DEF PoolFrames
<1>2. b - s \in 0..(span - 1)
  BY <1>1, PoolBounds DEF BaseFrame, PoolFrames
<1>3. CASE f >= b
  <2>1. f - b \in ScanSteps(pool) /\ b - s + (f - b) = f - s
    BY <1>1, <1>2, <1>3, PoolBounds DEF ScanSteps, PoolFrames, BaseFrame
  <2>2. ScanFrame(n, pool, f - b) = f
    BY <1>1, <2>1, ModWithin, PoolBounds DEF ScanFrame, PoolFrames
  <2> QED
    BY <2>1, <2>2
<1>4. CASE f < b
  <2>1. f - b + span \in ScanSteps(pool) /\ b - s + (f - b + span) = (f - s) + span
    BY <1>1, <1>2, <1>4, PoolBounds DEF ScanSteps, PoolFrames, BaseFrame
  <2>2. ScanFrame(n, pool, f - b + span) = f
    BY <1>1, <2>1, ModWithin, PoolBounds DEF ScanFrame, PoolFrames
  <2> QED
    BY <2>1, <2>2
<1>5. f \in Int /\ b \in Int
  BY <1>1, <1>2, PoolBounds DEF PoolFrames, BaseFrame
<1>6. f >= b \/ f < b
  BY <1>5
<1> QED
  BY <1>3, <1>4, <1>6

-----------------------------------------------------------------------------
(***************************************************************************)
(* The allocator's operations, on a bitmap in which the unusable frames    *)
(* are marked used, as pageAllocatorInit leaves it.                        *)
(***************************************************************************)

LEMMA NextAfterType ==
  ASSUME NEW pool \in Pools, NEW f \in Nat
  PROVE  NextAfter(pool, f) \in Nat
  BY PoolBounds DEF NextAfter

(* On such a bitmap a frame can be allocated exactly when its bit is clear. *)
LEMMA AllocatableMeansFree ==
  ASSUME NEW u \in SUBSET Frames, InitialUsed \subseteq u,
         NEW f \in Frames
  PROVE  Allocatable(u, f) <=> f \notin u
  BY DEF Allocatable, InitialUsed

(* Reply r of an allocation on bitmap u takes one free frame of the pool,  *)
(* or fails because the pool has none.                                     *)
PageReply(u, pool, r) ==
  /\ r.next \in [Pools -> Nat]
  /\ \/ /\ r.frame = NoFrame
        /\ PoolFrames(pool) \subseteq u
        /\ r.used = u
     \/ /\ r.frame \in PoolFrames(pool) \ u
        /\ r.used = u \cup {r.frame}

(* allocPageFromPool takes one free frame of the pool, and fails only when *)
(* the pool has none.                                                      *)
LEMMA AllocPageEffect ==
  ASSUME NEW u \in SUBSET Frames, InitialUsed \subseteq u,
         NEW n \in [Pools -> Nat], NEW pool \in Pools
  PROVE  PageReply(u, pool, allocPageFromPool(u, n, pool))
<1> DEFINE r == allocPageFromPool(u, n, pool)
<1>1. \A k \in ScanSteps(pool) :
        /\ ScanFrame(n, pool, k) \in PoolFrames(pool)
        /\ ScanFrame(n, pool, k) \in Frames
        /\ Allocatable(u, ScanFrame(n, pool, k)) <=> ScanFrame(n, pool, k) \notin u
  BY ScanInPool, PoolFramesType, AllocatableMeansFree
<1>2. CASE PageHits(u, n, pool) = {}
  <2>1. PoolFrames(pool) \subseteq u
    <3> SUFFICES ASSUME NEW f \in PoolFrames(pool) PROVE f \in u
      OBVIOUS
    <3>1. PICK k \in ScanSteps(pool) : ScanFrame(n, pool, k) = f
      BY ScanComplete
    <3> QED
      BY <1>1, <1>2, <3>1 DEF PageHits
  <2>2. r = [frame |-> NoFrame, used |-> u \cup PoolFrames(pool), next |-> n]
    BY <1>2 DEF allocPageFromPool
  <2> HIDE DEF r
  <2>3. PageReply(u, pool, r)
    BY <2>1, <2>2 DEF PageReply
  <2> QED
    BY <2>3 DEF r
<1>3. CASE PageHits(u, n, pool) # {}
  <2> DEFINE k == Min(PageHits(u, n, pool))
             f == ScanFrame(n, pool, k)
  <2>1. PageHits(u, n, pool) \in SUBSET Nat
    BY PoolBounds DEF PageHits, ScanSteps
  <2>2. k \in PageHits(u, n, pool) /\ \A j \in PageHits(u, n, pool) : k <= j
    BY <1>3, <2>1, MinNat
  <2>3. k \in ScanSteps(pool) /\ k \in Nat /\ f \in PoolFrames(pool) \ u /\ f \in Nat
    BY <1>1, <2>1, <2>2 DEF PageHits, Frames
  <2>4. r = [frame |-> f, used |-> u \cup {ScanFrame(n, pool, j) : j \in 0..k},
             next |-> [n EXCEPT ![pool] = NextAfter(pool, f + 1)]]
    BY <1>3 DEF allocPageFromPool
  <2> HIDE DEF k, r
  <2>5. ASSUME NEW j \in 0..k PROVE ScanFrame(n, pool, j) \in u \cup {f}
    <3>1. j \in ScanSteps(pool)
      BY <2>3, PoolBounds DEF ScanSteps
    <3>2. CASE j = k
      BY <3>2
    <3>3. CASE j # k
      <4>1. j \notin PageHits(u, n, pool)
        BY <2>2, <2>3, <3>3
      <4> QED
        BY <1>1, <3>1, <4>1 DEF PageHits
    <3> QED
      BY <3>2, <3>3
  <2>6. {ScanFrame(n, pool, j) : j \in 0..k} \subseteq u \cup {f}
    BY <2>5
  <2>7. f \in {ScanFrame(n, pool, j) : j \in 0..k}
    BY <2>3
  <2>8. r.used = u \cup {f} /\ r.frame = f
    BY <2>4, <2>6, <2>7
  <2>9. NextAfter(pool, f + 1) \in Nat
    BY <2>3, NextAfterType
  <2>10. r.next \in [Pools -> Nat]
    BY <2>4, <2>9
  <2>11. PageReply(u, pool, r)
    BY <2>3, <2>8, <2>10 DEF PageReply
  <2> QED
    BY <2>11 DEF r
<1> QED
  BY <1>2, <1>3

(* Reply r takes a run of count free frames of the pool, or fails because  *)
(* the pool has none that long.                                            *)
ContigReply(u, pool, count, r) ==
  /\ r.next \in [Pools -> Nat]
  /\ \/ /\ r.frame = NoFrame
        /\ r.used = u
        /\ count > 0 =>
             \A f \in PoolFrames(pool) :
               ~(f..(f + count - 1) \subseteq PoolFrames(pool) \ u)
     \/ /\ count > 0
        /\ r.frame \in PoolFrames(pool)
        /\ r.frame..(r.frame + count - 1) \subseteq PoolFrames(pool) \ u
        /\ r.used = u \cup r.frame..(r.frame + count - 1)

(* allocContigFromPool takes a run of free frames inside the pool, and     *)
(* fails only when the pool has no run that long.                          *)
LEMMA AllocContigEffect ==
  ASSUME NEW u \in SUBSET Frames, InitialUsed \subseteq u,
         NEW n \in [Pools -> Nat], NEW pool \in Pools, NEW count \in Nat
  PROVE  ContigReply(u, pool, count, allocContigFromPool(u, n, pool, count))
<1> DEFINE r == allocContigFromPool(u, n, pool, count)
           hits == ContigHits(u, n, pool, count)
           run(f) == f..(f + count - 1)
<1>1. \A k \in ScanSteps(pool) : ScanFrame(n, pool, k) \in PoolFrames(pool)
  BY ScanInPool
<1>2. ASSUME NEW f \in PoolFrames(pool), f + count <= PoolEnd(pool)
      PROVE  /\ run(f) \subseteq PoolFrames(pool)
             /\ (\A g \in run(f) : Allocatable(u, g)) <=> run(f) \subseteq PoolFrames(pool) \ u
  <2>1. run(f) \subseteq PoolFrames(pool)
    BY <1>2, PoolBounds DEF PoolFrames
  <2>2. \A g \in run(f) : Allocatable(u, g) <=> g \notin u
    BY <2>1, PoolFramesType, AllocatableMeansFree
  <2> QED
    BY <2>1, <2>2
<1>3. ASSUME NEW f \in PoolFrames(pool), count > 0, run(f) \subseteq PoolFrames(pool) \ u
      PROVE  hits # {} /\ count <= PoolSpan(pool)
  <2>1. f + count - 1 \in run(f)
    BY <1>3, PoolBounds DEF PoolFrames
  <2>2. f + count - 1 \in PoolFrames(pool)
    BY <1>3, <2>1
  <2>3. f + count <= PoolEnd(pool) /\ count <= PoolSpan(pool)
    BY <2>2, <1>3, PoolBounds DEF PoolFrames
  <2>4. PICK k \in ScanSteps(pool) : ScanFrame(n, pool, k) = f
    BY ScanComplete
  <2>5. k \in hits
    BY <1>2, <1>3, <2>3, <2>4 DEF ContigHits
  <2> QED
    BY <2>3, <2>5
<1>4. CASE count = 0 \/ count > PoolSpan(pool) \/ hits = {}
  <2>1. r = [frame |-> NoFrame, used |-> u, next |-> n]
    BY <1>4, PoolBounds DEF allocContigFromPool, CountFits
  <2>2. ASSUME count > 0, NEW f \in PoolFrames(pool), run(f) \subseteq PoolFrames(pool) \ u
        PROVE  FALSE
    BY <1>3, <1>4, <2>2, PoolBounds
  <2> HIDE DEF r
  <2>3. ContigReply(u, pool, count, r)
    BY <2>1, <2>2 DEF ContigReply
  <2> QED
    BY <2>3 DEF r
<1>5. CASE count # 0 /\ ~(count > PoolSpan(pool)) /\ hits # {}
  <2> DEFINE k == Min(hits)
             f == ScanFrame(n, pool, k)
  <2>1. hits \in SUBSET Nat
    BY PoolBounds DEF ContigHits, ScanSteps
  <2>2. k \in hits
    BY <1>5, <2>1, MinNat
  <2>3. r = [frame |-> f, used |-> u \cup run(f),
             next |-> [n EXCEPT ![pool] = NextAfter(pool, f + count)]]
    BY <1>5, PoolBounds DEF allocContigFromPool, CountFits
  <2> HIDE DEF k
  <2>4. f \in PoolFrames(pool) /\ f + count <= PoolEnd(pool) /\ \A g \in run(f) : Allocatable(u, g)
    BY <1>1, <2>2 DEF ContigHits
  <2>5. run(f) \subseteq PoolFrames(pool) \ u
    BY <1>2, <2>4
  <2>6. NextAfter(pool, f + count) \in Nat
    BY <2>4, NextAfterType, PoolFramesType DEF Frames
  <2> HIDE DEF f, r
  <2>7. r.next \in [Pools -> Nat]
    BY <2>3, <2>6
  <2>8. r.frame = f /\ r.used = u \cup run(f) /\ count > 0
    BY <2>3, <1>5
  <2>9. ContigReply(u, pool, count, r)
    BY <2>4, <2>5, <2>7, <2>8 DEF ContigReply
  <2> QED
    BY <2>9 DEF r
<1> QED
  BY <1>4, <1>5

(* Reply r gives frame f back when it is a used, usable frame of the pool, *)
(* and changes nothing otherwise.                                          *)
FreeReply(u, pool, f, r) ==
  /\ r.next \in [Pools -> Nat]
  /\ r.ok <=> f \in PoolFrames(pool) /\ Usable(f) /\ f \in u
  /\ r.used = IF r.ok THEN u \ {f} ELSE u
  /\ InitialUsed \subseteq r.used

(* freePageInPool gives back exactly a used, usable frame of the pool. *)
LEMMA FreePageEffect ==
  ASSUME NEW u \in SUBSET Frames, InitialUsed \subseteq u,
         NEW n \in [Pools -> Nat], NEW pool \in Pools,
         NEW f \in Frames \cup {NoFrame}
  PROVE  FreeReply(u, pool, f, freePageInPool(u, n, f, pool))
<1>1. CASE Freeable(u, f, pool)
  <2>1. f \in Nat /\ f \in Frames /\ Usable(f) /\ f \in PoolFrames(pool) /\ f \in u
    BY <1>1 DEF Freeable, Frames
  <2>2. InitialUsed \subseteq u \ {f}
    BY <2>1 DEF InitialUsed
  <2> QED
    BY <1>1, <2>1, <2>2 DEF freePageInPool, FreeReply
<1>2. CASE ~Freeable(u, f, pool)
  <2>1. ~(f \in PoolFrames(pool) /\ Usable(f) /\ f \in u)
    BY <1>2, PoolFramesType DEF Freeable
  <2> QED
    BY <1>2, <2>1 DEF freePageInPool, FreeReply
<1> QED
  BY <1>1, <1>2

-----------------------------------------------------------------------------
(***************************************************************************)
(* The memory operations.                                                  *)
(***************************************************************************)

(* Bitmap and cursors as an allocation may find them. *)
MemoryOK(u, n) ==
  /\ u \in SUBSET Frames
  /\ InitialUsed \subseteq u
  /\ n \in [Pools -> Nat]

(* What the operations on an address space return. *)
SpacePanics == {"none", "failed to free trap page", "failed to free stack page"}

SpaceReplies ==
  [ok: BOOLEAN, panic: SpacePanics, vm: AddressSpace,
   used: {u \in SUBSET Frames : InitialUsed \subseteq u}, next: [Pools -> Nat]]

LEMMA AllocPageMemory ==
  ASSUME NEW u, NEW n, MemoryOK(u, n), NEW pool \in Pools
  PROVE  /\ allocPageFromPool(u, n, pool).frame \in Frames \cup {NoFrame}
         /\ MemoryOK(allocPageFromPool(u, n, pool).used,
                     allocPageFromPool(u, n, pool).next)
<1> DEFINE r == allocPageFromPool(u, n, pool)
<1>1. PageReply(u, pool, r)
  BY AllocPageEffect DEF MemoryOK
<1> HIDE DEF r
<1>2. /\ r.frame \in Frames \cup {NoFrame}
      /\ MemoryOK(r.used, r.next)
  BY <1>1, PoolFramesType DEF PageReply, MemoryOK
<1> QED BY <1>2 DEF r

LEMMA FreePageMemory ==
  ASSUME NEW u, NEW n, MemoryOK(u, n), NEW pool \in Pools,
         NEW f \in Frames \cup {NoFrame}
  PROVE  /\ freePageInPool(u, n, f, pool).ok \in BOOLEAN
         /\ MemoryOK(freePageInPool(u, n, f, pool).used,
                     freePageInPool(u, n, f, pool).next)
<1> DEFINE r == freePageInPool(u, n, f, pool)
<1>1. FreeReply(u, pool, f, r)
  BY FreePageEffect DEF MemoryOK
<1>2. r.ok \in BOOLEAN
  BY DEF freePageInPool, Freeable
<1> HIDE DEF r
<1>3. MemoryOK(r.used, r.next)
  BY <1>1 DEF FreeReply, MemoryOK
<1> QED BY <1>2, <1>3 DEF r

(* Mapping a page keeps a page table a set of mappings. *)
LEMMA MapOwnedType ==
  ASSUME NEW pt \in SUBSET VMMapping, NEW va \in Nat, NEW f \in Frames,
         NEW pool \in Pools, NEW perm \in SUBSET Perms
  PROVE  /\ vmMapOwnedPage(pt, va, f, pool, perm).ok \in BOOLEAN
         /\ vmMapOwnedPage(pt, va, f, pool, perm).pt \in SUBSET VMMapping
<1> DEFINE mapped == vmMapPage(pt, va, f, perm)
           entry  == vmFindMapping(mapped.pt, va)
           old    == vmFindMapping(pt, va)
<1>1. old \subseteq VMMapping
  BY DEF vmFindMapping
<1>2. {[m EXCEPT !.frame = f, !.perm = perm] : m \in old} \subseteq VMMapping
  BY <1>1 DEF VMMapping
<1>3. [va |-> va, frame |-> f, perm |-> perm, pool |-> "kernel",
       owned |-> FALSE] \in VMMapping
  BY DEF VMMapping, Pools
<1>4. mapped.ok \in BOOLEAN /\ mapped.pt \in SUBSET VMMapping
  BY <1>2, <1>3 DEF vmMapPage
<1> HIDE DEF mapped
<1>5. entry \subseteq VMMapping
  BY <1>4 DEF vmFindMapping
<1>6. {[m EXCEPT !.owned = TRUE, !.pool = pool] : m \in entry} \subseteq VMMapping
  BY <1>5 DEF VMMapping
<1>7. vmMapOwnedPage(pt, va, f, pool, perm) =
        IF ~mapped.ok THEN mapped
        ELSE [ok |-> TRUE,
              pt |-> (mapped.pt \ entry) \cup
                       {[m EXCEPT !.owned = TRUE, !.pool = pool] : m \in entry}]
  BY DEF vmMapOwnedPage, mapped
<1> DEFINE r == vmMapOwnedPage(pt, va, f, pool, perm)
<1> HIDE DEF entry, r
<1>8. r.ok \in BOOLEAN /\ r.pt \in SUBSET VMMapping
  <2>1. CASE ~mapped.ok
    BY <1>4, <1>7, <2>1 DEF r
  <2>2. CASE mapped.ok
    <3> DEFINE marked == {[m EXCEPT !.owned = TRUE, !.pool = pool] : m \in entry}
    <3>1. r = [ok |-> TRUE, pt |-> (mapped.pt \ entry) \cup marked]
      BY <1>7, <2>2 DEF r
    <3>2. marked \subseteq VMMapping
      BY <1>6
    <3> HIDE DEF marked
    <3> QED BY <1>4, <3>1, <3>2
  <2> QED BY <2>1, <2>2
<1> QED BY <1>8 DEF r

LEMMA MapFreshType ==
  ASSUME NEW vm \in AddressSpace, NEW va \in Nat, NEW page,
         page.frame \in Frames \cup {NoFrame}, MemoryOK(page.used, page.next),
         NEW pool \in Pools, NEW perm \in SUBSET Perms, NEW message \in SpacePanics
  PROVE  MapFreshPage(vm, va, page, pool, perm, message) \in SpaceReplies
<1> DEFINE mapped == vmMapOwnedPage(vm.ptable, va, page.frame, pool, perm)
           freed  == freePageInPool(page.used, page.next, page.frame, pool)
           r      == MapFreshPage(vm, va, page, pool, perm, message)
<1>1. r = IF page.frame = NoFrame
          THEN [ok |-> FALSE, panic |-> "none", vm |-> vm,
                used |-> page.used, next |-> page.next]
          ELSE IF ~mapped.ok
          THEN [ok |-> FALSE, panic |-> IF freed.ok THEN "none" ELSE message,
                vm |-> vm, used |-> freed.used, next |-> freed.next]
          ELSE [ok |-> TRUE, panic |-> "none",
                vm |-> [vm EXCEPT !.ptable = mapped.pt],
                used |-> page.used, next |-> page.next]
  BY DEF MapFreshPage
<1>2. freed.ok \in BOOLEAN /\ MemoryOK(freed.used, freed.next)
  BY FreePageMemory
<1>3. "none" \in SpacePanics
  BY DEF SpacePanics
<1>4. ASSUME page.frame # NoFrame
      PROVE  mapped.ok \in BOOLEAN /\ mapped.pt \in SUBSET VMMapping
  BY <1>4, MapOwnedType DEF AddressSpace
<1> HIDE DEF mapped, freed, r
<1>5. CASE page.frame = NoFrame
  BY <1>1, <1>3, <1>5 DEF SpaceReplies, MemoryOK, r
<1>6. CASE page.frame # NoFrame /\ ~mapped.ok
  BY <1>1, <1>2, <1>3, <1>6 DEF SpaceReplies, MemoryOK, r
<1>7. CASE page.frame # NoFrame /\ mapped.ok
  <2>1. [vm EXCEPT !.ptable = mapped.pt] \in AddressSpace
    BY <1>4, <1>7 DEF AddressSpace
  <2> QED BY <1>1, <1>3, <1>7, <2>1 DEF SpaceReplies, MemoryOK, r
<1> QED BY <1>4, <1>5, <1>6, <1>7

LEMMA InitProcessType ==
  ASSUME NEW u, NEW n, MemoryOK(u, n)
  PROVE  vmInitProcess(u, n) \in SpaceReplies
<1>1. [ptable |-> {}, stackBase |-> UserStackTop, guard |-> vmNoGuard] \in AddressSpace
  BY LayoutAssumption DEF AddressSpace, vmNoGuard
<1>2. UserTrapPage \in Nat /\ "kernel" \in Pools /\ {"read"} \in SUBSET Perms
      /\ "failed to free trap page" \in SpacePanics
  BY LayoutAssumption DEF Pools, Perms, SpacePanics
<1> QED BY <1>1, <1>2, AllocPageMemory, MapFreshType DEF vmInitProcess

LEMMA MoveStackType ==
  ASSUME NEW grown \in SpaceReplies, NEW va \in Nat \ {0}
  PROVE  MoveStackBase(grown, va) \in SpaceReplies
<1> DEFINE vm == vmRefreshGuard([grown.vm EXCEPT !.stackBase = va])
<1>1. grown.vm \in AddressSpace
  BY DEF SpaceReplies
<1>2. [grown.vm EXCEPT !.stackBase = va] \in AddressSpace
  BY <1>1 DEF AddressSpace
<1>3. [grown.vm EXCEPT !.stackBase = va].stackBase = va
  BY <1>1 DEF AddressSpace
<1>4. vm \in AddressSpace
  <2> DEFINE w == [grown.vm EXCEPT !.stackBase = va]
             g == IF w.stackBase = UserStackTop THEN vmNoGuard ELSE w.stackBase - 1
  <2>1. g \in Nat
    BY <1>3 DEF vmNoGuard
  <2>2. vm = [w EXCEPT !.guard = g]
    BY DEF vmRefreshGuard
  <2> HIDE DEF w, g, vm
  <2> QED BY <1>2, <2>1, <2>2 DEF AddressSpace, w
<1>5. MoveStackBase(grown, va) = IF ~grown.ok THEN grown ELSE [grown EXCEPT !.vm = vm]
  BY DEF MoveStackBase
<1> HIDE DEF vm
<1> QED BY <1>4, <1>5 DEF SpaceReplies

LEMMA GrowStackType ==
  ASSUME NEW vm \in AddressSpace, NEW u, NEW n, MemoryOK(u, n), NEW va \in Nat
  PROVE  vmGrowStack(vm, u, n, va) \in SpaceReplies
<1> DEFINE outside == \/ va >= UserStackTop \/ va < UserStackFloor
                      \/ va + 1 # vm.stackBase
           same    == [ok |-> FALSE, panic |-> "none", vm |-> vm, used |-> u, next |-> n]
           grown   == MapFreshPage(vm, va, allocPageFromPool(u, n, "user"), "user",
                                   {"read", "write", "user"},
                                   "failed to free stack page")
<1>1. vmGrowStack(vm, u, n, va) =
        IF outside THEN same ELSE MoveStackBase(grown, va)
  BY DEF vmGrowStack
<1>2. same \in SpaceReplies
  BY DEF SpaceReplies, MemoryOK, SpacePanics
<1>3. "user" \in Pools /\ {"read", "write", "user"} \in SUBSET Perms
      /\ "failed to free stack page" \in SpacePanics
  BY DEF Pools, Perms, SpacePanics
<1>4. grown \in SpaceReplies
  BY <1>3, AllocPageMemory, MapFreshType
<1>5. ~outside => va \in Nat \ {0}
  BY LayoutAssumption DEF UserStackFloor
<1> HIDE DEF outside, same, grown
<1> QED BY <1>1, <1>2, <1>4, <1>5, MoveStackType

LEMMA CopyPageType ==
  ASSUME NEW vm \in AddressSpace, NEW u, NEW n, MemoryOK(u, n), NEW va \in Nat,
         NEW write \in BOOLEAN
  PROVE  copyPage(vm, u, n, va, write) \in SpaceReplies
<1> DEFINE same  == [ok |-> TRUE, panic |-> "none", vm |-> vm, used |-> u, next |-> n]
           fault == vmHandleFault(vm, u, n, va, write)
           need  == IF write THEN {"write"} ELSE {"read"}
<1>1. same \in SpaceReplies
  BY DEF SpaceReplies, MemoryOK, SpacePanics
<1>2. [same EXCEPT !.ok = FALSE] \in SpaceReplies
  BY DEF SpaceReplies, MemoryOK, SpacePanics
<1>3. fault \in {same, [same EXCEPT !.ok = FALSE], vmGrowStack(vm, u, n, va)}
  BY DEF vmHandleFault
<1>4. fault \in SpaceReplies
  <2>1. vmGrowStack(vm, u, n, va) \in SpaceReplies
    BY GrowStackType
  <2> HIDE DEF fault, same
  <2> QED BY <1>1, <1>2, <1>3, <2>1
<1>5. copyPage(vm, u, n, va, write) \in {same, Retranslate(fault, va, need)}
  BY DEF copyPage
<1>6. Retranslate(fault, va, need) =
        [fault EXCEPT !.ok = fault.ok /\ vmTranslate(fault.vm.ptable, va, need)]
  BY DEF Retranslate
<1>7. vmTranslate(fault.vm.ptable, va, need) \in BOOLEAN
  BY DEF vmTranslate
<1> HIDE DEF same, fault, need
<1>8. Retranslate(fault, va, need) \in SpaceReplies
  BY <1>4, <1>6, <1>7 DEF SpaceReplies
<1> QED BY <1>1, <1>5, <1>8

-----------------------------------------------------------------------------
(***************************************************************************)
(* Mapping a fresh page.                                                   *)
(***************************************************************************)

NewMapping(va, f, pool, perm) ==
  [va |-> va, frame |-> f, perm |-> perm, pool |-> pool, owned |-> TRUE]

(* Mapping a page that is not mapped adds an owned entry, or fails. *)
LEMMA MapNewPage ==
  ASSUME NEW pt \in SUBSET VMMapping, NEW va \in Nat, NEW f \in Frames,
         NEW pool \in Pools, NEW perm \in SUBSET Perms,
         \A m \in pt : m.va # va
  PROVE  LET r == vmMapOwnedPage(pt, va, f, pool, perm)
         IN  r.ok => r.pt = pt \cup {NewMapping(va, f, pool, perm)}
<1> DEFINE mapped == vmMapPage(pt, va, f, perm)
           entry  == vmFindMapping(mapped.pt, va)
           r      == vmMapOwnedPage(pt, va, f, pool, perm)
           raw    == [va |-> va, frame |-> f, perm |-> perm,
                      pool |-> "kernel", owned |-> FALSE]
<1>1. vmFindMapping(pt, va) = {}
  BY DEF vmFindMapping
<1>2. mapped = IF Cardinality(pt) < MaxVMPageMappings
               THEN [ok |-> TRUE, pt |-> pt \cup {raw}]
               ELSE [ok |-> FALSE, pt |-> pt]
  BY <1>1 DEF vmMapPage
<1>3. r = IF ~mapped.ok THEN mapped
          ELSE [ok |-> TRUE,
                pt |-> (mapped.pt \ entry) \cup
                         {[m EXCEPT !.owned = TRUE, !.pool = pool] : m \in entry}]
  BY DEF vmMapOwnedPage
<1> SUFFICES ASSUME r.ok PROVE r.pt = pt \cup {NewMapping(va, f, pool, perm)}
  OBVIOUS
<1>4. mapped.ok
  <2> HIDE DEF mapped
  <2> QED BY <1>3
<1>5. mapped.pt = pt \cup {raw}
  BY <1>2, <1>4
<1> HIDE DEF mapped
<1>6. entry = {raw}
  BY <1>5 DEF vmFindMapping
<1>7. raw \notin pt
  OBVIOUS
<1>8. [raw EXCEPT !.owned = TRUE, !.pool = pool] = NewMapping(va, f, pool, perm)
  <2>1. raw \in VMMapping
    BY DEF VMMapping, Pools
  <2>2. raw.va = va /\ raw.frame = f /\ raw.perm = perm
    OBVIOUS
  <2> HIDE DEF raw
  <2> DEFINE x == [raw EXCEPT !.owned = TRUE, !.pool = pool]
  <2>3. x \in VMMapping
    BY <2>1 DEF VMMapping
  <2>4. x.va = va /\ x.frame = f /\ x.perm = perm /\ x.pool = pool
    BY <2>1, <2>2 DEF VMMapping
  <2>5. x.owned
    BY <2>1 DEF VMMapping
  <2> HIDE DEF x
  <2>6. x = [va |-> x.va, frame |-> x.frame, perm |-> x.perm,
             pool |-> x.pool, owned |-> TRUE]
    BY <2>3, <2>5 DEF VMMapping
  <2> QED BY <2>4, <2>6 DEF NewMapping, x
<1> HIDE DEF raw, entry
<1>9. {[m EXCEPT !.owned = TRUE, !.pool = pool] : m \in entry}
        = {NewMapping(va, f, pool, perm)}
  BY <1>6, <1>8
<1> HIDE DEF r
<1>10. r.pt = (mapped.pt \ entry) \cup {NewMapping(va, f, pool, perm)}
  BY <1>3, <1>4, <1>9
<1> QED BY <1>5, <1>6, <1>7, <1>10

(* A page is allocated and mapped, or nothing has happened. *)
FreshReply(vm, va, u, pool, perm, r) ==
  /\ r.panic = "none"
  /\ MemoryOK(r.used, r.next)
  /\ \/ ~r.ok /\ r.vm = vm /\ r.used = u
     \/ /\ r.ok
        /\ \E f \in PoolFrames(pool) \ u :
             /\ r.used = u \cup {f}
             /\ r.vm = [vm EXCEPT !.ptable = @ \cup {NewMapping(va, f, pool, perm)}]

(* Giving back a frame that has just been allocated restores the bitmap. *)
LEMMA FreeUndoes ==
  ASSUME NEW u, NEW n, NEW f, NEW pool \in Pools, NEW next,
         MemoryOK(u, n), next \in [Pools -> Nat], f \in PoolFrames(pool) \ u
  PROVE  LET r == freePageInPool(u \cup {f}, next, f, pool)
         IN  r.ok /\ r.used = u /\ MemoryOK(r.used, r.next)
<1> DEFINE r == freePageInPool(u \cup {f}, next, f, pool)
<1>1. f \in Frames /\ u \in SUBSET Frames /\ InitialUsed \subseteq u
  BY PoolFramesType DEF MemoryOK
<1>2. MemoryOK(u \cup {f}, next)
  BY <1>1 DEF MemoryOK
<1>3. FreeReply(u \cup {f}, pool, f, r) /\ MemoryOK(r.used, r.next)
  BY <1>1, <1>2, FreePageEffect, FreePageMemory DEF MemoryOK
<1>4. Usable(f)
  BY <1>1 DEF InitialUsed
<1> HIDE DEF r
<1>5. r.ok /\ r.used = (u \cup {f}) \ {f}
  BY <1>3, <1>4 DEF FreeReply
<1>6. (u \cup {f}) \ {f} = u
  OBVIOUS
<1> QED BY <1>3, <1>5, <1>6 DEF r

LEMMA FreshPage ==
  ASSUME NEW vm \in AddressSpace, NEW va \in Nat, NEW u, NEW n, MemoryOK(u, n),
         NEW pool \in Pools, NEW perm \in SUBSET Perms, NEW message,
         \A m \in vm.ptable : m.va # va
  PROVE  FreshReply(vm, va, u, pool, perm,
                    MapFreshPage(vm, va, allocPageFromPool(u, n, pool), pool,
                                 perm, message))
<1> DEFINE page   == allocPageFromPool(u, n, pool)
           mapped == vmMapOwnedPage(vm.ptable, va, page.frame, pool, perm)
           freed  == freePageInPool(page.used, page.next, page.frame, pool)
           r      == MapFreshPage(vm, va, page, pool, perm, message)
<1>1. PageReply(u, pool, page)
  BY AllocPageEffect DEF MemoryOK
<1>2. page.frame \in Frames \cup {NoFrame} /\ MemoryOK(page.used, page.next)
  BY AllocPageMemory
<1>3. r = IF page.frame = NoFrame
          THEN [ok |-> FALSE, panic |-> "none", vm |-> vm,
                used |-> page.used, next |-> page.next]
          ELSE IF ~mapped.ok
          THEN [ok |-> FALSE, panic |-> IF freed.ok THEN "none" ELSE message,
                vm |-> vm, used |-> freed.used, next |-> freed.next]
          ELSE [ok |-> TRUE, panic |-> "none",
                vm |-> [vm EXCEPT !.ptable = mapped.pt],
                used |-> page.used, next |-> page.next]
  BY DEF MapFreshPage
<1>4. vm.ptable \in SUBSET VMMapping
  BY DEF AddressSpace
<1> HIDE DEF page
<1>5. NoFrame \notin PoolFrames(pool)
  BY PoolFramesType DEF NoFrame, Frames
<1>6. CASE page.frame = NoFrame
  <2>1. r = [ok |-> FALSE, panic |-> "none", vm |-> vm,
             used |-> page.used, next |-> page.next]
    BY <1>3, <1>6
  <2>2. page.used = u
    BY <1>1, <1>5, <1>6 DEF PageReply
  <2> HIDE DEF r
  <2>3. FreshReply(vm, va, u, pool, perm, r)
    BY <1>2, <2>1, <2>2 DEF FreshReply
  <2> QED BY <2>3 DEF r, page
<1>7. CASE page.frame # NoFrame
  <2>1. /\ page.frame \in PoolFrames(pool) \ u /\ page.used = u \cup {page.frame}
        /\ page.next \in [Pools -> Nat] /\ page.frame \in Frames
    BY <1>1, <1>2, <1>7 DEF PageReply
  <2>2. CASE ~mapped.ok
    <3>1. freed.ok /\ freed.used = u /\ MemoryOK(freed.used, freed.next)
      BY <2>1, FreeUndoes
    <3>2. r = [ok |-> FALSE, panic |-> "none", vm |-> vm,
               used |-> freed.used, next |-> freed.next]
      BY <1>3, <1>7, <2>2, <3>1
    <3> HIDE DEF r, freed
    <3>3. FreshReply(vm, va, u, pool, perm, r)
      BY <3>1, <3>2 DEF FreshReply
    <3> QED BY <3>3 DEF r, page
  <2>3. CASE mapped.ok
    <3>1. mapped.pt = vm.ptable \cup {NewMapping(va, page.frame, pool, perm)}
      BY <1>4, <2>1, <2>3, MapNewPage
    <3>2. r = [ok |-> TRUE, panic |-> "none",
               vm |-> [vm EXCEPT !.ptable = mapped.pt],
               used |-> page.used, next |-> page.next]
      BY <1>3, <1>7, <2>3
    <3> HIDE DEF r, mapped
    <3>3. r.vm = [vm EXCEPT !.ptable = @ \cup {NewMapping(va, page.frame, pool, perm)}]
      BY <3>1, <3>2
    <3>4. r.ok /\ r.panic = "none" /\ r.used = page.used /\ r.next = page.next
      BY <3>2
    <3>5. FreshReply(vm, va, u, pool, perm, r)
      BY <1>2, <2>1, <3>3, <3>4 DEF FreshReply
    <3> QED BY <3>5 DEF r, page
  <2> QED BY <2>2, <2>3
<1> QED BY <1>6, <1>7

(* A free keeps the types even on a bitmap nothing else is known about. *)
LEMMA FreePageTypes ==
  ASSUME NEW u \in SUBSET Frames, NEW n \in [Pools -> Nat], NEW pool \in Pools, NEW f
  PROVE  /\ freePageInPool(u, n, f, pool).used \in SUBSET Frames
         /\ freePageInPool(u, n, f, pool).next \in [Pools -> Nat]
<1>1. CASE ~Freeable(u, f, pool)
  BY <1>1 DEF freePageInPool
<1>2. CASE Freeable(u, f, pool)
  <2>1. f \in Nat
    BY <1>2, FrameCountAssumption DEF Freeable, Frames
  <2> QED BY <1>2, <2>1 DEF freePageInPool
<1> QED BY <1>1, <1>2

(* Freeing the pages of an address space: typed in any case, and the       *)
(* reserved frames stay marked when every free succeeds.                   *)
LEMMA FreeAllTypes ==
  ASSUME NEW u \in SUBSET Frames, InitialUsed \subseteq u,
         NEW n \in [Pools -> Nat], NEW ms \in SUBSET VMMapping
  PROVE  /\ FreeAll(u, n, ms).used \in SUBSET Frames
         /\ FreeAll(u, n, ms).next \in [Pools -> Nat]
         /\ FreeAll(u, n, ms).ok => InitialUsed \subseteq FreeAll(u, n, ms).used
<1> DEFINE framesIn(pool) == {m.frame : m \in {x \in ms : x.pool = pool}}
           r == FreeAll(u, n, ms)
<1>1. r = [ok   |-> /\ \A m \in ms : Freeable(u, m.frame, m.pool)
                    /\ \A m1, m2 \in ms : m1.frame = m2.frame => m1 = m2,
           used |-> u \ {m.frame : m \in ms},
           next |-> [pool \in Pools |-> Min({n[pool]} \cup framesIn(pool))]]
  BY DEF FreeAll
<1>2. ASSUME NEW pool \in Pools
      PROVE  Min({n[pool]} \cup framesIn(pool)) \in Nat
  <2>1. \A m \in ms : m.frame \in Nat
    BY FrameCountAssumption DEF VMMapping, Frames
  <2>2. {n[pool]} \cup framesIn(pool) \in SUBSET Nat
    BY <2>1
  <2>3. {n[pool]} \cup framesIn(pool) # {}
    OBVIOUS
  <2> HIDE DEF framesIn
  <2> QED BY <2>2, <2>3, MinNat
<1> HIDE DEF framesIn, r
<1>3. r.used \in SUBSET Frames /\ r.used = u \ {m.frame : m \in ms}
  BY <1>1
<1>4. r.next \in [Pools -> Nat]
  BY <1>1, <1>2
<1>5. ASSUME r.ok, NEW f \in InitialUsed PROVE f \in r.used
  <2>1. \A m \in ms : Usable(m.frame)
    BY <1>1, <1>5 DEF Freeable
  <2>2. \A m \in ms : m.frame # f
    BY <1>5, <2>1 DEF InitialUsed
  <2> QED BY <1>3, <1>5, <2>2
<1> QED BY <1>3, <1>4, <1>5 DEF r

(* A frame of a pool that is marked used and not reserved can be freed. *)
LEMMA HeldIsFreeable ==
  ASSUME NEW u, NEW pool \in Pools, NEW f \in PoolFrames(pool), f \in u,
         f \notin InitialUsed
  PROVE  Freeable(u, f, pool)
  BY PoolFramesType DEF Freeable, InitialUsed

-----------------------------------------------------------------------------
(***************************************************************************)
(* Growing the stack.                                                      *)
(***************************************************************************)

StackPerms == {"read", "write", "user"}

(* Address space w is vm with its stack grown by page va, on frame f. *)
GrownBy(vm, w, va, f) ==
  /\ w.ptable = vm.ptable \cup {NewMapping(va, f, "user", StackPerms)}
  /\ va \in UserStackFloor..(UserStackTop - 1)
  /\ va + 1 = vm.stackBase /\ w.stackBase = va
  /\ w.guard = IF va = UserStackTop THEN vmNoGuard ELSE va - 1

(* The stack has grown by page va, or nothing has happened. *)
GrowthReply(vm, va, u, r) ==
  /\ r.panic = "none"
  /\ MemoryOK(r.used, r.next)
  /\ r.vm \in AddressSpace
  /\ \/ r.vm = vm /\ r.used = u
     \/ /\ r.ok
        /\ \E f \in PoolFrames("user") \ u :
             r.used = u \cup {f} /\ GrownBy(vm, r.vm, va, f)

(* The page below the stack is not mapped, unless the stack is full. *)
RoomBelow(vm) ==
  \A m \in vm.ptable : m.va + 1 = vm.stackBase => m.va < UserStackFloor

(* vmGrowStack changes nothing when it fails. *)
LEMMA GrowStackGrows ==
  ASSUME NEW vm \in AddressSpace, RoomBelow(vm), NEW u, NEW n, MemoryOK(u, n),
         NEW va \in Nat
  PROVE  LET r == vmGrowStack(vm, u, n, va)
         IN  GrowthReply(vm, va, u, r) /\ (~r.ok => r.vm = vm)
<1> DEFINE outside == \/ va >= UserStackTop \/ va < UserStackFloor
                      \/ va + 1 # vm.stackBase
           grown   == MapFreshPage(vm, va, allocPageFromPool(u, n, "user"), "user",
                                   StackPerms, "failed to free stack page")
           moved   == vmRefreshGuard([grown.vm EXCEPT !.stackBase = va])
           r       == vmGrowStack(vm, u, n, va)
<1>1. r = IF outside
          THEN [ok |-> FALSE, panic |-> "none", vm |-> vm, used |-> u, next |-> n]
          ELSE IF ~grown.ok THEN grown ELSE [grown EXCEPT !.vm = moved]
  BY DEF vmGrowStack, MoveStackBase, StackPerms
<1>2. CASE outside
  <2>1. r = [ok |-> FALSE, panic |-> "none", vm |-> vm, used |-> u, next |-> n]
    BY <1>1, <1>2
  <2> HIDE DEF r
  <2> QED BY <2>1 DEF GrowthReply, r
<1>3. CASE ~outside
  <2>1. /\ va \in Nat \ {0} /\ va + 1 = vm.stackBase
        /\ va \in UserStackFloor..(UserStackTop - 1)
    BY <1>3, LayoutAssumption DEF UserStackFloor
  <2>2. \A m \in vm.ptable : m.va # va
    BY <2>1, LayoutAssumption DEF RoomBelow, UserStackFloor
  <2>3. "user" \in Pools /\ StackPerms \in SUBSET Perms
    BY DEF Pools, Perms, StackPerms
  <2>4. FreshReply(vm, va, u, "user", StackPerms, grown)
    BY <2>1, <2>2, <2>3, FreshPage
  <2>5. r = IF ~grown.ok THEN grown ELSE [grown EXCEPT !.vm = moved]
    BY <1>1, <1>3
  <2>6. grown \in SpaceReplies
    <3>1. "failed to free stack page" \in SpacePanics
      BY DEF SpacePanics
    <3> QED BY <2>3, <3>1, AllocPageMemory, MapFreshType
  <2> HIDE DEF grown
  <2>7. CASE ~grown.ok
    <3>1. r = grown
      BY <2>5, <2>7
    <3> HIDE DEF r
    <3> QED BY <2>4, <2>7, <3>1 DEF FreshReply, GrowthReply, r
  <2>8. CASE grown.ok
    <3>1. PICK f \in PoolFrames("user") \ u :
            /\ grown.used = u \cup {f}
            /\ grown.vm =
                 [vm EXCEPT !.ptable = @ \cup {NewMapping(va, f, "user", StackPerms)}]
      BY <2>4, <2>8 DEF FreshReply
    <3>2. /\ grown.vm \in AddressSpace
          /\ grown.vm.ptable = vm.ptable \cup {NewMapping(va, f, "user", StackPerms)}
      BY <2>6, <3>1 DEF SpaceReplies, AddressSpace
    <3> DEFINE w == [grown.vm EXCEPT !.stackBase = va]
    <3>3. w \in AddressSpace /\ w.stackBase = va /\ w.ptable = grown.vm.ptable
      BY <2>1, <3>2 DEF AddressSpace
    <3> DEFINE g == IF va = UserStackTop THEN vmNoGuard ELSE va - 1
    <3>4. moved = [w EXCEPT !.guard = g]
      BY <3>3 DEF vmRefreshGuard
    <3>5. g \in Nat
      BY <2>1 DEF vmNoGuard
    <3> HIDE DEF w, g, moved
    <3>6. /\ moved \in AddressSpace /\ moved.stackBase = va /\ moved.guard = g
          /\ moved.ptable = vm.ptable \cup {NewMapping(va, f, "user", StackPerms)}
      BY <3>2, <3>3, <3>4, <3>5 DEF AddressSpace
    <3>7. GrownBy(vm, moved, va, f)
      BY <2>1, <3>6 DEF GrownBy, g
    <3>8. /\ r.vm = moved /\ r.panic = "none" /\ r.ok
          /\ r.used = grown.used /\ r.next = grown.next
      BY <2>4, <2>5, <2>6, <2>8 DEF SpaceReplies, FreshReply
    <3> HIDE DEF r
    <3>9. GrowthReply(vm, va, u, r) /\ (~r.ok => r.vm = vm)
      BY <2>4, <3>1, <3>6, <3>7, <3>8 DEF GrowthReply, FreshReply
    <3> QED BY <3>9 DEF r
  <2> QED BY <2>7, <2>8
<1> QED BY <1>2, <1>3

Need(write) == IF write THEN {"write"} ELSE {"read"}

(* Touching a page that can be accessed changes nothing; touching another  *)
(* one may add a page to the stack, and succeeds if the page can be        *)
(* accessed then.                                                          *)
TouchReply(vm, va, u, write, r) ==
  /\ GrowthReply(vm, va, u, r)
  /\ r.ok <=> vmTranslate(r.vm.ptable, va, Need(write))
  /\ vmTranslate(vm.ptable, va, Need(write)) => r.vm = vm /\ r.used = u

LEMMA CopyPageTouches ==
  ASSUME NEW vm \in AddressSpace, RoomBelow(vm), NEW u, NEW n, MemoryOK(u, n),
         NEW va \in Nat, NEW write \in BOOLEAN
  PROVE  TouchReply(vm, va, u, write, copyPage(vm, u, n, va, write))
<1> DEFINE same  == [ok |-> TRUE, panic |-> "none", vm |-> vm, used |-> u, next |-> n]
           fails == [same EXCEPT !.ok = FALSE]
           grown == vmGrowStack(vm, u, n, va)
           fault == vmHandleFault(vm, u, n, va, write)
           again == Retranslate(fault, va, Need(write))
           r     == copyPage(vm, u, n, va, write)
           Can(w) == vmTranslate(w.ptable, va, Need(write))
           both  == IF write THEN {"read", "write"} ELSE {"read"}
<1>1. same.ok /\ same.vm = vm /\ same.used = u /\ same.next = n /\ same.panic = "none"
  OBVIOUS
<1>2. ~fails.ok /\ fails.vm = vm /\ fails.used = u /\ fails.next = n /\ fails.panic = "none"
  OBVIOUS
<1>3. GrowthReply(vm, va, u, grown) /\ (~grown.ok => grown.vm = vm) /\ grown \in SpaceReplies
  BY GrowStackGrows, GrowStackType
<1>4. r = IF Can(vm) THEN same ELSE again
  BY DEF copyPage, Need
<1>5. \/ vmTranslate(vm.ptable, va, both) /\ fault = same
      \/ fault \in {fails, grown}
  BY DEF vmHandleFault
<1>6. vmTranslate(vm.ptable, va, both) => Can(vm)
  BY DEF vmTranslate, Need
<1>7. same \in SpaceReplies /\ fails \in SpaceReplies
  BY DEF SpaceReplies, MemoryOK, SpacePanics
<1>8. again = [fault EXCEPT !.ok = fault.ok /\ Can(fault.vm)]
  BY DEF Retranslate
<1>9. Can(vm) \in BOOLEAN /\ Can(fault.vm) \in BOOLEAN
  BY DEF vmTranslate
<1>10. ASSUME NEW w, NEW f, GrownBy(vm, w, va, f) PROVE Can(w)
  <2> DEFINE new == NewMapping(va, f, "user", StackPerms)
  <2>1. new \in w.ptable
    BY <1>10 DEF GrownBy
  <2>2. new.va = va /\ Need(write) \cup {"user"} \subseteq new.perm
    BY DEF NewMapping, StackPerms, Need
  <2> QED BY <2>1, <2>2 DEF vmTranslate, vmFindMapping
<1> HIDE DEF same, fails, grown, fault, again, r, Can, both
<1>11. GrowthReply(vm, va, u, same) /\ GrowthReply(vm, va, u, fails)
  BY <1>1, <1>2 DEF GrowthReply
<1>12. CASE Can(vm)
  BY <1>1, <1>4, <1>11, <1>12 DEF TouchReply, Can, r
<1>13. CASE ~Can(vm)
  <2>1. fault \in {fails, grown} /\ fault \in SpaceReplies
    BY <1>3, <1>5, <1>6, <1>7, <1>13
  <2>2. GrowthReply(vm, va, u, fault) /\ (~fault.ok => fault.vm = vm)
    BY <1>2, <1>3, <1>11, <2>1
  <2>3. /\ again.vm = fault.vm /\ again.used = fault.used /\ again.next = fault.next
        /\ again.panic = fault.panic
    BY <1>8, <2>1 DEF SpaceReplies
  <2>4. again.ok <=> fault.ok /\ Can(fault.vm)
    BY <1>8, <2>1 DEF SpaceReplies
  <2>5. again.ok <=> Can(again.vm)
    BY <1>13, <2>2, <2>3, <2>4
  <2>6. GrowthReply(vm, va, u, again)
    <3>1. CASE fault.vm = vm /\ fault.used = u
      BY <2>2, <2>3, <3>1 DEF GrowthReply
    <3>2. CASE fault.ok /\ \E f \in PoolFrames("user") \ u :
                 fault.used = u \cup {f} /\ GrownBy(vm, fault.vm, va, f)
      <4>1. Can(fault.vm)
        BY <1>10, <3>2
      <4>2. again.ok
        BY <2>4, <3>2, <4>1
      <4> QED BY <2>2, <2>3, <3>2, <4>2 DEF GrowthReply
    <3> QED BY <2>2, <3>1, <3>2 DEF GrowthReply
  <2>7. r = again
    BY <1>4, <1>13
  <2> QED BY <1>13, <2>5, <2>6, <2>7 DEF TouchReply, Can, r
<1> QED BY <1>12, <1>13

-----------------------------------------------------------------------------
(***************************************************************************)
(* The frames of an address space.                                         *)
(***************************************************************************)

FramesOf(vm) == {m.frame : m \in vm.ptable}

(* As many as mappings, when none is mapped twice. *)
LEMMA FrameCount ==
  ASSUME NEW vm, IsFiniteSet(vm.ptable),
         \A m1, m2 \in vm.ptable : m1.frame = m2.frame => m1 = m2
  PROVE  IsFiniteSet(FramesOf(vm)) /\ Cardinality(FramesOf(vm)) = Cardinality(vm.ptable)
<1> DEFINE pt == vm.ptable
           F  == FramesOf(vm)
           g  == [m \in pt |-> m.frame]
<1>1. F = {m.frame : m \in pt}
  BY DEF FramesOf
<1> HIDE DEF F
<1>2. g \in Bijection(pt, F)
  <2>1. g \in [pt -> F] /\ \A f \in F : \E m \in pt : g[m] = f
    BY <1>1
  <2>2. \A m1, m2 \in pt : g[m1] = g[m2] => m1 = m2
    OBVIOUS
  <2> QED BY <2>1, <2>2 DEF Bijection, Injection, Surjection, IsInjective
<1>3. ExistsBijection(pt, F)
  BY <1>2 DEF ExistsBijection
<1> QED BY <1>3, FS_Bijection DEF F
=============================================================================
