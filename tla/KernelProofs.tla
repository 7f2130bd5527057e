----------------------------- MODULE KernelProofs -----------------------------
(***************************************************************************)
(* Proofs about processes and runtime heap together: all of memory is      *)
(* accounted for, neither makes the other's frees fail, and a heap         *)
(* allocation is never smaller than what was asked for.                    *)
(***************************************************************************)
EXTENDS Kernel, ProcessesProofs

-----------------------------------------------------------------------------
(***************************************************************************)
(* The invariant.                                                          *)
(***************************************************************************)

HeapEntry ==
  [inUse: BOOLEAN, base: Frames \cup {NoFrame}, pages: Nat, size: Nat]

BlockOf(table, i) ==
  IF table[i].inUse
  THEN table[i].base..(table[i].base + table[i].pages - 1) ELSE {}

BlocksOf(table) == UNION {BlockOf(table, i) : i \in HeapSlots}

(* The frames of no process. *)
Rest(table) == InitialUsed \cup BlocksOf(table)

(* Blocks are runs of usable frames of the kernel pool, large enough and   *)
(* apart from each other.                                                  *)
HeapOK(table) ==
  /\ table \in [HeapSlots -> HeapEntry]
  /\ \A i \in HeapSlots : table[i].inUse =>
       /\ table[i].base \in Frames /\ table[i].pages > 0
       /\ table[i].pages * PageSize >= table[i].size
       /\ BlockOf(table, i) \subseteq PoolFrames("kernel") \ InitialUsed
  /\ \A i, j \in HeapSlots : i # j => BlockOf(table, i) \cap BlockOf(table, j) = {}

KInv ==
  /\ OnlyDeclaredPanics
  /\ HeapOK(runtimeHeapAllocs)
  /\ KernelRuns => MemoryInv(Rest(runtimeHeapAllocs))

(* Heap table, bitmap and cursors agree with each other and with the       *)
(* process table.                                                          *)
HeapBooks(table, u, n) ==
  /\ HeapOK(table)
  /\ MemoryOK(u, n)
  /\ Books(processTable, u, Rest(table))

-----------------------------------------------------------------------------
(***************************************************************************)
(* A size and its pages.                                                   *)
(***************************************************************************)

LEMMA ProductAndQuotient ==
  ASSUME NEW p \in Nat \ {0}, NEW s \in Nat
  PROVE  ((s - (s % p)) \div p) * p = s - (s % p)
<1> DEFINE q == s \div p
<1>1. s = p * q + (s % p) /\ q \in Nat
  OBVIOUS
<1>2. s - (s % p) = p * q
  BY <1>1
<1> HIDE DEF q
<1>3. (p * q) \div p = q
  BY <1>1
<1> QED BY <1>1, <1>2, <1>3

(* Rounding up leaves room for the size, or wraps around and leaves no     *)
(* page at all.                                                            *)
LEMMA PagesCover ==
  ASSUME NEW size \in 0..(WordSize - 1)
  PROVE  LET pages == AlignUp(size) \div PageSize
         IN  pages \in Nat /\ (pages > 0 => pages * PageSize >= size)
<1> DEFINE raised == size + PageSize - 1
           sum    == raised % WordSize
           pages  == AlignUp(size) \div PageSize
<1>1. /\ PageSize \in Nat \ {0} /\ WordSize \in Nat \ {0}
      /\ size \in Nat /\ raised \in Nat
  BY PageSizeAssumption, BaseAssumption
<1>2. sum \in Nat
  BY <1>1, ModRange
<1>3. AlignUp(size) = sum - (sum % PageSize)
  BY DEF AlignUp
<1>4. sum % PageSize \in 0..(PageSize - 1) /\ sum % PageSize <= sum
  BY <1>1, <1>2
<1>5. pages * PageSize = sum - (sum % PageSize)
  BY <1>1, <1>2, <1>3, ProductAndQuotient
<1>6. pages \in Nat
  BY <1>1, <1>2, <1>3, <1>4
<1>7. CASE raised < WordSize
  <2>1. sum = raised
    BY <1>1, <1>7, ModWithin
  <2>2. sum - (sum % PageSize) >= size
    BY <1>1, <1>4, <2>1
  <2> QED BY <1>5, <1>6, <2>2
<1>8. CASE raised >= WordSize
  <2>1. sum <= raised - WordSize
    BY <1>1, <1>8
  <2>2. sum \in 0..(PageSize - 1)
    BY <1>1, <1>2, <2>1
  <2>3. sum % PageSize = sum
    BY <1>1, <2>2, ModWithin
  <2>4. pages = 0
    BY <1>1, <1>2, <1>3, <2>3
  <2> QED BY <2>4
<1>9. raised < WordSize \/ raised >= WordSize
  BY <1>1
<1> QED BY <1>7, <1>8, <1>9

-----------------------------------------------------------------------------
(***************************************************************************)
(* The books.                                                              *)
(***************************************************************************)

(* Free frames become part of the rest. *)
LEMMA RestGrows ==
  ASSUME NEW t, NEW u \in SUBSET Frames, NEW rest, Books(t, u, rest),
         NEW more \in SUBSET (Frames \ u),
         \A s \in Slots : HeldBy(t, s) \subseteq Frames
  PROVE  Books(t, u \cup more, rest \cup more)
<1>1. \A s \in Slots : HeldBy(t, s) \cap more = {}
  BY DEF Books
<1> QED BY <1>1 DEF Books

(* Frames of the rest become free. *)
LEMMA RestShrinks ==
  ASSUME NEW t, NEW u \in SUBSET Frames, NEW rest, Books(t, u, rest),
         NEW less \in SUBSET rest
  PROVE  Books(t, u \ less, rest \ less)
  BY DEF Books

(* An allocation of the heap can be given back. *)
LEMMA BlockFacts ==
  ASSUME NEW table, NEW u, NEW n, HeapBooks(table, u, n),
         NEW i \in HeapSlots
  PROVE  /\ BlockOf(table, i) \subseteq u
         /\ BlockOf(table, i) \subseteq PoolFrames("kernel") \ InitialUsed
<1>1. BlockOf(table, i) \subseteq PoolFrames("kernel") \ InitialUsed
  BY DEF HeapBooks, HeapOK, BlockOf
<1>2. BlockOf(table, i) \subseteq Frames
  BY <1>1, PoolFramesType DEF Pools
<1>3. BlockOf(table, i) \subseteq Rest(table)
  BY DEF Rest, BlocksOf
<1> QED BY <1>1, <1>2, <1>3 DEF HeapBooks, Books

(* Giving back a run of used frames of the kernel pool. *)
LEMMA FreeRunEffect ==
  ASSUME NEW u, NEW n, MemoryOK(u, n), NEW f \in Frames,
         NEW count \in Nat \ {0},
         f..(f + count - 1) \subseteq u,
         f..(f + count - 1) \subseteq PoolFrames("kernel") \ InitialUsed
  PROVE  LET r == FreeRun(u, n, f, count)
         IN  /\ r.ok
             /\ r.used = u \ f..(f + count - 1)
             /\ MemoryOK(r.used, r.next)
<1> DEFINE run   == f..(f + count - 1)
           stuck == {i \in 0..(count - 1) : ~Freeable(u, f + i, "kernel")}
           freed == f..(f + (IF stuck = {} THEN count ELSE Min(stuck)) - 1)
           r     == FreeRun(u, n, f, count)
<1>1. f \in Nat
  BY FrameCountAssumption DEF Frames
<1>2. stuck = {}
  <2> SUFFICES ASSUME NEW i \in 0..(count - 1) PROVE Freeable(u, f + i, "kernel")
    OBVIOUS
  <2>1. f + i \in run
    BY <1>1
  <2>2. f + i \in u /\ f + i \in PoolFrames("kernel") /\ f + i \notin InitialUsed
    BY <2>1
  <2> QED BY <2>2, HeldIsFreeable DEF Pools
<1>3. freed = run
  BY <1>2
<1>4. r = [ok   |-> stuck = {},
           used |-> u \ freed,
           next |-> [n EXCEPT !["kernel"] = Min({@} \cup freed)]]
  BY DEF FreeRun
<1> HIDE DEF stuck, freed, r
<1>5. r.ok /\ r.used = u \ run
  BY <1>2, <1>3, <1>4
<1>6. r.next = [n EXCEPT !["kernel"] = Min({n["kernel"]} \cup freed)]
  BY <1>4
<1>7. Min({n["kernel"]} \cup freed) \in Nat
  <2>1. {n["kernel"]} \cup freed \in SUBSET Nat
    BY <1>1, <1>3 DEF MemoryOK, Pools
  <2>2. Min({n["kernel"]} \cup freed) \in {n["kernel"]} \cup freed
    BY <2>1, MinNat
  <2> QED BY <2>1, <2>2
<1>8. r.next \in [Pools -> Nat]
  BY <1>6, <1>7 DEF MemoryOK, Pools
<1>9. MemoryOK(r.used, r.next)
  BY <1>5, <1>8 DEF MemoryOK
<1> QED BY <1>5, <1>9 DEF r, run

-----------------------------------------------------------------------------
(***************************************************************************)
(* The operations of the heap.                                             *)
(***************************************************************************)

(* Every process holds frames of memory. *)
HoldingsInFrames == \A s \in Slots : HeldBy(processTable, s) \subseteq Frames

LEMMA HoldingsAreFrames ==
  ASSUME AllHoldingsOK(processTable)
  PROVE  HoldingsInFrames
<1> SUFFICES ASSUME NEW s \in Slots, processTable[s].state # "UNUSED"
             PROVE  HeldBy(processTable, s) \subseteq Frames
  BY DEF HoldingsInFrames, HeldBy
<1> DEFINE p == processTable[s]
<1>1. HoldingsOK(p)
  BY DEF AllHoldingsOK
<1>2. HeldBy(processTable, s) = {p.kernelStack} \cup FramesOf(p.vm)
  BY DEF HeldBy
<1>3. \A m \in p.vm.ptable : m.pool \in Pools /\ m.frame \in PoolFrames(m.pool)
  BY <1>1 DEF HoldingsOK, SpaceOK, AddressSpace, VMMapping, MappingsOK
<1>4. p.kernelStack \in PoolFrames("kernel")
  BY <1>1 DEF HoldingsOK
<1> QED BY <1>2, <1>3, <1>4, PoolFramesType DEF FramesOf, Pools

(* Entering a run of free frames in a free slot. *)
LEMMA EnterBlock ==
  ASSUME NEW table, NEW u, NEW n, HeapBooks(table, u, n), HoldingsInFrames,
         NEW i \in HeapSlots, ~table[i].inUse,
         NEW f \in Frames, NEW count \in Nat \ {0}, NEW size \in Nat,
         count * PageSize >= size,
         f..(f + count - 1) \subseteq PoolFrames("kernel") \ u,
         NEW next \in [Pools -> Nat]
  PROVE  HeapBooks([table EXCEPT ![i] = [inUse |-> TRUE, base |-> f,
                                         pages |-> count, size |-> size]],
                   u \cup f..(f + count - 1), next)
<1> DEFINE run   == f..(f + count - 1)
           entry == [inUse |-> TRUE, base |-> f, pages |-> count, size |-> size]
           e     == [table EXCEPT ![i] = entry]
<1>1. /\ entry \in HeapEntry /\ entry.inUse /\ entry.base = f
      /\ entry.pages = count /\ entry.size = size
  BY DEF HeapEntry
<1>2. table \in [HeapSlots -> HeapEntry]
  BY DEF HeapBooks, HeapOK
<1> HIDE DEF entry
<1>3. /\ e \in [HeapSlots -> HeapEntry]
      /\ e[i] = entry /\ \A j \in HeapSlots \ {i} : e[j] = table[j]
  BY <1>1, <1>2
<1> HIDE DEF e
<1>4. /\ BlockOf(e, i) = run /\ BlockOf(table, i) = {}
      /\ \A j \in HeapSlots \ {i} : BlockOf(e, j) = BlockOf(table, j)
  BY <1>1, <1>3 DEF BlockOf
<1> HIDE DEF run
<1>5. run \subseteq Frames \ u /\ run \subseteq PoolFrames("kernel") \ InitialUsed
  BY PoolFramesType DEF Pools, HeapBooks, MemoryOK, run
<1>6. \A j \in HeapSlots : BlockOf(table, j) \cap run = {}
  BY <1>5, BlockFacts
<1>7. HeapOK(e)
  <2>1. ASSUME NEW j \in HeapSlots, e[j].inUse
        PROVE  /\ e[j].base \in Frames /\ e[j].pages > 0
               /\ e[j].pages * PageSize >= e[j].size
               /\ BlockOf(e, j) \subseteq PoolFrames("kernel") \ InitialUsed
    <3>1. CASE j = i
      BY <1>1, <1>3, <1>4, <1>5, <3>1
    <3>2. CASE j # i
      BY <1>3, <1>4, <2>1, <3>2 DEF HeapBooks, HeapOK
    <3> QED BY <3>1, <3>2
  <2>2. ASSUME NEW j \in HeapSlots, NEW k \in HeapSlots, j # k
        PROVE  BlockOf(e, j) \cap BlockOf(e, k) = {}
    BY <1>4, <1>6, <2>2 DEF HeapBooks, HeapOK
  <2> QED BY <1>3, <2>1, <2>2 DEF HeapOK
<1>8. Rest(e) = Rest(table) \cup run
  BY <1>4 DEF Rest, BlocksOf
<1>9. MemoryOK(u \cup run, next)
  BY <1>5 DEF HeapBooks, MemoryOK
<1>10. Books(processTable, u \cup run, Rest(e))
  <2>1. /\ u \in SUBSET Frames /\ run \in SUBSET (Frames \ u)
        /\ Books(processTable, u, Rest(table))
        /\ \A s \in Slots : HeldBy(processTable, s) \subseteq Frames
    BY <1>5 DEF HeapBooks, MemoryOK, HoldingsInFrames
  <2>2. Books(processTable, u \cup run, Rest(table) \cup run)
    BY <2>1, RestGrows
  <2> QED BY <1>8, <2>2
<1>11. HeapBooks(e, u \cup run, next)
  BY <1>7, <1>9, <1>10 DEF HeapBooks
<1> QED BY <1>11 DEF e, entry, run

(* Reply r of an allocation in a table: allocations made before are        *)
(* untouched.                                                              *)
HeapReply(table, r) ==
  /\ HeapBooks(r.table, r.used, r.next)
  /\ \A i \in HeapSlots : table[i].inUse => r.table[i] = table[i]

LEMMA HeapAllocEffect ==
  ASSUME NEW table, NEW u, NEW n, HeapBooks(table, u, n), HoldingsInFrames,
         NEW size \in 0..(WordSize - 1)
  PROVE  HeapReply(table, runtimeHeapAlloc(table, u, n, size))
<1> DEFINE count == AlignUp(size) \div PageSize
           a     == allocContigFromPool(u, n, "kernel", count)
           run   == a.frame..(a.frame + count - 1)
           r     == TrackRun(table, a, count, size)
           back  == FreeRun(a.used, a.next, a.frame, count)
           i     == Min(FreeSlots(table))
<1>1. count \in Nat /\ (count > 0 => count * PageSize >= size)
  BY PagesCover
<1> HIDE DEF count
<1>2. MemoryOK(u, n)
  BY DEF HeapBooks
<1>3. ContigReply(u, "kernel", count, a)
  BY <1>1, <1>2, AllocContigEffect DEF MemoryOK, Pools
<1> HIDE DEF a
<1>4. ASSUME a.frame = NoFrame PROVE HeapReply(table, r)
  <2>1. a.used = u /\ a.next \in [Pools -> Nat]
    BY <1>3, <1>4, PoolFramesType, FrameCountAssumption
    DEF ContigReply, NoFrame, Pools, Frames
  <2>2. HeapBooks(table, a.used, a.next)
    BY <2>1 DEF HeapBooks, MemoryOK
  <2>3. r = [ok |-> FALSE, table |-> table, used |-> a.used, next |-> a.next]
    BY <1>4 DEF TrackRun
  <2> HIDE DEF r
  <2> QED BY <2>2, <2>3 DEF HeapReply
<1>5. ASSUME a.frame # NoFrame PROVE HeapReply(table, r)
  <2>1. /\ count \in Nat \ {0}
        /\ a.frame \in PoolFrames("kernel")
        /\ run \subseteq PoolFrames("kernel") \ u
        /\ a.used = u \cup run /\ a.next \in [Pools -> Nat]
    BY <1>1, <1>3, <1>5 DEF ContigReply
  <2>2. a.frame \in Frames /\ run \subseteq Frames
    BY <2>1, PoolFramesType DEF Pools
  <2>3. CASE FreeSlots(table) = {}
    <3>1. /\ back.used = a.used \ run /\ MemoryOK(back.used, back.next)
      <4>1. MemoryOK(a.used, a.next)
        BY <1>2, <2>1, <2>2 DEF MemoryOK
      <4>2. run \subseteq a.used /\ run \subseteq PoolFrames("kernel") \ InitialUsed
        BY <1>2, <2>1 DEF MemoryOK
      <4> QED BY <2>1, <2>2, <4>1, <4>2, FreeRunEffect
    <3>2. back.used = u
      BY <2>1, <3>1
    <3>3. r = [ok |-> FALSE, table |-> table, used |-> back.used, next |-> back.next]
      BY <1>5, <2>3 DEF TrackRun
    <3> HIDE DEF r, back
    <3>4. HeapBooks(table, back.used, back.next)
      BY <3>1, <3>2 DEF HeapBooks
    <3> QED BY <3>3, <3>4 DEF HeapReply
  <2>4. CASE FreeSlots(table) # {}
    <3> DEFINE entry == [inUse |-> TRUE, base |-> a.frame,
                         pages |-> count, size |-> size]
               e     == [table EXCEPT ![i] = entry]
    <3>1. i \in FreeSlots(table)
      BY <2>4, MinNat DEF FreeSlots, HeapSlots
    <3>2. i \in HeapSlots /\ ~table[i].inUse
      BY <3>1 DEF FreeSlots
    <3>3. HeapBooks(e, a.used, a.next)
      BY <1>1, <2>1, <2>2, <3>2, EnterBlock
    <3>4. \A j \in HeapSlots : table[j].inUse => e[j] = table[j]
      BY <3>2 DEF HeapBooks, HeapOK
    <3>5. r = [ok |-> TRUE, table |-> e, used |-> a.used, next |-> a.next]
      BY <1>5, <2>4 DEF TrackRun
    <3> HIDE DEF r, e
    <3> QED BY <3>3, <3>4, <3>5 DEF HeapReply
  <2> QED BY <2>3, <2>4
<1>6. HeapReply(table, r)
  BY <1>4, <1>5
<1>7. runtimeHeapAlloc(table, u, n, size) =
        IF size = 0 THEN [ok |-> FALSE, table |-> table, used |-> u, next |-> n]
        ELSE r
  BY DEF runtimeHeapAlloc, count, a
<1>8. CASE size = 0
  <2> DEFINE z == [ok |-> FALSE, table |-> table, used |-> u, next |-> n]
  <2>1. HeapReply(table, z)
    BY DEF HeapReply
  <2> QED BY <1>7, <1>8, <2>1
<1> QED BY <1>6, <1>7, <1>8

(* Emptying a slot and giving its run back. *)
LEMMA FreeSlotEffect ==
  ASSUME NEW table, NEW u, NEW n, HeapBooks(table, u, n),
         NEW i \in HeapSlots, table[i].inUse
  PROVE  LET r == FreeSlot(table, u, n, i)
         IN  r.ok /\ HeapBooks(r.table, r.used, r.next)
<1> DEFINE run   == BlockOf(table, i)
           freed == FreeRun(u, n, table[i].base, table[i].pages)
           e     == [table EXCEPT ![i] = ZeroEntry]
           r     == FreeSlot(table, u, n, i)
<1>1. /\ MemoryOK(u, n) /\ table \in [HeapSlots -> HeapEntry]
      /\ table[i].base \in Frames /\ table[i].pages \in Nat \ {0}
      /\ run = table[i].base..(table[i].base + table[i].pages - 1)
  BY DEF HeapBooks, HeapOK, HeapEntry, BlockOf
<1>2. run \subseteq u /\ run \subseteq PoolFrames("kernel") \ InitialUsed
  BY BlockFacts
<1> HIDE DEF run
<1>3. freed.ok /\ freed.used = u \ run /\ MemoryOK(freed.used, freed.next)
  BY <1>1, <1>2, FreeRunEffect
<1>4. r = [ok |-> freed.ok, table |-> e, used |-> freed.used, next |-> freed.next]
  BY DEF FreeSlot
<1>5. ZeroEntry \in HeapEntry /\ ~ZeroEntry.inUse
  BY DEF ZeroEntry, HeapEntry
<1>6. /\ e \in [HeapSlots -> HeapEntry]
      /\ e[i] = ZeroEntry /\ \A j \in HeapSlots \ {i} : e[j] = table[j]
  BY <1>1, <1>5
<1> HIDE DEF freed, e, r
<1>7. /\ BlockOf(e, i) = {}
      /\ \A j \in HeapSlots \ {i} : BlockOf(e, j) = BlockOf(table, j)
  BY <1>5, <1>6 DEF BlockOf
<1>8. HeapOK(e)
  <2>1. ASSUME NEW j \in HeapSlots, e[j].inUse
        PROVE  /\ e[j].base \in Frames /\ e[j].pages > 0
               /\ e[j].pages * PageSize >= e[j].size
               /\ BlockOf(e, j) \subseteq PoolFrames("kernel") \ InitialUsed
    <3>1. j # i
      BY <1>5, <1>6, <2>1
    <3> QED BY <1>6, <1>7, <2>1, <3>1 DEF HeapBooks, HeapOK
  <2>2. ASSUME NEW j \in HeapSlots, NEW k \in HeapSlots, j # k
        PROVE  BlockOf(e, j) \cap BlockOf(e, k) = {}
    BY <1>7, <2>2 DEF HeapBooks, HeapOK
  <2> QED BY <1>6, <2>1, <2>2 DEF HeapOK
<1>9. Rest(e) = Rest(table) \ run /\ run \subseteq Rest(table)
  <2>1. \A j \in HeapSlots \ {i} : BlockOf(table, j) \cap run = {}
    BY DEF HeapBooks, HeapOK, run
  <2>2. BlocksOf(e) = BlocksOf(table) \ run
    BY <1>7, <2>1 DEF BlocksOf, run
  <2>3. run \subseteq BlocksOf(table)
    BY DEF BlocksOf, run
  <2> QED BY <1>2, <2>2, <2>3 DEF Rest
<1>10. Books(processTable, u \ run, Rest(e))
  <2>1. u \in SUBSET Frames /\ Books(processTable, u, Rest(table))
    BY <1>1 DEF HeapBooks, MemoryOK
  <2>2. Books(processTable, u \ run, Rest(table) \ run)
    BY <1>9, <2>1, RestShrinks
  <2> QED BY <1>9, <2>2
<1> QED BY <1>3, <1>4, <1>8, <1>10 DEF HeapBooks, r

LEMMA HeapFreeEffect ==
  ASSUME NEW table, NEW u, NEW n, HeapBooks(table, u, n), NEW address
  PROVE  LET r == runtimeHeapFree(table, u, n, address)
         IN  /\ HeapBooks(r.table, r.used, r.next)
             /\ Tracked(table, address) # {} => r.ok
<1> DEFINE r == runtimeHeapFree(table, u, n, address)
           i == Min(Tracked(table, address))
<1>1. CASE Tracked(table, address) = {}
  <2>1. r = [ok |-> FALSE, table |-> table, used |-> u, next |-> n]
    BY <1>1 DEF runtimeHeapFree
  <2> HIDE DEF r
  <2>2. HeapBooks(r.table, r.used, r.next)
    BY <2>1
  <2> QED BY <1>1, <2>2 DEF r
<1>2. CASE Tracked(table, address) # {}
  <2>1. i \in Tracked(table, address)
    BY <1>2, MinNat DEF Tracked, HeapSlots
  <2>2. i \in HeapSlots /\ table[i].inUse
    BY <2>1 DEF Tracked
  <2>3. r = FreeSlot(table, u, n, i)
    BY <1>2 DEF runtimeHeapFree
  <2> QED BY <2>2, <2>3, FreeSlotEffect
<1> QED BY <1>1, <1>2

-----------------------------------------------------------------------------
(***************************************************************************)
(* The steps.                                                              *)
(***************************************************************************)

(* A step of the heap that keeps the books keeps the invariant, whether    *)
(* the kernel goes on or stops.                                            *)
LEMMA HeapStepKeeps ==
  ASSUME Inv, KernelRuns, AllHoldingsOK(processTable), UNCHANGED procVars,
         HeapBooks(runtimeHeapAllocs', used', nextFree'), OnlyDeclaredPanics'
  PROVE  KInv'
<1>1. /\ processTable' = processTable /\ nextPID' = nextPID
      /\ currentProc' = currentProc /\ lastScheduledSlot' = lastScheduledSlot
      /\ scheduleRequested' = scheduleRequested /\ runDepth' = runDepth
      /\ inScheduler' = inScheduler
  BY DEF procVars, schedVars
<1>2. MemoryOK(used', nextFree')
  BY DEF HeapBooks
<1>3. ASSUME panic' = "none" PROVE MemoryInv(Rest(runtimeHeapAllocs))'
  <2>1. TypeOK'
    BY <1>1, <1>2, <1>3 DEF Inv, TypeOK, MemoryOK, Panics
  <2>2. OneRunning'
    BY <1>1 DEF Inv, OneRunning, KernelRuns
  <2>3. TableInv(processTable, nextPID)'
    BY <1>1 DEF Inv
  <2>4. Inv'
    BY <1>2, <2>1, <2>2, <2>3 DEF Inv, MemoryOK
  <2>5. Books(processTable', used', Rest(runtimeHeapAllocs'))
    BY <1>1 DEF HeapBooks
  <2> QED BY <1>1, <1>3, <2>4, <2>5 DEF MemoryInv, Rest, KernelRuns
<1> QED BY <1>3 DEF KInv, HeapBooks, KernelRuns

(* What the operations find. *)
LEMMA BooksNow ==
  ASSUME KInv, KernelRuns
  PROVE  /\ Inv /\ AllHoldingsOK(processTable) /\ HoldingsInFrames
         /\ HeapBooks(runtimeHeapAllocs, used, nextFree)
<1>1. MemoryInv(Rest(runtimeHeapAllocs)) /\ HeapOK(runtimeHeapAllocs)
  BY DEF KInv
<1>2. Inv /\ AllHoldingsOK(processTable)
      /\ Books(processTable, used, Rest(runtimeHeapAllocs))
  BY <1>1 DEF MemoryInv
<1>3. HoldingsInFrames
  BY <1>2, HoldingsAreFrames
<1>4. MemoryOK(used, nextFree)
  BY <1>2, InvMemory
<1> QED BY <1>1, <1>2, <1>3, <1>4 DEF HeapBooks

LEMMA AllocStep ==
  ASSUME KInv, UNCHANGED procVars, NEW size \in HeapSizes,
         tinygoRuntimeAlloc(size)
  PROVE  KInv'
<1> DEFINE r == runtimeHeapAlloc(runtimeHeapAllocs, used, nextFree, size)
<1>1. KernelRuns /\ Allocated(r)
  BY DEF tinygoRuntimeAlloc
<1>2. HeapReply(runtimeHeapAllocs, r)
  BY <1>1, BooksNow, HeapAllocEffect, HeapAssumption
<1> HIDE DEF r
<1>3. HeapBooks(runtimeHeapAllocs', used', nextFree')
  BY <1>1, <1>2 DEF Allocated, HeapUpdate, HeapReply
<1>4. OnlyDeclaredPanics'
  BY <1>1 DEF Allocated, OnlyDeclaredPanics
<1> QED BY <1>1, <1>3, <1>4, BooksNow, HeapStepKeeps

LEMMA FreeStep ==
  ASSUME KInv, UNCHANGED procVars, NEW address, tinygoRuntimeFree(address)
  PROVE  KInv'
<1> DEFINE r == runtimeHeapFree(runtimeHeapAllocs, used, nextFree, address)
<1>1. KernelRuns /\ HeapUpdate(r) /\ panic' = panic
  BY DEF tinygoRuntimeFree
<1>2. HeapBooks(r.table, r.used, r.next)
  BY <1>1, BooksNow, HeapFreeEffect
<1> HIDE DEF r
<1>3. HeapBooks(runtimeHeapAllocs', used', nextFree')
  BY <1>1, <1>2 DEF HeapUpdate
<1>4. OnlyDeclaredPanics'
  BY <1>1 DEF KInv, OnlyDeclaredPanics
<1> QED BY <1>1, <1>3, <1>4, BooksNow, HeapStepKeeps

(* The old allocation is still in the table when the new one has been      *)
(* made, so freeing it cannot fail.                                        *)
LEMMA FreeOldStep ==
  ASSUME KInv, KernelRuns, UNCHANGED procVars, NEW size \in HeapSizes,
         NEW address, Tracked(runtimeHeapAllocs, address) # {},
         FreeOld(runtimeHeapAlloc(runtimeHeapAllocs, used, nextFree, size), address)
  PROVE  KInv'
<1> DEFINE fresh == runtimeHeapAlloc(runtimeHeapAllocs, used, nextFree, size)
           old   == runtimeHeapFree(fresh.table, fresh.used, fresh.next, address)
<1>1. HeapReply(runtimeHeapAllocs, fresh)
  BY BooksNow, HeapAllocEffect, HeapAssumption
<1> HIDE DEF fresh
<1>2. Tracked(fresh.table, address) # {}
  <2>1. PICK i \in HeapSlots : /\ runtimeHeapAllocs[i].inUse
                               /\ FrameAddress(runtimeHeapAllocs[i].base) = address
    BY DEF Tracked
  <2>2. fresh.table[i] = runtimeHeapAllocs[i]
    BY <1>1, <2>1 DEF HeapReply
  <2> QED BY <2>1, <2>2 DEF Tracked
<1>3. HeapBooks(old.table, old.used, old.next) /\ old.ok
  BY <1>1, <1>2, HeapFreeEffect DEF HeapReply
<1>4. IF fresh.ok THEN OldFreed(old) ELSE Allocated(fresh)
  BY DEF FreeOld, fresh
<1> HIDE DEF old
<1>5. HeapBooks(runtimeHeapAllocs', used', nextFree')
  <2>1. CASE fresh.ok
    BY <1>3, <1>4, <2>1 DEF OldFreed, HeapUpdate
  <2>2. CASE ~fresh.ok
    BY <1>1, <1>4, <2>2 DEF Allocated, HeapUpdate, HeapReply
  <2> QED BY <2>1, <2>2
<1>6. OnlyDeclaredPanics'
  BY <1>3, <1>4 DEF OldFreed, Allocated, OnlyDeclaredPanics
<1> QED BY <1>5, <1>6, BooksNow, HeapStepKeeps

LEMMA ReallocStep ==
  ASSUME KInv, UNCHANGED procVars, NEW address \in HeapAddresses,
         NEW size \in HeapSizes, tinygoRuntimeRealloc(address, size)
  PROVE  KInv'
<1>1. KernelRuns
  BY DEF tinygoRuntimeRealloc
<1>2. CASE tinygoRuntimeFree(address)
  BY <1>2, FreeStep
<1>3. CASE tinygoRuntimeAlloc(size)
  BY <1>3, AllocStep
<1>4. CASE /\ panic' = "realloc invalid address"
           /\ UNCHANGED <<runtimeHeapAllocs, used, nextFree>>
  BY <1>4 DEF KInv, OnlyDeclaredPanics, KernelRuns
<1>5. CASE /\ Tracked(runtimeHeapAllocs, address) # {}
           /\ FreeOld(runtimeHeapAlloc(runtimeHeapAllocs, used, nextFree, size),
                      address)
  BY <1>1, <1>5, FreeOldStep
<1> QED BY <1>2, <1>3, <1>4, <1>5 DEF tinygoRuntimeRealloc

LEMMA HeapKeepsKInv == KInv /\ HeapNext /\ UNCHANGED procVars => KInv'
  BY AllocStep, FreeStep, ReallocStep DEF HeapNext

(* A step of the processes leaves the blocks of the heap alone. *)
LEMMA ProcessKeepsKInv == KInv /\ Next /\ UNCHANGED heapVars => KInv'
<1> SUFFICES ASSUME KInv, Next, UNCHANGED heapVars PROVE KInv'
  OBVIOUS
<1> DEFINE rest == Rest(runtimeHeapAllocs)
<1>1. runtimeHeapAllocs' = runtimeHeapAllocs
  BY DEF heapVars
<1>2. KernelRuns
  BY NextNeedsKernel
<1>3. MemoryInv(rest)
  BY <1>2 DEF KInv
<1>4. rest \in SUBSET Frames
  <2>1. \A i \in HeapSlots : BlockOf(runtimeHeapAllocs, i) \subseteq Frames
    BY PoolFramesType DEF KInv, HeapOK, BlockOf, Pools
  <2> QED BY <2>1 DEF Rest, BlocksOf, InitialUsed
<1> HIDE DEF rest
<1>5. MemoryKept(rest)
  BY <1>3, <1>4, NextMemory
<1>6. Inv'
  BY <1>3, NextKeepsInv DEF MemoryInv
<1>7. panic' \in {"none", "pid space exhausted"}
  BY <1>5 DEF MemoryKept
<1>8. rest' = rest
  BY <1>1 DEF rest, Rest
<1>9. InitialUsed \subseteq rest
  BY DEF rest, Rest
<1>10. panic' = "none" => MemoryInv(rest)'
  BY <1>5, <1>6, <1>8, <1>9 DEF MemoryKept, MemoryInv, KernelRuns
<1>11. HeapOK(runtimeHeapAllocs)'
  BY <1>1 DEF KInv
<1> QED BY <1>7, <1>10, <1>11 DEF KInv, OnlyDeclaredPanics, KernelRuns, rest

LEMMA InitKInv == KernelInit => KInv
<1> SUFFICES ASSUME KernelInit PROVE KInv
  OBVIOUS
<1>1. runtimeHeapAllocs = [i \in HeapSlots |-> ZeroEntry] /\ Init
  BY DEF KernelInit, HeapInit
<1>2. ZeroEntry \in HeapEntry /\ ~ZeroEntry.inUse
  BY DEF ZeroEntry, HeapEntry
<1>3. \A i \in HeapSlots : ~runtimeHeapAllocs[i].inUse
  BY <1>1, <1>2
<1>4. HeapOK(runtimeHeapAllocs)
  BY <1>1, <1>2, <1>3 DEF HeapOK, BlockOf
<1>5. Rest(runtimeHeapAllocs) = InitialUsed
  BY <1>3 DEF Rest, BlocksOf, BlockOf
<1>6. Inv /\ MemInv /\ KernelRuns
  BY <1>1, InitInv, InitMemory DEF Init, MemInit, KernelRuns
<1>7. MemoryInv(Rest(runtimeHeapAllocs))
  BY <1>5, <1>6 DEF MemInv, MemoryInv
<1> QED BY <1>4, <1>6, <1>7 DEF KInv, OnlyDeclaredPanics, KernelRuns

LEMMA KInvAlways == KernelSpec => []KInv
<1>1. KInv /\ UNCHANGED kernelVars => KInv'
  <2> SUFFICES ASSUME KInv, UNCHANGED kernelVars PROVE KInv'
    OBVIOUS
  <2>1. /\ runtimeHeapAllocs' = runtimeHeapAllocs /\ used' = used
        /\ nextFree' = nextFree /\ panic' = panic /\ UNCHANGED procVars
    BY DEF kernelVars, heapVars, memVars
  <2>2. CASE ~KernelRuns
    BY <2>1, <2>2 DEF KInv, OnlyDeclaredPanics, KernelRuns
  <2>3. CASE KernelRuns
    BY <2>1, <2>3, BooksNow, HeapStepKeeps DEF KInv, OnlyDeclaredPanics
  <2> QED BY <2>2, <2>3
<1>2. KInv /\ [KernelNext]_kernelVars => KInv'
  BY <1>1, HeapKeepsKInv, ProcessKeepsKInv DEF KernelNext
<1> QED BY <1>2, InitKInv, PTL DEF KernelSpec

-----------------------------------------------------------------------------
(***************************************************************************)
(* The theorems.                                                           *)
(***************************************************************************)

(* Whatever processes and heap do, every used frame is reserved, held by   *)
(* one process or part of one allocation: nothing leaks and nothing is     *)
(* owned twice.                                                            *)
THEOREM MemoryIsAccounted == KernelSpec => []MemoryAccounted
<1>1. KInv => MemoryAccounted
  <2> SUFFICES ASSUME KInv, KernelRuns
               PROVE  /\ used = InitialUsed \cup HeapFrames \cup UNION {Held(s) : s \in Slots}
                      /\ HeapFrames \cap InitialUsed = {}
                      /\ \A i, j \in HeapSlots : i # j => Block(i) \cap Block(j) = {}
                      /\ \A s \in Slots : Held(s) \cap (InitialUsed \cup HeapFrames) = {}
                      /\ \A s, t \in Slots : s # t => Held(s) \cap Held(t) = {}
    BY DEF MemoryAccounted
  <2>1. \A s \in Slots : Held(s) = HeldBy(processTable, s)
    BY DEF Held, HeldBy, FramesOf, Live
  <2>2. \A i \in HeapSlots : Block(i) = BlockOf(runtimeHeapAllocs, i)
    BY DEF Block, BlockOf
  <2>3. HeapFrames = BlocksOf(runtimeHeapAllocs)
    BY <2>2 DEF HeapFrames, BlocksOf
  <2>4. /\ HeapOK(runtimeHeapAllocs) /\ used \in SUBSET Frames
        /\ Books(processTable, used, InitialUsed \cup HeapFrames)
    BY <2>3, BooksNow DEF HeapBooks, MemoryOK, Rest
  <2>5. \A i \in HeapSlots : BlockOf(runtimeHeapAllocs, i) \subseteq Frames \ InitialUsed
    BY <2>4, PoolFramesType DEF HeapOK, BlockOf, Pools
  <2>6. HeapFrames \subseteq Frames /\ HeapFrames \cap InitialUsed = {}
    BY <2>3, <2>5 DEF BlocksOf
  <2>7. \A s \in Slots : Held(s) \subseteq Frames
    BY <2>1, BooksNow DEF HoldingsInFrames
  <2>8. used = InitialUsed \cup HeapFrames \cup UNION {Held(s) : s \in Slots}
    <3>1. \A f \in Frames : f \in used
             <=> f \in InitialUsed \cup HeapFrames \/ \E s \in Slots : f \in Held(s)
      BY <2>1, <2>4 DEF Books
    <3>2. InitialUsed \subseteq Frames
      BY DEF InitialUsed
    <3> QED BY <2>4, <2>6, <2>7, <3>1, <3>2
  <2>9. /\ \A s \in Slots : Held(s) \cap (InitialUsed \cup HeapFrames) = {}
        /\ \A s, t \in Slots : s # t => Held(s) \cap Held(t) = {}
    BY <2>1, <2>4 DEF Books
  <2>10. \A i, j \in HeapSlots : i # j => Block(i) \cap Block(j) = {}
    BY <2>2, <2>4 DEF HeapOK
  <2> QED BY <2>6, <2>8, <2>9, <2>10
<1> QED BY <1>1, KInvAlways, PTL

(* Processes and heap never make each other's frees fail. *)
THEOREM PanicsAreDeclared == KernelSpec => []OnlyDeclaredPanics
<1>1. KInv => OnlyDeclaredPanics
  BY DEF KInv
<1> QED BY <1>1, KInvAlways, PTL

(* No allocation is smaller than its size, for any size a word can hold.   *)
THEOREM AllocationsCover == KernelSpec => []HeapCovers
<1>1. KInv => HeapCovers
  BY DEF KInv, HeapOK, HeapCovers
<1> QED BY <1>1, KInvAlways, PTL
=============================================================================
