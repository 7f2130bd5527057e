--------------------------- MODULE UserCopyProofs ---------------------------
(***************************************************************************)
(* Proofs about UserCopy, for every memory map, every layout of an address *)
(* space and every number of processes: what copyout, copyin and copyinstr *)
(* do, byte by byte, and that every frame has one owner.                   *)
(*                                                                         *)
(* A call is a fold over its rounds.  A lemma for each of the three gives  *)
(* the sequence w of the states before and after its rounds; what holds of *)
(* every one of them is proved by counting up to the last.                 *)
(***************************************************************************)
EXTENDS UserCopy, MemoryLemmas, SequenceTheorems

-----------------------------------------------------------------------------
(***************************************************************************)
(* The invariant.                                                          *)
(***************************************************************************)

(* Below the stack there is nothing down to its floor. *)
StackFits(vm) ==
  /\ vm.stackBase \in UserStackFloor..UserStackTop
  /\ \A m \in vm.ptable : m.va < UserStackFloor \/ m.va >= vm.stackBase

(* No page and no frame is mapped twice, every mapping owns its frame. *)
SpaceOK(vm) ==
  /\ vm \in AddressSpace
  /\ IsFiniteSet(vm.ptable)
  /\ \A m \in vm.ptable : m.owned /\ m.frame \in PoolFrames(m.pool)
  /\ \A m1, m2 \in vm.ptable : m1.va = m2.va \/ m1.frame = m2.frame => m1 = m2
  /\ vm = ZeroAddressSpace \/ StackFits(vm)

Memories == [Frames -> [Offsets -> Nat]]

(* The bitmap says what the page tables say, which share no frame. *)
Books(table, u) ==
  /\ \A f \in Frames : f \in u <=> f \in InitialUsed \/ \E p \in Procs : f \in FramesOf(table[p])
  /\ \A p \in Procs : FramesOf(table[p]) \cap InitialUsed = {}
  /\ \A p, q \in Procs : p # q => FramesOf(table[p]) \cap FramesOf(table[q]) = {}

Inv ==
  /\ panic = "none"
  /\ MemoryOK(used, nextFree)
  /\ mem \in Memories
  /\ vms \in [Procs -> AddressSpace]
  /\ \A p \in Procs : SpaceOK(vms[p])
  /\ Books(vms, used)

-----------------------------------------------------------------------------
(***************************************************************************)
(* Counting up.                                                            *)
(***************************************************************************)

(* A set that has 0 and the successor of each of its members has n. *)
LEMMA CountUp ==
  ASSUME NEW n \in Nat, NEW G, 0 \in G, \A k \in 1..n : k - 1 \in G => k \in G
  PROVE  n \in G
<1> DEFINE Bad == {k \in 0..n : k \notin G}
<1> SUFFICES ASSUME Bad # {} PROVE FALSE
  OBVIOUS
<1>1. PICK k \in Bad : \A j \in Bad : k <= j
  <2>1. Bad \in SUBSET Nat
    OBVIOUS
  <2> HIDE DEF Bad
  <2> QED BY <2>1, MinNat
<1>2. k \in 1..n
  BY <1>1
<1>3. k - 1 \in 0..n /\ k - 1 \notin Bad
  BY <1>1, <1>2
<1> QED BY <1>1, <1>2, <1>3

(* The largest of the numbers up to n + 1, when n + 1 is among them. *)
LEMMA MaxOfInitial ==
  ASSUME NEW n \in Nat, NEW s \in SUBSET (1..(n + 1)), n + 1 \in s
  PROVE  Max(s) = n + 1
<1>1. \A y \in s : n + 1 >= y
  OBVIOUS
<1>2. \A x \in s : (\A y \in s : x >= y) => x = n + 1
  OBVIOUS
<1> QED BY <1>1, <1>2 DEF Max

LEMMA MaxIsElement ==
  ASSUME NEW n \in Nat, NEW s \in SUBSET (0..n), s # {}
  PROVE  Max(s) \in s /\ \A y \in s : y <= Max(s)
<1> DEFINE mirror == {n - x : x \in s}
<1>1. mirror \in SUBSET Nat /\ mirror # {}
  <2>1. \A x \in s : n - x \in Nat
    OBVIOUS
  <2>2. PICK x \in s : TRUE
    OBVIOUS
  <2>3. n - x \in mirror
    OBVIOUS
  <2> QED BY <2>1, <2>3
<1>2. PICK x \in s : n - x = Min(mirror)
  <2> HIDE DEF mirror
  <2>1. Min(mirror) \in mirror
    BY <1>1, MinNat
  <2> QED BY <2>1 DEF mirror
<1>3. \A y \in mirror : n - x <= y
  <2> HIDE DEF mirror
  <2> QED BY <1>1, <1>2, MinNat
<1>4. ASSUME NEW y \in s PROVE x >= y
  <2>1. n - x <= n - y
    BY <1>3
  <2> QED BY <2>1
<1>5. Max(s) \in s /\ \A y \in s : Max(s) >= y
  BY <1>4 DEF Max
<1> QED BY <1>5

(* The initial intervals of 1..n. *)
LEMMA Initial ==
  ASSUME NEW n \in Nat, NEW k \in 1..n
  PROVE  /\ (1..k) \in SUBSET (1..n) /\ 1..k # {}
         /\ (1..k) \ {k} = 1..(k - 1)
         /\ Max(1..k) = k
<1>1. k - 1 \in Nat /\ (k - 1) + 1 = k /\ k \in 1..k
  OBVIOUS
<1>2. Max(1..k) = k
  BY <1>1, MaxOfInitial
<1>3. (1..k) \ {k} = 1..(k - 1)
  OBVIOUS
<1>4. (1..k) \in SUBSET (1..n) /\ 1..k # {}
  OBVIOUS
<1> QED BY <1>2, <1>3, <1>4, Zenon

(* A fold over 1..n by a function step, the way FoldLeft defines it. *)
FoldOf(g, n, base, step) ==
  g = [s \in SUBSET (1..n) |-> IF s = {} THEN base
                               ELSE step[g[s \ {Max(s)}], Max(s)]]

(* Such a fold exists for every n: one for n - 1 can be extended. *)
LEMMA FoldExists ==
  ASSUME NEW X, NEW base \in X, NEW m \in Nat, NEW step \in [X \X (1..m) -> X]
  PROVE  \E g \in [SUBSET (1..m) -> X] : FoldOf(g, m, base, step)
<1> DEFINE G == {n \in 0..m : \E g \in [SUBSET (1..n) -> X] : FoldOf(g, n, base, step)}
<1>1. 0 \in G
  <2> DEFINE g == [s \in SUBSET (1..0) |-> base]
  <2>1. \A s \in SUBSET (1..0) : s = {}
    OBVIOUS
  <2>2. FoldOf(g, 0, base, step)
    BY <2>1 DEF FoldOf
  <2> QED BY <2>2
<1>2. ASSUME NEW n \in 1..m, n - 1 \in G PROVE n \in G
  <2>1. PICK p \in 0..m : p = n - 1 /\ n = p + 1
    OBVIOUS
  <2>2. PICK g \in [SUBSET (1..p) -> X] : FoldOf(g, p, base, step)
    BY <1>2, <2>1
  <2> DEFINE h == [s \in SUBSET (1..n) |->
                     IF n \in s THEN step[g[s \ {n}], n] ELSE g[s]]
  <2>3. \A s \in SUBSET (1..n) : s \ {n} \in SUBSET (1..p)
    BY <2>1
  <2>4. \A s \in SUBSET (1..n) : n \notin s => s \in SUBSET (1..p)
    BY <2>1
  <2>5. h \in [SUBSET (1..n) -> X]
    BY <2>3, <2>4
  <2>6. ASSUME NEW s \in SUBSET (1..n)
        PROVE  h[s] = IF s = {} THEN base ELSE step[h[s \ {Max(s)}], Max(s)]
    <3>1. CASE n \in s
      <4>1. Max(s) = n
        BY <2>1, <3>1, MaxOfInitial
      <4>2. h[s \ {n}] = g[s \ {n}]
        OBVIOUS
      <4> QED BY <3>1, <4>1, <4>2
    <3>2. CASE n \notin s /\ s # {}
      <4>1. s \in SUBSET (1..p)
        BY <2>4, <3>2
      <4>2. h[s] = g[s] /\ h[s \ {Max(s)}] = g[s \ {Max(s)}]
        BY <3>2
      <4>3. g[s] = step[g[s \ {Max(s)}], Max(s)]
        BY <2>2, <3>2, <4>1 DEF FoldOf
      <4> QED BY <3>2, <4>2, <4>3
    <3>3. CASE s = {}
      <4>1. g[{}] = base
        BY <2>2 DEF FoldOf
      <4> QED BY <3>3, <4>1
    <3> QED BY <3>1, <3>2, <3>3
  <2>7. FoldOf(h, n, base, step)
    <3> HIDE DEF h
    <3>1. h = [s \in SUBSET (1..n) |-> h[s]]
      BY <2>5
    <3> QED BY <2>6, <3>1 DEF FoldOf
  <2> HIDE DEF h
  <2>8. n \in 0..m /\ \E e \in [SUBSET (1..n) -> X] : FoldOf(e, n, base, step)
    BY <2>5, <2>7
  <2> QED BY <2>8
<1>3. m \in G
  <2> HIDE DEF G
  <2> QED BY <1>1, <1>2, CountUp
<1> QED BY <1>3

-----------------------------------------------------------------------------
(***************************************************************************)
(* The states of a loop.                                                   *)
(***************************************************************************)

LoopStates ==
  [ok: BOOLEAN, vm: AddressSpace, used: SUBSET Frames, next: [Pools -> Nat],
   panic: {"none"}, mem: Memories, buf: Seq(Nat)]

(* What holds of the address space and the bitmap before and after every   *)
(* round.                                                                  *)
States ==
  {s \in LoopStates : /\ SpaceOK(s.vm)
                      /\ MemoryOK(s.used, s.next)
                      /\ FramesOf(s.vm) \subseteq s.used}

(* From s to t mappings are only added, with frames that were free.        *)
Grown(s, t) ==
  /\ s.vm.ptable \subseteq t.vm.ptable
  /\ s.used \subseteq t.used
  /\ t.used \ s.used = FramesOf(t.vm) \ FramesOf(s.vm)

LEMMA GrownSelf ==
  ASSUME NEW s, NEW t, t.vm = s.vm, t.used = s.used
  PROVE  Grown(s, t)
  BY DEF Grown

LEMMA GrownTrans ==
  ASSUME NEW r, NEW s, NEW t, Grown(r, s), Grown(s, t)
  PROVE  Grown(r, t)
  BY DEF Grown, FramesOf

(* One more mapping of a free frame. *)
LEMMA SpaceGrows ==
  ASSUME NEW vm, SpaceOK(vm), NEW w \in AddressSpace, NEW va \in Nat,
         NEW f \in PoolFrames("user"), f \notin FramesOf(vm), GrownBy(vm, w, va, f)
  PROVE  SpaceOK(w) /\ FramesOf(w) = FramesOf(vm) \cup {f}
<1> DEFINE new == NewMapping(va, f, "user", StackPerms)
<1>1. new.va = va /\ new.frame = f /\ new.pool = "user" /\ new.owned
  BY DEF NewMapping
<1>2. /\ w.ptable = vm.ptable \cup {new} /\ w.stackBase = va
      /\ va \in UserStackFloor..(UserStackTop - 1) /\ va + 1 = vm.stackBase
  BY DEF GrownBy
<1> HIDE DEF new
<1>3. \A m \in vm.ptable : m.va \in Nat
  BY DEF SpaceOK, AddressSpace, VMMapping
<1>4. StackFits(vm)
  <2>1. vm # ZeroAddressSpace
    BY <1>2 DEF ZeroAddressSpace
  <2> QED BY <2>1 DEF SpaceOK
<1>5. UserStackTop \in Nat /\ UserStackFloor \in Nat
  BY LayoutAssumption DEF UserStackFloor
<1>6. \A m \in vm.ptable : m.va # va /\ m.frame # f
  <2>1. \A m \in vm.ptable : m.va # va
    BY <1>2, <1>3, <1>4, <1>5 DEF StackFits
  <2> QED BY <2>1 DEF FramesOf
<1>7. IsFiniteSet(w.ptable)
  BY <1>2, FS_AddElement DEF SpaceOK
<1>8. StackFits(w)
  BY <1>1, <1>2, <1>3, <1>4, <1>5 DEF StackFits
<1>9. \A m \in w.ptable : m.owned /\ m.frame \in PoolFrames(m.pool)
  BY <1>1, <1>2 DEF SpaceOK
<1>10. \A m1, m2 \in w.ptable : m1.va = m2.va \/ m1.frame = m2.frame => m1 = m2
  BY <1>1, <1>2, <1>6 DEF SpaceOK
<1>11. FramesOf(w) = FramesOf(vm) \cup {f}
  BY <1>1, <1>2 DEF FramesOf
<1> QED BY <1>7, <1>8, <1>9, <1>10, <1>11 DEF SpaceOK

(* The page below the stack is free for it. *)
LEMMA SpaceHasRoom ==
  ASSUME NEW vm, SpaceOK(vm)
  PROVE  vm \in AddressSpace /\ RoomBelow(vm)
<1>1. \A m \in vm.ptable : m.va \in Nat
  BY DEF SpaceOK, AddressSpace, VMMapping
<1>2. CASE vm = ZeroAddressSpace
  BY <1>2 DEF SpaceOK, RoomBelow, ZeroAddressSpace
<1>3. CASE StackFits(vm)
  BY <1>1, <1>3, LayoutAssumption DEF SpaceOK, StackFits, RoomBelow, UserStackFloor
<1> QED BY <1>2, <1>3 DEF SpaceOK

-----------------------------------------------------------------------------
(***************************************************************************)
(* Bytes.                                                                  *)
(***************************************************************************)

LEMMA AddressType ==
  ASSUME NEW va \in Nat
  PROVE  /\ PageOf(va) \in Nat /\ va % PageSize \in Offsets
         /\ va = PageOf(va) * PageSize + (va % PageSize)
<1> DEFINE q == va \div PageSize
           x == va % PageSize
<1>1. q \in Nat /\ x \in 0..(PageSize - 1) /\ va = PageSize * q + x
  BY PageSizeAssumption
<1> HIDE DEF q, x
<1>2. va = q * PageSize + x
  BY <1>1, PageSizeAssumption
<1> QED BY <1>1, <1>2 DEF PageOf, Offsets, q, x

(* May user code access the byte at va?  The condition of vmTranslate. *)
Can(vm, va, perm) == vmTranslate(vm.ptable, PageOf(va), {perm})

(* The frame of a mapped address is that of the one mapping of its page. *)
LEMMA FrameOfMapping ==
  ASSUME NEW vm, SpaceOK(vm), NEW va, NEW e \in vm.ptable, e.va = PageOf(va)
  PROVE  FrameOf(vm, va) = e.frame
<1>1. vmFindMapping(vm.ptable, PageOf(va)) = {e}
  BY DEF SpaceOK, vmFindMapping
<1>2. (CHOOSE c \in {e} : TRUE) = e
  OBVIOUS
<1> QED BY <1>1, <1>2 DEF FrameOf

LEMMA FrameOfAccessible ==
  ASSUME NEW vm, SpaceOK(vm), NEW va, NEW perm, Can(vm, va, perm)
  PROVE  \E e \in vm.ptable : e.va = PageOf(va) /\ FrameOf(vm, va) = e.frame
<1>1. PICK e \in vm.ptable : e.va = PageOf(va)
  BY DEF Can, vmTranslate, vmFindMapping
<1> QED BY <1>1, FrameOfMapping

LEMMA MappedFrames ==
  ASSUME NEW vm, SpaceOK(vm)
  PROVE  FramesOf(vm) \subseteq Frames
<1>1. \A m \in vm.ptable : m.frame \in Frames
  BY DEF SpaceOK, AddressSpace, VMMapping
<1> QED BY <1>1 DEF FramesOf

(* Growing keeps what can be accessed and where it is. *)
LEMMA GrownKeepsBytes ==
  ASSUME NEW s \in States, NEW t \in States, s.vm.ptable \subseteq t.vm.ptable,
         NEW va, NEW perm, Can(s.vm, va, perm)
  PROVE  Can(t.vm, va, perm) /\ FrameOf(t.vm, va) = FrameOf(s.vm, va)
<1>1. SpaceOK(s.vm) /\ SpaceOK(t.vm)
  BY DEF States
<1>2. Can(t.vm, va, perm)
  BY DEF Can, vmTranslate, vmFindMapping
<1>3. PICK e \in s.vm.ptable : e.va = PageOf(va) /\ FrameOf(s.vm, va) = e.frame
  BY <1>1, FrameOfAccessible
<1> QED BY <1>1, <1>2, <1>3, FrameOfMapping

-----------------------------------------------------------------------------
(***************************************************************************)
(* One round.                                                              *)
(***************************************************************************)

Perm(write) == IF write THEN "write" ELSE "read"

(* Up to the access: the round succeeds when the byte can be accessed now, *)
(* and changes nothing when it could be accessed before.                   *)
ReachReply(s, va, perm, t) ==
  /\ t \in States /\ Grown(s, t)
  /\ t.mem = s.mem /\ t.buf = s.buf
  /\ ~s.ok => t = s
  /\ s.ok => (t.ok <=> Can(t.vm, va, perm))
  /\ s.ok /\ Can(s.vm, va, perm) => t.vm = s.vm /\ t.used = s.used

LEMMA ReachEffect ==
  ASSUME NEW s \in States, NEW va \in Nat, NEW write \in BOOLEAN
  PROVE  ReachReply(s, va, Perm(write), Reach(s, va, write))
<1> DEFINE page == PageOf(va)
           r    == copyPage(s.vm, s.used, s.next, page, write)
           t    == Reach(s, va, write)
           c    == [s EXCEPT !.ok = r.ok, !.vm = r.vm, !.used = r.used,
                             !.next = r.next, !.panic = r.panic]
<1>1. t = IF ~s.ok THEN s ELSE c
  BY DEF Reach
<1>2. /\ s \in LoopStates /\ SpaceOK(s.vm) /\ MemoryOK(s.used, s.next)
      /\ FramesOf(s.vm) \subseteq s.used /\ page \in Nat
  BY AddressType DEF States
<1>3. s.vm \in AddressSpace /\ RoomBelow(s.vm)
  BY <1>2, SpaceHasRoom
<1>4. TouchReply(s.vm, page, s.used, write, r) /\ r \in SpaceReplies
  BY <1>2, <1>3, CopyPageTouches, CopyPageType
<1>5. \A vm : Can(vm, va, Perm(write)) <=> vmTranslate(vm.ptable, page, Need(write))
  BY DEF Can, Perm, Need
<1> HIDE DEF r, t, page
<1>6. CASE ~s.ok
  <2>1. t = s
    BY <1>1, <1>6
  <2> QED BY <1>6, <2>1, GrownSelf DEF ReachReply, t
<1>7. CASE s.ok
  <2>1. GrowthReply(s.vm, page, s.used, r)
    BY <1>4 DEF TouchReply
  <2>2. /\ r.ok \in BOOLEAN /\ r.vm \in AddressSpace /\ r.panic = "none"
        /\ r.used \in SUBSET Frames /\ r.next \in [Pools -> Nat]
        /\ MemoryOK(r.used, r.next)
    BY <1>4, <2>1 DEF SpaceReplies, GrowthReply, MemoryOK
  <2>3. t = c
    BY <1>1, <1>7
  <2>4. /\ t \in LoopStates /\ t.ok = r.ok /\ t.vm = r.vm /\ t.used = r.used
        /\ t.next = r.next /\ t.mem = s.mem /\ t.buf = s.buf
    BY <1>2, <2>2, <2>3 DEF LoopStates
  <2> HIDE DEF c
  <2>5. SpaceOK(r.vm) /\ Grown(s, t) /\ FramesOf(r.vm) \subseteq r.used
    <3>1. CASE r.vm = s.vm /\ r.used = s.used
      BY <1>2, <2>4, <3>1, GrownSelf
    <3>2. ASSUME NEW f \in PoolFrames("user") \ s.used, r.used = s.used \cup {f},
                 GrownBy(s.vm, r.vm, page, f)
          PROVE  SpaceOK(r.vm) /\ Grown(s, t) /\ FramesOf(r.vm) \subseteq r.used
      <4>1. SpaceOK(r.vm) /\ FramesOf(r.vm) = FramesOf(s.vm) \cup {f}
        BY <1>2, <2>2, <3>2, SpaceGrows
      <4>2. s.vm.ptable \subseteq r.vm.ptable
        BY <3>2 DEF GrownBy
      <4> QED BY <1>2, <2>4, <3>2, <4>1, <4>2 DEF Grown
    <3> QED BY <2>1, <3>1, <3>2 DEF GrowthReply
  <2>6. t \in States
    BY <2>2, <2>4, <2>5 DEF States
  <2>7. t.ok <=> Can(t.vm, va, Perm(write))
    BY <1>4, <1>5, <2>4 DEF TouchReply
  <2>8. Can(s.vm, va, Perm(write)) => t.vm = s.vm /\ t.used = s.used
    BY <1>4, <1>5, <2>4 DEF TouchReply
  <2> QED BY <1>7, <2>4, <2>5, <2>6, <2>7, <2>8 DEF ReachReply, t
<1> QED BY <1>6, <1>7

(* A byte is stored in its frame, at its place, and nowhere else. *)
StoreReply(s, va, b, t) ==
  /\ t \in States
  /\ t.ok = s.ok /\ t.vm = s.vm /\ t.used = s.used /\ t.buf = s.buf
  /\ ~s.ok => t = s
  /\ s.ok => \A f \in Frames, x \in Offsets :
       t.mem[f][x] = IF f = FrameOf(s.vm, va) /\ x = va % PageSize
                     THEN b ELSE s.mem[f][x]

LEMMA StoreEffect ==
  ASSUME NEW s \in States, NEW va \in Nat, NEW b \in Nat,
         s.ok => Can(s.vm, va, "write")
  PROVE  StoreReply(s, va, b, StoreByte(s, va, b))
<1> DEFINE F == FrameOf(s.vm, va)
           x0 == va % PageSize
           memory == [s.mem EXCEPT ![F] = [@ EXCEPT ![x0] = b]]
           t == StoreByte(s, va, b)
           c == [s EXCEPT !.mem = memory]
<1>1. t = IF ~s.ok THEN s ELSE c
  BY DEF StoreByte
<1>2. s \in LoopStates /\ SpaceOK(s.vm) /\ s.mem \in Memories
  BY DEF States, LoopStates
<1>3. CASE ~s.ok
  <2>1. t = s
    BY <1>1, <1>3
  <2> HIDE DEF t
  <2> QED BY <1>3, <2>1 DEF StoreReply, t
<1>4. CASE s.ok
  <2>1. F \in Frames /\ x0 \in Offsets
    <3>1. PICK e \in s.vm.ptable : F = e.frame
      BY <1>2, <1>4, FrameOfAccessible
    <3> QED BY <1>2, <3>1, MappedFrames, AddressType DEF FramesOf
  <2> HIDE DEF F, x0
  <2>2. s.mem[F] \in [Offsets -> Nat]
    BY <1>2, <2>1 DEF Memories
  <2>3. [s.mem[F] EXCEPT ![x0] = b] \in [Offsets -> Nat]
    BY <2>1, <2>2
  <2>4. memory \in Memories
    BY <1>2, <2>3 DEF Memories
  <2>5. \A f \in Frames, x \in Offsets :
          memory[f][x] = IF f = F /\ x = x0 THEN b ELSE s.mem[f][x]
    BY <1>2, <2>1, <2>2 DEF Memories
  <2> HIDE DEF memory
  <2>6. t = c
    BY <1>1, <1>4
  <2> HIDE DEF t
  <2>7. /\ t \in LoopStates /\ t.ok = s.ok /\ t.vm = s.vm /\ t.used = s.used
        /\ t.next = s.next /\ t.buf = s.buf /\ t.mem = memory
    BY <1>2, <2>4, <2>6 DEF LoopStates
  <2>8. t \in States
    BY <2>7 DEF States
  <2> QED BY <1>4, <2>5, <2>7, <2>8 DEF StoreReply, F, x0, t
<1> QED BY <1>3, <1>4

(* A byte is appended to what has been read. *)
LoadReply(s, va, t) ==
  /\ t \in States
  /\ t.ok = s.ok /\ t.vm = s.vm /\ t.used = s.used /\ t.mem = s.mem
  /\ ~s.ok => t = s
  /\ s.ok => t.buf = Append(s.buf, ByteAt(s.vm, s.mem, va))

LEMMA ByteType ==
  ASSUME NEW vm, SpaceOK(vm), NEW memory \in Memories, NEW va \in Nat, NEW perm,
         Can(vm, va, perm)
  PROVE  ByteAt(vm, memory, va) \in Nat /\ FrameOf(vm, va) \in Frames
<1>1. PICK e \in vm.ptable : FrameOf(vm, va) = e.frame
  BY FrameOfAccessible
<1>2. FrameOf(vm, va) \in Frames /\ va % PageSize \in Offsets
  BY <1>1, MappedFrames, AddressType DEF FramesOf
<1> QED BY <1>2 DEF ByteAt, Memories

LEMMA LoadEffect ==
  ASSUME NEW s \in States, NEW va \in Nat, s.ok => Can(s.vm, va, "read")
  PROVE  LoadReply(s, va, LoadByte(s, va))
<1> DEFINE b == ByteAt(s.vm, s.mem, va)
           t == LoadByte(s, va)
           c == [s EXCEPT !.buf = Append(s.buf, b)]
<1>1. t = IF ~s.ok THEN s ELSE c
  BY DEF LoadByte
<1>2. s \in LoopStates /\ SpaceOK(s.vm) /\ s.mem \in Memories /\ s.buf \in Seq(Nat)
  BY DEF States, LoopStates
<1>3. CASE ~s.ok
  <2>1. t = s
    BY <1>1, <1>3
  <2> HIDE DEF t
  <2> QED BY <1>3, <2>1 DEF LoadReply, t
<1>4. CASE s.ok
  <2>1. b \in Nat
    BY <1>2, <1>4, ByteType
  <2>2. t = c
    BY <1>1, <1>4
  <2> HIDE DEF b, t
  <2>3. Append(s.buf, b) \in Seq(Nat)
    BY <1>2, <2>1
  <2>4. /\ t \in LoopStates /\ t.ok = s.ok /\ t.vm = s.vm /\ t.used = s.used
        /\ t.next = s.next /\ t.mem = s.mem /\ t.buf = Append(s.buf, b)
    BY <1>2, <2>2, <2>3 DEF LoopStates
  <2>5. t \in States
    BY <2>4 DEF States
  <2> QED BY <1>4, <2>4, <2>5 DEF LoadReply, b, t
<1> QED BY <1>3, <1>4

OutRound(s, va, src, k) ==
  StoreByte(Reach(s, Address(va, k), TRUE), Address(va, k), src[k])

OutReply(s, a, b, t) ==
  \E c \in States : ReachReply(s, a, "write", c) /\ StoreReply(c, a, b, t)

InRound(s, va, k) ==
  LoadByte(Reach(s, Address(va, k), FALSE), Address(va, k))

InReply(s, a, t) ==
  \E c \in States : ReachReply(s, a, "read", c) /\ LoadReply(c, a, t)

LEMMA AddressInWord ==
  ASSUME NEW va \in Nat, NEW k \in Nat \ {0}
  PROVE  Address(va, k) \in Nat /\ Address(va, k) \in Addresses
<1>1. va + k - 1 \in Nat
  OBVIOUS
<1>2. (va + k - 1) % WordSize \in 0..(WordSize - 1)
  BY <1>1, BaseAssumption, ModRange
<1> QED BY <1>2, BaseAssumption DEF Address, Addresses

LEMMA OutRoundEffect ==
  ASSUME NEW s \in States, NEW va \in Nat, NEW k \in Nat \ {0}, NEW src, src[k] \in Nat
  PROVE  /\ OutReply(s, Address(va, k), src[k], OutRound(s, va, src, k))
         /\ OutRound(s, va, src, k) \in States /\ Grown(s, OutRound(s, va, src, k))
<1> DEFINE a == Address(va, k)
           c == Reach(s, a, TRUE)
           t == OutRound(s, va, src, k)
<1>1. a \in Nat
  BY AddressInWord
<1>2. Perm(TRUE) = "write"
  BY DEF Perm
<1> HIDE DEF a
<1>3. ReachReply(s, a, "write", c)
  BY <1>1, <1>2, ReachEffect
<1>4. t = StoreByte(c, a, src[k])
  BY DEF OutRound, a
<1> HIDE DEF c, t
<1>5. c \in States /\ (c.ok => Can(c.vm, a, "write"))
  BY <1>3 DEF ReachReply
<1>6. StoreReply(c, a, src[k], t)
  BY <1>1, <1>4, <1>5, StoreEffect
<1>7. Grown(c, t) /\ t \in States
  BY <1>6, GrownSelf DEF StoreReply
<1>8. Grown(s, t)
  BY <1>3, <1>7, GrownTrans DEF ReachReply
<1> QED BY <1>3, <1>5, <1>6, <1>7, <1>8 DEF OutReply, a, t

LEMMA InRoundEffect ==
  ASSUME NEW s \in States, NEW va \in Nat, NEW k \in Nat \ {0}
  PROVE  /\ InReply(s, Address(va, k), InRound(s, va, k))
         /\ InRound(s, va, k) \in States /\ Grown(s, InRound(s, va, k))
<1> DEFINE a == Address(va, k)
           c == Reach(s, a, FALSE)
           t == InRound(s, va, k)
<1>1. a \in Nat
  BY AddressInWord
<1>2. Perm(FALSE) = "read"
  BY DEF Perm
<1> HIDE DEF a
<1>3. ReachReply(s, a, "read", c)
  BY <1>1, <1>2, ReachEffect
<1>4. t = LoadByte(c, a)
  BY DEF InRound, a
<1> HIDE DEF c, t
<1>5. c \in States /\ (c.ok => Can(c.vm, a, "read"))
  BY <1>3 DEF ReachReply
<1>6. LoadReply(c, a, t)
  BY <1>1, <1>4, <1>5, LoadEffect
<1>7. Grown(c, t) /\ t \in States
  BY <1>6, GrownSelf DEF LoadReply
<1>8. Grown(s, t)
  BY <1>3, <1>7, GrownTrans DEF ReachReply
<1> QED BY <1>3, <1>5, <1>6, <1>7, <1>8 DEF InReply, a, t

-----------------------------------------------------------------------------
(***************************************************************************)
(* All rounds.                                                             *)
(***************************************************************************)

(* The states before and after the rounds. *)
Walk(n, m, w) ==
  /\ w \in [0..n -> States] /\ w[0] = m
  /\ \A k \in 1..n : Grown(w[k - 1], w[k])

LEMMA WalkGrows ==
  ASSUME NEW n \in Nat, NEW m, NEW w, Walk(n, m, w)
  PROVE  w[n] \in States /\ Grown(m, w[n])
<1> DEFINE G == {k \in 0..n : Grown(m, w[k])}
<1>1. 0 \in G
  BY GrownSelf DEF Walk
<1>2. ASSUME NEW k \in 1..n, k - 1 \in G PROVE k \in G
  BY <1>2, GrownTrans DEF Walk
<1>3. n \in G
  <2> HIDE DEF G
  <2> QED BY <1>1, <1>2, CountUp
<1> QED BY <1>3 DEF Walk

(* A round as a function of the state and the number of the round. *)
StepOK(n, step) ==
  /\ step \in [States \X (1..n) -> States]
  /\ \A s \in States, k \in 1..n : Grown(s, step[s, k])

(* The values iter of a fold by function step that matter. *)
FoldSteps(n, m, step, iter) ==
  /\ iter[{}] = m
  /\ \A s \in SUBSET (1..n) : s # {} /\ iter[s \ {Max(s)}] \in States =>
       iter[s] = step[iter[s \ {Max(s)}], Max(s)]

WalkOfFold(n, m, step, iter, w) ==
  /\ Walk(n, m, w)
  /\ \A k \in 1..n : w[k] = step[w[k - 1], k]
  /\ iter[1..n] = w[n]

(* The states of a fold are those of a walk. *)
LEMMA FoldWalk ==
  ASSUME NEW n \in Nat, NEW m \in States,
         NEW step, StepOK(n, step), NEW iter, FoldSteps(n, m, step, iter)
  PROVE  \E w : WalkOfFold(n, m, step, iter, w)
<1> DEFINE w == [k \in 0..n |-> iter[1..k]]
<1>1. iter[1..0] = m
  <2>1. 1..0 = {}
    OBVIOUS
  <2> QED BY <2>1 DEF FoldSteps
<1>2. ASSUME NEW k \in 1..n, iter[1..(k - 1)] \in States
      PROVE  iter[1..k] = step[iter[1..(k - 1)], k] /\ iter[1..k] \in States
             /\ Grown(iter[1..(k - 1)], iter[1..k])
  <2>1. /\ (1..k) \in SUBSET (1..n) /\ 1..k # {}
        /\ (1..k) \ {k} = 1..(k - 1) /\ Max(1..k) = k
    BY Initial
  <2>2. iter[1..k] = step[iter[1..(k - 1)], k]
    BY <1>2, <2>1 DEF FoldSteps
  <2> QED BY <1>2, <2>2 DEF StepOK
<1>3. \A k \in 0..n : iter[1..k] \in States
  <2> SUFFICES ASSUME NEW j \in 0..n PROVE iter[1..j] \in States
    OBVIOUS
  <2> DEFINE G == {k \in 0..n : iter[1..k] \in States}
  <2>1. 0 \in G
    BY <1>1
  <2>2. ASSUME NEW k \in 1..j, k - 1 \in G PROVE k \in G
    <3>1. k \in 1..n /\ iter[1..(k - 1)] \in States
      BY <2>2
    <3>2. iter[1..k] \in States
      BY <1>2, <3>1
    <3> QED BY <3>1, <3>2
  <2>3. j \in G
    <3> HIDE DEF G
    <3> QED BY <2>1, <2>2, CountUp
  <2> QED BY <2>3
<1>4. w \in [0..n -> States]
  BY <1>3
<1>5. w[0] = m /\ w[n] = iter[1..n]
  BY <1>1
<1>6. ASSUME NEW k \in 1..n
      PROVE  /\ w[k] = step[w[k - 1], k]
             /\ Grown(w[k - 1], w[k])
  <2>1. k - 1 \in 0..n
    OBVIOUS
  <2>2. w[k - 1] = iter[1..(k - 1)] /\ w[k] = iter[1..k]
    BY <2>1
  <2> QED BY <1>2, <1>3, <2>1, <2>2
<1> HIDE DEF w
<1>7. Walk(n, m, w)
  BY <1>4, <1>5, <1>6 DEF Walk
<1>8. WalkOfFold(n, m, step, iter, w)
  BY <1>5, <1>6, <1>7 DEF WalkOfFold
<1> QED BY <1>8

LEMMA CopyoutWalk ==
  ASSUME NEW m \in States, NEW va \in Nat, NEW src \in Seq(Nat)
  PROVE  \E w : /\ Walk(Len(src), m, w)
                /\ \A k \in 1..Len(src) : w[k] = OutRound(w[k - 1], va, src, k)
                /\ copyout(m, va, src) = w[Len(src)]
<1> DEFINE N == Len(src)
           step == [z \in States \X (1..N) |-> OutRound(z[1], va, src, z[2])]
           IsIter(g) == g = [s \in SUBSET (DOMAIN Rounds(N)) |->
                               IF s = {} THEN m
                               ELSE OutRound(g[s \ {Max(s)}], va, src, Rounds(N)[Max(s)])]
           iter == CHOOSE g : IsIter(g)
<1>1. N \in Nat /\ DOMAIN Rounds(N) = 1..N /\ \A k \in 1..N : Rounds(N)[k] = k
  BY DEF Rounds
<1>2. ASSUME NEW s \in States, NEW k \in 1..N
      PROVE  /\ OutRound(s, va, src, k) \in States
             /\ Grown(s, OutRound(s, va, src, k))
  <2>1. k \in Nat \ {0} /\ src[k] \in Nat
    OBVIOUS
  <2> QED BY <2>1, OutRoundEffect
<1>3. StepOK(N, step)
  BY <1>2 DEF StepOK
<1>4. \A s \in SUBSET (1..N) : s # {} => Max(s) \in s
  <2>1. \A s \in SUBSET (1..N) : s \in SUBSET (0..N)
    OBVIOUS
  <2> QED BY <1>1, <2>1, MaxIsElement
<1>5. PICK g \in [SUBSET (1..N) -> States] : FoldOf(g, N, m, step)
  <2> HIDE DEF step, N
  <2> QED BY <1>1, <1>3, FoldExists DEF StepOK
<1>6. IsIter(g)
  <2>1. ASSUME NEW s \in SUBSET (1..N)
        PROVE  g[s] = IF s = {} THEN m
                      ELSE OutRound(g[s \ {Max(s)}], va, src, Rounds(N)[Max(s)])
    BY <1>1, <1>4, <1>5 DEF FoldOf
  <2> QED BY <1>1, <1>5, <2>1 DEF FoldOf
<1>7. IsIter(iter)
  <2> HIDE DEF IsIter
  <2> QED BY <1>6
<1>8. iter[1..N] = copyout(m, va, src)
  BY <1>1 DEF copyout, FoldLeft, MapThenFoldSet, OutRound
<1> HIDE DEF iter
<1>9. \A s \in SUBSET (1..N) :
        iter[s] = IF s = {} THEN m
                  ELSE OutRound(iter[s \ {Max(s)}], va, src, Rounds(N)[Max(s)])
  BY <1>1, <1>7
<1>10. iter[{}] = m
  BY <1>9
<1>11. ASSUME NEW s \in SUBSET (1..N), s # {}, iter[s \ {Max(s)}] \in States
       PROVE  iter[s] = step[iter[s \ {Max(s)}], Max(s)]
  BY <1>1, <1>4, <1>9, <1>11
<1>12. FoldSteps(N, m, step, iter)
  <2> HIDE DEF step, N
  <2> QED BY <1>10, <1>11 DEF FoldSteps
<1>13. \E w : WalkOfFold(N, m, step, iter, w)
  <2> HIDE DEF step, N
  <2> QED BY <1>1, <1>3, <1>12, FoldWalk
<1>14. PICK w : /\ Walk(N, m, w)
                /\ \A k \in 1..N : w[k] = step[w[k - 1], k]
                /\ iter[1..N] = w[N]
  BY <1>13 DEF WalkOfFold
<1>15. ASSUME NEW k \in 1..N PROVE w[k] = OutRound(w[k - 1], va, src, k)
  <2>1. k - 1 \in 0..N
    BY <1>1
  <2>2. w[k - 1] \in States
    BY <1>14, <2>1 DEF Walk
  <2> QED BY <1>14, <2>2
<1> QED BY <1>8, <1>14, <1>15

LEMMA CopyinWalk ==
  ASSUME NEW m \in States, NEW va \in Nat, NEW n \in Nat
  PROVE  \E w : /\ Walk(n, m, w)
                /\ \A k \in 1..n : w[k] = InRound(w[k - 1], va, k)
                /\ copyin(m, n, va) = w[n]
<1> DEFINE N == n
           step == [z \in States \X (1..N) |-> InRound(z[1], va, z[2])]
           IsIter(g) == g = [s \in SUBSET (DOMAIN Rounds(N)) |->
                               IF s = {} THEN m
                               ELSE InRound(g[s \ {Max(s)}], va, Rounds(N)[Max(s)])]
           iter == CHOOSE g : IsIter(g)
<1>1. N \in Nat /\ DOMAIN Rounds(N) = 1..N /\ \A k \in 1..N : Rounds(N)[k] = k
  BY DEF Rounds
<1>2. ASSUME NEW s \in States, NEW k \in 1..N
      PROVE  /\ InRound(s, va, k) \in States
             /\ Grown(s, InRound(s, va, k))
  <2>1. k \in Nat \ {0}
    OBVIOUS
  <2> QED BY <2>1, InRoundEffect
<1>3. StepOK(N, step)
  BY <1>2 DEF StepOK
<1>4. \A s \in SUBSET (1..N) : s # {} => Max(s) \in s
  <2>1. \A s \in SUBSET (1..N) : s \in SUBSET (0..N)
    OBVIOUS
  <2> QED BY <1>1, <2>1, MaxIsElement
<1>5. PICK g \in [SUBSET (1..N) -> States] : FoldOf(g, N, m, step)
  <2> HIDE DEF step, N
  <2> QED BY <1>1, <1>3, FoldExists DEF StepOK
<1>6. IsIter(g)
  <2>1. ASSUME NEW s \in SUBSET (1..N)
        PROVE  g[s] = IF s = {} THEN m
                      ELSE InRound(g[s \ {Max(s)}], va, Rounds(N)[Max(s)])
    BY <1>1, <1>4, <1>5 DEF FoldOf
  <2> QED BY <1>1, <1>5, <2>1 DEF FoldOf
<1>7. IsIter(iter)
  <2> HIDE DEF IsIter
  <2> QED BY <1>6
<1>8. iter[1..N] = copyin(m, n, va)
  BY <1>1 DEF copyin, FoldLeft, MapThenFoldSet, InRound
<1> HIDE DEF iter
<1>9. \A s \in SUBSET (1..N) :
        iter[s] = IF s = {} THEN m
                  ELSE InRound(iter[s \ {Max(s)}], va, Rounds(N)[Max(s)])
  BY <1>1, <1>7
<1>10. iter[{}] = m
  BY <1>9
<1>11. ASSUME NEW s \in SUBSET (1..N), s # {}, iter[s \ {Max(s)}] \in States
       PROVE  iter[s] = step[iter[s \ {Max(s)}], Max(s)]
  BY <1>1, <1>4, <1>9, <1>11
<1>12. FoldSteps(N, m, step, iter)
  <2> HIDE DEF step, N
  <2> QED BY <1>10, <1>11 DEF FoldSteps
<1>13. \E w : WalkOfFold(N, m, step, iter, w)
  <2> HIDE DEF step, N
  <2> QED BY <1>1, <1>3, <1>12, FoldWalk
<1>14. PICK w : /\ Walk(N, m, w)
                /\ \A k \in 1..N : w[k] = step[w[k - 1], k]
                /\ iter[1..N] = w[N]
  BY <1>13 DEF WalkOfFold
<1>15. ASSUME NEW k \in 1..N PROVE w[k] = InRound(w[k - 1], va, k)
  <2>1. k - 1 \in 0..N
    BY <1>1
  <2>2. w[k - 1] \in States
    BY <1>14, <2>1 DEF Walk
  <2> QED BY <1>14, <2>2
<1> QED BY <1>8, <1>14, <1>15

(* One byte is copied by one round, from that very address. *)
LEMMA CopyinOne ==
  ASSUME NEW s \in States, NEW a \in Addresses
  PROVE  /\ copyin(s, 1, a) \in States /\ Grown(s, copyin(s, 1, a))
         /\ InReply(s, a, copyin(s, 1, a))
<1>1. a \in Nat /\ Address(a, 1) = a
  <2>1. a \in 0..(WordSize - 1) /\ WordSize \in Nat \ {0}
    BY BaseAssumption DEF Addresses
  <2>2. a % WordSize = a
    BY <2>1, ModWithin
  <2>3. a + 1 - 1 = a
    BY <2>1
  <2> QED BY <2>1, <2>2, <2>3 DEF Address
<1>2. PICK w : /\ Walk(1, s, w)
               /\ \A k \in 1..1 : w[k] = InRound(w[k - 1], a, k)
               /\ copyin(s, 1, a) = w[1]
  BY <1>1, CopyinWalk
<1>3. copyin(s, 1, a) = InRound(s, a, 1)
  <2>1. w[0] = s /\ w[1] = InRound(w[0], a, 1)
    BY <1>2 DEF Walk
  <2> QED BY <1>2, <2>1
<1>4. /\ InReply(s, Address(a, 1), InRound(s, a, 1))
      /\ InRound(s, a, 1) \in States /\ Grown(s, InRound(s, a, 1))
  BY <1>1, InRoundEffect
<1> QED BY <1>1, <1>3, <1>4

InstrRound(s, va, k) ==
  IF Terminated(s) THEN s ELSE copyin(s, 1, Address(va, k))

LEMMA InstrRoundEffect ==
  ASSUME NEW s \in States, NEW va \in Nat, NEW k \in Nat \ {0}
  PROVE  InstrRound(s, va, k) \in States /\ Grown(s, InstrRound(s, va, k))
<1>1. CASE Terminated(s)
  BY <1>1, GrownSelf DEF InstrRound
<1>2. CASE ~Terminated(s)
  BY <1>2, AddressInWord, CopyinOne DEF InstrRound
<1> QED BY <1>1, <1>2

(* The loop of copyinstr, before its result is cut to the string. *)
InstrEnd(m, va) ==
  FoldLeft(LAMBDA s, k : IF Terminated(s) THEN s ELSE copyin(s, 1, Address(va, k)),
           m, Rounds(MaxPathLength))

LEMMA CopyinstrWalk ==
  ASSUME NEW m \in States, NEW va \in Nat
  PROVE  \E w : /\ Walk(MaxPathLength, m, w)
                /\ \A k \in 1..MaxPathLength : w[k] = InstrRound(w[k - 1], va, k)
                /\ InstrEnd(m, va) = w[MaxPathLength]
<1> DEFINE N == MaxPathLength
           step == [z \in States \X (1..N) |-> InstrRound(z[1], va, z[2])]
           IsIter(g) == g = [s \in SUBSET (DOMAIN Rounds(N)) |->
                               IF s = {} THEN m
                               ELSE InstrRound(g[s \ {Max(s)}], va, Rounds(N)[Max(s)])]
           iter == CHOOSE g : IsIter(g)
<1>1. N \in Nat /\ DOMAIN Rounds(N) = 1..N /\ \A k \in 1..N : Rounds(N)[k] = k
  BY UserCopyAssumption DEF Rounds
<1>2. ASSUME NEW s \in States, NEW k \in 1..N
      PROVE  /\ InstrRound(s, va, k) \in States
             /\ Grown(s, InstrRound(s, va, k))
  <2>1. k \in Nat \ {0}
    BY <1>1
  <2> QED BY <2>1, InstrRoundEffect
<1>3. StepOK(N, step)
  BY <1>2 DEF StepOK
<1>4. \A s \in SUBSET (1..N) : s # {} => Max(s) \in s
  <2>1. \A s \in SUBSET (1..N) : s \in SUBSET (0..N)
    OBVIOUS
  <2> QED BY <1>1, <2>1, MaxIsElement
<1>5. PICK g \in [SUBSET (1..N) -> States] : FoldOf(g, N, m, step)
  <2> HIDE DEF step, N
  <2> QED BY <1>1, <1>3, FoldExists DEF StepOK
<1>6. IsIter(g)
  <2>1. ASSUME NEW s \in SUBSET (1..N)
        PROVE  g[s] = IF s = {} THEN m
                      ELSE InstrRound(g[s \ {Max(s)}], va, Rounds(N)[Max(s)])
    BY <1>1, <1>4, <1>5 DEF FoldOf
  <2> QED BY <1>1, <1>5, <2>1 DEF FoldOf
<1>7. IsIter(iter)
  <2> HIDE DEF IsIter
  <2> QED BY <1>6
<1>8. iter[1..N] = InstrEnd(m, va)
  BY <1>1 DEF InstrEnd, FoldLeft, MapThenFoldSet, InstrRound
<1> HIDE DEF iter
<1>9. \A s \in SUBSET (1..N) :
        iter[s] = IF s = {} THEN m
                  ELSE InstrRound(iter[s \ {Max(s)}], va, Rounds(N)[Max(s)])
  BY <1>1, <1>7
<1>10. iter[{}] = m
  BY <1>9
<1>11. ASSUME NEW s \in SUBSET (1..N), s # {}, iter[s \ {Max(s)}] \in States
       PROVE  iter[s] = step[iter[s \ {Max(s)}], Max(s)]
  BY <1>1, <1>4, <1>9, <1>11
<1>12. FoldSteps(N, m, step, iter)
  <2> HIDE DEF step, N
  <2> QED BY <1>10, <1>11 DEF FoldSteps
<1>13. \E w : WalkOfFold(N, m, step, iter, w)
  <2> HIDE DEF step, N
  <2> QED BY <1>1, <1>3, <1>12, FoldWalk
<1>14. PICK w : /\ Walk(N, m, w)
                /\ \A k \in 1..N : w[k] = step[w[k - 1], k]
                /\ iter[1..N] = w[N]
  BY <1>13 DEF WalkOfFold
<1>15. ASSUME NEW k \in 1..N PROVE w[k] = InstrRound(w[k - 1], va, k)
  <2>1. k - 1 \in 0..N
    BY <1>1
  <2>2. w[k - 1] \in States
    BY <1>14, <2>1 DEF Walk
  <2> QED BY <1>14, <2>2
<1> QED BY <1>8, <1>14, <1>15


-----------------------------------------------------------------------------
(***************************************************************************)
(* How far a copy gets.                                                    *)
(***************************************************************************)

(* After k rounds d bytes have been accessed; if not all, the next one     *)
(* cannot be.                                                              *)
Reached(s, va, k, d, perm) ==
  /\ d \in 0..k
  /\ s.ok <=> d = k
  /\ \A j \in 1..d : Can(s.vm, Address(va, j), perm)
  /\ d < k => ~Can(s.vm, Address(va, d + 1), perm)

LEMMA ReachedStep ==
  ASSUME NEW s \in States, NEW va \in Nat, NEW k \in Nat \ {0}, NEW d, NEW perm,
         Reached(s, va, k - 1, d, perm),
         NEW c \in States, ReachReply(s, Address(va, k), perm, c),
         NEW t, t.ok = c.ok, t.vm = c.vm
  PROVE  /\ Reached(t, va, k, IF t.ok THEN k ELSE d, perm)
         /\ t.ok => s.ok /\ d = k - 1
<1>1. d \in 0..(k - 1) /\ (s.ok <=> d = k - 1)
  BY DEF Reached
<1>2. s.vm.ptable \subseteq c.vm.ptable
  BY DEF ReachReply, Grown
<1>3. \A j \in 1..d : Can(c.vm, Address(va, j), perm)
  BY <1>2, GrownKeepsBytes DEF Reached
<1>4. CASE ~s.ok
  <2>1. c = s
    BY <1>4 DEF ReachReply
  <2>2. d < k - 1 /\ d < k
    BY <1>1, <1>4
  <2> QED BY <1>1, <1>3, <1>4, <2>1, <2>2 DEF Reached
<1>5. CASE s.ok /\ ~c.ok
  <2>1. ~Can(c.vm, Address(va, k), perm) /\ d + 1 = k
    BY <1>1, <1>5 DEF ReachReply
  <2> QED BY <1>1, <1>3, <1>5, <2>1 DEF Reached
<1>6. CASE s.ok /\ c.ok
  <2>1. Can(c.vm, Address(va, k), perm) /\ d = k - 1
    BY <1>1, <1>6 DEF ReachReply
  <2>2. \A j \in 1..k : j = k \/ j \in 1..d
    BY <2>1
  <2>3. \A j \in 1..k : Can(c.vm, Address(va, j), perm)
    BY <1>3, <2>1, <2>2
  <2> QED BY <1>6, <2>1, <2>3 DEF Reached
<1> QED BY <1>4, <1>5, <1>6

LEMMA ReachedStart ==
  ASSUME NEW s, NEW va, NEW perm, s.ok
  PROVE  Reached(s, va, 0, 0, perm)
  BY DEF Reached

LEMMA AccessibleIs ==
  ASSUME NEW vm, NEW va, NEW n \in Nat, NEW d \in 0..n, NEW perm,
         \A j \in 1..d : Can(vm, Address(va, j), perm),
         d < n => ~Can(vm, Address(va, d + 1), perm)
  PROVE  Accessible(vm, va, n, perm) = d
<1> DEFINE S == {k \in 0..n : \A j \in 1..k : Can(vm, Address(va, j), perm)}
<1>1. d \in S
  OBVIOUS
<1>2. ASSUME NEW k \in S PROVE k <= d
  <2> SUFFICES ASSUME k > d PROVE FALSE
    OBVIOUS
  <2>1. d + 1 \in 1..k /\ d < n
    OBVIOUS
  <2> QED BY <2>1
<1>3. S \in SUBSET (0..n)
  OBVIOUS
<1>4. Accessible(vm, va, n, perm) = Max(S)
  BY DEF Accessible, Can
<1> HIDE DEF S
<1>5. Max(S) \in S /\ d <= Max(S)
  BY <1>1, <1>3, MaxIsElement
<1>6. Max(S) <= d
  BY <1>2, <1>5
<1>7. Max(S) \in 0..n
  BY <1>3, <1>5
<1>8. ASSUME NEW x \in 0..n, x <= d, d <= x PROVE x = d
  BY <1>8
<1>9. Max(S) = d
  BY <1>5, <1>6, <1>7, <1>8
<1> QED BY <1>4, <1>9

LEMMA AccessibleSet ==
  ASSUME NEW vm, NEW va, NEW n \in Nat, NEW perm
  PROVE  /\ Accessible(vm, va, n, perm) \in 0..n
         /\ \A j \in 1..Accessible(vm, va, n, perm) : Can(vm, Address(va, j), perm)
         /\ \A d \in 0..n : (\A j \in 1..d : Can(vm, Address(va, j), perm))
              => d <= Accessible(vm, va, n, perm)
<1> DEFINE S == {k \in 0..n : \A j \in 1..k : Can(vm, Address(va, j), perm)}
<1>1. 0 \in S /\ S \in SUBSET (0..n)
  OBVIOUS
<1>2. Accessible(vm, va, n, perm) = Max(S)
  BY DEF Accessible, Can
<1>3. Max(S) \in S /\ \A d \in S : d <= Max(S)
  <2> HIDE DEF S
  <2> QED BY <1>1, MaxIsElement
<1>4. Max(S) \in 0..n /\ \A j \in 1..Max(S) : Can(vm, Address(va, j), perm)
  BY <1>3
<1>5. \A d \in 0..n : (\A j \in 1..d : Can(vm, Address(va, j), perm)) => d \in S
  OBVIOUS
<1> HIDE DEF S
<1> QED BY <1>2, <1>3, <1>4, <1>5

LEMMA AccessibleBound ==
  ASSUME NEW vm, NEW va, NEW n \in Nat, NEW d \in 0..n, NEW perm,
         \A j \in 1..d : Can(vm, Address(va, j), perm)
  PROVE  d <= Accessible(vm, va, n, perm) /\ Accessible(vm, va, n, perm) \in Nat
<1>1. Accessible(vm, va, n, perm) \in 0..n
  BY AccessibleSet
<1> QED BY <1>1, AccessibleSet

LEMMA AccessibleAll ==
  ASSUME NEW vm, NEW va, NEW n \in Nat, NEW perm, Accessible(vm, va, n, perm) = n
  PROVE  \A j \in 1..n : Can(vm, Address(va, j), perm)
  BY AccessibleSet

LEMMA ReachedAccessible ==
  ASSUME NEW s, NEW va, NEW n \in Nat, NEW d, NEW perm, Reached(s, va, n, d, perm)
  PROVE  Accessible(s.vm, va, n, perm) = d /\ d \in 0..n
  BY AccessibleIs DEF Reached

-----------------------------------------------------------------------------
(***************************************************************************)
(* copyout.                                                                *)
(***************************************************************************)

(* Two bytes that can be accessed at the same place are the same byte. *)
LEMMA OnePlace ==
  ASSUME NEW vm, SpaceOK(vm), NEW a \in Nat, NEW b \in Nat, NEW perm,
         Can(vm, b, perm), NEW e \in vm.ptable, e.frame = FrameOf(vm, b),
         e.va = PageOf(a), a % PageSize = b % PageSize
  PROVE  a = b
<1>1. PICK c \in vm.ptable : c.va = PageOf(b) /\ FrameOf(vm, b) = c.frame
  BY FrameOfAccessible
<1>2. e = c
  BY <1>1 DEF SpaceOK
<1>3. PageOf(a) = PageOf(b)
  BY <1>1, <1>2
<1>4. /\ a = PageOf(a) * PageSize + (a % PageSize)
      /\ b = PageOf(b) * PageSize + (b % PageSize)
  BY AddressType
<1> QED BY <1>3, <1>4

LEMMA Multiples ==
  ASSUME NEW b \in Nat \ {0}, NEW q \in Nat, NEW p \in Nat, q < p
  PROVE  b * q + b <= b * p
<1>1. PICK i \in Nat : p = q + 1 + i
  <2>1. p - q - 1 \in Nat /\ p = q + 1 + (p - q - 1)
    OBVIOUS
  <2> QED BY <2>1
<1>2. b * p = b * q + b + b * i /\ b * i \in Nat /\ b * q \in Nat
  BY <1>1
<1> QED BY <1>2

(* No more addresses than there are words are all different. *)
LEMMA AddressesDiffer ==
  ASSUME NEW va \in Nat, NEW k \in 1..WordSize, NEW j \in 1..(k - 1)
  PROVE  Address(va, j) # Address(va, k)
<1> DEFINE W == WordSize
           x == va + j - 1
           y == va + k - 1
           q == x \div W
           p == y \div W
<1>1. /\ W \in Nat \ {0} /\ x \in Nat /\ y \in Nat /\ x < y /\ y < x + W
  BY BaseAssumption
<1> HIDE DEF W, x, y
<1>2. /\ x = W * q + (x % W) /\ x % W \in 0..(W - 1) /\ q \in Nat /\ W * q \in Nat
      /\ y = W * p + (y % W) /\ y % W \in 0..(W - 1) /\ p \in Nat /\ W * p \in Nat
  BY <1>1
<1> HIDE DEF q, p
<1>3. ASSUME x % W = y % W PROVE FALSE
  <2>1. CASE q < p
    <3>1. W * q + W <= W * p
      BY <1>1, <1>2, <2>1, Multiples
    <3> QED BY <1>1, <1>2, <1>3, <3>1
  <2>2. CASE p < q
    <3>1. W * p + W <= W * q
      BY <1>1, <1>2, <2>2, Multiples
    <3> QED BY <1>1, <1>2, <1>3, <3>1
  <2>3. CASE p = q
    BY <1>1, <1>2, <1>3, <2>3
  <2> QED BY <1>2, <2>1, <2>2, <2>3
<1> QED BY <1>3 DEF Address, W, x, y

(* The first d of the bytes have been stored, and nothing else has. *)
OutBytes(m, s, va, src, d) ==
  /\ \A j \in 1..d : ByteAt(s.vm, s.mem, Address(va, j)) = src[j]
  /\ \A e \in m.vm.ptable, x \in Offsets :
       \/ \E j \in 1..d : Address(va, j) = e.va * PageSize + x
       \/ s.mem[e.frame][x] = m.mem[e.frame][x]
  /\ \A f \in Frames \ FramesOf(s.vm), x \in Offsets : s.mem[f][x] = m.mem[f][x]

LEMMA OutStart ==
  ASSUME NEW m \in States, NEW va, NEW src
  PROVE  OutBytes(m, m, va, src, 0)
  BY DEF OutBytes

(* A fault on the way to the next byte moves none. *)
LEMMA OutGrow ==
  ASSUME NEW m \in States, NEW s \in States, NEW va \in Nat, NEW src, NEW d \in Nat,
         OutBytes(m, s, va, src, d),
         \A j \in 1..d : Can(s.vm, Address(va, j), "write"),
         NEW a, NEW c \in States, ReachReply(s, a, "write", c)
  PROVE  OutBytes(m, c, va, src, d)
<1>1. s.vm.ptable \subseteq c.vm.ptable /\ c.mem = s.mem
  BY DEF ReachReply, Grown
<1>2. \A j \in 1..d : ByteAt(c.vm, c.mem, Address(va, j)) = src[j]
  <2> SUFFICES ASSUME NEW j \in 1..d
               PROVE  ByteAt(c.vm, c.mem, Address(va, j)) = src[j]
    OBVIOUS
  <2>1. FrameOf(c.vm, Address(va, j)) = FrameOf(s.vm, Address(va, j))
    BY <1>1, GrownKeepsBytes
  <2>2. ByteAt(s.vm, s.mem, Address(va, j)) = src[j]
    BY DEF OutBytes
  <2> QED BY <1>1, <2>1, <2>2 DEF ByteAt
<1>3. FramesOf(s.vm) \subseteq FramesOf(c.vm)
  BY <1>1 DEF FramesOf
<1> QED BY <1>1, <1>2, <1>3 DEF OutBytes

(* The k-th byte is stored at its own place, where none of the others is. *)
LEMMA OutStore ==
  ASSUME NEW m \in States, NEW c \in States, NEW va \in Nat, NEW src,
         NEW k \in 1..WordSize, c.ok, m.vm.ptable \subseteq c.vm.ptable,
         OutBytes(m, c, va, src, k - 1),
         \A j \in 1..k : Can(c.vm, Address(va, j), "write"),
         NEW t \in States, StoreReply(c, Address(va, k), src[k], t)
  PROVE  OutBytes(m, t, va, src, k)
<1> DEFINE a == Address(va, k)
           F == FrameOf(c.vm, a)
<1>1. SpaceOK(c.vm) /\ a \in Nat /\ Can(c.vm, a, "write")
  BY AddressInWord DEF States
<1>2. PICK own \in c.vm.ptable : own.va = PageOf(a) /\ F = own.frame
  BY <1>1, FrameOfAccessible
<1>3. F \in FramesOf(c.vm) /\ F \in Frames /\ a % PageSize \in Offsets
  BY <1>1, <1>2, MappedFrames, AddressType DEF FramesOf
<1>4. /\ t.vm = c.vm
      /\ \A f \in Frames, x \in Offsets :
           t.mem[f][x] = IF f = F /\ x = a % PageSize THEN src[k] ELSE c.mem[f][x]
  BY DEF StoreReply
<1>5. ASSUME NEW j \in 1..k
      PROVE  ByteAt(t.vm, t.mem, Address(va, j)) = src[j]
  <2> DEFINE b == Address(va, j)
             f == FrameOf(c.vm, b)
  <2>1. CASE j = k
    BY <1>3, <1>4, <2>1 DEF ByteAt
  <2>2. CASE j # k
    <3>1. j \in 1..(k - 1) /\ b \in Nat /\ b # a
      BY <2>2, AddressesDiffer, AddressInWord
    <3>2. Can(c.vm, b, "write") /\ f \in Frames /\ b % PageSize \in Offsets
      <4>1. PICK e \in c.vm.ptable : f = e.frame
        BY <1>1, FrameOfAccessible
      <4> QED BY <1>1, <3>1, <4>1, MappedFrames, AddressType DEF FramesOf
    <3>3. ~(f = F /\ b % PageSize = a % PageSize)
      <4>1. PICK e \in c.vm.ptable : e.va = PageOf(b) /\ f = e.frame
        BY <1>1, <3>2, FrameOfAccessible
      <4> QED BY <1>1, <3>1, <4>1, OnePlace
    <3>4. t.mem[f][b % PageSize] = c.mem[f][b % PageSize]
      BY <1>4, <3>2, <3>3
    <3>5. ByteAt(c.vm, c.mem, b) = src[j]
      BY <3>1 DEF OutBytes
    <3> QED BY <1>4, <3>4, <3>5 DEF ByteAt
  <2> QED BY <2>1, <2>2
<1>6. ASSUME NEW e \in m.vm.ptable, NEW x \in Offsets
      PROVE  \/ \E j \in 1..k : Address(va, j) = e.va * PageSize + x
             \/ t.mem[e.frame][x] = m.mem[e.frame][x]
  <2>1. e \in c.vm.ptable /\ e.frame \in Frames
    BY <1>1, MappedFrames DEF FramesOf
  <2>2. CASE e.frame = F /\ x = a % PageSize
    <3>1. e = own
      BY <1>1, <1>2, <2>1, <2>2 DEF SpaceOK
    <3>2. a = e.va * PageSize + x
      BY <1>1, <1>2, <2>2, <3>1, AddressType
    <3> QED BY <3>2
  <2>3. CASE ~(e.frame = F /\ x = a % PageSize)
    <3>1. t.mem[e.frame][x] = c.mem[e.frame][x]
      BY <1>4, <2>1, <2>3
    <3>2. 1..(k - 1) \subseteq 1..k
      OBVIOUS
    <3> QED BY <3>1, <3>2 DEF OutBytes
  <2> QED BY <2>2, <2>3
<1>7. \A f \in Frames \ FramesOf(t.vm), x \in Offsets : t.mem[f][x] = m.mem[f][x]
  BY <1>3, <1>4 DEF OutBytes
<1> QED BY <1>5, <1>6, <1>7 DEF OutBytes

(* After all rounds. *)
LEMMA CopyoutDone ==
  ASSUME NEW m \in States, m.ok, NEW va \in Nat, NEW src \in Seq(Nat),
         Len(src) <= WordSize
  PROVE  LET r == copyout(m, va, src)
         IN  /\ r \in States /\ Grown(m, r)
             /\ \E d : Reached(r, va, Len(src), d, "write") /\ OutBytes(m, r, va, src, d)
<1> DEFINE n == Len(src)
<1>1. n \in Nat /\ n <= WordSize /\ WordSize \in Nat
  BY BaseAssumption
<1>2. PICK w : /\ Walk(n, m, w)
               /\ \A k \in 1..n : w[k] = OutRound(w[k - 1], va, src, k)
               /\ copyout(m, va, src) = w[n]
  BY CopyoutWalk
<1>3. \A k \in 1..n : src[k] \in Nat
  OBVIOUS
<1> HIDE DEF n
<1>4. w[n] \in States /\ Grown(m, w[n])
  BY <1>1, <1>2, WalkGrows
<1> DEFINE Good(k) == \E d : Reached(w[k], va, k, d, "write") /\ OutBytes(m, w[k], va, src, d)
           G == {k \in 0..n : Grown(m, w[k]) /\ Good(k)}
<1>5. 0 \in G
  <2>1. w[0] = m
    BY <1>2 DEF Walk
  <2>2. Reached(m, va, 0, 0, "write") /\ OutBytes(m, m, va, src, 0)
    BY ReachedStart, OutStart
  <2>3. Good(0)
    BY <2>1, <2>2
  <2>4. Grown(m, m)
    BY GrownSelf
  <2> QED BY <1>1, <2>1, <2>3, <2>4
<1>6. ASSUME NEW k \in 1..n, k - 1 \in G PROVE k \in G
  <2>1. k - 1 \in 0..n /\ k \in Nat \ {0} /\ k \in 0..n /\ k \in 1..WordSize
    BY <1>1
  <2>2. PICK d : Reached(w[k - 1], va, k - 1, d, "write") /\ OutBytes(m, w[k - 1], va, src, d)
    BY <1>6
  <2> DEFINE s == w[k - 1]
             t == w[k]
             a == Address(va, k)
  <2>3. s \in States /\ t \in States /\ Grown(m, s) /\ Grown(s, t)
    BY <1>2, <1>6, <2>1 DEF Walk
  <2>4. OutReply(s, a, src[k], t)
    BY <1>2, <1>3, <2>1, <2>3, OutRoundEffect
  <2> HIDE DEF s, t
  <2>5. PICK c \in States : ReachReply(s, a, "write", c) /\ StoreReply(c, a, src[k], t)
    BY <2>4 DEF OutReply
  <2>6. t.ok = c.ok /\ t.vm = c.vm
    BY <2>5 DEF StoreReply
  <2>7. Reached(s, va, k - 1, d, "write") /\ OutBytes(m, s, va, src, d)
    BY <2>2 DEF s
  <2>8. /\ Reached(t, va, k, IF t.ok THEN k ELSE d, "write")
        /\ t.ok => s.ok /\ d = k - 1
    BY <2>1, <2>3, <2>5, <2>6, <2>7, ReachedStep
  <2>9. d \in Nat /\ \A j \in 1..d : Can(s.vm, Address(va, j), "write")
    BY <2>1, <2>7 DEF Reached
  <2>10. OutBytes(m, c, va, src, d)
    BY <2>3, <2>5, <2>7, <2>9, OutGrow
  <2>11. Good(k)
    <3>1. CASE ~t.ok
      <4>1. t = c
        BY <2>5, <2>6, <3>1 DEF StoreReply
      <4>2. Reached(t, va, k, d, "write") /\ OutBytes(m, t, va, src, d)
        BY <2>8, <2>10, <3>1, <4>1
      <4> QED BY <4>2 DEF t
    <3>2. CASE t.ok
      <4>1. OutBytes(m, c, va, src, k - 1) /\ Reached(t, va, k, k, "write")
        BY <2>8, <2>10, <3>2
      <4>2. \A j \in 1..k : Can(c.vm, Address(va, j), "write")
        BY <2>6, <4>1 DEF Reached
      <4>3. m.vm.ptable \subseteq c.vm.ptable
        BY <2>3, <2>5 DEF Grown, ReachReply
      <4>4. OutBytes(m, t, va, src, k)
        BY <2>1, <2>3, <2>5, <2>6, <3>2, <4>1, <4>2, <4>3, OutStore
      <4> QED BY <4>1, <4>4 DEF t
    <3> QED BY <3>1, <3>2
  <2>12. Grown(m, t)
    BY <2>3, GrownTrans
  <2> QED BY <2>1, <2>11, <2>12 DEF t
<1>7. n \in G
  <2> HIDE DEF G
  <2> QED BY <1>1, <1>5, <1>6, CountUp
<1>8. copyout(m, va, src) = w[n]
  BY <1>2
<1> QED BY <1>4, <1>7, <1>8 DEF n

-----------------------------------------------------------------------------
(***************************************************************************)
(* copyin.                                                                 *)
(***************************************************************************)

(* The first d of the bytes have been read, and none has been changed. *)
InBytes(m, s, va, d) ==
  /\ s.mem = m.mem
  /\ s.buf \in Seq(Nat) /\ Len(s.buf) = d
  /\ \A j \in 1..d : s.buf[j] = ByteAt(s.vm, s.mem, Address(va, j))

LEMMA InStart ==
  ASSUME NEW m, m.buf = <<>>, NEW va
  PROVE  InBytes(m, m, va, 0)
  BY DEF InBytes

LEMMA InGrow ==
  ASSUME NEW m \in States, NEW s \in States, NEW va \in Nat, NEW d \in Nat,
         InBytes(m, s, va, d), \A j \in 1..d : Can(s.vm, Address(va, j), "read"),
         NEW a, NEW c \in States, ReachReply(s, a, "read", c)
  PROVE  InBytes(m, c, va, d)
<1>1. s.vm.ptable \subseteq c.vm.ptable /\ c.mem = s.mem /\ c.buf = s.buf
  BY DEF ReachReply, Grown
<1>2. \A j \in 1..d : c.buf[j] = ByteAt(c.vm, c.mem, Address(va, j))
  <2> SUFFICES ASSUME NEW j \in 1..d
               PROVE  c.buf[j] = ByteAt(c.vm, c.mem, Address(va, j))
    OBVIOUS
  <2>1. FrameOf(c.vm, Address(va, j)) = FrameOf(s.vm, Address(va, j))
    BY <1>1, GrownKeepsBytes
  <2>2. s.buf[j] = ByteAt(s.vm, s.mem, Address(va, j))
    BY DEF InBytes
  <2> QED BY <1>1, <2>1, <2>2 DEF ByteAt
<1> QED BY <1>1, <1>2 DEF InBytes

LEMMA InLoad ==
  ASSUME NEW m \in States, NEW c \in States, NEW va \in Nat, NEW k \in Nat \ {0},
         c.ok, Can(c.vm, Address(va, k), "read"), InBytes(m, c, va, k - 1),
         NEW t, LoadReply(c, Address(va, k), t)
  PROVE  /\ InBytes(m, t, va, k)
         /\ \A j \in 1..(k - 1) : t.buf[j] = c.buf[j]
<1> DEFINE b == ByteAt(c.vm, c.mem, Address(va, k))
<1>1. b \in Nat
  BY AddressInWord, ByteType DEF States, LoopStates
<1>2. t.buf = Append(c.buf, b) /\ t.vm = c.vm /\ t.mem = c.mem
  BY DEF LoadReply
<1> HIDE DEF b
<1>3. c.buf \in Seq(Nat) /\ Len(c.buf) = k - 1 /\ k - 1 \in Nat
  BY DEF InBytes
<1>4. /\ t.buf \in Seq(Nat) /\ Len(t.buf) = k /\ t.buf[k] = b
      /\ \A j \in 1..(k - 1) : t.buf[j] = c.buf[j]
  BY <1>1, <1>2, <1>3
<1>5. \A j \in 1..k : j = k \/ j \in 1..(k - 1)
  OBVIOUS
<1>6. \A j \in 1..k : t.buf[j] = ByteAt(t.vm, t.mem, Address(va, j))
  BY <1>2, <1>4, <1>5 DEF InBytes, b
<1> QED BY <1>2, <1>4, <1>6 DEF InBytes

(* What one more round adds: the byte at its address, or nothing if that   *)
(* cannot be read.                                                         *)
InProgress(s, va, k, d, t) ==
  /\ t.ok => s.ok /\ d = k - 1
  /\ ~t.ok => t.buf = s.buf
  /\ \A j \in 1..d : t.buf[j] = s.buf[j]
  /\ s.ok /\ Can(s.vm, Address(va, k), "read") => t.vm = s.vm /\ t.used = s.used

LEMMA InRoundStep ==
  ASSUME NEW m \in States, NEW s \in States, NEW t \in States, NEW va \in Nat,
         NEW k \in Nat \ {0}, NEW d, Reached(s, va, k - 1, d, "read"),
         InBytes(m, s, va, d), InReply(s, Address(va, k), t)
  PROVE  /\ Reached(t, va, k, IF t.ok THEN k ELSE d, "read")
         /\ InBytes(m, t, va, IF t.ok THEN k ELSE d)
         /\ InProgress(s, va, k, d, t)
<1> DEFINE a == Address(va, k)
<1>1. PICK c \in States : ReachReply(s, a, "read", c) /\ LoadReply(c, a, t)
  BY DEF InReply
<1>2. t.ok = c.ok /\ t.vm = c.vm /\ t.used = c.used
  BY <1>1 DEF LoadReply
<1>3. /\ Reached(t, va, k, IF t.ok THEN k ELSE d, "read")
      /\ t.ok => s.ok /\ d = k - 1
  BY <1>1, <1>2, ReachedStep
<1>4. d \in Nat /\ \A j \in 1..d : Can(s.vm, Address(va, j), "read")
  <2>1. k - 1 \in Nat
    OBVIOUS
  <2> QED BY <2>1 DEF Reached
<1>5. InBytes(m, c, va, d)
  BY <1>1, <1>4, InGrow
<1>6. c.buf = s.buf
  BY <1>1 DEF ReachReply
<1>7. s.ok /\ Can(s.vm, a, "read") => t.vm = s.vm /\ t.used = s.used
  BY <1>1, <1>2 DEF ReachReply
<1>8. CASE ~t.ok
  <2>1. t = c
    BY <1>1, <1>2, <1>8 DEF LoadReply
  <2> QED BY <1>3, <1>5, <1>6, <1>7, <1>8, <2>1 DEF InProgress
<1>9. CASE t.ok
  <2>1. d = k - 1 /\ c.ok /\ Can(c.vm, a, "read")
    <3>1. Reached(t, va, k, k, "read") /\ k \in 1..k
      BY <1>3, <1>9
    <3> QED BY <1>2, <1>3, <1>9, <3>1 DEF Reached
  <2>2. InBytes(m, t, va, k) /\ \A j \in 1..(k - 1) : t.buf[j] = c.buf[j]
    BY <1>1, <1>5, <2>1, InLoad
  <2> QED BY <1>3, <1>6, <1>7, <1>9, <2>1, <2>2 DEF InProgress
<1> QED BY <1>8, <1>9

LEMMA CopyinDone ==
  ASSUME NEW m \in States, m.ok, m.buf = <<>>, NEW va \in Nat, NEW n \in Nat
  PROVE  LET r == copyin(m, n, va)
         IN  /\ r \in States /\ Grown(m, r)
             /\ \E d : Reached(r, va, n, d, "read") /\ InBytes(m, r, va, d)
<1>1. PICK w : /\ Walk(n, m, w)
               /\ \A k \in 1..n : w[k] = InRound(w[k - 1], va, k)
               /\ copyin(m, n, va) = w[n]
  BY CopyinWalk
<1>2. w[n] \in States /\ Grown(m, w[n])
  BY <1>1, WalkGrows
<1> DEFINE Good(k) == \E d : Reached(w[k], va, k, d, "read") /\ InBytes(m, w[k], va, d)
           G == {k \in 0..n : Good(k)}
<1>3. 0 \in G
  <2>1. w[0] = m
    BY <1>1 DEF Walk
  <2>2. Reached(m, va, 0, 0, "read") /\ InBytes(m, m, va, 0)
    BY ReachedStart, InStart
  <2>3. Good(0)
    BY <2>1, <2>2
  <2> QED BY <2>3
<1>4. ASSUME NEW k \in 1..n, k - 1 \in G PROVE k \in G
  <2>1. k - 1 \in 0..n /\ k \in Nat \ {0} /\ k \in 0..n
    OBVIOUS
  <2>2. PICK d : Reached(w[k - 1], va, k - 1, d, "read") /\ InBytes(m, w[k - 1], va, d)
    BY <1>4
  <2> DEFINE s == w[k - 1]
             t == w[k]
  <2>3. s \in States /\ t \in States
    BY <1>1, <2>1 DEF Walk
  <2>4. InReply(s, Address(va, k), t)
    BY <1>1, <2>1, <2>3, InRoundEffect
  <2>5. Reached(s, va, k - 1, d, "read") /\ InBytes(m, s, va, d)
    BY <2>2
  <2> HIDE DEF s, t
  <2> DEFINE e == IF t.ok THEN k ELSE d
  <2>6. Reached(t, va, k, e, "read") /\ InBytes(m, t, va, e)
    BY <2>1, <2>3, <2>4, <2>5, InRoundStep
  <2> HIDE DEF e
  <2>7. Good(k)
    BY <2>6 DEF t
  <2> QED BY <2>1, <2>7
<1>5. n \in G
  <2> HIDE DEF G
  <2> QED BY <1>3, <1>4, CountUp
<1>6. copyin(m, n, va) = w[n]
  BY <1>1
<1> QED BY <1>2, <1>5, <1>6

-----------------------------------------------------------------------------
(***************************************************************************)
(* copyinstr.                                                              *)
(***************************************************************************)

(* A page that could be read before is read without a fault. *)
Untouched(m, s, va, d) ==
  s.ok /\ (\A j \in 1..d : Can(m.vm, Address(va, j), "read"))
    => s.vm = m.vm /\ s.used = m.used

(* The last of the d bytes read is the first zero. *)
EndsAtZero(s, d) ==
  /\ d # 0 /\ s.buf[d] = 0
  /\ \A j \in 1..(d - 1) : s.buf[j] # 0

(* The loop after k rounds. *)
InString(m, s, va, k, d) ==
  /\ InBytes(m, s, va, d) /\ Untouched(m, s, va, d)
  /\ d \in 0..k
  /\ \A j \in 1..d : Can(s.vm, Address(va, j), "read")
  /\ ~Terminated(s) => Reached(s, va, k, d, "read")
  /\ Terminated(s) => s.ok /\ EndsAtZero(s, d)

LEMMA TerminatedIs ==
  ASSUME NEW s, s.buf \in Seq(Nat)
  PROVE  Terminated(s) <=> \E j \in 1..Len(s.buf) : s.buf[j] = 0
  BY DEF Terminated, ToSet

LEMMA StringStart ==
  ASSUME NEW m \in States, m.ok, m.buf = <<>>, NEW va \in Nat
  PROVE  InString(m, m, va, 0, 0)
<1>1. ~Terminated(m)
  BY TerminatedIs DEF States, LoopStates
<1> QED BY <1>1, ReachedStart, InStart DEF InString, Untouched

LEMMA StringStep ==
  ASSUME NEW m \in States, NEW s \in States, NEW va \in Nat, NEW k \in Nat \ {0},
         NEW d, InString(m, s, va, k - 1, d)
  PROVE  \E e : InString(m, InstrRound(s, va, k), va, k, e)
<1>1. k - 1 \in Nat /\ d \in 0..(k - 1) /\ d \in 0..k
  BY DEF InString
<1>2. CASE Terminated(s)
  <2>1. InstrRound(s, va, k) = s
    BY <1>2 DEF InstrRound
  <2>2. InString(m, s, va, k, d)
    BY <1>1, <1>2 DEF InString
  <2> QED BY <2>1, <2>2
<1>3. CASE ~Terminated(s)
  <2> DEFINE t == InstrRound(s, va, k)
             e == IF t.ok THEN k ELSE d
  <2>1. t \in States /\ InReply(s, Address(va, k), t)
    BY <1>3, AddressInWord, CopyinOne DEF InstrRound
  <2> HIDE DEF t
  <2>2. Reached(s, va, k - 1, d, "read") /\ InBytes(m, s, va, d)
    BY <1>3 DEF InString
  <2>3. Reached(t, va, k, e, "read") /\ InBytes(m, t, va, e) /\ InProgress(s, va, k, d, t)
    BY <2>1, <2>2, InRoundStep
  <2>4. t.buf \in Seq(Nat) /\ Len(t.buf) = e /\ s.buf \in Seq(Nat) /\ Len(s.buf) = d
    BY <2>2, <2>3 DEF InBytes
  <2>5. \A j \in 1..d : t.buf[j] = s.buf[j] /\ s.buf[j] # 0
    BY <1>3, <2>3, <2>4, TerminatedIs DEF InProgress
  <2>6. e \in 0..k /\ \A j \in 1..e : Can(t.vm, Address(va, j), "read")
    BY <2>3 DEF Reached
  <2>7. Untouched(m, t, va, e)
    <3> SUFFICES ASSUME t.ok, \A j \in 1..e : Can(m.vm, Address(va, j), "read")
                 PROVE  t.vm = m.vm /\ t.used = m.used
      BY DEF Untouched
    <3>1. s.ok /\ d = k - 1 /\ e = k
      BY <2>3 DEF InProgress
    <3>2. \A j \in 1..d : Can(m.vm, Address(va, j), "read")
      BY <3>1
    <3>3. s.vm = m.vm /\ s.used = m.used
      BY <3>1, <3>2 DEF InString, Untouched
    <3>4. Can(s.vm, Address(va, k), "read")
      BY <3>1, <3>3
    <3> QED BY <2>3, <3>1, <3>3, <3>4 DEF InProgress
  <2>8. Terminated(t) => t.ok /\ EndsAtZero(t, e)
    <3> SUFFICES ASSUME Terminated(t) PROVE t.ok /\ EndsAtZero(t, e)
      OBVIOUS
    <3>1. PICK j \in 1..e : t.buf[j] = 0
      BY <2>4, TerminatedIs
    <3>2. j \notin 1..d
      BY <2>5, <3>1
    <3>3. t.ok
      BY <3>1, <3>2
    <3>4. e = k /\ d = k - 1 /\ j = k
      BY <1>1, <2>3, <3>1, <3>2, <3>3 DEF InProgress
    <3> QED BY <2>5, <3>1, <3>3, <3>4 DEF EndsAtZero
  <2> HIDE DEF e
  <2>9. InString(m, t, va, k, e)
    BY <2>3, <2>6, <2>7, <2>8 DEF InString
  <2> QED BY <2>9 DEF t
<1> QED BY <1>2, <1>3

(* What copyinstr returns of the d bytes its loop has read. *)
StringReply(m, r, va, d) ==
  /\ r \in States /\ Grown(m, r) /\ r.mem = m.mem
  /\ d \in 0..MaxPathLength
  /\ \A j \in 1..d : Can(r.vm, Address(va, j), "read")
  /\ ~r.ok => /\ Accessible(r.vm, va, MaxPathLength, "read") = d
              /\ \A j \in 1..d : ByteAt(r.vm, m.mem, Address(va, j)) # 0
  /\ r.ok => /\ d # 0 /\ ByteAt(r.vm, m.mem, Address(va, d)) = 0
             /\ \A j \in 1..(d - 1) : ByteAt(r.vm, m.mem, Address(va, j)) # 0
             /\ r.buf = [j \in 1..(d - 1) |-> ByteAt(r.vm, m.mem, Address(va, j))]
             /\ Untouched(m, r, va, d)

LEMMA CopyinstrDone ==
  ASSUME NEW m \in States, m.ok, m.buf = <<>>, NEW va \in Nat
  PROVE  \E d : StringReply(m, copyinstr(m, va), va, d)
<1> DEFINE n == MaxPathLength
           s == InstrEnd(m, va)
           r == copyinstr(m, va)
<1>1. n \in Nat \ {0}
  BY UserCopyAssumption
<1>2. PICK w : /\ Walk(n, m, w)
               /\ \A k \in 1..n : w[k] = InstrRound(w[k - 1], va, k)
               /\ s = w[n]
  BY CopyinstrWalk
<1> HIDE DEF n
<1> DEFINE Good(k) == \E d : InString(m, w[k], va, k, d)
           G == {k \in 0..n : Good(k)}
<1>3. 0 \in G
  <2>1. w[0] = m /\ InString(m, m, va, 0, 0)
    BY <1>2, StringStart DEF Walk
  <2>2. Good(0)
    BY <2>1
  <2> QED BY <1>1, <2>2
<1>4. ASSUME NEW k \in 1..n, k - 1 \in G PROVE k \in G
  <2>1. k - 1 \in 0..n /\ k \in Nat \ {0} /\ k \in 0..n
    BY <1>1
  <2>2. PICK d : InString(m, w[k - 1], va, k - 1, d)
    BY <1>4
  <2>3. w[k - 1] \in States
    BY <1>2, <2>1 DEF Walk
  <2>4. w[k] = InstrRound(w[k - 1], va, k)
    BY <1>2
  <2>5. \E e : InString(m, InstrRound(w[k - 1], va, k), va, k, e)
    BY <2>1, <2>2, <2>3, StringStep
  <2>6. Good(k)
    BY <2>4, <2>5
  <2> QED BY <2>1, <2>6
<1>5. n \in G
  <2> HIDE DEF G
  <2> QED BY <1>1, <1>3, <1>4, CountUp
<1>6. s \in States /\ Grown(m, s)
  BY <1>1, <1>2, WalkGrows
<1>7. PICK d : InString(m, s, va, n, d)
  BY <1>2, <1>5
<1>8. r = IF Terminated(s) THEN [s EXCEPT !.buf = Front(s.buf)]
          ELSE [s EXCEPT !.ok = FALSE, !.buf = <<>>]
  BY DEF copyinstr, InstrEnd
<1> HIDE DEF s, r
<1>9. /\ d \in 0..n /\ d \in Nat /\ s.buf \in Seq(Nat) /\ Len(s.buf) = d
      /\ s.mem = m.mem
      /\ \A j \in 1..d : /\ Can(s.vm, Address(va, j), "read")
                         /\ s.buf[j] = ByteAt(s.vm, m.mem, Address(va, j))
  BY <1>1, <1>7 DEF InString, InBytes
<1>10. CASE Terminated(s)
  <2>1. s.ok /\ EndsAtZero(s, d) /\ Untouched(m, s, va, d)
    BY <1>7, <1>10 DEF InString
  <2> DEFINE b == Front(s.buf)
  <2>2. d - 1 \in Nat /\ d \in 1..d /\ 1..(d - 1) \subseteq 1..d
    BY <1>9, <2>1 DEF EndsAtZero
  <2>3. b \in Seq(Nat) /\ b = [j \in 1..(d - 1) |-> s.buf[j]]
    BY <1>9, <2>2 DEF Front
  <2> HIDE DEF b
  <2>4. r = [s EXCEPT !.buf = b]
    BY <1>8, <1>10 DEF b
  <2>5. /\ r \in LoopStates /\ r.ok = s.ok /\ r.vm = s.vm /\ r.used = s.used
        /\ r.next = s.next /\ r.mem = s.mem /\ r.buf = b
    BY <1>6, <2>3, <2>4 DEF States, LoopStates
  <2>6. r \in States /\ Grown(m, r)
    BY <1>6, <2>5 DEF States, Grown
  <2>7. r.buf = [j \in 1..(d - 1) |-> ByteAt(r.vm, m.mem, Address(va, j))]
    BY <1>9, <2>2, <2>3, <2>5
  <2>8. /\ d # 0 /\ ByteAt(r.vm, m.mem, Address(va, d)) = 0
        /\ \A j \in 1..(d - 1) : ByteAt(r.vm, m.mem, Address(va, j)) # 0
    BY <1>9, <2>1, <2>2, <2>5 DEF EndsAtZero
  <2>9. Untouched(m, r, va, d)
    BY <2>1, <2>5 DEF Untouched
  <2>10. StringReply(m, r, va, d)
    BY <1>9, <2>1, <2>5, <2>6, <2>7, <2>8, <2>9 DEF StringReply, n
  <2> QED BY <2>10 DEF r
<1>11. CASE ~Terminated(s)
  <2>1. r = [s EXCEPT !.ok = FALSE, !.buf = <<>>]
    BY <1>8, <1>11
  <2>2. /\ r \in LoopStates /\ ~r.ok /\ r.vm = s.vm /\ r.used = s.used
        /\ r.next = s.next /\ r.mem = s.mem
    BY <1>6, <2>1 DEF States, LoopStates
  <2>3. r \in States /\ Grown(m, r)
    BY <1>6, <2>2 DEF States, Grown
  <2>4. Accessible(r.vm, va, n, "read") = d
    BY <1>1, <1>7, <1>11, <2>2, ReachedAccessible DEF InString
  <2>5. \A j \in 1..d : ByteAt(r.vm, m.mem, Address(va, j)) # 0
    BY <1>9, <1>11, <2>2, TerminatedIs
  <2>6. StringReply(m, r, va, d)
    BY <1>9, <2>2, <2>3, <2>4, <2>5 DEF StringReply, n
  <2> QED BY <2>6 DEF r
<1> QED BY <1>10, <1>11

-----------------------------------------------------------------------------
(***************************************************************************)
(* The steps.                                                              *)
(***************************************************************************)

(* A call starts in a state of its loop. *)
LEMMA StartState ==
  ASSUME Inv, NEW p \in Procs
  PROVE  /\ LoopStart(p) \in States
         /\ LoopStart(p).ok /\ LoopStart(p).buf = <<>> /\ LoopStart(p).vm = vms[p]
         /\ LoopStart(p).used = used /\ LoopStart(p).mem = mem
<1> DEFINE m == LoopStart(p)
<1>1. vms[p] \in AddressSpace /\ SpaceOK(vms[p]) /\ MemoryOK(used, nextFree)
  BY DEF Inv
<1>2. FramesOf(vms[p]) \subseteq used
  BY <1>1, MappedFrames DEF Inv, Books
<1>3. <<>> \in Seq(Nat)
  OBVIOUS
<1>4. /\ m.ok = TRUE /\ m.vm = vms[p] /\ m.used = used /\ m.next = nextFree
      /\ m.panic = "none" /\ m.mem = mem /\ m.buf = <<>>
  BY DEF LoopStart
<1>5. m \in LoopStates
  BY <1>1, <1>3 DEF LoopStart, LoopStates, Inv, MemoryOK
<1> HIDE DEF m
<1>6. m \in States
  BY <1>1, <1>2, <1>4, <1>5 DEF States
<1> QED BY <1>4, <1>6 DEF m

(* Address space w is vm with page va mapped to frame f. *)
Maps(vm, w, va, f, pool, perm) ==
  w = [vm EXCEPT !.ptable = @ \cup {NewMapping(va, f, pool, perm)}]

(* Another mapping, outside the room for the stack. *)
LEMMA SpaceMaps ==
  ASSUME NEW vm, SpaceOK(vm), StackFits(vm), NEW va \in Nat,
         va < UserStackFloor \/ va >= vm.stackBase, \A m \in vm.ptable : m.va # va,
         NEW pool \in Pools, NEW perm \in SUBSET Perms,
         NEW f \in PoolFrames(pool), f \notin FramesOf(vm),
         NEW w, Maps(vm, w, va, f, pool, perm)
  PROVE  SpaceOK(w) /\ FramesOf(w) = FramesOf(vm) \cup {f}
<1> DEFINE new == NewMapping(va, f, pool, perm)
<1>1. /\ new.va = va /\ new.frame = f /\ new.pool = pool /\ new.owned
      /\ new \in VMMapping
  BY PoolFramesType DEF NewMapping, VMMapping
<1>2. /\ w = [vm EXCEPT !.ptable = vm.ptable \cup {new}]
      /\ vm \in AddressSpace
  BY DEF SpaceOK, Maps
<1> HIDE DEF new
<1>3. /\ w \in AddressSpace /\ w.ptable = vm.ptable \cup {new}
      /\ w.stackBase = vm.stackBase
  BY <1>1, <1>2 DEF AddressSpace
<1>4. \A m \in vm.ptable : m.frame # f
  BY DEF FramesOf
<1>5. IsFiniteSet(w.ptable)
  BY <1>3, FS_AddElement DEF SpaceOK
<1>6. StackFits(w)
  BY <1>1, <1>3 DEF StackFits
<1>7. \A m \in w.ptable : m.owned /\ m.frame \in PoolFrames(m.pool)
  BY <1>1, <1>3 DEF SpaceOK
<1>8. \A m1, m2 \in w.ptable : m1.va = m2.va \/ m1.frame = m2.frame => m1 = m2
  BY <1>1, <1>3, <1>4 DEF SpaceOK
<1>9. FramesOf(w) = FramesOf(vm) \cup {f}
  BY <1>1, <1>3 DEF FramesOf
<1> QED BY <1>3, <1>5, <1>6, <1>7, <1>8, <1>9 DEF SpaceOK

(* One address space grows, by frames that were free. *)
LEMMA BooksGrow ==
  ASSUME NEW table \in [Procs -> AddressSpace], NEW u, NEW p \in Procs,
         Books(table, u), InitialUsed \subseteq u,
         NEW w, FramesOf(table[p]) \subseteq FramesOf(w), FramesOf(w) \subseteq Frames,
         NEW v, u \subseteq v, v \ u = FramesOf(w) \ FramesOf(table[p])
  PROVE  Books([table EXCEPT ![p] = w], v)
<1> DEFINE after == [table EXCEPT ![p] = w]
           F(t, q) == FramesOf(t[q])
<1>1. F(after, p) = FramesOf(w) /\ \A q \in Procs \ {p} : F(after, q) = F(table, q)
  OBVIOUS
<1>2. /\ \A f \in Frames : f \in u <=> f \in InitialUsed \/ \E q \in Procs : f \in F(table, q)
      /\ \A q \in Procs : F(table, q) \cap InitialUsed = {}
      /\ \A q, s \in Procs : q # s => F(table, q) \cap F(table, s) = {}
  BY DEF Books
<1>3. F(table, p) \subseteq FramesOf(w) /\ v \ u = FramesOf(w) \ F(table, p)
  OBVIOUS
<1>4. InitialUsed \subseteq Frames
  BY DEF InitialUsed
<1>5. \A q \in Procs : F(table, q) \subseteq Frames
  BY DEF FramesOf, AddressSpace, VMMapping
<1> HIDE DEF after, F
<1>6. \A f \in Frames : f \in v <=> f \in InitialUsed \/ \E q \in Procs : f \in F(after, q)
  <2> SUFFICES ASSUME NEW f \in Frames
               PROVE  f \in v <=> f \in InitialUsed \/ \E q \in Procs : f \in F(after, q)
    OBVIOUS
  <2>1. CASE f \in u
    <3>1. f \in v
      BY <2>1
    <3>2. CASE f \in InitialUsed
      BY <3>1, <3>2
    <3>3. CASE \E q \in Procs : f \in F(table, q)
      <4>1. PICK q \in Procs : f \in F(table, q)
        BY <3>3
      <4>2. f \in F(after, q)
        BY <1>1, <1>3, <4>1
      <4> QED BY <3>1, <4>2
    <3> QED BY <1>2, <2>1, <3>2, <3>3
  <2>2. CASE f \notin u
    <3>1. f \notin InitialUsed /\ \A q \in Procs : f \notin F(table, q)
      BY <1>2, <2>2
    <3>2. f \in v <=> f \in FramesOf(w)
      BY <1>3, <2>2, <3>1
    <3>3. (\E q \in Procs : f \in F(after, q)) <=> f \in FramesOf(w)
      BY <1>1, <3>1
    <3> QED BY <3>1, <3>2, <3>3
  <2> QED BY <2>1, <2>2
<1>7. \A q \in Procs \ {p} : F(table, q) \cap FramesOf(w) = {}
  <2> SUFFICES ASSUME NEW q \in Procs \ {p}, NEW f \in F(table, q), f \in FramesOf(w)
               PROVE  FALSE
    OBVIOUS
  <2>1. f \in u /\ f \notin F(table, p)
    BY <1>2, <1>5
  <2> QED BY <1>3, <2>1
<1>8. FramesOf(w) \cap InitialUsed = {}
  BY <1>2, <1>3
<1>9. \A q \in Procs : F(after, q) \cap InitialUsed = {}
  BY <1>1, <1>2, <1>8
<1>10. \A q, s \in Procs : q # s => F(after, q) \cap F(after, s) = {}
  BY <1>1, <1>2, <1>7
<1> QED BY <1>6, <1>9, <1>10 DEF Books, F, after

LEMMA InitInv == Init => Inv
<1> SUFFICES ASSUME Init PROVE Inv
  OBVIOUS
<1>1. used = InitialUsed /\ nextFree = InitialNextFree /\ panic = "none"
  BY DEF Init, MemInit
<1>2. MemoryOK(used, nextFree)
  BY <1>1, PoolBounds DEF MemoryOK, InitialUsed, InitialNextFree
<1>3. Zeroes \in [Offsets -> Nat]
  BY DEF Zeroes
<1>4. mem \in Memories
  BY <1>3 DEF Init, Memories
<1>5. ZeroAddressSpace \in AddressSpace /\ ZeroAddressSpace.ptable = {}
  BY DEF ZeroAddressSpace, AddressSpace, vmNoGuard
<1>6. SpaceOK(ZeroAddressSpace) /\ FramesOf(ZeroAddressSpace) = {}
  BY <1>5, FS_EmptySet DEF SpaceOK, FramesOf
<1>7. vms \in [Procs -> AddressSpace] /\ \A p \in Procs : vms[p] = ZeroAddressSpace
  BY <1>5 DEF Init
<1>8. Books(vms, used)
  BY <1>1, <1>6, <1>7 DEF Books, InitialUsed
<1> QED BY <1>1, <1>2, <1>4, <1>6, <1>7, <1>8 DEF Inv

(* The step of a process whose address space grows to w. *)
LEMMA GrowthStep ==
  ASSUME Inv, NEW p \in Procs, NEW w, SpaceOK(w),
         vms' = [vms EXCEPT ![p] = w], panic' = "none",
         MemoryOK(used', nextFree'), mem' \in Memories,
         FramesOf(vms[p]) \subseteq FramesOf(w), used \subseteq used',
         used' \ used = FramesOf(w) \ FramesOf(vms[p])
  PROVE  Inv'
<1>1. w \in AddressSpace /\ FramesOf(w) \subseteq Frames
  BY MappedFrames DEF SpaceOK
<1>2. vms' \in [Procs -> AddressSpace] /\ \A q \in Procs : SpaceOK(vms'[q])
  BY <1>1 DEF Inv
<1>3. InitialUsed \subseteq used
  BY DEF Inv, MemoryOK
<1>4. Books([vms EXCEPT ![p] = w], used')
  BY <1>1, <1>3, BooksGrow DEF Inv
<1>5. Books(vms', used')
  BY <1>4
<1> QED BY <1>2, <1>5 DEF Inv

LEMMA VmInitInv ==
  ASSUME Inv, NEW p \in Procs, vmInit(p)
  PROVE  Inv'
<1> DEFINE fresh == [ptable |-> {}, stackBase |-> UserStackTop, guard |-> vmNoGuard]
           r     == vmInitProcess(used, nextFree)
<1>1. MemoryOK(used, nextFree) /\ mem \in Memories
  BY DEF Inv
<1>2. fresh \in AddressSpace /\ fresh.ptable = {} /\ fresh.stackBase = UserStackTop
  BY LayoutAssumption DEF AddressSpace, vmNoGuard
<1>3. /\ UserTrapPage \in Nat /\ "kernel" \in Pools /\ {"read"} \in SUBSET Perms
      /\ UserTrapPage >= UserStackTop
  BY LayoutAssumption DEF Pools, Perms
<1>4. r = MapFreshPage(fresh, UserTrapPage, allocPageFromPool(used, nextFree, "kernel"),
                       "kernel", {"read"}, "failed to free trap page")
  BY DEF vmInitProcess
<1> HIDE DEF fresh, r
<1>5. FreshReply(fresh, UserTrapPage, used, "kernel", {"read"}, r)
  BY <1>1, <1>2, <1>3, <1>4, FreshPage
<1>6. /\ r.ok /\ vms' = [vms EXCEPT ![p] = r.vm] /\ used' = r.used
      /\ nextFree' = r.next /\ panic' = r.panic /\ mem' = mem
      /\ vms[p] = ZeroAddressSpace
  BY DEF vmInit, Becomes, Mapped, r
<1>7. PICK f \in PoolFrames("kernel") \ used :
        /\ r.used = used \cup {f}
        /\ r.vm = [fresh EXCEPT !.ptable = @ \cup {NewMapping(UserTrapPage, f, "kernel", {"read"})}]
  BY <1>5, <1>6 DEF FreshReply
<1>8. StackFits(fresh) /\ SpaceOK(fresh) /\ FramesOf(fresh) = {}
  <2>1. StackFits(fresh)
    BY <1>2, LayoutAssumption DEF StackFits, UserStackFloor
  <2> QED BY <1>2, <2>1, FS_EmptySet DEF SpaceOK, FramesOf
<1>9. SpaceOK(r.vm) /\ FramesOf(r.vm) = {f}
  <2>1. UserTrapPage >= fresh.stackBase /\ f \notin FramesOf(fresh)
        /\ \A m \in fresh.ptable : m.va # UserTrapPage
    BY <1>2, <1>3, <1>8
  <2>2. SpaceOK(r.vm) /\ FramesOf(r.vm) = FramesOf(fresh) \cup {f}
    BY <1>3, <1>7, <1>8, <2>1, SpaceMaps DEF Maps
  <2> QED BY <1>8, <2>2
<1>10. FramesOf(vms[p]) = {}
  BY <1>6 DEF ZeroAddressSpace, FramesOf
<1>11. MemoryOK(used', nextFree') /\ panic' = "none"
  BY <1>5, <1>6 DEF FreshReply
<1>12. used \subseteq used' /\ used' \ used = FramesOf(r.vm) \ FramesOf(vms[p])
  BY <1>6, <1>7, <1>9, <1>10
<1> QED BY <1>1, <1>6, <1>9, <1>10, <1>11, <1>12, GrowthStep

LEMMA MapPageInv ==
  ASSUME Inv, NEW p \in Procs, NEW va \in DataPages, NEW pool \in Pools,
         NEW perm \in SUBSET Perms, mapPage(p, va, pool, perm)
  PROVE  Inv'
<1> DEFINE page == allocPageFromPool(used, nextFree, pool)
           r    == MapFreshPage(vms[p], va, page, pool, perm, "failed to free page")
<1>1. MemoryOK(used, nextFree) /\ mem \in Memories /\ vms[p] \in AddressSpace
      /\ SpaceOK(vms[p])
  BY DEF Inv
<1>2. /\ r.ok /\ vms' = [vms EXCEPT ![p] = r.vm] /\ used' = r.used
      /\ nextFree' = r.next /\ panic' = r.panic
      /\ mem' = [mem EXCEPT ![page.frame] = Zeroes]
      /\ vms[p] # ZeroAddressSpace /\ \A m \in vms[p].ptable : m.va # va
  BY DEF mapPage, Becomes, Mapped, vmFindMapping
<1>3. va \in Nat /\ va < UserStackFloor
  BY UserCopyAssumption, LayoutAssumption DEF UserStackFloor
<1>4. FreshReply(vms[p], va, used, pool, perm, r)
  BY <1>1, <1>2, <1>3, FreshPage
<1>5. mem' \in Memories
  <2>1. Zeroes \in [Offsets -> Nat]
    BY DEF Zeroes
  <2> HIDE DEF page
  <2> QED BY <1>1, <1>2, <2>1 DEF Memories
<1> HIDE DEF page, r
<1>6. PICK f \in PoolFrames(pool) \ used :
        /\ r.used = used \cup {f}
        /\ r.vm = [vms[p] EXCEPT !.ptable = @ \cup {NewMapping(va, f, pool, perm)}]
  BY <1>2, <1>4 DEF FreshReply
<1>7. FramesOf(vms[p]) \subseteq used
  BY <1>1, MappedFrames DEF Inv, Books
<1>8. SpaceOK(r.vm) /\ FramesOf(r.vm) = FramesOf(vms[p]) \cup {f}
  <2>1. StackFits(vms[p]) /\ f \notin FramesOf(vms[p])
    BY <1>1, <1>2, <1>7 DEF SpaceOK
  <2> DEFINE vm == vms[p]
             w  == r.vm
  <2>2. Maps(vm, w, va, f, pool, perm)
    BY <1>6 DEF Maps
  <2>3. /\ SpaceOK(vm) /\ StackFits(vm) /\ f \notin FramesOf(vm) /\ f \in PoolFrames(pool)
        /\ \A m \in vm.ptable : m.va # va
    BY <1>1, <1>2, <2>1
  <2> HIDE DEF vm, w
  <2>4. SpaceOK(w) /\ FramesOf(w) = FramesOf(vm) \cup {f}
    BY <1>3, <2>2, <2>3, SpaceMaps
  <2> QED BY <2>4 DEF vm, w
<1>9. MemoryOK(used', nextFree') /\ panic' = "none"
  BY <1>2, <1>4 DEF FreshReply
<1>10. used \subseteq used' /\ used' \ used = FramesOf(r.vm) \ FramesOf(vms[p])
  BY <1>2, <1>6, <1>7, <1>8
<1> QED BY <1>2, <1>5, <1>8, <1>9, <1>10, GrowthStep

LEMMA CopiedInv ==
  ASSUME Inv, NEW p \in Procs, NEW r \in States, Grown(LoopStart(p), r), Copied(p, r)
  PROVE  Inv'
<1>1. /\ vms' = [vms EXCEPT ![p] = r.vm] /\ used' = r.used
      /\ nextFree' = r.next /\ panic' = r.panic /\ mem' = r.mem
  BY DEF Copied, Becomes
<1>2. /\ SpaceOK(r.vm) /\ MemoryOK(r.used, r.next) /\ r.panic = "none"
      /\ r.mem \in Memories
  BY DEF States, LoopStates
<1>3. /\ vms[p].ptable \subseteq r.vm.ptable /\ used \subseteq r.used
      /\ r.used \ used = FramesOf(r.vm) \ FramesOf(vms[p])
  BY StartState DEF Grown
<1>4. FramesOf(vms[p]) \subseteq FramesOf(r.vm)
  BY <1>3 DEF FramesOf
<1> QED BY <1>1, <1>2, <1>3, <1>4, GrowthStep

LEMMA ReleaseInv ==
  ASSUME Inv, NEW p \in Procs, release(p)
  PROVE  Inv'
<1> DEFINE ms    == {m \in vms[p].ptable : m.owned}
           freed == FreeAll(used, nextFree, ms)
           F(q)  == FramesOf(vms[q])
<1>1. /\ MemoryOK(used, nextFree) /\ mem \in Memories
      /\ vms[p] \in AddressSpace /\ SpaceOK(vms[p])
  BY DEF Inv
<1>2. ms = vms[p].ptable /\ ms \in SUBSET VMMapping
  BY <1>1 DEF SpaceOK, AddressSpace
<1>3. /\ \A f \in Frames : f \in used <=> f \in InitialUsed \/ \E q \in Procs : f \in F(q)
      /\ \A q \in Procs : F(q) \cap InitialUsed = {}
      /\ \A q, s \in Procs : q # s => F(q) \cap F(s) = {}
  BY DEF Inv, Books
<1>4. \A q \in Procs : F(q) \subseteq Frames
  BY MappedFrames DEF Inv
<1>5. F(p) = {m.frame : m \in ms}
  BY <1>2 DEF FramesOf
<1>6. freed.ok
  <2>1. ASSUME NEW m \in ms PROVE Freeable(used, m.frame, m.pool)
    <3>1. m.pool \in Pools /\ m.frame \in PoolFrames(m.pool)
      BY <1>1, <1>2 DEF SpaceOK, VMMapping
    <3>2. m.frame \in F(p)
      BY <1>5
    <3>3. m.frame \in used /\ m.frame \notin InitialUsed
      BY <1>3, <1>4, <3>2
    <3> QED BY <3>1, <3>3, HeldIsFreeable
  <2>2. \A m1, m2 \in ms : m1.frame = m2.frame => m1 = m2
    BY <1>1, <1>2 DEF SpaceOK
  <2> HIDE DEF ms
  <2> QED BY <2>1, <2>2 DEF FreeAll
<1>7. freed.used = used \ F(p)
  <2> HIDE DEF ms, F
  <2> QED BY <1>5 DEF FreeAll
<1>8. /\ vms' = [vms EXCEPT ![p] = ZeroAddressSpace] /\ used' = freed.used
      /\ nextFree' = freed.next /\ panic' = "none" /\ mem' = mem
  BY <1>6 DEF release, Becomes, vmReleaseProcess
<1>9. MemoryOK(used', nextFree')
  BY <1>1, <1>2, <1>6, <1>8, FreeAllTypes DEF MemoryOK
<1>10. ZeroAddressSpace \in AddressSpace /\ ZeroAddressSpace.ptable = {}
  BY DEF ZeroAddressSpace, AddressSpace, vmNoGuard
<1>11. SpaceOK(ZeroAddressSpace) /\ FramesOf(ZeroAddressSpace) = {}
  BY <1>10, FS_EmptySet DEF SpaceOK, FramesOf
<1>12. vms' \in [Procs -> AddressSpace] /\ \A q \in Procs : SpaceOK(vms'[q])
  BY <1>8, <1>10, <1>11 DEF Inv
<1> DEFINE after(q) == FramesOf(vms'[q])
<1>13. after(p) = {} /\ \A q \in Procs \ {p} : after(q) = F(q)
  BY <1>8, <1>11 DEF Inv
<1> HIDE DEF after, F, ms, freed
<1>14. \A f \in Frames : f \in used' <=> f \in InitialUsed \/ \E q \in Procs : f \in after(q)
  <2> SUFFICES ASSUME NEW f \in Frames
               PROVE  f \in used' <=> f \in InitialUsed \/ \E q \in Procs : f \in after(q)
    OBVIOUS
  <2>1. CASE f \in F(p)
    BY <1>3, <1>7, <1>8, <1>13, <2>1
  <2>2. CASE f \notin F(p)
    <3>1. (\E q \in Procs : f \in after(q)) <=> \E q \in Procs : f \in F(q)
      BY <1>13, <2>2
    <3> QED BY <1>3, <1>7, <1>8, <2>2, <3>1
  <2> QED BY <2>1, <2>2
<1>15. /\ \A q \in Procs : after(q) \cap InitialUsed = {}
       /\ \A q, s \in Procs : q # s => after(q) \cap after(s) = {}
  BY <1>3, <1>13
<1>16. Books(vms', used')
  BY <1>14, <1>15 DEF Books, after
<1> QED BY <1>1, <1>8, <1>9, <1>12, <1>16 DEF Inv

LEMMA NextInv == Inv /\ [Next]_vars => Inv'
<1> SUFFICES ASSUME Inv, [Next]_vars PROVE Inv'
  OBVIOUS
<1>1. ASSUME NEW p \in Procs, vmInit(p) PROVE Inv'
  BY <1>1, VmInitInv
<1>2. ASSUME NEW p \in Procs, NEW va \in DataPages,
             \/ mapPage(p, va, "user", {"read", "write", "user"})
             \/ mapPage(p, va, "kernel", {"read", "write"})
      PROVE  Inv'
  <2>1. /\ "user" \in Pools /\ "kernel" \in Pools
        /\ {"read", "write", "user"} \in SUBSET Perms /\ {"read", "write"} \in SUBSET Perms
    BY DEF Pools, Perms
  <2> QED BY <1>2, <2>1, MapPageInv
<1>3. ASSUME NEW p \in Procs, release(p) PROVE Inv'
  BY <1>3, ReleaseInv
<1>4. ASSUME NEW p \in Procs, NEW va \in Addresses, NEW src \in Payloads,
             Copied(p, copyout(LoopStart(p), va, src))
      PROVE  Inv'
  <2>1. va \in Nat /\ src \in Seq(Nat) /\ Len(src) <= WordSize
    BY BaseAssumption, UserCopyAssumption DEF Addresses
  <2>2. LoopStart(p) \in States /\ LoopStart(p).ok
    BY StartState
  <2>3. /\ copyout(LoopStart(p), va, src) \in States
        /\ Grown(LoopStart(p), copyout(LoopStart(p), va, src))
    BY <2>1, <2>2, CopyoutDone
  <2> QED BY <1>4, <2>3, CopiedInv
<1>5. ASSUME NEW p \in Procs, NEW va \in Addresses, NEW n \in Counts,
             Copied(p, copyin(LoopStart(p), n, va))
      PROVE  Inv'
  <2>1. va \in Nat /\ n \in Nat
    BY BaseAssumption, UserCopyAssumption DEF Addresses
  <2>2. LoopStart(p) \in States /\ LoopStart(p).ok /\ LoopStart(p).buf = <<>>
    BY StartState
  <2>3. /\ copyin(LoopStart(p), n, va) \in States
        /\ Grown(LoopStart(p), copyin(LoopStart(p), n, va))
    BY <2>1, <2>2, CopyinDone
  <2> QED BY <1>5, <2>3, CopiedInv
<1>6. ASSUME NEW p \in Procs, NEW va \in Addresses,
             Copied(p, copyinstr(LoopStart(p), va))
      PROVE  Inv'
  <2>1. va \in Nat
    BY BaseAssumption DEF Addresses
  <2>2. LoopStart(p) \in States /\ LoopStart(p).ok /\ LoopStart(p).buf = <<>>
    BY StartState
  <2>3. /\ copyinstr(LoopStart(p), va) \in States
        /\ Grown(LoopStart(p), copyinstr(LoopStart(p), va))
    BY <2>1, <2>2, CopyinstrDone DEF StringReply
  <2> QED BY <1>6, <2>3, CopiedInv
<1>7. CASE UNCHANGED vars
  BY <1>7 DEF vars, memVars, Inv, Books
<1> QED BY <1>1, <1>2, <1>3, <1>4, <1>5, <1>6, <1>7 DEF Next

(* Between two calls every address space is sound and every frame has one  *)
(* owner.                                                                  *)
THEOREM InvAlways == Spec => []Inv
BY InitInv, NextInv, PTL DEF Spec

-----------------------------------------------------------------------------
(***************************************************************************)
(* The theorems.                                                           *)
(***************************************************************************)

(* Every frame in use is reserved or mapped, once: a failed copy and a     *)
(* release leave none behind and give none back twice.                     *)
THEOREM FramesAccounted == Spec => []PagesAccounted
<1>1. Inv => PagesAccounted
  <2> SUFFICES ASSUME Inv PROVE PagesAccounted
    OBVIOUS
  <2>1. \A p \in Procs : Held(p) = FramesOf(vms[p]) /\ Held(p) \subseteq Frames
    BY MappedFrames DEF Inv, Held, FramesOf
  <2>2. used \subseteq Frames /\ InitialUsed \subseteq Frames
    BY DEF Inv, MemoryOK, InitialUsed
  <2>3. \A f \in Frames : f \in used <=> f \in InitialUsed \/ \E p \in Procs : f \in Held(p)
    BY <2>1 DEF Inv, Books
  <2>4. used = InitialUsed \cup UNION {Held(p) : p \in Procs}
    BY <2>1, <2>2, <2>3
  <2>5. \A p \in Procs : Cardinality(Held(p)) = Cardinality(vms[p].ptable)
    BY <2>1, FrameCount DEF Inv, SpaceOK
  <2>6. \A p, q \in Procs : p # q => Held(p) \cap Held(q) = {}
    BY <2>1 DEF Inv, Books
  <2> QED BY <2>4, <2>5, <2>6 DEF Inv, PagesAccounted
<1> QED BY <1>1, InvAlways, PTL

(* What a copy grows the stack with was nobody's. *)
LEMMA OthersKeep ==
  ASSUME Inv, NEW p \in Procs, NEW q \in Procs \ {p},
         NEW r \in States, Grown(LoopStart(p), r)
  PROVE  FramesOf(vms[q]) \subseteq Frames \ FramesOf(r.vm)
<1>1. r.used \ used = FramesOf(r.vm) \ FramesOf(vms[p])
  BY StartState DEF Grown
<1>2. FramesOf(vms[q]) \subseteq Frames
  BY MappedFrames DEF Inv
<1>3. FramesOf(vms[q]) \subseteq used /\ FramesOf(vms[q]) \cap FramesOf(vms[p]) = {}
  BY <1>2 DEF Inv, Books
<1> QED BY <1>1, <1>2, <1>3

(* copyout stores exactly the bytes up to the first one that may not be    *)
(* written, across pages and stack growth, and no other byte of anyone.    *)
THEOREM CopyoutStoresPrefix == Spec => []CopyoutPrefix
<1>1. Inv => CopyoutPrefix
  <2> SUFFICES ASSUME Inv, NEW p \in Procs, NEW va \in Addresses, NEW src \in Payloads
               PROVE  LET r == copyout(LoopStart(p), va, src)
                      IN  StoredPrefix(p, va, src, r, Accessible(r.vm, va, Len(src), "write"))
    BY DEF CopyoutPrefix
  <2> DEFINE m == LoopStart(p)
             r == copyout(m, va, src)
  <2>1. va \in Nat /\ src \in Seq(Nat) /\ Len(src) <= WordSize /\ Len(src) \in Nat
    BY BaseAssumption, UserCopyAssumption DEF Addresses
  <2>2. m \in States /\ m.ok /\ m.vm = vms[p] /\ m.mem = mem
    BY StartState
  <2> HIDE DEF m
  <2>3. /\ r \in States /\ Grown(m, r)
        /\ \E d : Reached(r, va, Len(src), d, "write") /\ OutBytes(m, r, va, src, d)
    BY <2>1, <2>2, CopyoutDone
  <2> HIDE DEF r
  <2>4. PICK d : Reached(r, va, Len(src), d, "write") /\ OutBytes(m, r, va, src, d)
    BY <2>3
  <2>5. Accessible(r.vm, va, Len(src), "write") = d
    BY <2>1, <2>4, ReachedAccessible
  <2>6. r.ok = (d = Len(src))
    <3>1. r.ok \in BOOLEAN
      BY <2>3 DEF States, LoopStates
    <3> QED BY <2>4, <3>1 DEF Reached
  <2>7. \A k \in 1..d : ByteAt(r.vm, r.mem, Address(va, k)) = src[k]
    BY <2>4 DEF OutBytes
  <2>8. SameElsewhere(vms[p], r, va, d)
    BY <2>2, <2>4 DEF OutBytes, SameElsewhere
  <2>9. ASSUME NEW q \in Procs \ {p} PROVE View(vms[q], r.mem) = View(vms[q], mem)
    <3>1. FramesOf(vms[q]) \subseteq Frames \ FramesOf(r.vm)
      BY <2>3, OthersKeep DEF m
    <3>2. \A f \in FramesOf(vms[q]), x \in Offsets : r.mem[f][x] = mem[f][x]
      BY <2>2, <2>4, <3>1 DEF OutBytes
    <3>3. r.mem \in Memories /\ mem \in Memories
      BY <2>3 DEF States, LoopStates, Inv
    <3>4. \A f \in FramesOf(vms[q]) : r.mem[f] = mem[f]
      BY <3>1, <3>2, <3>3 DEF Memories
    <3> QED BY <3>4 DEF View, FramesOf
  <2>10. StoredPrefix(p, va, src, r, d)
    BY <2>6, <2>7, <2>8, <2>9 DEF StoredPrefix
  <2> QED BY <2>5, <2>10 DEF r, m
<1> QED BY <1>1, InvAlways, PTL

(* copyin yields exactly the bytes the process sees, and fails when it may *)
(* not read one of them.                                                   *)
THEOREM CopyinReadsAll == Spec => []CopyinExact
<1>1. Inv => CopyinExact
  <2> SUFFICES ASSUME Inv, NEW p \in Procs, NEW va \in Addresses, NEW n \in Counts
               PROVE  LET r == copyin(LoopStart(p), n, va)
                      IN  LoadedAll(va, n, r, Accessible(r.vm, va, n, "read"))
    BY DEF CopyinExact
  <2> DEFINE m == LoopStart(p)
             r == copyin(m, n, va)
  <2>1. va \in Nat /\ n \in Nat
    BY BaseAssumption, UserCopyAssumption DEF Addresses
  <2>2. m \in States /\ m.ok /\ m.buf = <<>> /\ m.mem = mem
    BY StartState
  <2> HIDE DEF m
  <2>3. /\ r \in States
        /\ \E d : Reached(r, va, n, d, "read") /\ InBytes(m, r, va, d)
    BY <2>1, <2>2, CopyinDone
  <2> HIDE DEF r
  <2>4. PICK d : Reached(r, va, n, d, "read") /\ InBytes(m, r, va, d)
    BY <2>3
  <2>5. Accessible(r.vm, va, n, "read") = d
    BY <2>1, <2>4, ReachedAccessible
  <2>6. r.ok = (d = n)
    <3>1. r.ok \in BOOLEAN
      BY <2>3 DEF States, LoopStates
    <3> QED BY <2>4, <3>1 DEF Reached
  <2>7. r.mem = mem /\ r.buf \in Seq(Nat) /\ Len(r.buf) = d
        /\ \A j \in 1..d : r.buf[j] = ByteAt(r.vm, mem, Address(va, j))
    BY <2>2, <2>4 DEF InBytes
  <2>8. r.buf = [k \in 1..d |-> ByteAt(r.vm, mem, Address(va, k))]
    BY <2>7
  <2>9. LoadedAll(va, n, r, d)
    BY <2>6, <2>7, <2>8 DEF LoadedAll
  <2> QED BY <2>5, <2>9 DEF r, m
<1> QED BY <1>1, InvAlways, PTL

(* copyinstr returns the bytes before the first zero that may be read, and *)
(* neither faults nor grows the stack for what lies behind it.             *)
THEOREM StringsStopAtZero == Spec => []StringsEndAtZero
<1>1. Inv => StringsEndAtZero
  <2> SUFFICES ASSUME Inv, NEW p \in Procs, NEW va \in Addresses
               PROVE  LET r == copyinstr(LoopStart(p), va)
                      IN  StringUpTo(p, va, r,
                            ZeroesIn(r.vm, va, Accessible(r.vm, va, MaxPathLength, "read")))
    BY DEF StringsEndAtZero
  <2> DEFINE m == LoopStart(p)
             r == copyinstr(m, va)
             n == MaxPathLength
             A == Accessible(r.vm, va, n, "read")
             Z == ZeroesIn(r.vm, va, A)
             byte(j) == ByteAt(r.vm, mem, Address(va, j))
  <2>1. va \in Nat /\ n \in Nat
    BY BaseAssumption, UserCopyAssumption DEF Addresses
  <2>2. m \in States /\ m.ok /\ m.buf = <<>> /\ m.mem = mem /\ m.vm = vms[p] /\ m.used = used
    BY StartState
  <2> HIDE DEF m
  <2>3. PICK d : StringReply(m, r, va, d)
    BY <2>1, <2>2, CopyinstrDone
  <2> HIDE DEF r
  <2>4. r.ok \in BOOLEAN /\ d \in 0..n /\ d \in Nat
        /\ \A j \in 1..d : Can(r.vm, Address(va, j), "read")
    BY <2>1, <2>3 DEF StringReply, States, LoopStates
  <2>5. Z = {k \in 1..A : byte(k) = 0}
    BY DEF ZeroesIn
  <2> HIDE DEF n, A, byte, Z
  <2>6. CASE ~r.ok
    <3>1. A = d /\ \A j \in 1..d : byte(j) # 0
      BY <2>2, <2>3, <2>6 DEF StringReply, A, n, byte
    <3>2. Z = {}
      BY <2>5, <3>1
    <3>3. StringUpTo(p, va, r, Z)
      BY <2>4, <2>6, <3>2 DEF StringUpTo
    <3> QED BY <3>3 DEF Z, A, n, r, m
  <2>7. CASE r.ok
    <3>1. /\ d # 0 /\ byte(d) = 0 /\ \A j \in 1..(d - 1) : byte(j) # 0
          /\ r.buf = [j \in 1..(d - 1) |-> byte(j)]
          /\ Untouched(m, r, va, d)
      BY <2>2, <2>3, <2>7 DEF StringReply, byte
    <3>2. d <= A /\ A \in Nat
      BY <2>1, <2>4, AccessibleBound DEF A
    <3>3. Z \in SUBSET Nat /\ d \in Z /\ \A k \in Z : d <= k
      BY <2>4, <2>5, <3>1, <3>2
    <3>4. Min(Z) = d
      <4>1. Min(Z) \in Z /\ Min(Z) <= d
        BY <3>3, MinNat
      <4>2. d <= Min(Z) /\ Min(Z) \in Nat
        BY <3>3, <4>1
      <4> QED BY <2>4, <4>1, <4>2
    <3>5. ASSUME Accessible(vms[p], va, d, "read") = d
          PROVE  r.vm = vms[p] /\ r.used = used
      <4>1. \A j \in 1..d : Can(m.vm, Address(va, j), "read")
        BY <2>2, <2>4, <3>5, AccessibleAll
      <4> QED BY <2>2, <2>7, <3>1, <4>1 DEF Untouched
    <3>6. r.ok = (Z # {})
      BY <2>4, <2>7, <3>3
    <3>7. r.buf = [j \in 1..(d - 1) |-> ByteAt(r.vm, mem, Address(va, j))]
      BY <3>1 DEF byte
    <3> HIDE DEF Z
    <3>8. StringUpTo(p, va, r, Z)
      BY <3>4, <3>5, <3>6, <3>7 DEF StringUpTo
    <3> QED BY <3>8 DEF Z, A, n, r, m
  <2> QED BY <2>4, <2>6, <2>7
<1> QED BY <1>1, InvAlways, PTL
=============================================================================
