--------------------------- MODULE FileSystemProofs ---------------------------
(***************************************************************************)
(* Proofs about FileSystem: descriptors name the inode they were opened    *)
(* on, link counts are right, the directories form a tree and the names    *)
(* implement Namespace.                                                    *)
(***************************************************************************)
EXTENDS FileSystem, TLAPS, FiniteSetTheorems, SequenceTheorems,
        WellFoundedInduction

-----------------------------------------------------------------------------
(***************************************************************************)
(* Least elements and folds.                                               *)
(***************************************************************************)

(* Min finds the least element of a non-empty set of naturals. *)
LEMMA LeastNat ==
  ASSUME NEW S \in SUBSET Nat, S # {}
  PROVE  Min(S) \in S /\ \A y \in S : Min(S) <= y
<1> DEFINE Below == OpToRel(<, Nat)
<1>1. \A x, y \in Nat : <<x, y>> \in Below <=> x < y
  BY DEF OpToRel
<1> HIDE DEF Below
<1>2. PICK x \in S : \A y \in S : <<y, x>> \notin Below
  BY NatLessThanWellFounded, WFMin DEF Below
<1>3. ASSUME NEW y \in S PROVE x <= y
  <2>1. x \in Nat /\ y \in Nat
    OBVIOUS
  <2>2. ~(y < x)
    BY <1>1, <1>2, <2>1
  <2> QED BY <2>1, <2>2
<1> QED BY <1>3 DEF Min

(* The largest of the numbers up to n + 1, when n + 1 is among them. *)
LEMMA MaxOfInitial ==
  ASSUME NEW n \in Nat, NEW s \in SUBSET (1..(n + 1)), n + 1 \in s
  PROVE  Max(s) = n + 1
<1>1. \A y \in s : n + 1 >= y
  OBVIOUS
<1>2. \A x \in s : (\A y \in s : x >= y) => x = n + 1
  OBVIOUS
<1> QED BY <1>1, <1>2 DEF Max

LEMMA MaxIsElement ==
  ASSUME NEW n \in Nat, NEW s \in SUBSET (1..n), s # {}
  PROVE  Max(s) \in s
<1> DEFINE mirror == {n - x : x \in s}
<1>1. mirror \in SUBSET Nat /\ mirror # {}
  <2>1. \A x \in s : n - x \in Nat
    OBVIOUS
  <2>2. PICK x \in s : TRUE
    OBVIOUS
  <2>3. n - x \in mirror
    OBVIOUS
  <2> QED BY <2>1, <2>3
<1>2. PICK x \in s : n - x = Min(mirror)
  <2> HIDE DEF mirror
  <2>1. Min(mirror) \in mirror
    BY <1>1, LeastNat
  <2> QED BY <2>1 DEF mirror
<1>3. \A y \in mirror : n - x <= y
  <2> HIDE DEF mirror
  <2> QED BY <1>1, <1>2, LeastNat
<1>4. ASSUME NEW y \in s PROVE x >= y
  <2>1. n - x <= n - y
    BY <1>3
  <2> QED BY <2>1
<1> QED BY <1>4 DEF Max

(* The initial intervals of 1..n. *)
LEMMA Initial ==
  ASSUME NEW n \in Nat, NEW k \in 1..n
  PROVE  /\ (1..k) \in SUBSET (1..n) /\ 1..k # {}
         /\ (1..k) \ {k} = 1..(k - 1)
         /\ Max(1..k) = k
<1>1. k - 1 \in Nat /\ (k - 1) + 1 = k /\ k \in 1..k
  OBVIOUS
<1>2. Max(1..k) = k
  BY <1>1, MaxOfInitial
<1>3. (1..k) \ {k} = 1..(k - 1)
  OBVIOUS
<1>4. (1..k) \in SUBSET (1..n)
  OBVIOUS
<1> QED BY <1>1, <1>2, <1>3, <1>4

(* A fold over 1..n by a function step, the way FoldLeft defines it. *)
FoldOf(g, n, base, step) ==
  g = [s \in SUBSET (1..n) |-> IF s = {} THEN base
                               ELSE step[g[s \ {Max(s)}], Max(s)]]

(* Such a fold exists for every n: one for n - 1 can be extended. *)
LEMMA FoldExists ==
  ASSUME NEW X, NEW base \in X, NEW m \in Nat, NEW step \in [X \X (1..m) -> X]
  PROVE  \E g \in [SUBSET (1..m) -> X] : FoldOf(g, m, base, step)
<1> DEFINE Folds(n) == \E g \in [SUBSET (1..n) -> X] : FoldOf(g, n, base, step)
           Bad == {n \in 0..m : ~Folds(n)}
<1>1. ASSUME Bad # {} PROVE FALSE
  <2> DEFINE n == Min(Bad)
  <2>1. n \in Bad /\ \A k \in Bad : n <= k
    <3> HIDE DEF Folds
    <3>1. Bad \in SUBSET Nat
      OBVIOUS
    <3> HIDE DEF Bad
    <3> QED BY <1>1, <3>1, LeastNat
  <2> HIDE DEF n
  <2>2. n \in 0..m /\ ~Folds(n)
    BY <2>1
  <2>3. n # 0
    <3> DEFINE g == [s \in SUBSET (1..0) |-> base]
    <3>1. \A s \in SUBSET (1..0) : s = {}
      OBVIOUS
    <3>2. FoldOf(g, 0, base, step)
      BY <3>1 DEF FoldOf
    <3> QED BY <2>2, <3>2
  <2>4. PICK p \in 0..m : n = p + 1
    <3>1. n - 1 \in 0..m /\ n = (n - 1) + 1
      BY <2>2, <2>3
    <3> QED BY <3>1
  <2>5. Folds(p)
    <3> HIDE DEF Folds
    <3> QED BY <2>1, <2>2, <2>4
  <2>6. PICK g \in [SUBSET (1..p) -> X] : FoldOf(g, p, base, step)
    BY <2>5
  <2> DEFINE h == [s \in SUBSET (1..n) |->
                     IF n \in s THEN step[g[s \ {n}], n] ELSE g[s]]
  <2>7. \A s \in SUBSET (1..n) : s \ {n} \in SUBSET (1..p)
    BY <2>2, <2>4
  <2>8. \A s \in SUBSET (1..n) : n \notin s => s \in SUBSET (1..p)
    BY <2>2, <2>4
  <2>9. n \in 1..m
    BY <2>2, <2>3
  <2>10. h \in [SUBSET (1..n) -> X]
    BY <2>7, <2>8, <2>9
  <2>11. ASSUME NEW s \in SUBSET (1..n)
         PROVE  h[s] = IF s = {} THEN base ELSE step[h[s \ {Max(s)}], Max(s)]
    <3>1. CASE n \in s
      <4>1. Max(s) = n
        BY <2>2, <2>4, <3>1, MaxOfInitial
      <4>2. h[s \ {n}] = g[s \ {n}]
        OBVIOUS
      <4> QED BY <3>1, <4>1, <4>2
    <3>2. CASE n \notin s /\ s # {}
      <4>1. s \in SUBSET (1..p)
        BY <2>8, <3>2
      <4>2. h[s] = g[s] /\ h[s \ {Max(s)}] = g[s \ {Max(s)}]
        BY <3>2
      <4>3. g[s] = step[g[s \ {Max(s)}], Max(s)]
        BY <2>6, <3>2, <4>1 DEF FoldOf
      <4> QED BY <3>2, <4>2, <4>3
    <3>3. CASE s = {}
      <4>1. g[{}] = base
        BY <2>6 DEF FoldOf
      <4> QED BY <3>3, <4>1
    <3> QED BY <3>1, <3>2, <3>3
  <2>12. FoldOf(h, n, base, step)
    <3> HIDE DEF h
    <3>1. h = [s \in SUBSET (1..n) |-> h[s]]
      BY <2>10
    <3> QED BY <2>11, <3>1 DEF FoldOf
  <2> QED BY <2>2, <2>10, <2>12
<1>2. Folds(m)
  <2> HIDE DEF Folds
  <2> QED BY <1>1
<1> QED BY <1>2

-----------------------------------------------------------------------------
(***************************************************************************)
(* Paths.                                                                  *)
(***************************************************************************)

(* The parts of a path are kept one by one, in order. *)
SplitStep(parts, part) ==
  IF part \in {"", "."} THEN parts ELSE Append(parts, part)

Splits(path, w, S) ==
  /\ w \in [0..Len(path) -> Seq(S)]
  /\ w[0] = <<>>
  /\ \A k \in 1..Len(path) : w[k] = SplitStep(w[k - 1], path[k])
  /\ fsSplitPath(path) = w[Len(path)]

LEMMA SplitWalk ==
  ASSUME NEW S, NEW path \in Seq(S)
  PROVE  \E w : Splits(path, w, S)
<1> DEFINE n == Len(path)
           X == Seq(S)
           step == [z \in X \X (1..n) |-> SplitStep(z[1], path[z[2]])]
           IsIter(g) == g = [s \in SUBSET (DOMAIN path) |->
                               IF s = {} THEN <<>>
                               ELSE SplitStep(g[s \ {Max(s)}], path[Max(s)])]
           iter == CHOOSE g : IsIter(g)
           w == [k \in 0..n |-> iter[1..k]]
<1>1. n \in Nat /\ DOMAIN path = 1..n /\ \A k \in 1..n : path[k] \in S
  OBVIOUS
<1>2. ASSUME NEW x \in X, NEW y \in S PROVE SplitStep(x, y) \in X
  <2>1. Append(x, y) \in Seq(S)
    OBVIOUS
  <2> QED BY <2>1 DEF SplitStep
<1>3. step \in [X \X (1..n) -> X]
  BY <1>1, <1>2
<1>4. <<>> \in X
  OBVIOUS
<1>5. \A s \in SUBSET (1..n) : s # {} => Max(s) \in s
  BY <1>1, MaxIsElement
<1>6. PICK g \in [SUBSET (1..n) -> X] : FoldOf(g, n, <<>>, step)
  <2> HIDE DEF X, step, n
  <2> QED BY <1>1, <1>3, <1>4, FoldExists
<1>7. IsIter(g)
  <2>1. ASSUME NEW s \in SUBSET (1..n)
        PROVE  g[s] = IF s = {} THEN <<>>
                      ELSE SplitStep(g[s \ {Max(s)}], path[Max(s)])
    BY <1>5, <1>6 DEF FoldOf
  <2> QED BY <1>1, <1>6, <2>1 DEF FoldOf
<1>8. IsIter(iter)
  <2> HIDE DEF IsIter
  <2> QED BY <1>7
<1>9. fsSplitPath(path) = iter[1..n]
  BY <1>1 DEF fsSplitPath, FoldLeft, MapThenFoldSet, SplitStep
<1> HIDE DEF iter
<1>10. iter[1..0] = <<>>
  BY <1>1, <1>8
<1>11. ASSUME NEW k \in 1..n
       PROVE  iter[1..k] = SplitStep(iter[1..(k - 1)], path[k])
  <2>1. /\ (1..k) \in SUBSET (1..n) /\ 1..k # {}
        /\ (1..k) \ {k} = 1..(k - 1) /\ Max(1..k) = k
    BY <1>1, Initial
  <2> QED BY <1>1, <1>8, <2>1
<1>12. \A k \in 0..n : w[k] \in X
  <2> DEFINE Bad == {k \in 0..n : w[k] \notin X}
  <2> SUFFICES ASSUME Bad # {} PROVE FALSE
    OBVIOUS
  <2>1. PICK k \in Bad : \A j \in Bad : k <= j
    <3>1. Bad \in SUBSET Nat
      OBVIOUS
    <3> HIDE DEF Bad
    <3> QED BY <3>1, LeastNat
  <2>2. k # 0
    BY <1>4, <1>10, <2>1
  <2>3. k \in 1..n /\ k - 1 \in 0..n /\ k - 1 \notin Bad
    BY <1>1, <2>1, <2>2
  <2>4. iter[1..(k - 1)] \in X
    BY <2>3
  <2>5. path[k] \in S /\ k \in 1..n
    BY <1>1, <2>3
  <2>6. iter[1..k] \in X
    BY <1>2, <1>11, <2>4, <2>5
  <2> QED BY <2>1, <2>6
<1>13. Splits(path, w, S)
  BY <1>1, <1>9, <1>10, <1>11, <1>12 DEF Splits
<1> QED BY <1>13

(* Looking up a path takes one step per part. *)
WalkEnd(fs, start, parts) ==
  FoldLeft(LAMBDA current, part : PathStep(fs, current, part), start, parts)

Walks(fs, start, parts, w) ==
  /\ w \in [0..Len(parts) -> LiveInodes(fs) \cup {NoInode}]
  /\ w[0] = start
  /\ \A k \in 1..Len(parts) : w[k] = PathStep(fs, w[k - 1], parts[k])
  /\ w[Len(parts)] = WalkEnd(fs, start, parts)

(* A lookup by number or by name yields a live inode or none. *)
LEMMA FirstInodeLive ==
  ASSUME NEW S \in SUBSET InodeSlots
  PROVE  FirstInode(S) \in S \cup {NoInode} /\ (S # {} => FirstInode(S) \in S)
<1>1. S \in SUBSET Nat
  BY InodesAssumption DEF InodeSlots
<1>2. S # {} => Min(S) \in S
  BY <1>1, LeastNat
<1> QED BY <1>2 DEF FirstInode

LEMMA LookupLive ==
  ASSUME NEW fs, NEW x, NEW y
  PROVE  /\ fsLookupByID(fs, x) \in LiveInodes(fs) \cup {NoInode}
         /\ fsLookupInDir(fs, x, y) \in LiveInodes(fs) \cup {NoInode}
<1>1. ASSUME NEW id
      PROVE  fsLookupByID(fs, id) \in LiveInodes(fs) \cup {NoInode}
  <2> DEFINE S == {i \in LiveInodes(fs) : id > 0 /\ fs.inodes[i].id = id}
  <2>1. S \in SUBSET InodeSlots
    BY DEF LiveInodes
  <2>2. FirstInode(S) \in S \cup {NoInode}
    <3> HIDE DEF S
    <3> QED BY <2>1, FirstInodeLive
  <2> QED BY <2>2 DEF fsLookupByID
<1> QED BY <1>1 DEF fsLookupInDir

LEMMA PathStepLive ==
  ASSUME NEW fs, NEW current, NEW part
  PROVE  PathStep(fs, current, part) \in LiveInodes(fs) \cup {NoInode}
  BY LookupLive DEF PathStep

LEMMA StartLive ==
  ASSUME NEW fs, NEW cwd, NEW path
  PROVE  fsStartingDir(fs, cwd, path) \in LiveInodes(fs) \cup {NoInode}
  BY LookupLive DEF fsStartingDir

LEMMA LookupWalk ==
  ASSUME NEW fs, NEW S, NEW parts \in Seq(S),
         NEW start \in LiveInodes(fs) \cup {NoInode}
  PROVE  \E w : Walks(fs, start, parts, w)
<1> DEFINE n == Len(parts)
           X == LiveInodes(fs) \cup {NoInode}
           step == [z \in X \X (1..n) |-> PathStep(fs, z[1], parts[z[2]])]
           IsIter(g) == g = [s \in SUBSET (DOMAIN parts) |->
                               IF s = {} THEN start
                               ELSE PathStep(fs, g[s \ {Max(s)}], parts[Max(s)])]
           iter == CHOOSE g : IsIter(g)
           w == [k \in 0..n |-> iter[1..k]]
<1>1. n \in Nat /\ DOMAIN parts = 1..n
  OBVIOUS
<1>2. step \in [X \X (1..n) -> X]
  BY PathStepLive
<1>3. \A s \in SUBSET (1..n) : s # {} => Max(s) \in s
  BY <1>1, MaxIsElement
<1>4. PICK g \in [SUBSET (1..n) -> X] : FoldOf(g, n, start, step)
  <2> HIDE DEF X, step, n
  <2>1. start \in X
    BY DEF X
  <2> QED BY <1>1, <1>2, <2>1, FoldExists
<1>5. IsIter(g)
  <2>1. ASSUME NEW s \in SUBSET (1..n)
        PROVE  g[s] = IF s = {} THEN start
                      ELSE PathStep(fs, g[s \ {Max(s)}], parts[Max(s)])
    BY <1>3, <1>4 DEF FoldOf
  <2> QED BY <1>1, <1>4, <2>1 DEF FoldOf
<1>6. IsIter(iter)
  <2> HIDE DEF IsIter
  <2> QED BY <1>5
<1>7. iter[1..n] = WalkEnd(fs, start, parts)
  BY <1>1 DEF WalkEnd, FoldLeft, MapThenFoldSet
<1> HIDE DEF iter
<1>8. iter[1..0] = start
  BY <1>1, <1>6
<1>9. ASSUME NEW k \in 1..n
      PROVE  iter[1..k] = PathStep(fs, iter[1..(k - 1)], parts[k])
  <2>1. /\ (1..k) \in SUBSET (1..n) /\ 1..k # {}
        /\ (1..k) \ {k} = 1..(k - 1) /\ Max(1..k) = k
    BY <1>1, Initial
  <2> QED BY <1>1, <1>6, <2>1
<1>10. \A k \in 0..n : w[k] \in X
  <2> SUFFICES ASSUME NEW k \in 0..n PROVE iter[1..k] \in X
    OBVIOUS
  <2>1. CASE k = 0
    BY <1>8, <2>1
  <2>2. CASE k \in 1..n
    BY <1>9, <2>2, PathStepLive
  <2> QED BY <1>1, <2>1, <2>2
<1>11. Walks(fs, start, parts, w)
  BY <1>1, <1>7, <1>8, <1>9, <1>10 DEF Walks
<1> QED BY <1>11

(* Paths are sequences, and so are their parts. *)
LEMMA SplitType ==
  ASSUME NEW S, NEW path \in Seq(S)
  PROVE  fsSplitPath(path) \in Seq(S)
<1>1. PICK w : Splits(path, w, S)
  BY SplitWalk
<1> QED BY <1>1 DEF Splits

(* A path leads to a live inode or nowhere. *)
LEMMA PathLive ==
  ASSUME NEW fs, NEW cwd, NEW S, NEW path \in Seq(S)
  PROVE  fsLookupByPath(fs, cwd, path) \in LiveInodes(fs) \cup {NoInode}
<1> DEFINE start == fsStartingDir(fs, cwd, path)
           parts == fsSplitPath(path)
<1>1. parts \in Seq(S)
  BY SplitType
<1>2. start \in LiveInodes(fs) \cup {NoInode}
  BY StartLive
<1> HIDE DEF start, parts
<1>3. PICK w : Walks(fs, start, parts, w)
  BY <1>1, <1>2, LookupWalk
<1>4. w[Len(parts)] \in LiveInodes(fs) \cup {NoInode}
  BY <1>1, <1>3 DEF Walks
<1>5. WalkEnd(fs, start, parts) \in LiveInodes(fs) \cup {NoInode}
  BY <1>3, <1>4 DEF Walks
<1>6. fsLookupByPath(fs, cwd, path) =
        IF path = EmptyPath THEN NoInode ELSE WalkEnd(fs, start, parts)
  BY DEF fsLookupByPath, WalkEnd, start, parts
<1> QED BY <1>5, <1>6

-----------------------------------------------------------------------------
(***************************************************************************)
(* The invariant.                                                          *)
(***************************************************************************)

FSType == [nextInodeID: Nat, inodes: [InodeSlots -> Inode]]

EntryOf(fs, d, e) == [dir |-> fs.inodes[d].id, name |-> e.name, obj |-> e.inodeID]

EntriesIn(fs, d) == {EntryOf(fs, d, e) : e \in fs.inodes[d].dir}

EntriesOf(fs) == UNION {EntriesIn(fs, d) : d \in LiveInodes(fs)}

NamesOf(fs, id) == {e \in EntriesOf(fs) : e.obj = id}

IDsOf(fs) == {fs.inodes[i].id : i \in LiveInodes(fs)}

(* Slots not in use are cleared, numbers are unique and never reached      *)
(* again, and the root is a directory.                                     *)
SlotsOK(fs) ==
  /\ \A i \in InodeSlots \ LiveInodes(fs) : fs.inodes[i] = ZeroInode
  /\ \A i \in LiveInodes(fs) : fs.inodes[i].id \in 1..(fs.nextInodeID - 1)
  /\ \A i, j \in LiveInodes(fs) : fs.inodes[i].id = fs.inodes[j].id => i = j
  /\ \E r \in LiveInodes(fs) : fs.inodes[r].id = RootID /\ fs.inodes[r].kind = "dir"

NoName == ""

(* Only directories have entries, not too many, with different names of    *)
(* inodes that exist.                                                      *)
GoodDir(dir, ids) ==
  /\ IsFiniteSet(dir) /\ Cardinality(dir) <= MaxDirEntries
  /\ \A e \in dir : e.name # NoName /\ e.inodeID \in ids \ {RootID}
  /\ \A e, f \in dir : e.name = f.name => e = f

DirsOK(fs) ==
  \A d \in LiveInodes(fs) :
    /\ fs.inodes[d].kind # "dir" => fs.inodes[d].dir = {}
    /\ GoodDir(fs.inodes[d].dir, IDsOf(fs))

CountsOK(fs) ==
  /\ IsFiniteSet(EntriesOf(fs))
  /\ \A i \in LiveInodes(fs) :
       LET node == fs.inodes[i]
       IN  /\ node.nlink = Cardinality(NamesOf(fs, node.id))
                             + (IF node.id = RootID THEN 1 ELSE 0)
           /\ node.nlink > 0

(* Every directory but the root has one name, in its parent, an older one. *)
ParentsOK(fs) ==
  \A i \in LiveInodes(fs) : fs.inodes[i].kind = "dir" =>
    IF fs.inodes[i].id = RootID
    THEN fs.inodes[i].parent = RootID
    ELSE Directory(fs.inodes[i], EntriesOf(fs))

TreeInv(fs) ==
  fs \in FSType /\ SlotsOK(fs) /\ DirsOK(fs) /\ CountsOK(fs) /\ ParentsOK(fs)

(* Every byte of a file was written there. *)
BytesOK(fs) ==
  \A i \in LiveInodes(fs), x \in Positions :
    fs.inodes[i].data[x] \in {ZeroByte, <<fs.inodes[i].id, x>>}

ProcType ==
  [state: {"UNUSED", "ALIVE", "ZOMBIE"}, cwdInode: Nat,
   fdTable: [FDs -> FileDescriptor]]

(* A descriptor names an inode there is or was; one for writing is not one *)
(* of a directory.                                                         *)
DescOK(fs, desc) ==
  /\ desc.inodeID < fs.nextInodeID
  /\ desc.writable =>
       \A i \in LiveInodes(fs) :
         fs.inodes[i].id = desc.inodeID => fs.inodes[i].kind # "dir"

DescsOK(fs, table) ==
  \A p \in Procs, fd \in FDs : DescOK(fs, table[p].fdTable[fd])

Inv ==
  /\ TreeInv(globalFS)
  /\ procs \in [Procs -> ProcType] /\ DescsOK(globalFS, procs)
  /\ sinks \in [{"console", "uart"} -> Nat]
  /\ tick \in Nat
  /\ ret \in {"ok", "error", "short"}

-----------------------------------------------------------------------------
(***************************************************************************)
(* Lookups in a file system that satisfies the invariant.                  *)
(***************************************************************************)

LEMMA LiveType ==
  ASSUME NEW fs \in FSType, NEW i \in LiveInodes(fs)
  PROVE  /\ i \in InodeSlots /\ i # NoInode
         /\ fs.inodes[i] \in Inode /\ fs.inodes[i].kind # "none"
  BY InodesAssumption DEF LiveInodes, FSType, InodeSlots, NoInode

LEMMA NoInodeNotLive ==
  ASSUME NEW fs
  PROVE  NoInode \notin LiveInodes(fs)
  BY InodesAssumption DEF LiveInodes, InodeSlots, NoInode

(* The inode of a number is found when there is one. *)
LEMMA FindID ==
  ASSUME NEW fs, TreeInv(fs), NEW id
  PROVE  /\ id \in IDsOf(fs) => /\ fsLookupByID(fs, id) \in LiveInodes(fs)
                                /\ fs.inodes[fsLookupByID(fs, id)].id = id
         /\ id \notin IDsOf(fs) => fsLookupByID(fs, id) = NoInode
<1> DEFINE S == {i \in LiveInodes(fs) : id > 0 /\ fs.inodes[i].id = id}
<1>1. fsLookupByID(fs, id) = FirstInode(S) /\ S \in SUBSET InodeSlots
  BY DEF fsLookupByID, LiveInodes
<1>2. CASE id \in IDsOf(fs)
  <2>1. PICK i \in LiveInodes(fs) : fs.inodes[i].id = id
    BY <1>2 DEF IDsOf
  <2>2. id \in Nat /\ id > 0
    BY <2>1 DEF TreeInv, SlotsOK, FSType
  <2>3. i \in S
    BY <2>1, <2>2
  <2>4. FirstInode(S) \in S
    <3> HIDE DEF S
    <3> QED BY <1>1, <2>3, FirstInodeLive
  <2> QED BY <1>1, <1>2, <2>4
<1>3. CASE id \notin IDsOf(fs)
  <2>1. S = {}
    BY <1>3 DEF IDsOf
  <2> QED BY <1>1, <1>3, <2>1 DEF FirstInode
<1> QED BY <1>2, <1>3

(* An entry leads to an inode: a name is free exactly when looking it up   *)
(* finds nothing.                                                          *)
LEMMA FindName ==
  ASSUME NEW fs, TreeInv(fs), NEW d \in LiveInodes(fs), fs.inodes[d].kind = "dir",
         NEW name
  PROVE  /\ fsLookupInDir(fs, d, name) = NoInode <=> EntriesNamed(fs, d, name) = {}
         /\ \A e \in EntriesNamed(fs, d, name) :
              EntriesNamed(fs, d, name) = {e}
<1>1. \A e, f \in EntriesNamed(fs, d, name) : e = f
  BY DEF EntriesNamed, TreeInv, DirsOK, GoodDir
<1>2. CASE EntriesNamed(fs, d, name) # {}
  <2> DEFINE e == CHOOSE e \in EntriesNamed(fs, d, name) : TRUE
  <2>1. e \in EntriesNamed(fs, d, name)
    BY <1>2
  <2>2. e.inodeID \in IDsOf(fs)
    BY <2>1 DEF EntriesNamed, TreeInv, DirsOK, GoodDir
  <2>3. fsLookupInDir(fs, d, name) = fsLookupByID(fs, e.inodeID)
    BY <1>2 DEF fsLookupInDir
  <2> HIDE DEF e
  <2>4. fsLookupInDir(fs, d, name) # NoInode
    BY <2>2, <2>3, FindID, NoInodeNotLive
  <2> QED BY <1>1, <1>2, <2>4
<1>3. CASE EntriesNamed(fs, d, name) = {}
  BY <1>3 DEF fsLookupInDir
<1> QED BY <1>2, <1>3

-----------------------------------------------------------------------------
(***************************************************************************)
(* Creation.                                                               *)
(***************************************************************************)

(* A new inode i of a kind under a name in directory d. *)
Born(fs, g, i, d, name, kind) ==
  /\ i \in InodeSlots \ LiveInodes(fs)
  /\ d \in LiveInodes(fs) /\ fs.inodes[d].kind = "dir"
  /\ name # NoName /\ EntriesNamed(fs, d, name) = {}
  /\ Cardinality(fs.inodes[d].dir) < MaxDirEntries
  /\ g \in FSType /\ g.nextInodeID = fs.nextInodeID + 1
  /\ g.inodes[i].kind = kind /\ g.inodes[i].id = fs.nextInodeID
  /\ g.inodes[i].parent = fs.inodes[d].id /\ g.inodes[i].nlink = 1
  /\ g.inodes[i].data = ZeroInode.data /\ g.inodes[i].dir = {}
  /\ g.inodes[d] = [fs.inodes[d] EXCEPT
                      !.dir = @ \cup {[name |-> name, inodeID |-> fs.nextInodeID]}]
  /\ \A j \in InodeSlots \ {i, d} : g.inodes[j] = fs.inodes[j]

(* The attempt may have used up a number. *)
NotBorn(fs, g) ==
  /\ g \in FSType /\ g.inodes = fs.inodes
  /\ g.nextInodeID \in {fs.nextInodeID, fs.nextInodeID + 1}

CreateReply(fs, d, name, kind, r) ==
  \/ r.node = NoInode /\ NotBorn(fs, r.fs)
  \/ Born(fs, r.fs, r.node, d, name, kind)

(* The directory has room for the name and the table for the inode. *)
Room(fs, d, name) ==
  /\ d # NoInode /\ name # NoName /\ EntriesNamed(fs, d, name) = {}
  /\ Cardinality(fs.inodes[d].dir) < MaxDirEntries
  /\ FirstInode(InodeSlots \ LiveInodes(fs)) # NoInode

LEMMA ZeroInodeType == ZeroInode \in Inode
<1>1. [x \in Positions |-> ZeroByte] \in [Positions -> Bytes]
  BY DEF Bytes
<1>2. 0 \in 0..MaxFileBytes
  BY InodesAssumption
<1> QED BY <1>1, <1>2 DEF ZeroInode, Inode

LEMMA CreateEffect ==
  ASSUME NEW fs, TreeInv(fs), NEW d \in LiveInodes(fs) \cup {NoInode}, NEW name,
         d # NoInode => fs.inodes[d].kind = "dir" /\ name \in PathNames,
         NEW kind \in {"file", "dir", "device"},
         NEW device \in {"none", "console", "uart", "timer"}
  PROVE  LET r == CreateIn(fs, d, name, kind, device)
         IN  /\ CreateReply(fs, d, name, kind, r)
             /\ Room(fs, d, name) => r.node = FirstInode(InodeSlots \ LiveInodes(fs))
<1>1. fs \in FSType /\ fs.nextInodeID \in Nat /\ NotBorn(fs, fs)
  BY DEF TreeInv, FSType, NotBorn
<1>2. CASE d = NoInode \/ fsLookupInDir(fs, d, name) # NoInode
  <2>1. CreateIn(fs, d, name, kind, device) = [node |-> NoInode, fs |-> fs]
    BY <1>2 DEF CreateIn
  <2>2. ~Room(fs, d, name)
    BY <1>2, FindName DEF Room
  <2> QED BY <1>1, <2>1, <2>2 DEF CreateReply
<1>3. CASE d # NoInode /\ fsLookupInDir(fs, d, name) = NoInode
  <2> DEFINE alloc == fsAllocInode(fs, kind, fs.inodes[d].id, device)
             i == FirstInode(InodeSlots \ LiveInodes(fs))
             A == alloc.fs
             fresh == [ZeroInode EXCEPT !.kind = kind, !.parent = fs.inodes[d].id,
                         !.id = fs.nextInodeID, !.nlink = 1, !.device = device]
  <2>1. CreateIn(fs, d, name, kind, device) = NameInode(fs, alloc, d, name)
    BY <1>3 DEF CreateIn
  <2>2. d \in LiveInodes(fs) /\ fs.inodes[d].kind = "dir" /\ name \in PathNames
        /\ d \in InodeSlots /\ fs.inodes[d] \in Inode
    BY <1>1, <1>3, LiveType
  <2>3. EntriesNamed(fs, d, name) = {}
    BY <1>3, <2>2, FindName
  <2>4. CASE i = NoInode
    <3>1. alloc = [node |-> NoInode, fs |-> fs]
      BY <2>4 DEF fsAllocInode
    <3> HIDE DEF alloc
    <3>2. ~Room(fs, d, name)
      BY <2>4 DEF Room
    <3> QED BY <1>1, <2>1, <3>1, <3>2 DEF NameInode, CreateReply
  <2>5. CASE i # NoInode
    <3>1. i \in InodeSlots \ LiveInodes(fs)
      BY <2>5, FirstInodeLive
    <3> HIDE DEF i
    <3>2. alloc.node = i /\ A = [fs EXCEPT !.nextInodeID = @ + 1, !.inodes[i] = fresh]
      BY <2>5 DEF fsAllocInode, i
    <3>3. /\ fresh \in Inode
          /\ fresh.kind = kind /\ fresh.parent = fs.inodes[d].id
          /\ fresh.id = fs.nextInodeID /\ fresh.nlink = 1
          /\ fresh.data = ZeroInode.data /\ fresh.dir = {}
      <4>1. fs.inodes[d].id \in Nat
        BY <2>2 DEF Inode
      <4> QED BY <1>1, <4>1, ZeroInodeType DEF Inode, ZeroInode
    <3> HIDE DEF fresh, alloc
    <3>4. /\ A.nextInodeID = fs.nextInodeID + 1
          /\ A.inodes = [fs.inodes EXCEPT ![i] = fresh]
          /\ A \in FSType
      <4> HIDE DEF A
      <4>1. fs \in [nextInodeID: Nat, inodes: [InodeSlots -> Inode]]
        BY <1>1 DEF FSType
      <4>2. A = [nextInodeID |-> fs.nextInodeID + 1,
                 inodes |-> [fs.inodes EXCEPT ![i] = fresh]]
        BY <3>2, <4>1
      <4> QED BY <1>1, <3>1, <3>3, <4>1, <4>2 DEF FSType
    <3>5. /\ i # d /\ A.inodes[i] = fresh /\ A.inodes[d] = fs.inodes[d]
          /\ \A j \in InodeSlots \ {i, d} : A.inodes[j] = fs.inodes[j]
      BY <1>1, <2>2, <3>1, <3>4 DEF FSType
    <3> HIDE DEF A
    <3> DEFINE added == fsAddDirEntry(A, d, name, A.inodes[i].id)
               e == [name |-> name, inodeID |-> fs.nextInodeID]
    <3>6. fsLookupInDir(A, d, name) = NoInode
      BY <2>3, <3>5 DEF fsLookupInDir, EntriesNamed
    <3>7. CASE name = NoName \/ Cardinality(fs.inodes[d].dir) >= MaxDirEntries
      <4>1. added = [ok |-> FALSE, fs |-> A]
        BY <3>5, <3>7 DEF fsAddDirEntry, NoName
      <4> HIDE DEF added
      <4> DEFINE g == [A EXCEPT !.inodes[i] = ZeroInode]
      <4>2. NameInode(fs, alloc, d, name) = [node |-> NoInode, fs |-> g]
        BY <2>5, <3>2, <4>1 DEF NameInode, added, A
      <4>3. fs.inodes[i] = ZeroInode
        BY <3>1 DEF TreeInv, SlotsOK
      <4>4. g.inodes = fs.inodes /\ g.nextInodeID = fs.nextInodeID + 1 /\ g \in FSType
        BY <1>1, <3>1, <3>4, <4>3, ZeroInodeType DEF FSType
      <4> HIDE DEF g
      <4>5. ~Room(fs, d, name)
        <5>1. IsFiniteSet(fs.inodes[d].dir)
          BY <2>2 DEF TreeInv, DirsOK, GoodDir
        <5>2. Cardinality(fs.inodes[d].dir) \in Nat
          BY <5>1, FS_CardinalityType
        <5>3. \A n \in Nat : n < MaxDirEntries => ~(n >= MaxDirEntries)
          BY InodesAssumption
        <5> QED BY <3>7, <5>2, <5>3 DEF Room
      <4> QED BY <2>1, <4>2, <4>4, <4>5 DEF CreateReply, NotBorn
    <3>8. CASE name # NoName /\ ~(Cardinality(fs.inodes[d].dir) >= MaxDirEntries)
      <4> DEFINE g == [A EXCEPT !.inodes[d].dir = @ \cup {e}]
      <4>1. added = [ok |-> TRUE, fs |-> g]
        BY <2>2, <3>3, <3>5, <3>6, <3>8 DEF fsAddDirEntry, NoName
      <4> HIDE DEF added
      <4>2. NameInode(fs, alloc, d, name) = [node |-> i, fs |-> g]
        BY <2>5, <3>2, <4>1 DEF NameInode, added, A
      <4>3. /\ g.nextInodeID = fs.nextInodeID + 1
            /\ g.inodes = [A.inodes EXCEPT ![d].dir = @ \cup {e}]
        BY <3>4 DEF FSType
      <4>4. g.inodes[d] = [fs.inodes[d] EXCEPT !.dir = @ \cup {e}]
        BY <2>2, <3>4, <3>5, <4>3 DEF FSType
      <4>5. \A j \in InodeSlots \ {i, d} : g.inodes[j] = fs.inodes[j]
        BY <3>4, <3>5, <4>3 DEF FSType
      <4>6. g.inodes[i] = fresh
        BY <3>1, <3>4, <3>5, <4>3 DEF FSType
      <4>7. [fs.inodes[d] EXCEPT !.dir = @ \cup {e}] \in Inode
        BY <1>1, <2>2 DEF Inode
      <4>8. g \in FSType
        <5> HIDE DEF e
        <5>1. g = [A EXCEPT !.inodes = [A.inodes EXCEPT ![d] = [fs.inodes[d] EXCEPT !.dir = @ \cup {e}]]]
          BY <3>4, <3>5, <2>2 DEF FSType
        <5> QED BY <3>4, <4>7, <5>1 DEF FSType
      <4>9. Cardinality(fs.inodes[d].dir) < MaxDirEntries
        <5>1. IsFiniteSet(fs.inodes[d].dir)
          BY <2>2 DEF TreeInv, DirsOK, GoodDir
        <5>2. Cardinality(fs.inodes[d].dir) \in Nat
          BY <5>1, FS_CardinalityType
        <5>3. \A n \in Nat : ~(n >= MaxDirEntries) => n < MaxDirEntries
          BY InodesAssumption
        <5> QED BY <3>8, <5>2, <5>3
      <4> HIDE DEF g, e
      <4>10. Born(fs, g, i, d, name, kind)
        BY <2>2, <2>3, <3>1, <3>3, <3>8, <4>3, <4>4, <4>5, <4>6, <4>8, <4>9 DEF Born, e
      <4> QED BY <2>1, <4>2, <4>10 DEF CreateReply, i
    <3> QED BY <3>7, <3>8
  <2> QED BY <2>4, <2>5
<1> QED BY <1>2, <1>3

(* Every entry names a directory and an inode there are, and two of one    *)
(* directory differ in the name.                                           *)
LEMMA EntryFacts ==
  ASSUME NEW fs, TreeInv(fs)
  PROVE  /\ \A e \in EntriesOf(fs) :
              /\ e \in [dir: IDsOf(fs), name: PathNames, obj: IDsOf(fs) \ {RootID}]
              /\ e.name # NoName
         /\ \A e, f \in EntriesOf(fs) : e.dir = f.dir /\ e.name = f.name => e = f
<1>1. ASSUME NEW e \in EntriesOf(fs)
      PROVE  \E d \in LiveInodes(fs) : \E u \in fs.inodes[d].dir :
               /\ e = [dir |-> fs.inodes[d].id, name |-> u.name, obj |-> u.inodeID]
               /\ u.name # NoName /\ u.name \in PathNames
               /\ u.inodeID \in IDsOf(fs) \ {RootID}
  <2>0. PICK d \in LiveInodes(fs) : e \in EntriesIn(fs, d)
    BY DEF EntriesOf
  <2>1. PICK u \in fs.inodes[d].dir : e = EntryOf(fs, d, u)
    BY <2>0 DEF EntriesIn
  <2>2. u.name # NoName /\ u.inodeID \in IDsOf(fs) \ {RootID}
    BY DEF TreeInv, DirsOK, GoodDir
  <2>3. fs.inodes[d].dir \in SUBSET [name: PathNames, inodeID: Nat]
    BY LiveType DEF TreeInv, Inode
  <2> QED BY <2>1, <2>2, <2>3 DEF EntryOf
<1>2. ASSUME NEW e \in EntriesOf(fs)
      PROVE  /\ e \in [dir: IDsOf(fs), name: PathNames, obj: IDsOf(fs) \ {RootID}]
             /\ e.name # NoName
  <2>1. \A d \in LiveInodes(fs) : fs.inodes[d].id \in IDsOf(fs)
    BY DEF IDsOf
  <2>2. PICK d \in LiveInodes(fs) : \E u \in fs.inodes[d].dir :
               /\ e = [dir |-> fs.inodes[d].id, name |-> u.name, obj |-> u.inodeID]
               /\ u.name # NoName /\ u.name \in PathNames
               /\ u.inodeID \in IDsOf(fs) \ {RootID}
    BY <1>1
  <2>3. PICK u \in fs.inodes[d].dir :
               /\ e = [dir |-> fs.inodes[d].id, name |-> u.name, obj |-> u.inodeID]
               /\ u.name # NoName /\ u.name \in PathNames
               /\ u.inodeID \in IDsOf(fs) \ {RootID}
    BY <2>2
  <2> QED BY <2>1, <2>3
<1>3. ASSUME NEW e \in EntriesOf(fs), NEW f \in EntriesOf(fs),
             e.dir = f.dir, e.name = f.name
      PROVE  e = f
  <2>1. PICK c \in LiveInodes(fs) : \E u \in fs.inodes[c].dir :
               e = [dir |-> fs.inodes[c].id, name |-> u.name, obj |-> u.inodeID]
    BY <1>1
  <2>2. PICK u \in fs.inodes[c].dir :
               e = [dir |-> fs.inodes[c].id, name |-> u.name, obj |-> u.inodeID]
    BY <2>1
  <2>3. PICK d \in LiveInodes(fs) : \E v \in fs.inodes[d].dir :
               f = [dir |-> fs.inodes[d].id, name |-> v.name, obj |-> v.inodeID]
    BY <1>1
  <2>4. PICK v \in fs.inodes[d].dir :
               f = [dir |-> fs.inodes[d].id, name |-> v.name, obj |-> v.inodeID]
    BY <2>3
  <2>5. c = d
    BY <1>3, <2>2, <2>4 DEF TreeInv, SlotsOK
  <2>6. u = v
    BY <1>3, <2>2, <2>4, <2>5 DEF TreeInv, DirsOK, GoodDir
  <2> QED BY <2>2, <2>4, <2>5, <2>6
<1> QED BY <1>2, <1>3

(* One entry more in one directory is one more in all. *)
AddsEntry(fs, g, d, e) ==
  /\ d \in LiveInodes(fs) /\ LiveInodes(fs) \subseteq LiveInodes(g)
  /\ \A j \in LiveInodes(fs) : g.inodes[j].id = fs.inodes[j].id
  /\ \A j \in LiveInodes(fs) \ {d} : g.inodes[j].dir = fs.inodes[j].dir
  /\ \A j \in LiveInodes(g) \ LiveInodes(fs) : g.inodes[j].dir = {}
  /\ g.inodes[d].dir = fs.inodes[d].dir \cup {e}

LEMMA EntryAdded ==
  ASSUME NEW fs, NEW g, NEW d, NEW e, AddsEntry(fs, g, d, e)
  PROVE  EntriesOf(g) = EntriesOf(fs) \cup {EntryOf(fs, d, e)}
<1>1. EntriesIn(g, d) = EntriesIn(fs, d) \cup {EntryOf(fs, d, e)}
  BY DEF EntriesIn, EntryOf, AddsEntry
<1>2. \A j \in LiveInodes(fs) \ {d} : EntriesIn(g, j) = EntriesIn(fs, j)
  BY DEF EntriesIn, EntryOf, AddsEntry
<1>3. \A j \in LiveInodes(g) \ LiveInodes(fs) : EntriesIn(g, j) = {}
  BY DEF EntriesIn, AddsEntry
<1> QED BY <1>1, <1>2, <1>3 DEF EntriesOf, AddsEntry

LEMMA RoomForOne ==
  \A a, b, m \in Nat : a < m /\ (b = a \/ b = a + 1) => b <= m
OBVIOUS

(* A directory with room takes one more entry. *)
LEMMA DirGrows ==
  ASSUME NEW dir, NEW ids, NEW all, GoodDir(dir, ids), ids \subseteq all,
         Cardinality(dir) < MaxDirEntries,
         NEW e, e.name # NoName, \A u \in dir : u.name # e.name,
         e.inodeID \in all \ {RootID}
  PROVE  GoodDir(dir \cup {e}, all)
<1>1. /\ IsFiniteSet(dir) /\ Cardinality(dir) \in Nat
      /\ IsFiniteSet(dir \cup {e}) /\ Cardinality(dir \cup {e}) \in Nat
      /\ \/ Cardinality(dir \cup {e}) = Cardinality(dir)
         \/ Cardinality(dir \cup {e}) = Cardinality(dir) + 1
  BY FS_AddElement, FS_CardinalityType DEF GoodDir
<1>2. \A a, b \in Nat : a < MaxDirEntries /\ (b = a \/ b = a + 1) => b <= MaxDirEntries
  BY RoomForOne, InodesAssumption
<1>3. Cardinality(dir \cup {e}) <= MaxDirEntries
  BY <1>1, <1>2
<1>4. \A u \in dir \cup {e} : u.name # NoName /\ u.inodeID \in all \ {RootID}
  BY DEF GoodDir
<1>5. \A u, v \in dir \cup {e} : u.name = v.name => u = v
  BY DEF GoodDir
<1> QED BY <1>1, <1>3, <1>4, <1>5 DEF GoodDir

(* What a birth leaves alone and what it adds. *)
LEMMA BornFacts ==
  ASSUME NEW fs, NEW g, NEW i, NEW d, NEW name, NEW kind \in {"file", "dir", "device"},
         TreeInv(fs), Born(fs, g, i, d, name, kind)
  PROVE  /\ LiveInodes(g) = LiveInodes(fs) \cup {i} /\ i \notin LiveInodes(fs)
         /\ \A j \in LiveInodes(fs) :
              /\ g.inodes[j].id = fs.inodes[j].id
              /\ g.inodes[j].kind = fs.inodes[j].kind
              /\ g.inodes[j].parent = fs.inodes[j].parent
              /\ g.inodes[j].nlink = fs.inodes[j].nlink
              /\ g.inodes[j].data = fs.inodes[j].data
              /\ j # d => g.inodes[j] = fs.inodes[j]
         /\ g.inodes[d].dir = fs.inodes[d].dir
                                \cup {[name |-> name, inodeID |-> fs.nextInodeID]}
         /\ IDsOf(g) = IDsOf(fs) \cup {fs.nextInodeID}
         /\ EntriesOf(g) = EntriesOf(fs) \cup
              {[dir |-> fs.inodes[d].id, name |-> name, obj |-> fs.nextInodeID]}
         /\ fs.nextInodeID \in Nat \ IDsOf(fs) /\ fs.nextInodeID > RootID
<1> DEFINE e == [name |-> name, inodeID |-> fs.nextInodeID]
<1>1. /\ i \in InodeSlots \ LiveInodes(fs) /\ d \in LiveInodes(fs) /\ i # d
      /\ d \in InodeSlots /\ fs.inodes[d] \in Inode
  BY LiveType DEF Born, TreeInv
<1>2. g.inodes[d] = [fs.inodes[d] EXCEPT !.dir = @ \cup {e}]
  BY DEF Born
<1>3. /\ g.inodes[d].id = fs.inodes[d].id /\ g.inodes[d].kind = fs.inodes[d].kind
      /\ g.inodes[d].parent = fs.inodes[d].parent
      /\ g.inodes[d].nlink = fs.inodes[d].nlink
      /\ g.inodes[d].data = fs.inodes[d].data
      /\ g.inodes[d].dir = fs.inodes[d].dir \cup {e}
  BY <1>1, <1>2 DEF Inode
<1> HIDE DEF e
<1>4. \A j \in InodeSlots \ {i, d} : g.inodes[j] = fs.inodes[j]
  BY DEF Born
<1>5. g.inodes[i].kind = kind /\ g.inodes[i].id = fs.nextInodeID /\ g.inodes[i].dir = {}
  BY DEF Born
<1>6. LiveInodes(g) = LiveInodes(fs) \cup {i}
  BY <1>1, <1>3, <1>4, <1>5 DEF LiveInodes
<1>7. \A j \in LiveInodes(fs) :
              /\ g.inodes[j].id = fs.inodes[j].id
              /\ g.inodes[j].kind = fs.inodes[j].kind
              /\ g.inodes[j].parent = fs.inodes[j].parent
              /\ g.inodes[j].nlink = fs.inodes[j].nlink
              /\ g.inodes[j].data = fs.inodes[j].data
              /\ j # d => g.inodes[j] = fs.inodes[j]
  BY <1>1, <1>3, <1>4 DEF LiveInodes
<1>8. IDsOf(g) = IDsOf(fs) \cup {fs.nextInodeID}
  BY <1>5, <1>6, <1>7 DEF IDsOf
<1>9. fs.nextInodeID \in Nat /\ \A j \in LiveInodes(fs) : fs.inodes[j].id \in 1..(fs.nextInodeID - 1)
  BY DEF TreeInv, FSType, SlotsOK
<1>10. fs.nextInodeID \in Nat \ IDsOf(fs) /\ fs.nextInodeID > RootID
  BY <1>1, <1>9 DEF IDsOf, RootID
<1>11. EntriesOf(g) = EntriesOf(fs) \cup {EntryOf(fs, d, e)}
  <2>1. \A j \in LiveInodes(fs) \ {d} : g.inodes[j].dir = fs.inodes[j].dir
    BY <1>7
  <2>2. \A j \in LiveInodes(g) \ LiveInodes(fs) : g.inodes[j].dir = {}
    BY <1>5, <1>6
  <2>3. AddsEntry(fs, g, d, e)
    BY <1>1, <1>3, <1>6, <1>7, <2>1, <2>2 DEF AddsEntry
  <2> QED BY <2>3, EntryAdded
<1>12. EntryOf(fs, d, e) = [dir |-> fs.inodes[d].id, name |-> name, obj |-> fs.nextInodeID]
  BY DEF EntryOf, e
<1>13. g.inodes[d].dir = fs.inodes[d].dir
                                \cup {[name |-> name, inodeID |-> fs.nextInodeID]}
  BY <1>3 DEF e
<1> QED BY <1>1, <1>6, <1>7, <1>8, <1>10, <1>11, <1>12, <1>13

LEMMA BornKeeps ==
  ASSUME NEW fs, NEW g, NEW i, NEW d, NEW name, NEW kind \in {"file", "dir", "device"},
         TreeInv(fs), Born(fs, g, i, d, name, kind)
  PROVE  TreeInv(g)
<1> DEFINE n == fs.nextInodeID
           x == [dir |-> fs.inodes[d].id, name |-> name, obj |-> n]
           e == [name |-> name, inodeID |-> n]
<1>1. /\ i \in InodeSlots \ LiveInodes(fs) /\ d \in LiveInodes(fs) /\ i # d
      /\ d \in InodeSlots /\ fs.inodes[d].kind = "dir" /\ name # NoName
      /\ EntriesNamed(fs, d, name) = {} /\ g \in FSType /\ g.nextInodeID = n + 1
      /\ Cardinality(fs.inodes[d].dir) < MaxDirEntries
  BY LiveType DEF Born, TreeInv
<1>2. /\ g.inodes[i].kind = kind /\ g.inodes[i].id = n /\ g.inodes[i].dir = {}
      /\ g.inodes[i].nlink = 1 /\ g.inodes[i].parent = fs.inodes[d].id
  BY DEF Born
<1>3. /\ LiveInodes(g) = LiveInodes(fs) \cup {i}
      /\ \A j \in LiveInodes(fs) :
              /\ g.inodes[j].id = fs.inodes[j].id
              /\ g.inodes[j].kind = fs.inodes[j].kind
              /\ g.inodes[j].parent = fs.inodes[j].parent
              /\ g.inodes[j].nlink = fs.inodes[j].nlink
              /\ j # d => g.inodes[j] = fs.inodes[j]
      /\ g.inodes[d].dir = fs.inodes[d].dir \cup {e}
      /\ IDsOf(g) = IDsOf(fs) \cup {n}
      /\ EntriesOf(g) = EntriesOf(fs) \cup {x}
      /\ n \in Nat \ IDsOf(fs) /\ n > RootID
  BY BornFacts
<1>4. /\ \A f \in EntriesOf(fs) : f.obj \in IDsOf(fs)
      /\ \A j \in LiveInodes(fs) : fs.inodes[j].id \in IDsOf(fs) /\ fs.inodes[j].id < n
  <2>1. \A f \in EntriesOf(fs) : f.obj \in IDsOf(fs)
    BY EntryFacts
  <2> QED BY <1>3, <2>1 DEF IDsOf, TreeInv, SlotsOK
<1> HIDE DEF x, n
<1>5. SlotsOK(g)
  <2>1. \A j \in InodeSlots \ LiveInodes(g) : g.inodes[j] = ZeroInode
    BY <1>1, <1>3 DEF Born, TreeInv, SlotsOK
  <2>2. \A j \in LiveInodes(g) : g.inodes[j].id \in 1..(g.nextInodeID - 1)
    <3>1. \A j \in LiveInodes(fs) : fs.inodes[j].id \in 1..(n - 1)
      BY DEF TreeInv, SlotsOK, n
    <3>2. n \in 1..(g.nextInodeID - 1) /\ \A k \in 1..(n - 1) : k \in 1..(g.nextInodeID - 1)
      <4>1. n \in Nat /\ n > RootID /\ g.nextInodeID = n + 1
        BY <1>1, <1>3
      <4> HIDE DEF e
      <4> QED BY <4>1 DEF RootID
    <3> QED BY <1>2, <1>3, <3>1, <3>2
  <2>3. \A j, k \in LiveInodes(g) : g.inodes[j].id = g.inodes[k].id => j = k
    <3>1. \A j, k \in LiveInodes(fs) : fs.inodes[j].id = fs.inodes[k].id => j = k
      BY DEF TreeInv, SlotsOK
    <3> QED BY <1>2, <1>3, <1>4, <3>1
  <2>4. \E r \in LiveInodes(g) : g.inodes[r].id = RootID /\ g.inodes[r].kind = "dir"
    BY <1>3 DEF TreeInv, SlotsOK
  <2> QED BY <2>1, <2>2, <2>3, <2>4 DEF SlotsOK
<1>6. DirsOK(g)
  <2> SUFFICES ASSUME NEW c \in LiveInodes(g)
               PROVE  /\ g.inodes[c].kind # "dir" => g.inodes[c].dir = {}
                      /\ GoodDir(g.inodes[c].dir, IDsOf(g))
    BY DEF DirsOK
  <2>1. CASE c = i
    <3>1. IsFiniteSet({}) /\ Cardinality({}) = 0
      BY FS_EmptySet
    <3>2. GoodDir({}, IDsOf(g))
      BY <3>1, InodesAssumption DEF GoodDir
    <3> QED BY <1>2, <2>1, <3>2
  <2>2. CASE c = d
    <3>1. GoodDir(fs.inodes[d].dir, IDsOf(fs)) /\ IDsOf(fs) \subseteq IDsOf(g)
      BY <1>1, <1>3 DEF TreeInv, DirsOK
    <3>2. e.name = name /\ e.inodeID = n /\ n \in IDsOf(g) \ {RootID}
      BY <1>3 DEF RootID
    <3>3. \A u \in fs.inodes[d].dir : u.name # name
      BY <1>1 DEF EntriesNamed
    <3> HIDE DEF e
    <3>4. GoodDir(fs.inodes[d].dir \cup {e}, IDsOf(g))
      BY <1>1, <3>1, <3>2, <3>3, DirGrows
    <3> QED BY <1>1, <1>3, <2>2, <3>4
  <2>3. CASE c \in LiveInodes(fs) \ {d}
    <3>1. g.inodes[c] = fs.inodes[c]
      BY <1>3, <2>3
    <3>2. GoodDir(fs.inodes[c].dir, IDsOf(fs)) /\ IDsOf(fs) \subseteq IDsOf(g)
          /\ (fs.inodes[c].kind # "dir" => fs.inodes[c].dir = {})
      BY <1>3, <2>3 DEF TreeInv, DirsOK
    <3> QED BY <3>1, <3>2 DEF GoodDir
  <2> QED BY <1>3, <2>1, <2>2, <2>3
<1>7. x.obj = n /\ x.dir = fs.inodes[d].id
  BY DEF x
<1>8. CountsOK(g)
  <2>1. IsFiniteSet(EntriesOf(g))
    <3>1. IsFiniteSet(EntriesOf(fs))
      BY DEF TreeInv, CountsOK
    <3> QED BY <1>3, <3>1, FS_AddElement
  <2>2. NamesOf(g, n) = {x}
    BY <1>3, <1>4, <1>7 DEF NamesOf
  <2>3. \A j \in LiveInodes(fs) : NamesOf(g, fs.inodes[j].id) = NamesOf(fs, fs.inodes[j].id)
    BY <1>3, <1>4, <1>7 DEF NamesOf
  <2> SUFFICES ASSUME NEW j \in LiveInodes(g)
               PROVE  /\ g.inodes[j].nlink = Cardinality(NamesOf(g, g.inodes[j].id))
                             + (IF g.inodes[j].id = RootID THEN 1 ELSE 0)
                      /\ g.inodes[j].nlink > 0
    BY <2>1 DEF CountsOK
  <2>4. CASE j = i
    <3>1. Cardinality({x}) = 1
      BY FS_Singleton
    <3>2. n # RootID
      BY <1>3 DEF RootID
    <3> QED BY <1>2, <2>2, <2>4, <3>1, <3>2
  <2>5. CASE j \in LiveInodes(fs)
    <3>1. /\ fs.inodes[j].nlink = Cardinality(NamesOf(fs, fs.inodes[j].id))
                             + (IF fs.inodes[j].id = RootID THEN 1 ELSE 0)
          /\ fs.inodes[j].nlink > 0
      BY <2>5 DEF TreeInv, CountsOK
    <3> QED BY <1>3, <2>3, <2>5, <3>1
  <2> QED BY <1>3, <2>4, <2>5
<1>9. ParentsOK(g)
  <2> SUFFICES ASSUME NEW j \in LiveInodes(g), g.inodes[j].kind = "dir"
               PROVE  IF g.inodes[j].id = RootID
                      THEN g.inodes[j].parent = RootID
                      ELSE Directory(g.inodes[j], EntriesOf(g))
    BY DEF ParentsOK
  <2>1. CASE j = i
    <3>1. x \in EntriesOf(g) /\ \A f \in EntriesOf(g) : f.obj = n => f = x
      BY <1>3, <1>4
    <3>2. fs.inodes[d].id < n
      BY <1>1, <1>4
    <3>3. Directory(g.inodes[i], EntriesOf(g))
      BY <1>2, <1>7, <3>1, <3>2 DEF Directory
    <3> QED BY <1>2, <1>3, <2>1, <3>3 DEF RootID
  <2>2. CASE j \in LiveInodes(fs)
    <3>1. IF fs.inodes[j].id = RootID
                      THEN fs.inodes[j].parent = RootID
                      ELSE Directory(fs.inodes[j], EntriesOf(fs))
      BY <1>3, <2>2 DEF TreeInv, ParentsOK
    <3> QED BY <1>3, <1>4, <1>7, <2>2, <3>1 DEF Directory
  <2> QED BY <1>3, <2>1, <2>2
<1> QED BY <1>1, <1>5, <1>6, <1>8, <1>9 DEF TreeInv

(* Without a birth the tree is the same. *)
LEMMA SameInodes ==
  ASSUME NEW fs, NEW g, g.inodes = fs.inodes
  PROVE  /\ LiveInodes(g) = LiveInodes(fs) /\ EntriesOf(g) = EntriesOf(fs)
         /\ IDsOf(g) = IDsOf(fs)
<1>1. LiveInodes(g) = LiveInodes(fs)
  BY DEF LiveInodes
<1>2. \A d : EntriesIn(g, d) = EntriesIn(fs, d)
  BY DEF EntriesIn, EntryOf
<1>3. EntriesOf(g) = EntriesOf(fs)
  BY <1>1, <1>2 DEF EntriesOf
<1>4. IDsOf(g) = IDsOf(fs)
  BY <1>1 DEF IDsOf
<1> QED BY <1>1, <1>3, <1>4

LEMMA NotBornKeeps ==
  ASSUME NEW fs, NEW g, TreeInv(fs), NotBorn(fs, g)
  PROVE  TreeInv(g)
<1>1. g \in FSType /\ g.inodes = fs.inodes
      /\ g.nextInodeID \in {fs.nextInodeID, fs.nextInodeID + 1}
  BY DEF NotBorn
<1>2. /\ LiveInodes(g) = LiveInodes(fs) /\ EntriesOf(g) = EntriesOf(fs)
      /\ IDsOf(g) = IDsOf(fs)
  BY <1>1, SameInodes
<1>3. SlotsOK(g)
  <2>1. \A i \in LiveInodes(g) : g.inodes[i].id \in 1..(g.nextInodeID - 1)
    <3>1. \A i \in LiveInodes(fs) : fs.inodes[i].id \in 1..(fs.nextInodeID - 1)
      BY DEF TreeInv, SlotsOK
    <3>2. fs.nextInodeID \in Nat
      BY DEF TreeInv, FSType
    <3>3. (1..(fs.nextInodeID - 1)) \subseteq 1..(g.nextInodeID - 1)
      BY <1>1, <3>2
    <3> QED BY <1>1, <1>2, <3>1, <3>3
  <2> QED BY <1>1, <1>2, <2>1 DEF TreeInv, SlotsOK
<1>4. DirsOK(g)
  BY <1>1, <1>2 DEF TreeInv, DirsOK
<1>5. CountsOK(g)
  BY <1>1, <1>2 DEF TreeInv, CountsOK, NamesOf
<1>6. ParentsOK(g)
  BY <1>1, <1>2 DEF TreeInv, ParentsOK
<1> QED BY <1>1, <1>3, <1>4, <1>5, <1>6 DEF TreeInv

LEMMA PathTyped ==
  \A path \in OpenPaths \cup NamePaths : path \in Seq(PathNames)
<1> SUFFICES ASSUME NEW path \in OpenPaths \cup NamePaths
             PROVE  path \in Seq(PathNames)
  OBVIOUS
<1> DEFINE S == Range(path)
<1>1. path \in Seq(STRING)
  BY FileSystemAssumption
<1>2. path \in Seq(S)
  <2>1. \A k \in 1..Len(path) : path[k] \in S
    BY <1>1 DEF Range
  <2> HIDE DEF S
  <2> QED BY <1>1, <2>1
<1>3. S \subseteq PathNames
  BY DEF PathNames
<1> HIDE DEF S
<1>4. \A k \in 1..Len(path) : path[k] \in PathNames
  BY <1>2, <1>3
<1> QED BY <1>2, <1>4

(* The directory a path is resolved to is one, and the last part a name.   *)
LEMMA ParentFound ==
  ASSUME NEW fs, NEW cwd, NEW path \in Seq(PathNames)
  PROVE  LET r == fsResolveParent(fs, cwd, path)
         IN  /\ r.dir \in LiveInodes(fs) \cup {NoInode}
             /\ r.dir # NoInode => fs.inodes[r.dir].kind = "dir" /\ r.name \in PathNames
<1> DEFINE parts == fsSplitPath(path)
           dir == fsLookupByPath(fs, cwd, ParentPath(path, parts))
<1>1. parts \in Seq(PathNames)
  BY SplitType
<1> HIDE DEF parts
<1>2. parts # <<>> => Last(parts) \in PathNames
  BY <1>1 DEF Last
<1> HIDE DEF dir
<1>3. fsResolveParent(fs, cwd, path) =
        IF parts = <<>> THEN [dir |-> NoInode, name |-> NoName]
        ELSE IF dir \notin LiveInodes(fs) \/ fs.inodes[dir].kind # "dir"
        THEN [dir |-> NoInode, name |-> NoName]
        ELSE [dir |-> dir, name |-> Last(parts)]
  BY DEF fsResolveParent, parts, dir, NoName
<1>4. CASE parts # <<>> /\ dir \in LiveInodes(fs) /\ fs.inodes[dir].kind = "dir"
  <2>1. fsResolveParent(fs, cwd, path) = [dir |-> dir, name |-> Last(parts)]
    BY <1>3, <1>4
  <2> QED BY <1>2, <1>4, <2>1
<1>5. CASE ~(parts # <<>> /\ dir \in LiveInodes(fs) /\ fs.inodes[dir].kind = "dir")
  <2>1. fsResolveParent(fs, cwd, path) = [dir |-> NoInode, name |-> NoName]
    BY <1>3, <1>5
  <2> QED BY <2>1
<1> QED BY <1>4, <1>5

-----------------------------------------------------------------------------
(***************************************************************************)
(* Links.                                                                  *)
(***************************************************************************)

(* A second name in directory d for inode i. *)
Linked(fs, g, i, d, name) ==
  /\ i \in LiveInodes(fs) /\ fs.inodes[i].kind # "dir"
  /\ d \in LiveInodes(fs) /\ fs.inodes[d].kind = "dir"
  /\ name # NoName /\ EntriesNamed(fs, d, name) = {}
  /\ Cardinality(fs.inodes[d].dir) < MaxDirEntries
  /\ g \in FSType /\ g.nextInodeID = fs.nextInodeID
  /\ g.inodes[i] = [fs.inodes[i] EXCEPT !.nlink = @ + 1]
  /\ g.inodes[d] = [fs.inodes[d] EXCEPT
                      !.dir = @ \cup {[name |-> name, inodeID |-> fs.inodes[i].id]}]
  /\ \A j \in InodeSlots \ {i, d} : g.inodes[j] = fs.inodes[j]

LEMMA LinkedFacts ==
  ASSUME NEW fs, NEW g, NEW i, NEW d, NEW name,
         TreeInv(fs), Linked(fs, g, i, d, name)
  PROVE  /\ LiveInodes(g) = LiveInodes(fs) /\ i # d
         /\ \A j \in LiveInodes(fs) :
              /\ g.inodes[j].id = fs.inodes[j].id
              /\ g.inodes[j].kind = fs.inodes[j].kind
              /\ g.inodes[j].parent = fs.inodes[j].parent
              /\ g.inodes[j].data = fs.inodes[j].data
              /\ g.inodes[j].nlink = fs.inodes[j].nlink + (IF j = i THEN 1 ELSE 0)
              /\ j # d => g.inodes[j].dir = fs.inodes[j].dir
         /\ g.inodes[d].dir = fs.inodes[d].dir
                                \cup {[name |-> name, inodeID |-> fs.inodes[i].id]}
         /\ IDsOf(g) = IDsOf(fs)
         /\ EntriesOf(g) = EntriesOf(fs) \cup
              {[dir |-> fs.inodes[d].id, name |-> name, obj |-> fs.inodes[i].id]}
         /\ fs.inodes[i].id # RootID
<1> DEFINE e == [name |-> name, inodeID |-> fs.inodes[i].id]
<1>1. /\ i \in LiveInodes(fs) /\ i \in InodeSlots /\ fs.inodes[i] \in Inode
      /\ d \in LiveInodes(fs) /\ d \in InodeSlots /\ fs.inodes[d] \in Inode
      /\ fs.inodes[i].kind # "dir" /\ fs.inodes[d].kind = "dir" /\ i # d
  BY LiveType DEF Linked, TreeInv
<1>2. /\ g.inodes[i] = [fs.inodes[i] EXCEPT !.nlink = @ + 1]
      /\ g.inodes[d] = [fs.inodes[d] EXCEPT !.dir = @ \cup {e}]
      /\ \A j \in InodeSlots \ {i, d} : g.inodes[j] = fs.inodes[j]
  BY DEF Linked
<1>3. /\ g.inodes[d].id = fs.inodes[d].id /\ g.inodes[d].kind = fs.inodes[d].kind
      /\ g.inodes[d].parent = fs.inodes[d].parent
      /\ g.inodes[d].nlink = fs.inodes[d].nlink /\ fs.inodes[d].nlink \in Nat
      /\ g.inodes[d].data = fs.inodes[d].data
      /\ g.inodes[d].dir = fs.inodes[d].dir \cup {e}
  BY <1>1, <1>2 DEF Inode
<1> HIDE DEF e
<1>4. /\ g.inodes[i].id = fs.inodes[i].id /\ g.inodes[i].kind = fs.inodes[i].kind
      /\ g.inodes[i].parent = fs.inodes[i].parent
      /\ g.inodes[i].nlink = fs.inodes[i].nlink + 1
      /\ g.inodes[i].data = fs.inodes[i].data
      /\ g.inodes[i].dir = fs.inodes[i].dir
  BY <1>1, <1>2 DEF Inode
<1>5. LiveInodes(g) = LiveInodes(fs)
  BY <1>1, <1>2, <1>3, <1>4 DEF LiveInodes
<1>6. ASSUME NEW j \in LiveInodes(fs)
      PROVE   /\ g.inodes[j].id = fs.inodes[j].id
              /\ g.inodes[j].kind = fs.inodes[j].kind
              /\ g.inodes[j].parent = fs.inodes[j].parent
              /\ g.inodes[j].data = fs.inodes[j].data
              /\ g.inodes[j].nlink = fs.inodes[j].nlink + (IF j = i THEN 1 ELSE 0)
              /\ j # d => g.inodes[j].dir = fs.inodes[j].dir
  <2>1. j \in InodeSlots /\ fs.inodes[j].nlink \in Nat
    BY LiveType DEF TreeInv, Inode
  <2>2. CASE j = i
    BY <1>1, <1>4, <2>2
  <2>3. CASE j = d
    BY <1>1, <1>3, <2>3
  <2>4. CASE j \notin {i, d}
    <3>1. g.inodes[j] = fs.inodes[j]
      BY <1>2, <2>1, <2>4
    <3> QED BY <2>1, <2>4, <3>1
  <2> QED BY <2>2, <2>3, <2>4
<1>7. IDsOf(g) = IDsOf(fs)
  BY <1>5, <1>6 DEF IDsOf
<1>8. EntriesOf(g) = EntriesOf(fs) \cup {EntryOf(fs, d, e)}
  <2>1. AddsEntry(fs, g, d, e)
    BY <1>1, <1>3, <1>5, <1>6 DEF AddsEntry
  <2> QED BY <2>1, EntryAdded
<1>9. EntryOf(fs, d, e) = [dir |-> fs.inodes[d].id, name |-> name, obj |-> fs.inodes[i].id]
  BY DEF EntryOf, e
<1>10. fs.inodes[i].id # RootID
  BY <1>1 DEF TreeInv, SlotsOK
<1>11. g.inodes[d].dir = fs.inodes[d].dir
                                \cup {[name |-> name, inodeID |-> fs.inodes[i].id]}
  BY <1>3 DEF e
<1> QED BY <1>1, <1>5, <1>6, <1>7, <1>8, <1>9, <1>10, <1>11

LEMMA LinkedKeeps ==
  ASSUME NEW fs, NEW g, NEW i, NEW d, NEW name,
         TreeInv(fs), Linked(fs, g, i, d, name)
  PROVE  TreeInv(g)
<1> DEFINE n == fs.inodes[i].id
           x == [dir |-> fs.inodes[d].id, name |-> name, obj |-> n]
           e == [name |-> name, inodeID |-> n]
<1>1. /\ i \in LiveInodes(fs) /\ d \in LiveInodes(fs)
      /\ fs.inodes[i].kind # "dir" /\ fs.inodes[d].kind = "dir" /\ name # NoName
      /\ EntriesNamed(fs, d, name) = {} /\ g \in FSType
      /\ g.nextInodeID = fs.nextInodeID
      /\ Cardinality(fs.inodes[d].dir) < MaxDirEntries
      /\ \A j \in InodeSlots \ {i, d} : g.inodes[j] = fs.inodes[j]
  BY DEF Linked
<1>2. /\ LiveInodes(g) = LiveInodes(fs)
      /\ \A j \in LiveInodes(fs) :
              /\ g.inodes[j].id = fs.inodes[j].id
              /\ g.inodes[j].kind = fs.inodes[j].kind
              /\ g.inodes[j].parent = fs.inodes[j].parent
              /\ g.inodes[j].nlink = fs.inodes[j].nlink + (IF j = i THEN 1 ELSE 0)
              /\ j # d => g.inodes[j].dir = fs.inodes[j].dir
      /\ g.inodes[d].dir = fs.inodes[d].dir \cup {e}
      /\ IDsOf(g) = IDsOf(fs)
      /\ EntriesOf(g) = EntriesOf(fs) \cup {x}
      /\ n # RootID
  BY LinkedFacts
<1>3. x.obj = n /\ x.dir = fs.inodes[d].id /\ x.name = name
  OBVIOUS
<1>4. e.name = name /\ e.inodeID = n
  OBVIOUS
<1> HIDE DEF x, e
<1>5. n \in IDsOf(fs)
  BY <1>1 DEF IDsOf
<1>6. x \notin EntriesOf(fs)
  <2> SUFFICES ASSUME x \in EntriesOf(fs) PROVE FALSE
    OBVIOUS
  <2>1. PICK c \in LiveInodes(fs) : x \in EntriesIn(fs, c)
    BY DEF EntriesOf
  <2>2. PICK u \in fs.inodes[c].dir : x = EntryOf(fs, c, u)
    BY <2>1 DEF EntriesIn
  <2>3. fs.inodes[c].id = fs.inodes[d].id /\ u.name = name
    BY <1>3, <2>2 DEF EntryOf
  <2>4. c = d
    BY <1>1, <2>3 DEF TreeInv, SlotsOK
  <2> QED BY <1>1, <2>3, <2>4 DEF EntriesNamed
<1>7. SlotsOK(g)
  <2>1. \A j \in InodeSlots \ LiveInodes(g) : g.inodes[j] = ZeroInode
    BY <1>1, <1>2 DEF TreeInv, SlotsOK
  <2> QED BY <1>1, <1>2, <2>1 DEF TreeInv, SlotsOK
<1>8. DirsOK(g)
  <2> SUFFICES ASSUME NEW c \in LiveInodes(g)
               PROVE  /\ g.inodes[c].kind # "dir" => g.inodes[c].dir = {}
                      /\ GoodDir(g.inodes[c].dir, IDsOf(g))
    BY DEF DirsOK
  <2>1. CASE c = d
    <3>1. GoodDir(fs.inodes[d].dir, IDsOf(fs))
      BY <1>1 DEF TreeInv, DirsOK
    <3>2. \A u \in fs.inodes[d].dir : u.name # name
      BY <1>1 DEF EntriesNamed
    <3>3. GoodDir(fs.inodes[d].dir \cup {e}, IDsOf(fs))
      <4>1. /\ Cardinality(fs.inodes[d].dir) < MaxDirEntries
            /\ e.name # NoName /\ e.inodeID \in IDsOf(fs) \ {RootID}
            /\ \A u \in fs.inodes[d].dir : u.name # e.name
        BY <1>1, <1>2, <1>4, <1>5, <3>2
      <4> QED BY <3>1, <4>1, DirGrows
    <3> QED BY <1>1, <1>2, <2>1, <3>3
  <2>2. CASE c # d
    BY <1>2, <2>2 DEF TreeInv, DirsOK
  <2> QED BY <2>1, <2>2
<1>9. CountsOK(g)
  <2>1. IsFiniteSet(EntriesOf(fs))
    BY DEF TreeInv, CountsOK
  <2>2. IsFiniteSet(EntriesOf(g))
    BY <1>2, <2>1, FS_AddElement
  <2>3. NamesOf(g, n) = NamesOf(fs, n) \cup {x}
    BY <1>2, <1>3 DEF NamesOf
  <2>4. x \notin NamesOf(fs, n) /\ NamesOf(fs, n) \subseteq EntriesOf(fs)
    BY <1>6 DEF NamesOf
  <2>5. Cardinality(NamesOf(g, n)) = Cardinality(NamesOf(fs, n)) + 1
        /\ Cardinality(NamesOf(fs, n)) \in Nat
    <3>1. IsFiniteSet(NamesOf(fs, n))
      BY <2>1, <2>4, FS_Subset
    <3> QED BY <2>3, <2>4, <3>1, FS_AddElement, FS_CardinalityType
  <2>6. \A j \in LiveInodes(fs) \ {i} : fs.inodes[j].id # n
    BY <1>1 DEF TreeInv, SlotsOK
  <2>7. \A j \in LiveInodes(fs) \ {i} :
          NamesOf(g, fs.inodes[j].id) = NamesOf(fs, fs.inodes[j].id)
    BY <1>2, <1>3, <2>6 DEF NamesOf
  <2> SUFFICES ASSUME NEW j \in LiveInodes(g)
               PROVE  /\ g.inodes[j].nlink = Cardinality(NamesOf(g, g.inodes[j].id))
                             + (IF g.inodes[j].id = RootID THEN 1 ELSE 0)
                      /\ g.inodes[j].nlink > 0
    BY <2>2 DEF CountsOK
  <2>8. /\ fs.inodes[j].nlink = Cardinality(NamesOf(fs, fs.inodes[j].id))
                             + (IF fs.inodes[j].id = RootID THEN 1 ELSE 0)
        /\ fs.inodes[j].nlink > 0 /\ fs.inodes[j].nlink \in Nat
    BY <1>2, LiveType DEF TreeInv, CountsOK, Inode
  <2>9. CASE j = i
    <3>1. g.inodes[i].nlink = fs.inodes[i].nlink + 1 /\ g.inodes[i].id = n
      BY <1>1, <1>2
    <3> QED BY <1>2, <2>5, <2>8, <2>9, <3>1
  <2>10. CASE j # i
    <3>1. g.inodes[j].nlink = fs.inodes[j].nlink + 0 /\ g.inodes[j].id = fs.inodes[j].id
      BY <1>2, <2>10
    <3>2. NamesOf(g, fs.inodes[j].id) = NamesOf(fs, fs.inodes[j].id)
      BY <1>2, <2>7, <2>10
    <3>3. g.inodes[j].nlink = fs.inodes[j].nlink
      BY <2>8, <3>1
    <3> QED BY <2>8, <3>1, <3>2, <3>3
  <2> QED BY <2>9, <2>10
<1>10. ParentsOK(g)
  <2> SUFFICES ASSUME NEW j \in LiveInodes(g), g.inodes[j].kind = "dir"
               PROVE  IF g.inodes[j].id = RootID
                      THEN g.inodes[j].parent = RootID
                      ELSE Directory(g.inodes[j], EntriesOf(g))
    BY DEF ParentsOK
  <2>1. IF fs.inodes[j].id = RootID
                      THEN fs.inodes[j].parent = RootID
                      ELSE Directory(fs.inodes[j], EntriesOf(fs))
    BY <1>2 DEF TreeInv, ParentsOK
  <2>2. j # i /\ fs.inodes[j].id # n
    BY <1>1, <1>2 DEF TreeInv, SlotsOK
  <2> QED BY <1>2, <1>3, <2>1, <2>2 DEF Directory
<1> QED BY <1>1, <1>7, <1>8, <1>9, <1>10 DEF TreeInv

-----------------------------------------------------------------------------
(***************************************************************************)
(* Unlinks.                                                                *)
(***************************************************************************)

(* Entry e of directory d, a name of inode i, is removed, and the inode    *)
(* with its last name.                                                     *)
Unlinked(fs, g, i, d, e) ==
  /\ d \in LiveInodes(fs) /\ fs.inodes[d].kind = "dir" /\ e \in fs.inodes[d].dir
  /\ i \in LiveInodes(fs) /\ fs.inodes[i].id = e.inodeID /\ i # d
  /\ fs.inodes[i].kind = "dir" => fs.inodes[i].dir = {}
  /\ g \in FSType /\ g.nextInodeID = fs.nextInodeID
  /\ g.inodes[i] = IF fs.inodes[i].nlink - 1 <= 0 THEN ZeroInode
                   ELSE [fs.inodes[i] EXCEPT !.nlink = @ - 1]
  /\ g.inodes[d] = [fs.inodes[d] EXCEPT !.dir = @ \ {e}]
  /\ \A j \in InodeSlots \ {i, d} : g.inodes[j] = fs.inodes[j]

LEMMA UnlinkedFacts ==
  ASSUME NEW fs, NEW g, NEW i, NEW d, NEW e, TreeInv(fs), Unlinked(fs, g, i, d, e)
  PROVE  LET x == EntryOf(fs, d, e)
             n == fs.inodes[i].id
         IN  /\ x \in EntriesOf(fs) /\ x.obj = n /\ n # RootID
             /\ EntriesOf(g) = EntriesOf(fs) \ {x}
             /\ LiveInodes(g) = LiveInodes(fs) \ (IF fs.inodes[i].nlink = 1 THEN {i} ELSE {})
             /\ \A j \in LiveInodes(g) :
                  /\ g.inodes[j].id = fs.inodes[j].id
                  /\ g.inodes[j].kind = fs.inodes[j].kind
                  /\ g.inodes[j].parent = fs.inodes[j].parent
                  /\ g.inodes[j].data = fs.inodes[j].data
                  /\ j = i => g.inodes[j].nlink = fs.inodes[j].nlink - 1
                  /\ j # i => g.inodes[j].nlink = fs.inodes[j].nlink
                  /\ j # d => g.inodes[j].dir = fs.inodes[j].dir
             /\ g.inodes[d].dir = fs.inodes[d].dir \ {e}
             /\ fs.inodes[i].nlink \in Nat \ {0}
<1> DEFINE n == fs.inodes[i].id
           x == EntryOf(fs, d, e)
<1>1. /\ i \in LiveInodes(fs) /\ i \in InodeSlots /\ fs.inodes[i] \in Inode
      /\ d \in LiveInodes(fs) /\ d \in InodeSlots /\ fs.inodes[d] \in Inode
      /\ fs.inodes[d].kind = "dir" /\ i # d /\ n = e.inodeID
      /\ e \in fs.inodes[d].dir
  BY LiveType DEF Unlinked, TreeInv
<1>2. /\ g.inodes[i] = IF fs.inodes[i].nlink - 1 <= 0 THEN ZeroInode
                       ELSE [fs.inodes[i] EXCEPT !.nlink = @ - 1]
      /\ g.inodes[d] = [fs.inodes[d] EXCEPT !.dir = @ \ {e}]
      /\ \A j \in InodeSlots \ {i, d} : g.inodes[j] = fs.inodes[j]
  BY DEF Unlinked
<1>3. fs.inodes[i].nlink \in Nat \ {0}
  BY <1>1 DEF Inode, TreeInv, CountsOK
<1>4. /\ g.inodes[d].id = fs.inodes[d].id /\ g.inodes[d].kind = fs.inodes[d].kind
      /\ g.inodes[d].parent = fs.inodes[d].parent
      /\ g.inodes[d].nlink = fs.inodes[d].nlink
      /\ g.inodes[d].data = fs.inodes[d].data
      /\ g.inodes[d].dir = fs.inodes[d].dir \ {e}
  BY <1>1, <1>2 DEF Inode
<1>5. fs.inodes[i].nlink # 1 =>
        /\ g.inodes[i].id = fs.inodes[i].id /\ g.inodes[i].kind = fs.inodes[i].kind
        /\ g.inodes[i].parent = fs.inodes[i].parent
        /\ g.inodes[i].nlink = fs.inodes[i].nlink - 1
        /\ g.inodes[i].data = fs.inodes[i].data
        /\ g.inodes[i].dir = fs.inodes[i].dir
  <2> SUFFICES ASSUME fs.inodes[i].nlink # 1
               PROVE  g.inodes[i] = [fs.inodes[i] EXCEPT !.nlink = @ - 1]
    BY <1>1 DEF Inode
  <2> QED BY <1>2, <1>3
<1>6. fs.inodes[i].nlink = 1 => g.inodes[i].kind = "none"
  BY <1>2 DEF ZeroInode
<1>7. LiveInodes(g) = LiveInodes(fs) \ (IF fs.inodes[i].nlink = 1 THEN {i} ELSE {})
  <2>1. \A j \in InodeSlots \ {i} : g.inodes[j].kind = fs.inodes[j].kind
    BY <1>2, <1>4
  <2>2. fs.inodes[i].kind # "none"
    BY <1>1 DEF LiveInodes
  <2> QED BY <1>1, <1>5, <1>6, <2>1, <2>2 DEF LiveInodes
<1>8. ASSUME NEW j \in LiveInodes(g)
      PROVE /\ g.inodes[j].id = fs.inodes[j].id
            /\ g.inodes[j].kind = fs.inodes[j].kind
            /\ g.inodes[j].parent = fs.inodes[j].parent
            /\ g.inodes[j].data = fs.inodes[j].data
            /\ j = i => g.inodes[j].nlink = fs.inodes[j].nlink - 1
            /\ j # i => g.inodes[j].nlink = fs.inodes[j].nlink
            /\ j # d => g.inodes[j].dir = fs.inodes[j].dir
  <2>1. CASE j = i
    BY <1>1, <1>5, <1>7, <2>1
  <2>2. CASE j = d
    BY <1>1, <1>4, <2>2
  <2>3. CASE j \notin {i, d}
    <3>1. g.inodes[j] = fs.inodes[j]
      BY <1>2, <2>3 DEF LiveInodes
    <3> QED BY <2>3, <3>1
  <2> QED BY <2>1, <2>2, <2>3
<1>9. x.obj = n /\ x.dir = fs.inodes[d].id /\ x.name = e.name /\ x \in EntriesOf(fs)
  <2>1. x.obj = n /\ x.dir = fs.inodes[d].id /\ x.name = e.name
    BY <1>1 DEF EntryOf
  <2>2. x \in EntriesIn(fs, d)
    BY <1>1 DEF EntriesIn
  <2> QED BY <1>1, <2>1, <2>2 DEF EntriesOf
<1>10. n # RootID
  <2>1. x.obj # RootID
    BY <1>9, EntryFacts
  <2> QED BY <1>9, <2>1
<1>11. AddsEntry(g, fs, d, e)
  <2>1. fs.inodes[i].dir = {}
        \/ fs.inodes[i].nlink # 1
    BY <1>1 DEF Unlinked, TreeInv, DirsOK
  <2>2. d \in LiveInodes(g) /\ LiveInodes(g) \subseteq LiveInodes(fs)
    BY <1>1, <1>7
  <2>3. fs.inodes[d].dir = g.inodes[d].dir \cup {e}
    BY <1>1, <1>4
  <2>4. \A j \in LiveInodes(fs) \ LiveInodes(g) : fs.inodes[j].dir = {}
    BY <1>7, <2>1
  <2> QED BY <1>8, <2>2, <2>3, <2>4 DEF AddsEntry
<1>12. EntriesOf(fs) = EntriesOf(g) \cup {x}
  <2>1. EntryOf(g, d, e) = x
    BY <1>4 DEF EntryOf
  <2> QED BY <1>11, <2>1, EntryAdded
<1>13. x \notin EntriesOf(g)
  <2> SUFFICES ASSUME x \in EntriesOf(g) PROVE FALSE
    OBVIOUS
  <2>1. PICK c \in LiveInodes(g) : x \in EntriesIn(g, c)
    BY DEF EntriesOf
  <2>2. PICK u \in g.inodes[c].dir : x = EntryOf(g, c, u)
    BY <2>1 DEF EntriesIn
  <2>3. g.inodes[c].id = fs.inodes[d].id /\ u.name = e.name
    BY <1>9, <2>2 DEF EntryOf
  <2>4. c \in LiveInodes(fs) /\ fs.inodes[c].id = fs.inodes[d].id
    BY <1>7, <1>8, <2>3
  <2>5. c = d
    BY <1>1, <2>4 DEF TreeInv, SlotsOK
  <2>6. u \in fs.inodes[d].dir /\ u # e
    BY <1>4, <2>5
  <2> QED BY <1>1, <2>3, <2>6 DEF TreeInv, DirsOK, GoodDir
<1>14. EntriesOf(g) = EntriesOf(fs) \ {x}
  BY <1>12, <1>13
<1> QED BY <1>3, <1>4, <1>7, <1>8, <1>9, <1>10, <1>14

LEMMA UnlinkedKeeps ==
  ASSUME NEW fs, NEW g, NEW i, NEW d, NEW e, TreeInv(fs), Unlinked(fs, g, i, d, e)
  PROVE  /\ TreeInv(g)
         /\ fs.inodes[i].nlink = 1 <=> NamesOf(fs, fs.inodes[i].id) = {EntryOf(fs, d, e)}
<1> DEFINE n == fs.inodes[i].id
           x == EntryOf(fs, d, e)
           gone == IF fs.inodes[i].nlink = 1 THEN {i} ELSE {}
<1>1. /\ i \in LiveInodes(fs) /\ d \in LiveInodes(fs) /\ fs.inodes[d].kind = "dir"
      /\ i # d /\ e \in fs.inodes[d].dir
      /\ g \in FSType /\ g.nextInodeID = fs.nextInodeID
      /\ \A j \in InodeSlots \ {i, d} : g.inodes[j] = fs.inodes[j]
      /\ g.inodes[i] = IF fs.inodes[i].nlink - 1 <= 0 THEN ZeroInode
                       ELSE [fs.inodes[i] EXCEPT !.nlink = @ - 1]
  BY DEF Unlinked
<1>2. /\ x \in EntriesOf(fs) /\ x.obj = n /\ n # RootID
      /\ EntriesOf(g) = EntriesOf(fs) \ {x}
      /\ LiveInodes(g) = LiveInodes(fs) \ gone
      /\ \A j \in LiveInodes(g) :
                  /\ g.inodes[j].id = fs.inodes[j].id
                  /\ g.inodes[j].kind = fs.inodes[j].kind
                  /\ g.inodes[j].parent = fs.inodes[j].parent
                  /\ g.inodes[j].data = fs.inodes[j].data
                  /\ j = i => g.inodes[j].nlink = fs.inodes[j].nlink - 1
                  /\ j # i => g.inodes[j].nlink = fs.inodes[j].nlink
                  /\ j # d => g.inodes[j].dir = fs.inodes[j].dir
      /\ g.inodes[d].dir = fs.inodes[d].dir \ {e}
      /\ fs.inodes[i].nlink \in Nat \ {0}
  BY UnlinkedFacts
<1> HIDE DEF x
<1>3. \A j, k \in LiveInodes(fs) : fs.inodes[j].id = fs.inodes[k].id => j = k
  BY DEF TreeInv, SlotsOK
<1>4. /\ IsFiniteSet(NamesOf(fs, n)) /\ Cardinality(NamesOf(fs, n)) = fs.inodes[i].nlink
      /\ x \in NamesOf(fs, n)
  <2>1. IsFiniteSet(EntriesOf(fs)) /\ NamesOf(fs, n) \subseteq EntriesOf(fs)
    BY DEF TreeInv, CountsOK, NamesOf
  <2>2. IsFiniteSet(NamesOf(fs, n))
    BY <2>1, FS_Subset
  <2>3. Cardinality(NamesOf(fs, n)) \in Nat
    BY <2>2, FS_CardinalityType
  <2>4. fs.inodes[i].nlink = Cardinality(NamesOf(fs, n)) + (IF n = RootID THEN 1 ELSE 0)
    BY <1>1 DEF TreeInv, CountsOK
  <2> QED BY <1>2, <2>2, <2>3, <2>4 DEF NamesOf
<1>5. NamesOf(g, n) = NamesOf(fs, n) \ {x}
  BY <1>2 DEF NamesOf
<1>6. Cardinality(NamesOf(g, n)) = fs.inodes[i].nlink - 1 /\ IsFiniteSet(NamesOf(g, n))
  BY <1>4, <1>5, FS_RemoveElement
<1>7. fs.inodes[i].nlink = 1 <=> NamesOf(g, n) = {}
  <2>1. Cardinality(NamesOf(g, n)) = 0 <=> NamesOf(g, n) = {}
    BY <1>6, FS_EmptySet
  <2> QED BY <1>2, <1>6, <2>1
<1>8. fs.inodes[i].nlink = 1 <=> NamesOf(fs, n) = {x}
  BY <1>4, <1>5, <1>7
<1>9. IDsOf(g) = IDsOf(fs) \ {fs.inodes[j].id : j \in gone}
  BY <1>1, <1>2, <1>3 DEF IDsOf
<1>10. SlotsOK(g)
  <2>1. \A j \in InodeSlots \ LiveInodes(g) : g.inodes[j] = ZeroInode
    <3>1. \A j \in InodeSlots \ LiveInodes(fs) : g.inodes[j] = ZeroInode
      BY <1>1 DEF TreeInv, SlotsOK
    <3>2. fs.inodes[i].nlink = 1 => g.inodes[i] = ZeroInode
      BY <1>1
    <3> QED BY <1>2, <3>1, <3>2
  <2>2. \E r \in LiveInodes(g) : g.inodes[r].id = RootID /\ g.inodes[r].kind = "dir"
    <3>1. PICK r \in LiveInodes(fs) : fs.inodes[r].id = RootID /\ fs.inodes[r].kind = "dir"
      BY DEF TreeInv, SlotsOK
    <3>2. r \in LiveInodes(g)
      BY <1>2, <3>1
    <3> QED BY <1>2, <3>1, <3>2
  <2>3. \A j \in LiveInodes(g) : g.inodes[j].id \in 1..(g.nextInodeID - 1)
    <3>1. \A j \in LiveInodes(fs) : fs.inodes[j].id \in 1..(fs.nextInodeID - 1)
      BY DEF TreeInv, SlotsOK
    <3> QED BY <1>1, <1>2, <3>1
  <2>4. \A j, k \in LiveInodes(g) : g.inodes[j].id = g.inodes[k].id => j = k
    BY <1>2, <1>3
  <2> QED BY <2>1, <2>2, <2>3, <2>4 DEF SlotsOK
<1>11. DirsOK(g)
  <2> SUFFICES ASSUME NEW c \in LiveInodes(g)
               PROVE  /\ g.inodes[c].kind # "dir" => g.inodes[c].dir = {}
                      /\ GoodDir(g.inodes[c].dir, IDsOf(g))
    BY DEF DirsOK
  <2>1. c \in LiveInodes(fs) /\ g.inodes[c].dir \subseteq fs.inodes[c].dir
        /\ g.inodes[c].id = fs.inodes[c].id
    BY <1>2
  <2>2. /\ fs.inodes[c].kind # "dir" => fs.inodes[c].dir = {}
        /\ GoodDir(fs.inodes[c].dir, IDsOf(fs))
    BY <2>1 DEF TreeInv, DirsOK
  <2>3. g.inodes[c].kind # "dir" => g.inodes[c].dir = {}
    BY <1>2, <2>1, <2>2
  <2>4. IsFiniteSet(g.inodes[c].dir) /\ Cardinality(g.inodes[c].dir) <= MaxDirEntries
    <3>1. IsFiniteSet(fs.inodes[c].dir) /\ Cardinality(fs.inodes[c].dir) <= MaxDirEntries
      BY <2>2 DEF GoodDir
    <3>2. /\ IsFiniteSet(g.inodes[c].dir)
          /\ Cardinality(g.inodes[c].dir) <= Cardinality(fs.inodes[c].dir)
      BY <2>1, <3>1, FS_Subset
    <3>3. Cardinality(g.inodes[c].dir) \in Nat /\ Cardinality(fs.inodes[c].dir) \in Nat
      BY <3>1, <3>2, FS_CardinalityType
    <3> QED BY <3>1, <3>2, <3>3, InodesAssumption
  <2>5. ASSUME NEW u \in g.inodes[c].dir
        PROVE  u.name # NoName /\ u.inodeID \in IDsOf(g) \ {RootID}
    <3>1. u.name # NoName /\ u.inodeID \in IDsOf(fs) \ {RootID}
      BY <2>1, <2>2 DEF GoodDir
    <3>2. EntryOf(g, c, u).obj = u.inodeID
      BY DEF EntryOf
    <3>3. EntryOf(g, c, u) \in EntriesOf(g)
      BY DEF EntriesOf, EntriesIn
    <3>4. fs.inodes[i].nlink = 1 => u.inodeID # n
      BY <1>7, <3>2, <3>3 DEF NamesOf
    <3> QED BY <1>9, <3>1, <3>4
  <2>6. \A u, v \in g.inodes[c].dir : u.name = v.name => u = v
    BY <2>1, <2>2 DEF GoodDir
  <2> QED BY <2>3, <2>4, <2>5, <2>6 DEF GoodDir
<1>12. CountsOK(g)
  <2>1. IsFiniteSet(EntriesOf(g))
    <3>1. IsFiniteSet(EntriesOf(fs)) /\ EntriesOf(g) \subseteq EntriesOf(fs)
      BY <1>2 DEF TreeInv, CountsOK
    <3> QED BY <3>1, FS_Subset
  <2> SUFFICES ASSUME NEW j \in LiveInodes(g)
               PROVE  /\ g.inodes[j].nlink = Cardinality(NamesOf(g, g.inodes[j].id))
                             + (IF g.inodes[j].id = RootID THEN 1 ELSE 0)
                      /\ g.inodes[j].nlink > 0
    BY <2>1 DEF CountsOK
  <2>2. CASE j = i
    <3>1. g.inodes[i].nlink = fs.inodes[i].nlink - 1 /\ g.inodes[i].id = n
          /\ fs.inodes[i].nlink # 1
      BY <1>2, <2>2
    <3> QED BY <1>2, <1>6, <2>2, <3>1
  <2>3. CASE j # i
    <3>1. /\ g.inodes[j].nlink = fs.inodes[j].nlink /\ g.inodes[j].id = fs.inodes[j].id
          /\ j \in LiveInodes(fs)
      BY <1>2, <2>3
    <3>2. fs.inodes[j].id # n
      BY <1>1, <1>3, <2>3, <3>1
    <3>3. NamesOf(g, fs.inodes[j].id) = NamesOf(fs, fs.inodes[j].id)
      BY <1>2, <3>2 DEF NamesOf
    <3> QED BY <3>1, <3>3 DEF TreeInv, CountsOK
  <2> QED BY <2>2, <2>3
<1>13. ParentsOK(g)
  <2> SUFFICES ASSUME NEW j \in LiveInodes(g), g.inodes[j].kind = "dir"
               PROVE  IF g.inodes[j].id = RootID
                      THEN g.inodes[j].parent = RootID
                      ELSE Directory(g.inodes[j], EntriesOf(g))
    BY DEF ParentsOK
  <2>1. /\ j \in LiveInodes(fs) /\ g.inodes[j].id = fs.inodes[j].id
        /\ g.inodes[j].parent = fs.inodes[j].parent /\ fs.inodes[j].kind = "dir"
    BY <1>2
  <2>2. IF fs.inodes[j].id = RootID
                      THEN fs.inodes[j].parent = RootID
                      ELSE Directory(fs.inodes[j], EntriesOf(fs))
    BY <2>1 DEF TreeInv, ParentsOK
  <2>3. CASE fs.inodes[j].id = RootID
    BY <2>1, <2>2, <2>3
  <2>4. CASE fs.inodes[j].id # RootID
    <3>1. PICK f \in EntriesOf(fs) :
             /\ f.obj = fs.inodes[j].id /\ f.dir = fs.inodes[j].parent
             /\ fs.inodes[j].parent < fs.inodes[j].id
             /\ \A h \in EntriesOf(fs) : h.obj = fs.inodes[j].id => h = f
      BY <2>2, <2>4 DEF Directory
    <3>2. j # i
      <4> SUFFICES ASSUME j = i PROVE FALSE
        OBVIOUS
      <4>1. NamesOf(fs, n) = {x}
        <5>1. \A h \in NamesOf(fs, n) : h = f
          BY <3>1 DEF NamesOf
        <5> QED BY <1>4, <5>1
      <4> QED BY <1>2, <1>8, <4>1
    <3>3. f # x
      BY <1>1, <1>2, <1>3, <2>1, <3>1, <3>2
    <3>4. f \in EntriesOf(g) /\ EntriesOf(g) \subseteq EntriesOf(fs)
      BY <1>2, <3>3
    <3>5. Directory(g.inodes[j], EntriesOf(g))
      BY <2>1, <3>1, <3>4 DEF Directory
    <3> QED BY <2>1, <2>4, <3>5
  <2> QED BY <2>3, <2>4
<1> QED BY <1>1, <1>8, <1>10, <1>11, <1>12, <1>13 DEF TreeInv, x

-----------------------------------------------------------------------------
(***************************************************************************)
(* Writing.                                                                *)
(***************************************************************************)

LEMMA MinOfTwo ==
  ASSUME NEW a \in Nat, NEW b \in Nat
  PROVE  Min({a, b}) \in Nat /\ Min({a, b}) <= a /\ Min({a, b}) <= b
<1>1. {a, b} \in SUBSET Nat /\ {a, b} # {}
  OBVIOUS
<1>2. Min({a, b}) \in {a, b} /\ \A y \in {a, b} : Min({a, b}) <= y
  BY <1>1, LeastNat
<1> QED BY <1>2

LEMMA MaxOfTwo ==
  ASSUME NEW a \in Nat, NEW b \in Nat
  PROVE  Max({a, b}) = IF a >= b THEN a ELSE b
<1> DEFINE m == IF a >= b THEN a ELSE b
<1>1. m \in {a, b} /\ \A y \in {a, b} : m >= y
  OBVIOUS
<1>2. \A x \in {a, b} : (\A y \in {a, b} : x >= y) => x = m
  OBVIOUS
<1> HIDE DEF m
<1>3. Max({a, b}) = m
  BY <1>1, <1>2 DEF Max
<1> QED BY <1>3 DEF m

(* Bytes of file i are written, with the number id: its place in the tree  *)
(* is the same.                                                            *)
Wrote(fs, g, i, id) ==
  /\ i \in LiveInodes(fs) /\ g \in FSType /\ g.nextInodeID = fs.nextInodeID
  /\ \A j \in InodeSlots \ {i} : g.inodes[j] = fs.inodes[j]
  /\ g.inodes[i].id = fs.inodes[i].id /\ g.inodes[i].kind = fs.inodes[i].kind
  /\ g.inodes[i].parent = fs.inodes[i].parent
  /\ g.inodes[i].nlink = fs.inodes[i].nlink /\ g.inodes[i].dir = fs.inodes[i].dir
  /\ \A x \in Positions :
       g.inodes[i].data[x] \in {fs.inodes[i].data[x], <<id, x>>}

LEMMA WroteKeeps ==
  ASSUME NEW fs, NEW g, NEW i, NEW id, TreeInv(fs), Wrote(fs, g, i, id)
  PROVE  /\ TreeInv(g)
         /\ LiveInodes(g) = LiveInodes(fs) /\ EntriesOf(g) = EntriesOf(fs)
         /\ IDsOf(g) = IDsOf(fs)
         /\ \A j \in LiveInodes(fs) :
              g.inodes[j].id = fs.inodes[j].id /\ g.inodes[j].kind = fs.inodes[j].kind
         /\ BytesOK(fs) /\ id = fs.inodes[i].id => BytesOK(g)
<1>1. /\ i \in LiveInodes(fs) /\ i \in InodeSlots /\ g \in FSType
      /\ g.nextInodeID = fs.nextInodeID
      /\ \A j \in InodeSlots \ {i} : g.inodes[j] = fs.inodes[j]
  BY DEF Wrote, LiveInodes
<1>2. \A j \in InodeSlots :
        /\ g.inodes[j].id = fs.inodes[j].id /\ g.inodes[j].kind = fs.inodes[j].kind
        /\ g.inodes[j].parent = fs.inodes[j].parent
        /\ g.inodes[j].nlink = fs.inodes[j].nlink /\ g.inodes[j].dir = fs.inodes[j].dir
  BY DEF Wrote
<1>3. LiveInodes(g) = LiveInodes(fs)
  BY <1>2 DEF LiveInodes
<1>4. LiveInodes(fs) \subseteq InodeSlots
  BY DEF LiveInodes
<1>5. \A d \in LiveInodes(fs) : EntriesIn(g, d) = EntriesIn(fs, d)
  BY <1>2, <1>4 DEF EntriesIn, EntryOf
<1>6. EntriesOf(g) = EntriesOf(fs)
  BY <1>3, <1>5 DEF EntriesOf
<1>7. IDsOf(g) = IDsOf(fs)
  BY <1>2, <1>3, <1>4 DEF IDsOf
<1>8. SlotsOK(g)
  <2>1. \A j \in InodeSlots \ LiveInodes(g) : g.inodes[j] = ZeroInode
    BY <1>1, <1>3 DEF TreeInv, SlotsOK
  <2> QED BY <1>1, <1>2, <1>3, <1>4, <2>1 DEF TreeInv, SlotsOK
<1>9. DirsOK(g)
  BY <1>2, <1>3, <1>4, <1>7 DEF TreeInv, DirsOK
<1>10. CountsOK(g)
  <2>1. \A x : NamesOf(g, x) = NamesOf(fs, x)
    BY <1>6 DEF NamesOf
  <2> QED BY <1>2, <1>3, <1>4, <1>6, <2>1 DEF TreeInv, CountsOK
<1>11. ParentsOK(g)
  BY <1>2, <1>3, <1>4, <1>6 DEF TreeInv, ParentsOK, Directory
<1>12. ASSUME BytesOK(fs), id = fs.inodes[i].id PROVE BytesOK(g)
  <2> SUFFICES ASSUME NEW j \in LiveInodes(g), NEW x \in Positions
               PROVE  g.inodes[j].data[x] \in {ZeroByte, <<g.inodes[j].id, x>>}
    BY DEF BytesOK
  <2>1. fs.inodes[j].data[x] \in {ZeroByte, <<fs.inodes[j].id, x>>}
    BY <1>3, <1>12 DEF BytesOK
  <2>2. CASE j = i
    BY <1>2, <1>4, <1>12, <2>1, <2>2 DEF Wrote
  <2>3. CASE j # i
    <3>1. g.inodes[j] = fs.inodes[j]
      BY <1>1, <1>3, <1>4, <2>3
    <3> QED BY <2>1, <3>1
  <2> QED BY <2>2, <2>3
<1> QED BY <1>1, <1>2, <1>3, <1>4, <1>6, <1>7, <1>8, <1>9, <1>10, <1>11, <1>12 DEF TreeInv

(* fsWriteRegular writes the bytes that fit and says how many.             *)
LEMMA WriteEffect ==
  ASSUME NEW fs \in FSType, NEW i \in LiveInodes(fs), NEW offset \in Nat,
         NEW id \in Nat, NEW count \in Nat
  PROVE  LET r == fsWriteRegular(fs, i, offset, Payload(id, offset, count))
         IN  r.n \in 0..count /\ Wrote(fs, r.fs, i, id)
<1> DEFINE src == Payload(id, offset, count)
           n == IF fs.inodes[i].kind # "file" \/ offset >= MaxFileBytes THEN 0
                ELSE Min({MaxFileBytes - offset, Len(src)})
           data == [x \in Positions |-> IF x \in offset..(offset + n - 1)
                                        THEN src[x - offset + 1]
                                        ELSE fs.inodes[i].data[x]]
           size == IF n > 0 THEN Max({fs.inodes[i].size, offset + n})
                   ELSE fs.inodes[i].size
           g == [fs EXCEPT !.inodes[i].data = data, !.inodes[i].size = size]
           node == [fs.inodes[i] EXCEPT !.data = data, !.size = size]
<1>1. /\ fs.inodes[i] \in Inode /\ i \in InodeSlots
      /\ MaxFileBytes \in Nat /\ fs.nextInodeID \in Nat
      /\ fs.inodes[i].size \in 0..MaxFileBytes
      /\ fs.inodes[i].data \in [Positions -> Bytes]
  BY LiveType, InodesAssumption DEF FSType, Inode
<1>2. Len(src) = count /\ \A k \in 1..count : src[k] = <<id, offset + k - 1>>
  BY DEF Payload
<1> HIDE DEF src
<1>3. n \in Nat /\ n <= count /\ (n > 0 => offset + n <= MaxFileBytes)
  <2>1. CASE fs.inodes[i].kind # "file" \/ offset >= MaxFileBytes
    <3>1. n = 0
      BY <2>1
    <3> HIDE DEF n
    <3> QED BY <3>1
  <2>2. CASE ~(fs.inodes[i].kind # "file" \/ offset >= MaxFileBytes)
    <3>1. n = Min({MaxFileBytes - offset, count})
      BY <1>2, <2>2
    <3>2. MaxFileBytes - offset \in Nat
      BY <1>1, <2>2
    <3> HIDE DEF n
    <3>3. n \in Nat /\ n <= MaxFileBytes - offset /\ n <= count
      BY <3>1, <3>2, MinOfTwo
    <3> QED BY <1>1, <3>3
  <2> QED BY <2>1, <2>2
<1> HIDE DEF n
<1>4. ASSUME NEW x \in Positions
      PROVE  data[x] \in Bytes /\ data[x] \in {fs.inodes[i].data[x], <<id, x>>}
  <2>1. x \in Nat
    BY <1>1 DEF Positions
  <2>2. CASE x \in offset..(offset + n - 1)
    <3>1. x - offset + 1 \in 1..count /\ offset + (x - offset + 1) - 1 = x
      BY <1>3, <2>1, <2>2
    <3>2. data[x] = <<id, x>>
      BY <1>2, <2>2, <3>1
    <3>3. <<id, x>> \in Bytes
      BY DEF Bytes
    <3> QED BY <3>2, <3>3
  <2>3. CASE x \notin offset..(offset + n - 1)
    <3>1. data[x] = fs.inodes[i].data[x]
      BY <2>3
    <3> HIDE DEF data
    <3> QED BY <1>1, <3>1
  <2> QED BY <2>2, <2>3
<1>5. data \in [Positions -> Bytes]
  BY <1>4
<1> HIDE DEF data
<1>6. size \in 0..MaxFileBytes
  <2>1. CASE n > 0
    <3>1. offset + n \in Nat /\ offset + n <= MaxFileBytes /\ fs.inodes[i].size \in Nat
      BY <1>1, <1>3, <2>1
    <3>2. Max({fs.inodes[i].size, offset + n}) \in {fs.inodes[i].size, offset + n}
      BY <3>1, MaxOfTwo
    <3>3. size = Max({fs.inodes[i].size, offset + n})
      BY <2>1
    <3> HIDE DEF size
    <3> QED BY <1>1, <3>1, <3>2, <3>3
  <2>2. CASE ~(n > 0)
    BY <1>1, <2>2
  <2> QED BY <2>1, <2>2
<1> HIDE DEF size
<1>7. /\ node \in Inode /\ node.id = fs.inodes[i].id /\ node.kind = fs.inodes[i].kind
      /\ node.parent = fs.inodes[i].parent /\ node.nlink = fs.inodes[i].nlink
      /\ node.dir = fs.inodes[i].dir /\ node.data = data
  BY <1>1, <1>5, <1>6 DEF Inode
<1>8. g.nextInodeID = fs.nextInodeID /\ g = [fs EXCEPT !.inodes[i] = node]
  BY <1>1 DEF FSType, Inode
<1> HIDE DEF node
<1>9. /\ g \in FSType /\ g.inodes[i] = node
      /\ \A j \in InodeSlots \ {i} : g.inodes[j] = fs.inodes[j]
  <2> HIDE DEF g
  <2> QED BY <1>1, <1>7, <1>8 DEF FSType
<1>10. fsWriteRegular(fs, i, offset, src) = [n |-> n, fs |-> g]
  BY DEF fsWriteRegular, n, data, size
<1> HIDE DEF g
<1>11. Wrote(fs, g, i, id)
  BY <1>4, <1>7, <1>8, <1>9 DEF Wrote
<1> QED BY <1>3, <1>10, <1>11 DEF src

-----------------------------------------------------------------------------
(***************************************************************************)
(* The syscalls.                                                           *)
(***************************************************************************)

(* The name removed is one of an inode there is.  It goes unless that one  *)
(* is a directory that is not empty, whose entry is put back as it was.    *)
LEMMA UnlinkEffect ==
  ASSUME NEW fs, TreeInv(fs), NEW d \in LiveInodes(fs), fs.inodes[d].kind = "dir",
         NEW name, fsRemoveDirEntry(fs, d, name).ok
  PROVE  LET removed == fsRemoveDirEntry(fs, d, name)
             i == fsLookupByID(removed.fs, removed.id)
         IN  /\ i # NoInode
             /\ removed.fs.inodes[i].kind = "dir" /\ ~fsDirEmpty(removed.fs, i) =>
                  fsAddDirEntry(removed.fs, d, name, removed.id).fs = fs
             /\ ~(removed.fs.inodes[i].kind = "dir" /\ ~fsDirEmpty(removed.fs, i)) =>
                  /\ \E e : Unlinked(fs, DropLink(removed.fs, i), i, d, e)
<1> DEFINE removed == fsRemoveDirEntry(fs, d, name)
           R == removed.fs
           e == CHOOSE e \in EntriesNamed(fs, d, name) : TRUE
           i == fsLookupByID(R, removed.id)
<1>1. EntriesNamed(fs, d, name) # {}
  BY DEF fsRemoveDirEntry
<1>2. e \in fs.inodes[d].dir /\ e.name = name
  <2>1. e \in EntriesNamed(fs, d, name)
    BY <1>1
  <2> QED BY <2>1 DEF EntriesNamed
<1> HIDE DEF e
<1>3. removed.id = e.inodeID /\ R = [fs EXCEPT !.inodes[d].dir = @ \ {e}]
  BY <1>1 DEF fsRemoveDirEntry, e
<1>4. /\ fs \in FSType /\ d \in InodeSlots /\ fs.inodes[d] \in Inode
      /\ fs.nextInodeID \in Nat
  BY LiveType DEF TreeInv, FSType
<1>5. /\ fs.inodes[d].dir \in SUBSET [name: PathNames, inodeID: Nat]
      /\ e \in [name: PathNames, inodeID: Nat]
  BY <1>2, <1>4 DEF Inode
<1> HIDE DEF removed
<1>6. /\ R.nextInodeID = fs.nextInodeID
      /\ R.inodes[d] = [fs.inodes[d] EXCEPT !.dir = @ \ {e}]
      /\ \A j \in InodeSlots \ {d} : R.inodes[j] = fs.inodes[j]
  <2> HIDE DEF R
  <2> QED BY <1>3, <1>4 DEF FSType
<1>7. R \in FSType
  <2>1. [fs.inodes[d] EXCEPT !.dir = @ \ {e}] \in Inode
    BY <1>4, <1>5 DEF Inode
  <2>2. R = [nextInodeID |-> fs.nextInodeID,
             inodes |-> [fs.inodes EXCEPT ![d] = [fs.inodes[d] EXCEPT !.dir = @ \ {e}]]]
    <3> HIDE DEF R
    <3> QED BY <1>3, <1>4 DEF FSType
  <2> HIDE DEF R
  <2> QED BY <1>4, <2>1, <2>2 DEF FSType
<1> HIDE DEF R
<1>8. /\ R.inodes[d].id = fs.inodes[d].id /\ R.inodes[d].kind = fs.inodes[d].kind
      /\ R.inodes[d].dir = fs.inodes[d].dir \ {e}
  BY <1>4, <1>6 DEF Inode
<1>9. i = fsLookupByID(fs, e.inodeID)
  <2>1. LiveInodes(R) = LiveInodes(fs)
    BY <1>6, <1>8 DEF LiveInodes
  <2>2. \A j \in LiveInodes(fs) : R.inodes[j].id = fs.inodes[j].id
    BY <1>6, <1>8 DEF LiveInodes
  <2>3. {j \in LiveInodes(R) : e.inodeID > 0 /\ R.inodes[j].id = e.inodeID} =
        {j \in LiveInodes(fs) : e.inodeID > 0 /\ fs.inodes[j].id = e.inodeID}
    BY <2>1, <2>2
  <2> QED BY <1>3, <2>3 DEF fsLookupByID
<1> HIDE DEF i
<1>10. e.inodeID \in IDsOf(fs) \ {RootID} /\ name # NoName
  BY <1>2 DEF TreeInv, DirsOK, GoodDir
<1>11. /\ i \in LiveInodes(fs) /\ fs.inodes[i].id = e.inodeID /\ i # NoInode
       /\ i \in InodeSlots
  BY <1>9, <1>10, FindID, NoInodeNotLive DEF LiveInodes
<1>12. i # d
  <2> SUFFICES ASSUME i = d PROVE FALSE
    OBVIOUS
  <2>1. Directory(fs.inodes[d], EntriesOf(fs))
    BY <1>10, <1>11 DEF TreeInv, ParentsOK
  <2>2. EntryOf(fs, d, e) \in EntriesOf(fs)
    BY <1>2 DEF EntriesOf, EntriesIn
  <2>3. EntryOf(fs, d, e).obj = fs.inodes[d].id /\ EntryOf(fs, d, e).dir = fs.inodes[d].id
    BY <1>11 DEF EntryOf
  <2>4. fs.inodes[d].parent < fs.inodes[d].id /\ fs.inodes[d].parent = fs.inodes[d].id
    BY <2>1, <2>2, <2>3 DEF Directory
  <2> QED BY <1>4, <2>4 DEF Inode
<1>13. R.inodes[i] = fs.inodes[i]
  BY <1>6, <1>11, <1>12
<1>14. CASE R.inodes[i].kind = "dir" /\ ~fsDirEmpty(R, i)
  <2> DEFINE added == fsAddDirEntry(R, d, name, removed.id)
  <2>1. EntriesNamed(R, d, name) = {}
    BY <1>2, <1>8 DEF EntriesNamed, TreeInv, DirsOK, GoodDir
  <2>2. fsLookupInDir(R, d, name) = NoInode
    BY <2>1 DEF fsLookupInDir
  <2>3. ~(Cardinality(R.inodes[d].dir) >= MaxDirEntries)
    <3>1. /\ IsFiniteSet(fs.inodes[d].dir)
          /\ Cardinality(fs.inodes[d].dir) <= MaxDirEntries
      BY DEF TreeInv, DirsOK, GoodDir
    <3>2. /\ Cardinality(fs.inodes[d].dir) \in Nat
          /\ Cardinality(fs.inodes[d].dir \ {e}) = Cardinality(fs.inodes[d].dir) - 1
      BY <1>2, <3>1, FS_CardinalityType, FS_RemoveElement
    <3> QED BY <1>8, <3>1, <3>2, InodesAssumption
  <2>4. added.fs = [R EXCEPT !.inodes[d].dir =
                      @ \cup {[name |-> name, inodeID |-> removed.id]}]
    BY <1>8, <1>10, <2>2, <2>3 DEF fsAddDirEntry, NoName
  <2>5. [name |-> name, inodeID |-> removed.id] = e
    BY <1>2, <1>3, <1>5
  <2> HIDE DEF added
  <2>6. added.fs.nextInodeID = fs.nextInodeID
        /\ added.fs.inodes = [R.inodes EXCEPT ![d].dir = @ \cup {e}]
        /\ added.fs \in [nextInodeID: Nat, inodes: [InodeSlots -> Inode]]
    <3>1. [R.inodes[d] EXCEPT !.dir = @ \cup {e}] \in Inode
      BY <1>4, <1>5, <1>7 DEF Inode, FSType
    <3>2. added.fs = [nextInodeID |-> R.nextInodeID,
             inodes |-> [R.inodes EXCEPT ![d] = [R.inodes[d] EXCEPT !.dir = @ \cup {e}]]]
      BY <1>4, <1>7, <2>4, <2>5 DEF FSType
    <3> QED BY <1>4, <1>6, <1>7, <3>1, <3>2 DEF FSType
  <2>7. (fs.inodes[d].dir \ {e}) \cup {e} = fs.inodes[d].dir
    BY <1>2
  <2>8. [R.inodes[d] EXCEPT !.dir = @ \cup {e}] = fs.inodes[d]
    BY <1>4, <1>6, <1>8, <2>7 DEF Inode
  <2>9. \A j \in InodeSlots : added.fs.inodes[j] = fs.inodes[j]
    BY <1>4, <1>6, <1>7, <2>6, <2>8 DEF FSType
  <2>10. added.fs.inodes = fs.inodes
    BY <1>4, <2>6, <2>9 DEF FSType
  <2>11. added.fs = fs
    BY <1>4, <2>6, <2>10 DEF FSType
  <2> QED BY <1>11, <1>14, <2>11 DEF removed, R, i, added
<1>15. CASE ~(R.inodes[i].kind = "dir" /\ ~fsDirEmpty(R, i))
  <2> DEFINE g == DropLink(R, i)
             last == IF R.inodes[i].nlink - 1 <= 0 THEN ZeroInode
                     ELSE [R.inodes[i] EXCEPT !.nlink = @ - 1]
  <2>1. g = [R EXCEPT !.inodes[i] = last]
    BY <1>7, <1>11 DEF DropLink, FSType
  <2>2. last \in Inode
    <3>1. R.inodes[i] \in Inode /\ R.inodes[i].nlink \in Nat
      BY <1>7, <1>11 DEF FSType, Inode
    <3>2. ~(R.inodes[i].nlink - 1 <= 0) => [R.inodes[i] EXCEPT !.nlink = @ - 1] \in Inode
      BY <3>1 DEF Inode
    <3> QED BY <3>2, ZeroInodeType
  <2>3. last = IF fs.inodes[i].nlink - 1 <= 0 THEN ZeroInode
               ELSE [fs.inodes[i] EXCEPT !.nlink = @ - 1]
    BY <1>13
  <2> HIDE DEF last, g
  <2>4. g \in FSType /\ g.nextInodeID = fs.nextInodeID /\ g.inodes[i] = last
        /\ \A j \in InodeSlots \ {i} : g.inodes[j] = R.inodes[j]
    BY <1>6, <1>7, <1>11, <2>1, <2>2 DEF FSType
  <2>5. fs.inodes[i].kind = "dir" => fs.inodes[i].dir = {}
    BY <1>13, <1>15 DEF fsDirEmpty
  <2>6. Unlinked(fs, g, i, d, e)
    BY <1>2, <1>4, <1>6, <1>11, <1>12, <2>3, <2>4, <2>5 DEF Unlinked
  <2> QED BY <1>11, <1>15, <2>6 DEF removed, R, i, g
<1> QED BY <1>14, <1>15 DEF removed, R, i

LEMMA LinkEffect ==
  ASSUME NEW fs, TreeInv(fs), NEW i \in LiveInodes(fs), fs.inodes[i].kind # "dir",
         NEW d \in LiveInodes(fs), fs.inodes[d].kind = "dir", NEW name \in PathNames,
         fsAddDirEntry(fs, d, name, fs.inodes[i].id).ok
  PROVE  LET added == fsAddDirEntry(fs, d, name, fs.inodes[i].id)
         IN  Linked(fs, [added.fs EXCEPT !.inodes[i].nlink = @ + 1], i, d, name)
<1> DEFINE added == fsAddDirEntry(fs, d, name, fs.inodes[i].id)
           A == added.fs
           e == [name |-> name, inodeID |-> fs.inodes[i].id]
           g == [A EXCEPT !.inodes[i].nlink = @ + 1]
<1>1. /\ name # NoName /\ fsLookupInDir(fs, d, name) = NoInode
      /\ ~(Cardinality(fs.inodes[d].dir) >= MaxDirEntries)
      /\ A = [fs EXCEPT !.inodes[d].dir = @ \cup {e}]
  BY DEF fsAddDirEntry, NoName
<1>2. /\ fs \in FSType /\ i \in InodeSlots /\ d \in InodeSlots /\ i # d
      /\ fs.inodes[d] \in Inode /\ fs.inodes[i] \in Inode
  BY LiveType DEF TreeInv
<1> HIDE DEF added
<1>3. EntriesNamed(fs, d, name) = {}
  BY <1>1, FindName
<1>4. Cardinality(fs.inodes[d].dir) < MaxDirEntries
  <2>1. IsFiniteSet(fs.inodes[d].dir)
    BY DEF TreeInv, DirsOK, GoodDir
  <2>2. Cardinality(fs.inodes[d].dir) \in Nat
    BY <2>1, FS_CardinalityType
  <2> QED BY <1>1, <2>2, InodesAssumption
<1>5. [fs.inodes[d] EXCEPT !.dir = @ \cup {e}] \in Inode
  BY <1>2 DEF Inode
<1>6. [fs.inodes[i] EXCEPT !.nlink = @ + 1] \in Inode
  BY <1>2 DEF Inode
<1> HIDE DEF e, A
<1>7. /\ A.nextInodeID = fs.nextInodeID
      /\ A.inodes = [fs.inodes EXCEPT ![d] = [fs.inodes[d] EXCEPT !.dir = @ \cup {e}]]
      /\ A = [nextInodeID |-> A.nextInodeID, inodes |-> A.inodes]
  BY <1>1, <1>2 DEF FSType
<1>8. /\ A \in FSType /\ A.inodes[i] = fs.inodes[i]
      /\ A.inodes[d] = [fs.inodes[d] EXCEPT !.dir = @ \cup {e}]
      /\ \A j \in InodeSlots \ {d} : A.inodes[j] = fs.inodes[j]
  BY <1>2, <1>5, <1>7 DEF FSType
<1>9. /\ g.nextInodeID = A.nextInodeID
      /\ g.inodes = [A.inodes EXCEPT ![i] = [fs.inodes[i] EXCEPT !.nlink = @ + 1]]
      /\ g = [nextInodeID |-> g.nextInodeID, inodes |-> g.inodes]
  BY <1>2, <1>8 DEF FSType
<1> HIDE DEF g
<1>10. /\ g \in FSType /\ g.inodes[i] = [fs.inodes[i] EXCEPT !.nlink = @ + 1]
       /\ \A j \in InodeSlots \ {i} : g.inodes[j] = A.inodes[j]
  BY <1>2, <1>6, <1>8, <1>9 DEF FSType
<1>11. Linked(fs, g, i, d, name)
  <2>1. g.inodes[d] = [fs.inodes[d] EXCEPT !.dir = @ \cup {e}]
    BY <1>2, <1>8, <1>10
  <2>2. \A j \in InodeSlots \ {i, d} : g.inodes[j] = fs.inodes[j]
    BY <1>8, <1>10
  <2>3. name # NoName /\ g.nextInodeID = fs.nextInodeID
    BY <1>1, <1>7, <1>9
  <2> QED BY <1>3, <1>4, <1>10, <2>1, <2>2, <2>3 DEF Linked, e
<1> QED BY <1>11 DEF g, A, added

(* The contents of a file are replaced or left alone. *)
LEMMA RewriteEffect ==
  ASSUME NEW found, TreeInv(found.fs),
         found.node \in LiveInodes(found.fs) \cup {NoInode},
         NEW id \in Nat, NEW size \in Nat
  PROVE  LET r == Rewrite(found, Payload(id, 0, size))
         IN  r.fs = found.fs \/ Wrote(found.fs, r.fs, found.node, id)
<1> DEFINE data == Payload(id, 0, size)
           fs == found.fs
           i == found.node
           T == [fs EXCEPT !.inodes[i].size = 0]
           written == fsWriteRegular(T, i, 0, data)
<1>1. CASE i = NoInode \/ fs.inodes[i].kind # "file"
  BY <1>1 DEF Rewrite
<1>2. CASE ~(i = NoInode \/ fs.inodes[i].kind # "file")
  <2> HIDE DEF fs, i
  <2>1. /\ i \in LiveInodes(fs) /\ fs \in FSType /\ i \in InodeSlots
        /\ fs.inodes[i] \in Inode /\ fs.inodes[i].kind # "none"
    BY <1>2, LiveType DEF TreeInv, fs, i
  <2>2. [fs.inodes[i] EXCEPT !.size = 0] \in Inode
    BY <2>1, InodesAssumption DEF Inode
  <2>3. /\ T.nextInodeID = fs.nextInodeID
        /\ T.inodes = [fs.inodes EXCEPT ![i] = [fs.inodes[i] EXCEPT !.size = 0]]
        /\ T = [nextInodeID |-> T.nextInodeID, inodes |-> T.inodes]
    BY <2>1 DEF FSType
  <2> HIDE DEF T
  <2>4. /\ T \in FSType /\ T.inodes[i] = [fs.inodes[i] EXCEPT !.size = 0]
        /\ \A j \in InodeSlots \ {i} : T.inodes[j] = fs.inodes[j]
    BY <2>1, <2>2, <2>3 DEF FSType
  <2>5. /\ T.inodes[i].id = fs.inodes[i].id /\ T.inodes[i].kind = fs.inodes[i].kind
        /\ T.inodes[i].parent = fs.inodes[i].parent
        /\ T.inodes[i].nlink = fs.inodes[i].nlink
        /\ T.inodes[i].dir = fs.inodes[i].dir
        /\ T.inodes[i].data = fs.inodes[i].data
    BY <2>1, <2>4 DEF Inode
  <2>6. i \in LiveInodes(T)
    BY <2>1, <2>5 DEF LiveInodes
  <2>7. Wrote(T, written.fs, i, id)
    <3>1. 0 \in Nat
      OBVIOUS
    <3> QED BY <2>4, <2>6, <3>1, WriteEffect
  <2> HIDE DEF written
  <2>8. Wrote(fs, written.fs, i, id)
    BY <2>1, <2>3, <2>4, <2>5, <2>7 DEF Wrote
  <2>9. Rewrite(found, data).fs = written.fs
    BY <1>2 DEF Rewrite, written, T, fs, i
  <2> QED BY <2>8, <2>9 DEF fs, i
<1> QED BY <1>1, <1>2

(* A path in which an inode is created. *)
LEMMA CreatePathEffect ==
  ASSUME NEW fs, TreeInv(fs), NEW cwd, NEW path \in Seq(PathNames),
         NEW kind \in {"file", "dir", "device"},
         NEW device \in {"none", "console", "uart", "timer"}
  PROVE  LET r == fsCreatePath(fs, cwd, path, kind, device)
         IN  \E d, name : CreateReply(fs, d, name, kind, r)
<1> DEFINE parent == fsResolveParent(fs, cwd, path)
<1>1. /\ parent.dir \in LiveInodes(fs) \cup {NoInode}
      /\ parent.dir # NoInode => fs.inodes[parent.dir].kind = "dir" /\ parent.name \in PathNames
  BY ParentFound
<1> HIDE DEF parent
<1>2. CreateReply(fs, parent.dir, parent.name, kind,
                  CreateIn(fs, parent.dir, parent.name, kind, device))
  BY <1>1, CreateEffect
<1>3. fsCreatePath(fs, cwd, path, kind, device) =
        CreateIn(fs, parent.dir, parent.name, kind, device)
  BY DEF fsCreatePath, parent
<1> QED BY <1>2, <1>3

(* What happens to the inodes in one go; a redirection creates and writes. *)
FSStep(fs, g) ==
  \/ NotBorn(fs, g)
  \/ \E i, d, name : \E kind \in {"file", "dir"} : Born(fs, g, i, d, name, kind)
  \/ \E i, d, name : Linked(fs, g, i, d, name)
  \/ \E i, d, e : Unlinked(fs, g, i, d, e)
  \/ \E i : Wrote(fs, g, i, fs.inodes[i].id)

CallStep(fs, g) ==
  \E h : FSStep(fs, h) /\ (g = h \/ \E i : Wrote(h, g, i, h.inodes[i].id))

(* Inodes are the same as before or have a new number. *)
OldOrNew(fs, g) ==
  /\ g.nextInodeID >= fs.nextInodeID
  /\ \A j \in LiveInodes(g) :
       \/ g.inodes[j].id >= fs.nextInodeID
       \/ /\ j \in LiveInodes(fs) /\ g.inodes[j].id = fs.inodes[j].id
          /\ g.inodes[j].kind = fs.inodes[j].kind

LEMMA FSStepKeeps ==
  ASSUME NEW fs, NEW g, TreeInv(fs), FSStep(fs, g)
  PROVE  TreeInv(g) /\ OldOrNew(fs, g) /\ (BytesOK(fs) => BytesOK(g))
<1>0. fs.nextInodeID \in Nat
  BY DEF TreeInv, FSType
<1>1. CASE NotBorn(fs, g)
  <2>1. TreeInv(g)
    BY <1>1, NotBornKeeps
  <2>2. g.inodes = fs.inodes /\ g.nextInodeID >= fs.nextInodeID
    BY <1>0, <1>1 DEF NotBorn
  <2>3. LiveInodes(g) = LiveInodes(fs)
    BY <2>2, SameInodes
  <2> QED BY <2>1, <2>2, <2>3 DEF OldOrNew, BytesOK
<1>2. CASE \E i, d, name : \E kind \in {"file", "dir"} : Born(fs, g, i, d, name, kind)
  <2>1. PICK i, d, name : \E kind \in {"file", "dir"} : Born(fs, g, i, d, name, kind)
    BY <1>2
  <2>2. PICK kind \in {"file", "dir"} : Born(fs, g, i, d, name, kind)
    BY <2>1
  <2>3. TreeInv(g)
    BY <2>2, BornKeeps
  <2>4. /\ LiveInodes(g) = LiveInodes(fs) \cup {i}
        /\ \A j \in LiveInodes(fs) :
              /\ g.inodes[j].id = fs.inodes[j].id
              /\ g.inodes[j].kind = fs.inodes[j].kind
              /\ g.inodes[j].data = fs.inodes[j].data
    BY <2>2, BornFacts
  <2>5. /\ g.nextInodeID = fs.nextInodeID + 1 /\ g.inodes[i].id = fs.nextInodeID
        /\ g.inodes[i].data = [x \in Positions |-> ZeroByte]
    BY <2>2 DEF Born, ZeroInode
  <2>6. OldOrNew(fs, g)
    <3>1. g.nextInodeID >= fs.nextInodeID /\ g.inodes[i].id >= fs.nextInodeID
      BY <1>0, <2>5
    <3> QED BY <2>4, <3>1 DEF OldOrNew
  <2>7. BytesOK(fs) => BytesOK(g)
    BY <2>4, <2>5 DEF BytesOK
  <2> QED BY <2>3, <2>6, <2>7
<1>3. CASE \E i, d, name : Linked(fs, g, i, d, name)
  <2>1. PICK i, d, name : Linked(fs, g, i, d, name)
    BY <1>3
  <2>2. TreeInv(g)
    BY <2>1, LinkedKeeps
  <2>3. /\ LiveInodes(g) = LiveInodes(fs)
        /\ \A j \in LiveInodes(fs) :
              /\ g.inodes[j].id = fs.inodes[j].id
              /\ g.inodes[j].kind = fs.inodes[j].kind
              /\ g.inodes[j].data = fs.inodes[j].data
    BY <2>1, LinkedFacts
  <2>4. g.nextInodeID >= fs.nextInodeID
    BY <1>0, <2>1 DEF Linked
  <2> QED BY <2>2, <2>3, <2>4 DEF OldOrNew, BytesOK
<1>4. CASE \E i, d, e : Unlinked(fs, g, i, d, e)
  <2>1. PICK i, d, e : Unlinked(fs, g, i, d, e)
    BY <1>4
  <2>2. TreeInv(g)
    BY <2>1, UnlinkedKeeps
  <2>3. /\ LiveInodes(g) \subseteq LiveInodes(fs)
        /\ \A j \in LiveInodes(g) :
              /\ g.inodes[j].id = fs.inodes[j].id
              /\ g.inodes[j].kind = fs.inodes[j].kind
              /\ g.inodes[j].data = fs.inodes[j].data
    BY <2>1, UnlinkedFacts
  <2>4. g.nextInodeID >= fs.nextInodeID
    BY <1>0, <2>1 DEF Unlinked
  <2> QED BY <2>2, <2>3, <2>4 DEF OldOrNew, BytesOK
<1>5. CASE \E i : Wrote(fs, g, i, fs.inodes[i].id)
  <2>1. PICK i : Wrote(fs, g, i, fs.inodes[i].id)
    BY <1>5
  <2>2. /\ TreeInv(g) /\ LiveInodes(g) = LiveInodes(fs)
        /\ \A j \in LiveInodes(fs) :
             g.inodes[j].id = fs.inodes[j].id /\ g.inodes[j].kind = fs.inodes[j].kind
        /\ BytesOK(fs) => BytesOK(g)
    BY <2>1, WroteKeeps
  <2>3. g.nextInodeID >= fs.nextInodeID
    BY <1>0, <2>1 DEF Wrote
  <2> QED BY <2>2, <2>3 DEF OldOrNew
<1> QED BY <1>1, <1>2, <1>3, <1>4, <1>5 DEF FSStep

LEMMA StepRefl ==
  ASSUME NEW fs, TreeInv(fs)
  PROVE  FSStep(fs, fs)
  BY DEF TreeInv, FSType, FSStep, NotBorn

LEMMA CallStepKeeps ==
  ASSUME NEW fs, NEW g, TreeInv(fs), CallStep(fs, g)
  PROVE  TreeInv(g) /\ OldOrNew(fs, g) /\ (BytesOK(fs) => BytesOK(g))
<1>1. PICK h : FSStep(fs, h) /\ (g = h \/ \E i : Wrote(h, g, i, h.inodes[i].id))
  BY DEF CallStep
<1>2. TreeInv(h)
  BY <1>1, FSStepKeeps
<1>3. FSStep(h, g)
  BY <1>1, <1>2, StepRefl DEF FSStep
<1>4. /\ TreeInv(h) /\ TreeInv(g) /\ OldOrNew(fs, h) /\ OldOrNew(h, g)
      /\ BytesOK(fs) => BytesOK(g)
  BY <1>1, <1>2, <1>3, FSStepKeeps
<1>5. /\ fs.nextInodeID \in Nat /\ h.nextInodeID \in Nat /\ g.nextInodeID \in Nat
      /\ \A j \in LiveInodes(g) : g.inodes[j].id \in Nat
  BY <1>4, LiveType DEF TreeInv, FSType, Inode
<1>6. g.nextInodeID >= fs.nextInodeID
  BY <1>4, <1>5 DEF OldOrNew
<1>7. \A j \in LiveInodes(g) : g.inodes[j].id >= h.nextInodeID =>
        g.inodes[j].id >= fs.nextInodeID
  BY <1>4, <1>5 DEF OldOrNew
<1> QED BY <1>4, <1>6, <1>7 DEF OldOrNew

LEMMA CallOfStep ==
  ASSUME NEW fs, NEW g, TreeInv(fs), FSStep(fs, g)
  PROVE  CallStep(fs, g)
  BY StepRefl DEF CallStep

(* phase7WriteFile writes a file it finds or creates. *)
LEMMA RedirectEffect ==
  ASSUME NEW fs, TreeInv(fs), NEW cwd, NEW path \in Seq(PathNames), NEW size \in Nat
  PROVE  LET node == fsLookupByPath(fs, cwd, path)
             id   == IF node = NoInode THEN fs.nextInodeID ELSE fs.inodes[node].id
         IN  CallStep(fs, phase7WriteFile(fs, cwd, path, Payload(id, 0, size)).fs)
<1> DEFINE node == fsLookupByPath(fs, cwd, path)
           id == IF node = NoInode THEN fs.nextInodeID ELSE fs.inodes[node].id
           data == Payload(id, 0, size)
           created == fsCreatePath(fs, cwd, path, "file", "none")
           found == IF node # NoInode THEN [node |-> node, fs |-> fs] ELSE created
           g == Rewrite(found, data).fs
<1>1. node \in LiveInodes(fs) \cup {NoInode} /\ fs \in FSType /\ fs.nextInodeID \in Nat
  BY PathLive DEF TreeInv, FSType
<1> HIDE DEF node
<1>2. id \in Nat
  BY <1>1, LiveType DEF Inode
<1>3. phase7WriteFile(fs, cwd, path, data).fs = g
  BY DEF phase7WriteFile, node
<1>4. CASE node # NoInode
  <2>1. found = [node |-> node, fs |-> fs] /\ id = fs.inodes[node].id
    BY <1>4
  <2> HIDE DEF found, id
  <2>2. g = fs \/ Wrote(fs, g, node, id)
    BY <1>1, <1>2, <2>1, RewriteEffect
  <2> HIDE DEF g
  <2>3. FSStep(fs, g)
    BY <2>1, <2>2, StepRefl DEF FSStep
  <2> QED BY <1>3, <2>3, CallOfStep DEF node, id
<1>5. CASE node = NoInode
  <2>1. found = created /\ id = fs.nextInodeID
    BY <1>5
  <2>2. PICK d, name : CreateReply(fs, d, name, "file", created)
    BY CreatePathEffect
  <2> HIDE DEF found, created
  <2>3. CASE created.node = NoInode /\ NotBorn(fs, created.fs)
    <3>1. g = created.fs
      BY <2>1, <2>3 DEF Rewrite
    <3>2. FSStep(fs, g)
      BY <2>3, <3>1 DEF FSStep
    <3> QED BY <1>3, <3>2, CallOfStep DEF node
  <2>4. CASE Born(fs, created.fs, created.node, d, name, "file")
    <3>1. TreeInv(created.fs)
      BY <2>4, BornKeeps
    <3>2. created.node \in LiveInodes(created.fs)
          /\ created.fs.inodes[created.node].id = id
      <4>1. LiveInodes(created.fs) = LiveInodes(fs) \cup {created.node}
        BY <2>4, BornFacts
      <4> QED BY <2>1, <2>4, <4>1 DEF Born
    <3> HIDE DEF id
    <3>3. g = created.fs \/ Wrote(created.fs, g, created.node, id)
      BY <1>2, <2>1, <3>1, <3>2, RewriteEffect
    <3> HIDE DEF g
    <3>4. g = created.fs \/ \E i : Wrote(created.fs, g, i, created.fs.inodes[i].id)
      BY <3>2, <3>3
    <3>5. FSStep(fs, created.fs)
      BY <2>4 DEF FSStep
    <3>6. CallStep(fs, g)
      BY <3>4, <3>5 DEF CallStep
    <3> QED BY <1>3, <3>6 DEF node, id
  <2> QED BY <2>2, <2>3, <2>4 DEF CreateReply
<1> QED BY <1>4, <1>5

(* The descriptors survive what happens to the inodes. *)
LEMMA DescsKept ==
  ASSUME NEW fs, NEW g, TreeInv(fs), CallStep(fs, g),
         NEW table \in [Procs -> ProcType], DescsOK(fs, table)
  PROVE  TreeInv(g) /\ DescsOK(g, table)
<1>1. TreeInv(g) /\ OldOrNew(fs, g)
  BY CallStepKeeps
<1>2. fs.nextInodeID \in Nat /\ g.nextInodeID \in Nat
      /\ \A j \in LiveInodes(g) : g.inodes[j].id \in Nat
  BY <1>1, LiveType DEF TreeInv, FSType, Inode
<1>3. ASSUME NEW desc \in FileDescriptor, DescOK(fs, desc)
      PROVE  DescOK(g, desc)
  <2>1. desc.inodeID \in Nat /\ desc.inodeID < fs.nextInodeID
    BY <1>3 DEF FileDescriptor, DescOK
  <2>2. desc.inodeID < g.nextInodeID
    BY <1>1, <1>2, <2>1 DEF OldOrNew
  <2>3. ASSUME NEW i \in LiveInodes(g), g.inodes[i].id = desc.inodeID, desc.writable
        PROVE  g.inodes[i].kind # "dir"
    <3>1. ~(g.inodes[i].id >= fs.nextInodeID)
      BY <1>2, <2>1, <2>3
    <3>2. /\ i \in LiveInodes(fs) /\ g.inodes[i].id = fs.inodes[i].id
          /\ g.inodes[i].kind = fs.inodes[i].kind
      BY <1>1, <3>1 DEF OldOrNew
    <3> QED BY <1>3, <2>3, <3>2 DEF DescOK
  <2> QED BY <2>2, <2>3 DEF DescOK
<1>4. \A p \in Procs, fd \in FDs : table[p].fdTable[fd] \in FileDescriptor
  BY DEF ProcType
<1> QED BY <1>1, <1>3, <1>4 DEF DescsOK

(* A descriptor is replaced by a good one. *)
LEMMA DescSet ==
  ASSUME NEW fs, NEW table \in [Procs -> ProcType], DescsOK(fs, table),
         NEW p \in Procs, NEW fd \in FDs, NEW desc \in FileDescriptor, DescOK(fs, desc)
  PROVE  LET new == [table EXCEPT ![p].fdTable[fd] = desc]
         IN  new \in [Procs -> ProcType] /\ DescsOK(fs, new)
<1> DEFINE new == [table EXCEPT ![p].fdTable[fd] = desc]
           descs == [table[p].fdTable EXCEPT ![fd] = desc]
           proc == [table[p] EXCEPT !.fdTable = descs]
<1>1. descs \in [FDs -> FileDescriptor]
      /\ \A k \in FDs : descs[k] = IF k = fd THEN desc ELSE table[p].fdTable[k]
  BY DEF ProcType
<1>2. new = [table EXCEPT ![p] = proc]
  OBVIOUS
<1> HIDE DEF descs
<1>3. proc \in ProcType /\ proc.fdTable = descs
  BY <1>1 DEF ProcType
<1> HIDE DEF proc, new
<1>4. new \in [Procs -> ProcType]
      /\ \A q \in Procs : new[q] = IF q = p THEN proc ELSE table[q]
  BY <1>2, <1>3
<1>5. DescsOK(fs, new)
  BY <1>1, <1>3, <1>4 DEF DescsOK
<1> QED BY <1>4, <1>5 DEF new

(* A call does one thing to the inodes, or two, and keeps the invariant.   *)
CallKeeps == Inv' /\ CallStep(globalFS, globalFS')

LEMMA TableKept ==
  ASSUME Inv, CallStep(globalFS, globalFS'), UNCHANGED <<procs, sinks, tick>>,
         ret' \in {"ok", "error", "short"}
  PROVE  CallKeeps
<1>1. TreeInv(globalFS') /\ DescsOK(globalFS', procs)
  BY DescsKept DEF Inv
<1> QED BY <1>1 DEF Inv, CallKeeps

LEMMA NoCall ==
  ASSUME Inv, UNCHANGED globalFS
  PROVE  CallStep(globalFS, globalFS')
<1>1. TreeInv(globalFS)
  BY DEF Inv
<1>2. CallStep(globalFS, globalFS)
  BY <1>1, StepRefl, CallOfStep
<1> QED BY <1>2

LEMMA FailsKeeps ==
  ASSUME Inv, Fails
  PROVE  CallKeeps
  BY NoCall, TableKept DEF Fails

(* The offset of a descriptor moves. *)
LEMMA OffsetMoves ==
  ASSUME Inv, NEW p \in Procs, NEW fd \in FDs, NEW n \in Nat
  PROVE  LET new == [procs EXCEPT ![p].fdTable[fd].offset = @ + n]
         IN  new \in [Procs -> ProcType] /\ DescsOK(globalFS, new)
<1> DEFINE old == procs[p].fdTable[fd]
           desc == [old EXCEPT !.offset = @ + n]
           new == [procs EXCEPT ![p].fdTable[fd].offset = @ + n]
<1>1. procs \in [Procs -> ProcType] /\ DescsOK(globalFS, procs)
      /\ old \in FileDescriptor
  BY DEF Inv, ProcType
<1>2. new = [procs EXCEPT ![p].fdTable[fd] = desc]
  BY <1>1 DEF ProcType
<1>3. desc \in FileDescriptor /\ desc.inodeID = old.inodeID
      /\ (desc.writable => old.writable)
  <2> HIDE DEF old
  <2> QED BY <1>1 DEF FileDescriptor
<1>4. DescOK(globalFS, old)
  BY <1>1 DEF DescsOK
<1> HIDE DEF old, desc
<1>5. DescOK(globalFS, desc)
  BY <1>3, <1>4 DEF DescOK
<1> HIDE DEF new
<1>6. new \in [Procs -> ProcType] /\ DescsOK(globalFS, new)
  BY <1>1, <1>2, <1>3, <1>5, DescSet
<1> QED BY <1>6 DEF new

LEMMA OpenKeeps ==
  ASSUME Inv, NEW p \in Procs, NEW path \in OpenPaths, NEW flags \in OpenFlags,
         sysOpen(p, path, flags)
  PROVE  CallKeeps
<1> DEFINE node == fsLookupByPath(globalFS, Cwd(p), path)
           created == fsCreatePath(globalFS, Cwd(p), path, "file", "none")
<1>1. path \in Seq(PathNames) /\ TreeInv(globalFS) /\ globalFS \in FSType
  BY PathTyped DEF Inv, TreeInv
<1>2. PICK found :
        /\ OpenInode(p, found, flags) /\ FSStep(globalFS, found.fs)
        /\ TreeInv(found.fs) /\ found.node \in LiveInodes(found.fs) \cup {NoInode}
  <2>1. CASE node = NoInode /\ "create" \in flags
    <3>1. OpenInode(p, created, flags)
      BY <2>1 DEF sysOpen
    <3>2. PICK d, name : CreateReply(globalFS, d, name, "file", created)
      BY <1>1, CreatePathEffect
    <3> HIDE DEF created
    <3>3. CASE created.node = NoInode /\ NotBorn(globalFS, created.fs)
      BY <1>1, <3>1, <3>3, NotBornKeeps DEF FSStep
    <3>4. CASE Born(globalFS, created.fs, created.node, d, name, "file")
      <4>1. TreeInv(created.fs) /\ created.node \in LiveInodes(created.fs)
        BY <1>1, <3>4, BornKeeps, BornFacts
      <4>2. FSStep(globalFS, created.fs)
        BY <3>4 DEF FSStep
      <4> QED BY <3>1, <4>1, <4>2
    <3> QED BY <3>2, <3>3, <3>4 DEF CreateReply
  <2>2. CASE ~(node = NoInode /\ "create" \in flags)
    <3> DEFINE found == [node |-> node, fs |-> globalFS]
    <3>1. OpenInode(p, found, flags)
      BY <2>2 DEF sysOpen
    <3>2. found.fs = globalFS /\ found.node \in LiveInodes(globalFS) \cup {NoInode}
      BY <1>1, PathLive
    <3> HIDE DEF found
    <3> QED BY <1>1, <3>1, <3>2, StepRefl
  <2> QED BY <2>1, <2>2
<1>3. /\ globalFS' = found.fs /\ CallStep(globalFS, globalFS')
      /\ UNCHANGED <<sinks, tick>>
  BY <1>1, <1>2, CallOfStep DEF OpenInode
<1>4. CASE UNCHANGED procs /\ ret' = "error"
  BY <1>3, <1>4, TableKept
<1>5. CASE /\ found.node # NoInode
           /\ ~(found.fs.inodes[found.node].kind = "dir" /\ "write" \in flags)
           /\ FreeFDs(p) # {}
           /\ allocFD(p, found.fs.inodes[found.node].id,
                      "read" \in flags \/ "write" \notin flags, "write" \in flags)
  <2> DEFINE fd == Min(FreeFDs(p))
             read == "read" \in flags \/ "write" \notin flags
             write == "write" \in flags
             id == found.fs.inodes[found.node].id
             desc == [inodeID |-> id, offset |-> 0, readable |-> read, writable |-> write]
  <2>1. procs' = [procs EXCEPT ![p].fdTable[fd] = desc] /\ ret' = "ok"
    BY <1>5 DEF allocFD
  <2>2. fd \in FDs
    <3>1. FreeFDs(p) \in SUBSET Nat /\ FreeFDs(p) \subseteq FDs
      BY FileSystemAssumption DEF FreeFDs, FDs
    <3>2. fd \in FreeFDs(p)
      BY <1>5, <3>1, LeastNat
    <3> QED BY <3>1, <3>2
  <2>3. /\ id \in Nat /\ id < globalFS'.nextInodeID
        /\ \A i \in LiveInodes(globalFS') : globalFS'.inodes[i].id = id => i = found.node
    <3>1. found.node \in LiveInodes(found.fs)
      BY <1>2, <1>5
    <3>2. id \in 1..(found.fs.nextInodeID - 1) /\ found.fs.nextInodeID \in Nat
      BY <1>2, <3>1 DEF TreeInv, SlotsOK, FSType
    <3>3. \A i \in LiveInodes(found.fs) : found.fs.inodes[i].id = id => i = found.node
      BY <1>2, <3>1 DEF TreeInv, SlotsOK
    <3> HIDE DEF id
    <3> QED BY <1>3, <3>2, <3>3
  <2>4. write => globalFS'.inodes[found.node].kind # "dir"
    BY <1>3, <1>5
  <2>5. read \in BOOLEAN /\ write \in BOOLEAN
    OBVIOUS
  <2> HIDE DEF read, write, id, fd
  <2>6. desc \in FileDescriptor /\ desc.inodeID = id /\ (desc.writable <=> write)
    BY <2>3, <2>5 DEF FileDescriptor
  <2> HIDE DEF desc
  <2>7. DescOK(globalFS', desc)
    BY <2>3, <2>4, <2>6 DEF DescOK
  <2>8. TreeInv(globalFS') /\ DescsOK(globalFS', procs) /\ procs \in [Procs -> ProcType]
    BY <1>3, DescsKept DEF Inv
  <2>9. procs' \in [Procs -> ProcType] /\ DescsOK(globalFS', procs')
    BY <2>1, <2>2, <2>6, <2>7, <2>8, DescSet
  <2> QED BY <1>3, <2>1, <2>8, <2>9 DEF Inv, CallKeeps
<1>6. \/ UNCHANGED procs /\ ret' = "error"
      \/ /\ found.node # NoInode
         /\ ~(found.fs.inodes[found.node].kind = "dir" /\ "write" \in flags)
         /\ FreeFDs(p) # {}
         /\ allocFD(p, found.fs.inodes[found.node].id,
                    "read" \in flags \/ "write" \notin flags, "write" \in flags)
  BY <1>2 DEF OpenInode, allocFD
<1> QED BY <1>4, <1>5, <1>6

LEMMA CloseKeeps ==
  ASSUME Inv, NEW p \in Procs, NEW fd, sysClose(p, fd)
  PROVE  CallKeeps
<1>1. CASE ~lookupFD(p, fd) /\ Fails
  BY <1>1, FailsKeeps
<1>2. CASE lookupFD(p, fd) /\ procs' = [procs EXCEPT ![p].fdTable[fd] = FreeFD]
           /\ ret' = "ok" /\ UNCHANGED <<globalFS, sinks, tick>>
  <2>1. fd \in FDs /\ FreeFD \in FileDescriptor
        /\ FreeFD.inodeID = 0 /\ ~FreeFD.writable
    BY <1>2 DEF lookupFD, FreeFD, FileDescriptor
  <2>2. 0 < globalFS.nextInodeID
    <3>1. PICK r \in LiveInodes(globalFS) : globalFS.inodes[r].id = RootID
      BY DEF Inv, TreeInv, SlotsOK
    <3>2. RootID \in 1..(globalFS.nextInodeID - 1) /\ globalFS.nextInodeID \in Nat
      BY <3>1 DEF Inv, TreeInv, SlotsOK, FSType
    <3> QED BY <3>2 DEF RootID
  <2>3. DescOK(globalFS, FreeFD)
    BY <2>1, <2>2 DEF DescOK
  <2>4. procs' \in [Procs -> ProcType] /\ DescsOK(globalFS, procs')
    BY <1>2, <2>1, <2>3, DescSet DEF Inv
  <2> QED BY <1>2, <2>4, NoCall DEF Inv, CallKeeps
<1> QED BY <1>1, <1>2 DEF sysClose

(* What is read is a sequence of bytes. *)
LEMMA ReadType ==
  ASSUME Inv, NEW i \in LiveInodes(globalFS), NEW offset \in Nat, NEW count \in Nat
  PROVE  Len(ReadBytes(i, offset, count)) \in Nat
<1>1. CASE globalFS.inodes[i].kind = "file"
  <2> DEFINE size == globalFS.inodes[i].size
             n == IF globalFS.inodes[i].kind # "file" \/ offset >= size THEN 0
                  ELSE Min({size - offset, count})
  <2>1. size \in Nat
    BY LiveType, InodesAssumption DEF Inv, TreeInv, Inode
  <2> HIDE DEF size
  <2>2. n \in Nat
    <3>1. CASE offset >= size
      BY <3>1
    <3>2. CASE ~(offset >= size)
      <4>1. size - offset \in Nat
        BY <2>1, <3>2
      <4>2. n = Min({size - offset, count})
        BY <1>1, <3>2
      <4> QED BY <4>1, <4>2, MinOfTwo
    <3> QED BY <3>1, <3>2
  <2>3. ReadBytes(i, offset, count) =
          [k \in 1..n |-> globalFS.inodes[i].data[offset + k - 1]]
    BY <1>1 DEF ReadBytes, fsReadRegular, size
  <2> HIDE DEF n
  <2> QED BY <2>2, <2>3
<1>2. CASE globalFS.inodes[i].kind # "file"
  <2> DEFINE device == globalFS.inodes[i].device
             powers == {k \in 1..tick : Radix^k <= tick}
             len == 1 + Cardinality(powers)
             end == Min({Len(Digits(tick)), offset + count})
  <2>1. ReadBytes(i, offset, count) = fsReadDevice(device, offset, count)
    BY <1>2 DEF ReadBytes
  <2>2. len \in Nat
    <3>1. IsFiniteSet(1..tick)
      BY FS_Interval DEF Inv
    <3>2. IsFiniteSet(powers)
      BY <3>1, FS_Subset
    <3> HIDE DEF powers
    <3>3. Cardinality(powers) \in Nat
      BY <3>2, FS_CardinalityType
    <3> QED BY <3>3
  <2>3. Len(Digits(tick)) = len /\ Digits(tick) \in Seq({Digits(tick)[j] : j \in 1..len})
    <3> HIDE DEF len
    <3>1. \E f : Digits(tick) = [j \in 1..len |-> f[j]]
      <4> DEFINE f == Digits(tick)
      <4>1. f = [j \in 1..len |-> (tick \div Radix^(len - j)) % Radix]
        BY DEF Digits, len
      <4> HIDE DEF f
      <4>2. f = [j \in 1..len |-> f[j]]
        BY <4>1
      <4> QED BY <4>2 DEF f
    <3> QED BY <2>2, <3>1
  <2>4. CASE device # "timer" \/ offset >= Len(Digits(tick))
    BY <2>1, <2>4 DEF fsReadDevice
  <2>5. CASE ~(device # "timer" \/ offset >= Len(Digits(tick)))
    <3>1. ReadBytes(i, offset, count) = SubSeq(Digits(tick), offset + 1, end)
      BY <2>1, <2>5 DEF fsReadDevice
    <3>2. Len(Digits(tick)) \in Nat /\ offset + count \in Nat
      BY <2>2, <2>3
    <3>3. end \in {Len(Digits(tick)), offset + count}
      <4>1. {Len(Digits(tick)), offset + count} \in SUBSET Nat
            /\ {Len(Digits(tick)), offset + count} # {}
        BY <3>2
      <4> QED BY <4>1, LeastNat
    <3> HIDE DEF end
    <3>4. offset + 1 \in 1..(Len(Digits(tick)) + 1)
          /\ end \in (offset + 1 - 1)..Len(Digits(tick))
      <4>1. end <= Len(Digits(tick))
        BY <3>2, MinOfTwo DEF end
      <4> QED BY <2>5, <3>2, <3>3, <4>1
    <3>5. Len(SubSeq(Digits(tick), offset + 1, end)) =
            IF end < offset + 1 THEN 0 ELSE end - (offset + 1) + 1
      BY <2>3, <3>4, SubSeqProperties
    <3>6. end \in Nat /\ end >= offset
      BY <3>2, <3>4
    <3> QED BY <3>1, <3>5, <3>6
  <2> QED BY <2>4, <2>5
<1> QED BY <1>1, <1>2

(* A descriptor in use names a live inode or none, at a natural offset. *)
LEMMA DescFound ==
  ASSUME Inv, NEW p \in Procs, NEW fd \in FDs
  PROVE  /\ Desc(p, fd) \in FileDescriptor /\ Desc(p, fd).offset \in Nat
         /\ fsLookupByID(globalFS, Desc(p, fd).inodeID) \in
              LiveInodes(globalFS) \cup {NoInode}
<1>1. Desc(p, fd) \in FileDescriptor
  BY DEF Inv, ProcType, Desc
<1>2. \A desc \in FileDescriptor : desc.offset \in Nat
  BY DEF FileDescriptor
<1> QED BY <1>1, <1>2, LookupLive

LEMMA ReadKeeps ==
  ASSUME Inv, NEW p \in Procs, NEW fd, NEW count \in Counts, NEW copied \in BOOLEAN,
         sysRead(p, fd, count, copied)
  PROVE  CallKeeps
<1> DEFINE i == fsLookupByID(globalFS, Desc(p, fd).inodeID)
           bytes == ReadBytes(i, Desc(p, fd).offset, count)
<1>1. CASE Fails
  BY <1>1, FailsKeeps
<1>2. CASE lookupFD(p, fd) /\ i # NoInode /\ Reads(p, fd, bytes, copied) /\ ~Fails
  <2>1. fd \in FDs /\ count \in Nat
    BY <1>2, FileSystemAssumption DEF lookupFD
  <2>2. i \in LiveInodes(globalFS) /\ Desc(p, fd).offset \in Nat
    BY <1>2, <2>1, DescFound
  <2>3. Len(bytes) \in Nat
    BY <2>1, <2>2, ReadType
  <2> HIDE DEF bytes
  <2>4. /\ procs' = [procs EXCEPT ![p].fdTable[fd].offset = @ + Len(bytes)]
        /\ ret' = "ok" /\ UNCHANGED <<globalFS, sinks, tick>>
    BY <1>2 DEF Reads
  <2>5. procs' \in [Procs -> ProcType] /\ DescsOK(globalFS, procs')
    BY <2>1, <2>3, <2>4, OffsetMoves
  <2> QED BY <2>4, <2>5, NoCall DEF Inv, CallKeeps
<1> QED BY <1>1, <1>2 DEF sysRead

LEMMA WritesKeep ==
  ASSUME Inv, NEW p \in Procs, NEW fd \in FDs, NEW written, written.n \in Nat,
         FSStep(globalFS, written.fs), Writes(p, fd, written),
         sinks' \in [{"console", "uart"} -> Nat]
  PROVE  CallKeeps
<1>1. /\ globalFS' = written.fs /\ ret' = "ok" /\ UNCHANGED tick
      /\ procs' = [procs EXCEPT ![p].fdTable[fd].offset = @ + written.n]
  BY DEF Writes
<1>2. procs' \in [Procs -> ProcType] /\ DescsOK(globalFS, procs')
  BY <1>1, OffsetMoves
<1>3. CallStep(globalFS, globalFS') /\ TreeInv(globalFS)
  BY <1>1, CallOfStep DEF Inv
<1>4. TreeInv(globalFS') /\ DescsOK(globalFS', procs')
  BY <1>2, <1>3, DescsKept
<1> QED BY <1>1, <1>2, <1>3, <1>4 DEF Inv, CallKeeps

LEMMA WriteKeeps ==
  ASSUME Inv, NEW p \in Procs, NEW fd, NEW count \in Counts, NEW copied \in BOOLEAN,
         sysWrite(p, fd, count, copied)
  PROVE  CallKeeps
<1> DEFINE i == fsLookupByID(globalFS, Desc(p, fd).inodeID)
           node == globalFS.inodes[i]
           offset == Desc(p, fd).offset
<1>1. CASE Fails
  BY <1>1, FailsKeeps
<1>2. CASE lookupFD(p, fd) /\ i # NoInode /\ WriteInode(p, fd, i, count)
  <2>1. fd \in FDs /\ count \in Nat
    BY <1>2, FileSystemAssumption DEF lookupFD
  <2>2. i \in LiveInodes(globalFS) /\ offset \in Nat
    BY <1>2, <2>1, DescFound
  <2> HIDE DEF i, offset
  <2>3. TreeInv(globalFS) /\ globalFS \in FSType /\ node.id \in Nat
    BY <2>2, LiveType DEF Inv, TreeInv, Inode
  <2> DEFINE written == fsWriteRegular(globalFS, i, offset, Payload(node.id, offset, count))
  <2>4. CASE Writes(p, fd, written) /\ UNCHANGED sinks
    <3>1. written.n \in 0..count /\ Wrote(globalFS, written.fs, i, node.id)
      BY <2>1, <2>2, <2>3, WriteEffect
    <3>2. FSStep(globalFS, written.fs) /\ written.n \in Nat
      BY <3>1 DEF FSStep
    <3> HIDE DEF written
    <3>3. sinks' \in [{"console", "uart"} -> Nat]
      BY <2>4 DEF Inv
    <3> QED BY <2>1, <2>4, <3>2, <3>3, WritesKeep
  <2>5. CASE WriteDevice(p, fd, node.device, count)
    <3>1. PICK n \in Nat : /\ Writes(p, fd, [n |-> n, fs |-> globalFS])
                           /\ sinks' \in [{"console", "uart"} -> Nat]
      <4> DEFINE device == node.device
      <4> HIDE DEF device
      <4>1. CASE /\ device \in DOMAIN sinks
                 /\ sinks' = [sinks EXCEPT ![device] = @ + count]
                 /\ Writes(p, fd, [n |-> count, fs |-> globalFS])
        <5>1. sinks' \in [{"console", "uart"} -> Nat]
          BY <2>1, <4>1 DEF Inv
        <5> QED BY <2>1, <4>1, <5>1
      <4>2. CASE UNCHANGED sinks /\ Writes(p, fd, [n |-> 0, fs |-> globalFS])
        <5>1. sinks' \in [{"console", "uart"} -> Nat] /\ 0 \in Nat
          BY <4>2 DEF Inv
        <5> QED BY <4>2, <5>1
      <4> QED BY <2>5, <4>1, <4>2 DEF WriteDevice, device
    <3> DEFINE w == [n |-> n, fs |-> globalFS]
    <3>2. w.n \in Nat /\ w.fs = globalFS
      OBVIOUS
    <3>3. Writes(p, fd, w)
      BY <3>1
    <3> HIDE DEF w
    <3>4. FSStep(globalFS, w.fs)
      BY <2>3, <3>2, StepRefl
    <3> QED BY <2>1, <3>1, <3>2, <3>3, <3>4, WritesKeep
  <2> QED BY <1>2, <2>4, <2>5 DEF WriteInode, i, offset
<1> QED BY <1>1, <1>2 DEF sysWrite

LEMMA RedirectKeeps ==
  ASSUME Inv, NEW p \in Procs, NEW path \in OpenPaths, NEW size \in TextSizes,
         redirect(p, path, size)
  PROVE  CallKeeps
<1> DEFINE node == fsLookupByPath(globalFS, Cwd(p), path)
           id   == IF node = NoInode THEN globalFS.nextInodeID ELSE globalFS.inodes[node].id
           written == phase7WriteFile(globalFS, Cwd(p), path, Payload(id, 0, size))
<1>1. path \in Seq(PathNames) /\ size \in Nat /\ TreeInv(globalFS)
  BY PathTyped, FileSystemAssumption DEF Inv
<1>2. CallStep(globalFS, written.fs)
  BY <1>1, RedirectEffect
<1>3. /\ globalFS' = written.fs /\ ret' = (IF written.ok THEN "ok" ELSE "short")
      /\ UNCHANGED <<procs, sinks, tick>>
  BY DEF redirect
<1> HIDE DEF written
<1>4. ret' \in {"ok", "error", "short"}
  BY <1>3
<1> QED BY <1>2, <1>3, <1>4, TableKept

LEMMA MkdirKeeps ==
  ASSUME Inv, NEW p \in Procs, NEW path \in NamePaths, sysMkdir(p, path)
  PROVE  CallKeeps
<1> DEFINE made == fsCreatePath(globalFS, Cwd(p), path, "dir", "none")
<1>1. path \in Seq(PathNames) /\ TreeInv(globalFS)
  BY PathTyped DEF Inv
<1>2. PICK d, name : CreateReply(globalFS, d, name, "dir", made)
  BY <1>1, CreatePathEffect
<1>3. /\ globalFS' = made.fs /\ ret' = (IF made.node = NoInode THEN "error" ELSE "ok")
      /\ UNCHANGED <<procs, sinks, tick>>
  BY DEF sysMkdir
<1> HIDE DEF made
<1>4. FSStep(globalFS, made.fs)
  BY <1>2 DEF CreateReply, FSStep
<1>5. CallStep(globalFS, globalFS') /\ ret' \in {"ok", "error", "short"}
  BY <1>1, <1>3, <1>4, CallOfStep
<1> QED BY <1>3, <1>5, TableKept

LEMMA ChdirKeeps ==
  ASSUME Inv, NEW p \in Procs, NEW path \in NamePaths, sysChdir(p, path)
  PROVE  CallKeeps
<1> DEFINE node == fsLookupByPath(globalFS, Cwd(p), path)
           id == globalFS.inodes[node].id
<1>1. CASE Fails
  BY <1>1, FailsKeeps
<1>2. CASE /\ node # NoInode /\ procs' = [procs EXCEPT ![p].cwdInode = id]
           /\ ret' = "ok" /\ UNCHANGED <<globalFS, sinks, tick>>
  <2>1. path \in Seq(PathNames)
    BY PathTyped
  <2>2. node \in LiveInodes(globalFS)
    BY <1>2, <2>1, PathLive
  <2>3. id \in Nat
    BY <2>2, LiveType DEF Inv, TreeInv, Inode
  <2> HIDE DEF id
  <2>4. procs' \in [Procs -> ProcType]
        /\ \A q \in Procs : procs'[q].fdTable = procs[q].fdTable
    BY <1>2, <2>3 DEF Inv, ProcType
  <2>5. DescsOK(globalFS, procs')
    BY <2>4 DEF Inv, DescsOK
  <2> QED BY <1>2, <2>4, <2>5, NoCall DEF Inv, CallKeeps
<1> QED BY <1>1, <1>2 DEF sysChdir

LEMMA LinkKeeps ==
  ASSUME Inv, NEW p \in Procs, NEW oldPath \in NamePaths, NEW newPath \in NamePaths,
         sysLink(p, oldPath, newPath)
  PROVE  CallKeeps
<1> DEFINE old    == fsLookupByPath(globalFS, Cwd(p), oldPath)
           parent == fsResolveParent(globalFS, Cwd(p), newPath)
           added  == fsAddDirEntry(globalFS, parent.dir, parent.name,
                                   globalFS.inodes[old].id)
           g == [added.fs EXCEPT !.inodes[old].nlink = @ + 1]
<1>1. oldPath \in Seq(PathNames) /\ newPath \in Seq(PathNames) /\ TreeInv(globalFS)
  BY PathTyped DEF Inv
<1>2. CASE Fails
  BY <1>2, FailsKeeps
<1>3. CASE /\ old # NoInode /\ globalFS.inodes[old].kind # "dir"
           /\ parent.dir # NoInode /\ added.ok /\ Changes(g)
  <2>1. old \in LiveInodes(globalFS)
    BY <1>1, <1>3, PathLive
  <2>2. /\ parent.dir \in LiveInodes(globalFS)
        /\ globalFS.inodes[parent.dir].kind = "dir" /\ parent.name \in PathNames
    BY <1>1, <1>3, ParentFound
  <2> HIDE DEF old, parent
  <2>3. Linked(globalFS, g, old, parent.dir, parent.name)
    BY <1>1, <1>3, <2>1, <2>2, LinkEffect
  <2> HIDE DEF g
  <2>4. CallStep(globalFS, g)
    BY <1>1, <2>3, CallOfStep DEF FSStep
  <2> QED BY <1>3, <2>4, TableKept DEF Changes
<1> QED BY <1>2, <1>3 DEF sysLink

LEMMA UnlinkKeeps ==
  ASSUME Inv, NEW p \in Procs, NEW path \in NamePaths, sysUnlink(p, path)
  PROVE  CallKeeps
<1> DEFINE parent  == fsResolveParent(globalFS, Cwd(p), path)
           removed == fsRemoveDirEntry(globalFS, parent.dir, parent.name)
           i == fsLookupByID(removed.fs, removed.id)
           stays == removed.fs.inodes[i].kind = "dir" /\ ~fsDirEmpty(removed.fs, i)
           put == fsAddDirEntry(removed.fs, parent.dir, parent.name, removed.id).fs
           g == DropLink(removed.fs, i)
<1>1. path \in Seq(PathNames) /\ TreeInv(globalFS)
  BY PathTyped DEF Inv
<1>2. CASE Fails
  BY <1>2, FailsKeeps
<1>3. CASE /\ parent.dir # NoInode /\ removed.ok
           /\ UnlinkRemoved(parent.dir, parent.name, removed)
  <2>1. /\ parent.dir \in LiveInodes(globalFS)
        /\ globalFS.inodes[parent.dir].kind = "dir"
    BY <1>1, <1>3, ParentFound
  <2> HIDE DEF parent
  <2>2. /\ i # NoInode /\ (stays => put = globalFS)
        /\ ~stays => \E e : Unlinked(globalFS, g, i, parent.dir, e)
    BY <1>1, <1>3, <2>1, UnlinkEffect
  <2>3. \/ /\ stays /\ globalFS' = put /\ ret' = "error"
           /\ UNCHANGED <<procs, sinks, tick>>
        \/ ~stays /\ Changes(g)
    BY <1>3, <2>2 DEF UnlinkRemoved
  <2> HIDE DEF stays, put, g, i, removed
  <2>4. CASE stays
    <3>1. UNCHANGED globalFS /\ ret' = "error" /\ UNCHANGED <<procs, sinks, tick>>
      BY <2>2, <2>3, <2>4
    <3> QED BY <3>1, NoCall, TableKept
  <2>5. CASE ~stays
    <3>1. FSStep(globalFS, g)
      BY <2>2, <2>5 DEF FSStep
    <3>2. CallStep(globalFS, g) /\ Changes(g)
      BY <1>1, <2>3, <2>5, <3>1, CallOfStep
    <3> QED BY <3>2, TableKept DEF Changes
  <2> QED BY <2>4, <2>5
<1> QED BY <1>2, <1>3 DEF sysUnlink

(* What becomes of a process: its slot is filled, left or cleared. *)
LEMMA SlotKeeps ==
  ASSUME Inv, NEW p \in Procs, allocProcess(p) \/ processExit(p) \/ releaseProcess(p)
  PROVE  CallKeeps
<1>1. procs \in [Procs -> ProcType] /\ DescsOK(globalFS, procs)
  BY DEF Inv
<1>2. FreeFD \in FileDescriptor /\ FreeFD.inodeID = 0 /\ ~FreeFD.writable
  BY DEF FreeFD, FileDescriptor
<1>3. 0 < globalFS.nextInodeID
  <2>1. PICK r \in LiveInodes(globalFS) : globalFS.inodes[r].id = RootID
    BY DEF Inv, TreeInv, SlotsOK
  <2>2. RootID \in 1..(globalFS.nextInodeID - 1) /\ globalFS.nextInodeID \in Nat
    BY <2>1 DEF Inv, TreeInv, SlotsOK, FSType
  <2> QED BY <2>2 DEF RootID
<1>4. DescOK(globalFS, FreeFD)
  BY <1>2, <1>3 DEF DescOK
<1>5. ASSUME NEW proc \in ProcType, SetProc(p, proc),
             \A fd \in FDs : DescOK(globalFS, proc.fdTable[fd])
      PROVE  CallKeeps
  <2>1. procs' = [procs EXCEPT ![p] = proc] /\ ret' = "ok"
        /\ UNCHANGED <<globalFS, sinks, tick>>
    BY <1>5 DEF SetProc
  <2>2. procs' \in [Procs -> ProcType]
        /\ \A q \in Procs : procs'[q] = IF q = p THEN proc ELSE procs[q]
    BY <1>1, <2>1
  <2>3. DescsOK(globalFS, procs')
    BY <1>1, <1>5, <2>2 DEF DescsOK
  <2> QED BY <2>1, <2>2, <2>3, NoCall DEF Inv, CallKeeps
<1>6. ZeroProc \in ProcType /\ ZeroProc.fdTable = [fd \in FDs |-> FreeFD]
  BY <1>2 DEF ZeroProc, ProcType
<1>7. CASE allocProcess(p)
  <2> DEFINE proc == [ZeroProc EXCEPT !.state = "ALIVE"]
  <2>1. proc \in ProcType /\ proc.fdTable = [fd \in FDs |-> FreeFD]
    BY <1>6 DEF ProcType
  <2>2. SetProc(p, proc)
    BY <1>7 DEF allocProcess
  <2> HIDE DEF proc
  <2> QED BY <1>4, <1>5, <2>1, <2>2
<1>8. CASE processExit(p)
  <2> DEFINE proc == [procs[p] EXCEPT !.state = "ZOMBIE"]
  <2>1. proc \in ProcType /\ proc.fdTable = procs[p].fdTable
    BY <1>1 DEF ProcType
  <2>2. SetProc(p, proc)
    BY <1>8 DEF processExit
  <2> HIDE DEF proc
  <2>3. \A fd \in FDs : DescOK(globalFS, proc.fdTable[fd])
    BY <1>1, <2>1 DEF DescsOK
  <2> QED BY <1>5, <2>1, <2>2, <2>3
<1>9. CASE releaseProcess(p)
  <2>1. SetProc(p, ZeroProc)
    BY <1>9 DEF releaseProcess
  <2> QED BY <1>4, <1>5, <1>6, <2>1
<1> QED BY <1>7, <1>8, <1>9

LEMMA SyscallKeeps ==
  ASSUME Inv, NEW p \in Procs, Syscall(p)
  PROVE  CallKeeps
<1>1. CASE \E path \in OpenPaths, flags \in OpenFlags : sysOpen(p, path, flags)
  BY <1>1, OpenKeeps
<1>2. CASE \E fd \in Handles : sysClose(p, fd)
  BY <1>2, CloseKeeps
<1>3. CASE \E fd \in Handles, count \in Counts, copied \in BOOLEAN :
             sysRead(p, fd, count, copied) \/ sysWrite(p, fd, count, copied)
  BY <1>3, ReadKeeps, WriteKeeps
<1>4. CASE \E path \in OpenPaths, size \in TextSizes : redirect(p, path, size)
  BY <1>4, RedirectKeeps
<1>5. CASE \E path \in NamePaths : sysMkdir(p, path)
  BY <1>5, MkdirKeeps
<1>6. CASE \E path \in NamePaths : sysChdir(p, path) \/ sysUnlink(p, path)
  BY <1>6, ChdirKeeps, UnlinkKeeps
<1>7. CASE \E old, new \in NamePaths : sysLink(p, old, new)
  BY <1>7, LinkKeeps
<1>8. CASE badRequest(p)
  BY <1>8, FailsKeeps DEF badRequest
<1> QED BY <1>1, <1>2, <1>3, <1>4, <1>5, <1>6, <1>7, <1>8 DEF Syscall

LEMMA StepKeeps ==
  ASSUME Inv, [Next]_vars
  PROVE  CallKeeps
<1>1. CASE \E p \in Procs : Alive(p) /\ Syscall(p) /\ globalFS'.nextInodeID <= InodeIDLimit
  BY <1>1, SyscallKeeps
<1>2. CASE \E p \in Procs : allocProcess(p) \/ processExit(p) \/ releaseProcess(p)
  BY <1>2, SlotKeeps
<1>3. CASE timerTick
  BY <1>3, NoCall DEF timerTick, Inv, CallKeeps
<1>4. CASE UNCHANGED vars
  BY <1>4, NoCall DEF vars, Inv, CallKeeps
<1> QED BY <1>1, <1>2, <1>3, <1>4 DEF Next

-----------------------------------------------------------------------------
(***************************************************************************)
(* The file system phase6Init makes.                                       *)
(***************************************************************************)

PlainNames == PathNames \ {NoName, ".", ".."}

LEMMA SplitSteps ==
  ASSUME NEW parts
  PROVE  /\ SplitStep(parts, NoName) = parts
         /\ \A a \in PlainNames : SplitStep(parts, a) = Append(parts, a)
BY Zenon DEF SplitStep, PlainNames, NoName

LEMMA Tuples ==
  ASSUME NEW S, NEW a \in S, NEW b \in S, NEW c \in S
  PROVE  /\ <<>> \in Seq(S) /\ <<a>> \in Seq(S)
         /\ <<a, b>> \in Seq(S) /\ <<a, b, c>> \in Seq(S)
         /\ Len(<<a>>) = 1 /\ <<a>>[1] = a
         /\ Len(<<a, b>>) = 2 /\ <<a, b>>[1] = a /\ <<a, b>>[2] = b
         /\ Len(<<a, b, c>>) = 3 /\ <<a, b, c>>[1] = a
         /\ <<a, b, c>>[2] = b /\ <<a, b, c>>[3] = c
         /\ Append(<<>>, a) = <<a>>
OBVIOUS

LEMMA TwoParts ==
  ASSUME NEW S, NEW a \in S, NEW b \in S
  PROVE  Append(<<a>>, b) = <<a, b>> /\ <<a>> \o <<b>> = <<a, b>>
<1>1. /\ <<a>> \in Seq(S) /\ <<b>> \in Seq(S) /\ <<a, b>> \in Seq(S)
      /\ Len(<<a>>) = 1 /\ <<a>>[1] = a /\ Len(<<b>>) = 1 /\ <<b>>[1] = b
      /\ Len(<<a, b>>) = 2 /\ <<a, b>>[1] = a /\ <<a, b>>[2] = b
  OBVIOUS
<1>2. ASSUME NEW s \in Seq(S), Len(s) = 2, s[1] = a, s[2] = b
      PROVE  s = <<a, b>>
  BY <1>1, <1>2
<1>3. Append(<<a>>, b) = <<a, b>>
  <2> DEFINE s == Append(<<a>>, b)
  <2>1. s \in Seq(S) /\ Len(s) = 2 /\ s[1] = a /\ s[2] = b
    BY <1>1, AppendProperties
  <2> HIDE DEF s
  <2>2. s = <<a, b>>
    BY <1>2, <2>1
  <2> QED BY <2>2 DEF s
<1>4. <<a>> \o <<b>> = <<a, b>>
  <2> DEFINE s == <<a>> \o <<b>>
  <2>1. s \in Seq(S) /\ Len(s) = 2 /\ s[1] = a /\ s[2] = b
    BY <1>1, ConcatProperties
  <2> HIDE DEF s
  <2>2. s = <<a, b>>
    BY <1>2, <2>1
  <2> QED BY <2>2 DEF s
<1> QED BY <1>3, <1>4

Alphabet == PathNames \cup {NoName}

(* The absolute paths of one and two parts, and the root. *)
LEMMA SplitAbsolute ==
  ASSUME NEW a \in PlainNames, NEW b \in PlainNames
  PROVE  /\ fsSplitPath(<<NoName, NoName>>) = <<>>
         /\ fsSplitPath(<<NoName, a>>) = <<a>>
         /\ fsSplitPath(<<NoName, a, b>>) = <<a, b>>
<1>1. NoName \in Alphabet /\ a \in Alphabet /\ b \in Alphabet
  BY DEF Alphabet, PlainNames
<1>2. fsSplitPath(<<NoName, NoName>>) = <<>>
  <2> DEFINE path == <<NoName, NoName>>
  <2>1. path \in Seq(Alphabet) /\ Len(path) = 2 /\ path[1] = NoName /\ path[2] = NoName
    BY <1>1, Tuples
  <2> HIDE DEF path
  <2>2. PICK w : Splits(path, w, Alphabet)
    BY <2>1, SplitWalk
  <2>3. /\ w[0] = <<>> /\ fsSplitPath(path) = w[2]
        /\ \A k \in 1..2 : w[k] = SplitStep(w[k - 1], path[k])
    BY <2>1, <2>2 DEF Splits
  <2>4. w[1] = SplitStep(w[0], NoName) /\ w[2] = SplitStep(w[1], NoName)
    BY <2>1, <2>3
  <2> QED BY <2>3, <2>4, SplitSteps DEF path
<1>3. fsSplitPath(<<NoName, a>>) = <<a>>
  <2> DEFINE path == <<NoName, a>>
  <2>1. path \in Seq(Alphabet) /\ Len(path) = 2 /\ path[1] = NoName /\ path[2] = a
    BY <1>1, Tuples
  <2> HIDE DEF path
  <2>2. PICK w : Splits(path, w, Alphabet)
    BY <2>1, SplitWalk
  <2>3. /\ w[0] = <<>> /\ fsSplitPath(path) = w[2]
        /\ \A k \in 1..2 : w[k] = SplitStep(w[k - 1], path[k])
    BY <2>1, <2>2 DEF Splits
  <2>4. w[1] = SplitStep(w[0], NoName) /\ w[2] = SplitStep(w[1], a)
    BY <2>1, <2>3
  <2>5. w[1] = <<>>
    BY <2>3, <2>4, SplitSteps
  <2>6. w[2] = Append(<<>>, a)
    BY <2>4, <2>5, SplitSteps
  <2>7. w[2] = <<a>>
    BY <2>6, Tuples
  <2> QED BY <2>3, <2>7 DEF path
<1>4. fsSplitPath(<<NoName, a, b>>) = <<a, b>>
  <2> DEFINE path == <<NoName, a, b>>
  <2>1. path \in Seq(Alphabet) /\ Len(path) = 3
        /\ path[1] = NoName /\ path[2] = a /\ path[3] = b
    BY <1>1, Tuples
  <2> HIDE DEF path
  <2>2. PICK w : Splits(path, w, Alphabet)
    BY <2>1, SplitWalk
  <2>3. /\ w[0] = <<>> /\ fsSplitPath(path) = w[3]
        /\ \A k \in 1..3 : w[k] = SplitStep(w[k - 1], path[k])
    BY <2>1, <2>2 DEF Splits
  <2>4. /\ w[1] = SplitStep(w[0], NoName) /\ w[2] = SplitStep(w[1], a)
        /\ w[3] = SplitStep(w[2], b)
    BY <2>1, <2>3
  <2>5. w[1] = <<>>
    BY <2>3, <2>4, SplitSteps
  <2>6. w[2] = Append(<<>>, a)
    BY <2>4, <2>5, SplitSteps
  <2>7. w[2] = <<a>>
    BY <2>6, Tuples
  <2>8. w[3] = Append(<<a>>, b)
    BY <2>4, <2>7, SplitSteps
  <2>9. w[3] = <<a, b>>
    BY <2>8, <1>1, TwoParts
  <2> QED BY <2>3, <2>9 DEF path
<1> QED BY <1>2, <1>3, <1>4

LEMMA WalkSteps ==
  ASSUME NEW fs, NEW start \in LiveInodes(fs) \cup {NoInode}, NEW a
  PROVE  /\ WalkEnd(fs, start, <<>>) = start
         /\ WalkEnd(fs, start, <<a>>) = PathStep(fs, start, a)
<1> DEFINE S == {a}
<1>1. WalkEnd(fs, start, <<>>) = start
  <2> DEFINE parts == <<>>
  <2>1. parts \in Seq(S) /\ Len(parts) = 0
    OBVIOUS
  <2> HIDE DEF parts
  <2>2. PICK w : Walks(fs, start, parts, w)
    BY <2>1, LookupWalk
  <2> QED BY <2>1, <2>2 DEF Walks, parts
<1>2. WalkEnd(fs, start, <<a>>) = PathStep(fs, start, a)
  <2> DEFINE parts == <<a>>
  <2>1. parts \in Seq(S) /\ Len(parts) = 1 /\ parts[1] = a
    OBVIOUS
  <2> HIDE DEF parts
  <2>2. PICK w : Walks(fs, start, parts, w)
    BY <2>1, LookupWalk
  <2>3. w[0] = start /\ w[1] = PathStep(fs, w[0], parts[1])
        /\ w[1] = WalkEnd(fs, start, parts)
    BY <2>1, <2>2 DEF Walks
  <2> QED BY <2>1, <2>3 DEF parts
<1> QED BY <1>1, <1>2

(* An absolute path of one part names something in the root. *)
LEMMA TopLevel ==
  ASSUME NEW fs, TreeInv(fs), NEW a \in PlainNames
  PROVE  /\ fsLookupByID(fs, RootID) \in LiveInodes(fs)
         /\ fsLookupByPath(fs, 0, <<NoName, a>>) = PathStep(fs, fsLookupByID(fs, RootID), a)
         /\ fsResolveParent(fs, 0, <<NoName, a>>) =
              [dir |-> fsLookupByID(fs, RootID), name |-> a]
<1> DEFINE root == fsLookupByID(fs, RootID)
<1>1. root \in LiveInodes(fs) /\ fs.inodes[root].kind = "dir" /\ root # NoInode
  <2>1. PICK r \in LiveInodes(fs) : fs.inodes[r].id = RootID /\ fs.inodes[r].kind = "dir"
    BY DEF TreeInv, SlotsOK
  <2>2. RootID \in IDsOf(fs)
    BY <2>1 DEF IDsOf
  <2>3. root \in LiveInodes(fs) /\ fs.inodes[root].id = RootID
    BY <2>2, FindID
  <2>4. root = r
    BY <2>1, <2>3 DEF TreeInv, SlotsOK
  <2> QED BY <2>1, <2>3, <2>4, NoInodeNotLive
<1>2. \A path : fsStartingDir(fs, 0, path) = root
  BY DEF fsStartingDir
<1> HIDE DEF root
<1>3. a \in PathNames
  BY DEF PlainNames
<1>4. <<NoName, NoName>> # EmptyPath /\ <<NoName, a>> # EmptyPath
  <2>1. Len(<<NoName, NoName>>) = 2 /\ Len(<<NoName, a>>) = 2
    OBVIOUS
  <2>2. EmptyPath = <<NoName>>
    BY DEF EmptyPath, NoName
  <2>3. Len(EmptyPath) = 1
    BY <2>2
  <2> QED BY <2>1, <2>3
<1>5. fsLookupByPath(fs, 0, <<NoName, NoName>>) = root
  <2>1. fsLookupByPath(fs, 0, <<NoName, NoName>>) = WalkEnd(fs, root, <<>>)
    BY <1>2, <1>4, SplitAbsolute DEF fsLookupByPath, WalkEnd
  <2> QED BY <1>1, <1>3, <2>1, WalkSteps
<1>6. fsLookupByPath(fs, 0, <<NoName, a>>) = PathStep(fs, root, a)
  <2>1. fsLookupByPath(fs, 0, <<NoName, a>>) = WalkEnd(fs, root, <<a>>)
    BY <1>2, <1>4, SplitAbsolute DEF fsLookupByPath, WalkEnd
  <2> QED BY <1>1, <1>3, <2>1, WalkSteps
<1>7. ParentPath(<<NoName, a>>, <<a>>) = <<NoName, NoName>>
  <2>1. IsAbsolute(<<NoName, a>>)
    <3>1. Len(<<NoName, a>>) > 1 /\ <<NoName, a>>[1] = NoName
      OBVIOUS
    <3> QED BY <3>1 DEF IsAbsolute, NoName
  <2>2. ~(Len(<<a>>) > 1)
    OBVIOUS
  <2> QED BY <2>1, <2>2, Zenon DEF ParentPath, NoName
<1>8. fsResolveParent(fs, 0, <<NoName, a>>) = [dir |-> root, name |-> a]
  <2>1. <<a>> # <<>> /\ Last(<<a>>) = a
    BY DEF Last
  <2>2. fsSplitPath(<<NoName, a>>) = <<a>>
    BY SplitAbsolute
  <2>3. ~(root \notin LiveInodes(fs) \/ fs.inodes[root].kind # "dir")
    BY <1>1
  <2> QED BY <1>5, <1>7, <2>1, <2>2, <2>3, Zenon DEF fsResolveParent
<1> QED BY <1>1, <1>6, <1>8 DEF root

(* One of two parts names something in a directory of the root. *)
LEMMA SecondLevel ==
  ASSUME NEW fs, TreeInv(fs), NEW a \in PlainNames, NEW b \in PlainNames,
         NEW d \in LiveInodes(fs), fs.inodes[d].kind = "dir",
         d = PathStep(fs, fsLookupByID(fs, RootID), a)
  PROVE  fsResolveParent(fs, 0, <<NoName, a, b>>) = [dir |-> d, name |-> b]
<1> DEFINE path == <<NoName, a, b>>
           parts == <<a, b>>
<1>1. NoName \in Alphabet /\ a \in Alphabet /\ b \in Alphabet
  BY DEF Alphabet, PlainNames
<1>2. /\ Len(path) = 3 /\ path[1] = NoName
      /\ parts \in Seq(Alphabet) /\ Len(parts) = 2 /\ parts[1] = a /\ parts[2] = b
  BY <1>1, Tuples
<1>3. fsSplitPath(path) = parts
  BY SplitAbsolute
<1>4. fsLookupByPath(fs, 0, <<NoName, a>>) = d
  BY TopLevel
<1> HIDE DEF path, parts
<1>5. Front(parts) = <<a>>
  <2>1. Front(parts) = [j \in 1..1 |-> parts[j]]
    BY <1>2 DEF Front
  <2>2. Front(parts) \in Seq({a}) /\ Len(Front(parts)) = 1 /\ Front(parts)[1] = a
    BY <1>2, <2>1
  <2> QED BY <2>2
<1>6. IsAbsolute(path)
  <2>1. Len(path) > 1 /\ path[1] = NoName
    BY <1>2
  <2> QED BY <2>1, Zenon DEF IsAbsolute, NoName
<1>7. ParentPath(path, parts) = <<NoName, a>>
  <2>1. Len(parts) > 1
    BY <1>2
  <2>2. ParentPath(path, parts) = <<NoName>> \o <<a>>
    BY <1>5, <1>6, <2>1, Zenon DEF ParentPath, NoName
  <2> QED BY <1>1, <2>2, TwoParts
<1>8. parts # <<>> /\ Last(parts) = b
  <2>1. parts # <<>>
    BY <1>2, EmptySeq
  <2>2. Last(parts) = parts[Len(parts)]
    BY Zenon DEF Last
  <2> QED BY <1>2, <2>1, <2>2
<1>9. ~(d \notin LiveInodes(fs) \/ fs.inodes[d].kind # "dir")
  OBVIOUS
<1>10. fsResolveParent(fs, 0, path) = [dir |-> d, name |-> b]
  BY <1>3, <1>4, <1>7, <1>8, <1>9, Zenon DEF fsResolveParent
<1> QED BY <1>10 DEF path

(* The first k slots hold the inodes with the first k numbers. *)
Numbered(fs, k) ==
  /\ TreeInv(fs) /\ BytesOK(fs)
  /\ LiveInodes(fs) = 1..k /\ fs.nextInodeID = k + 1
  /\ \A i \in 1..k : fs.inodes[i].id = i
  /\ fs.inodes[1].kind = "dir"

ObjsOf(fs) ==
  {[id |-> fs.inodes[i].id, kind |-> fs.inodes[i].kind] : i \in LiveInodes(fs)}

LEMMA RootFirst ==
  ASSUME NEW fs, NEW k \in Nat \ {0}, Numbered(fs, k)
  PROVE  fsLookupByID(fs, RootID) = 1
<1>1. 1 \in LiveInodes(fs) /\ fs.inodes[1].id = RootID /\ RootID \in IDsOf(fs)
  BY DEF Numbered, IDsOf, RootID
<1>2. TreeInv(fs)
  BY DEF Numbered
<1>3. /\ fsLookupByID(fs, RootID) \in LiveInodes(fs)
      /\ fs.inodes[fsLookupByID(fs, RootID)].id = RootID
  BY <1>1, <1>2, FindID
<1> QED BY <1>1, <1>2, <1>3 DEF TreeInv, SlotsOK

LEMMA BornObjs ==
  ASSUME NEW fs, NEW g, NEW i, NEW d, NEW name, NEW kind \in {"file", "dir", "device"},
         TreeInv(fs), Born(fs, g, i, d, name, kind)
  PROVE  ObjsOf(g) = ObjsOf(fs) \cup {[id |-> fs.nextInodeID, kind |-> kind]}
<1>1. /\ LiveInodes(g) = LiveInodes(fs) \cup {i} /\ i \notin LiveInodes(fs)
      /\ \A j \in LiveInodes(fs) :
           g.inodes[j].id = fs.inodes[j].id /\ g.inodes[j].kind = fs.inodes[j].kind
  BY BornFacts
<1>2. g.inodes[i].id = fs.nextInodeID /\ g.inodes[i].kind = kind
  BY DEF Born
<1> QED BY <1>1, <1>2 DEF ObjsOf

(* A creation there is room for takes the next slot and the next number. *)
BootRoom(fs, k, d, name, path) ==
  /\ k \in 1..5 /\ Numbered(fs, k)
  /\ d \in 1..k /\ fs.inodes[d].kind = "dir" /\ name \in PathNames /\ name # NoName
  /\ \A e \in fs.inodes[d].dir : e.name # name
  /\ Cardinality(fs.inodes[d].dir) < MaxDirEntries
  /\ fsResolveParent(fs, 0, path) = [dir |-> d, name |-> name]

BootMakes(fs, r, k, d, name, kind) ==
  /\ r.node = k + 1 /\ Numbered(r.fs, k + 1)
  /\ Born(fs, r.fs, k + 1, d, name, kind)
  /\ EntriesOf(r.fs) = EntriesOf(fs) \cup {[dir |-> d, name |-> name, obj |-> k + 1]}
  /\ ObjsOf(r.fs) = ObjsOf(fs) \cup {[id |-> k + 1, kind |-> kind]}

LEMMA BootCreate ==
  ASSUME NEW fs, NEW k, NEW d, NEW name, NEW path, BootRoom(fs, k, d, name, path),
         NEW kind \in {"file", "dir", "device"},
         NEW device \in {"none", "console", "uart", "timer"}
  PROVE  BootMakes(fs, fsCreatePath(fs, 0, path, kind, device), k, d, name, kind)
<1> USE DEF BootRoom
<1> DEFINE r == fsCreatePath(fs, 0, path, kind, device)
           g == r.fs
<1>1. /\ TreeInv(fs) /\ LiveInodes(fs) = 1..k /\ fs.nextInodeID = k + 1
      /\ \A i \in 1..k : fs.inodes[i].id = i
  BY DEF Numbered
<1>2. r = CreateIn(fs, d, name, kind, device)
  BY DEF fsCreatePath
<1>3. FirstInode(InodeSlots \ LiveInodes(fs)) = k + 1
  <2> DEFINE S == InodeSlots \ LiveInodes(fs)
  <2>1. S = (k + 1)..MaxInodes /\ S \subseteq Nat /\ k + 1 \in S
    BY <1>1, InodesAssumption DEF InodeSlots
  <2> HIDE DEF S
  <2>2. Min(S) \in S /\ \A y \in S : Min(S) <= y
    BY <2>1, LeastNat
  <2>3. Min(S) = k + 1
    BY <2>1, <2>2, InodesAssumption
  <2> QED BY <2>1, <2>3 DEF FirstInode, S
<1>4. Room(fs, d, name)
  <2>1. EntriesNamed(fs, d, name) = {}
    BY DEF EntriesNamed
  <2>2. d # NoInode /\ FirstInode(InodeSlots \ LiveInodes(fs)) # NoInode
    BY <1>3 DEF NoInode
  <2> QED BY <2>1, <2>2 DEF Room
<1>5. d \in LiveInodes(fs) \cup {NoInode}
  BY <1>1
<1> HIDE DEF r
<1>6. CreateReply(fs, d, name, kind, r) /\ r.node = k + 1
  BY <1>1, <1>2, <1>3, <1>4, <1>5, CreateEffect
<1>7. Born(fs, g, k + 1, d, name, kind)
  BY <1>6 DEF CreateReply, NoInode
<1> HIDE DEF g
<1>8. TreeInv(g)
  BY <1>1, <1>7, BornKeeps
<1>9. /\ LiveInodes(g) = LiveInodes(fs) \cup {k + 1}
      /\ \A j \in LiveInodes(fs) :
           /\ g.inodes[j].id = fs.inodes[j].id
           /\ g.inodes[j].kind = fs.inodes[j].kind
           /\ g.inodes[j].data = fs.inodes[j].data
      /\ EntriesOf(g) = EntriesOf(fs) \cup
           {[dir |-> fs.inodes[d].id, name |-> name, obj |-> fs.nextInodeID]}
  BY <1>1, <1>7, BornFacts
<1>10. /\ g.inodes[k + 1].id = k + 1 /\ g.nextInodeID = k + 2
       /\ g.inodes[k + 1].data = ZeroInode.data
  BY <1>1, <1>7 DEF Born
<1>11. BytesOK(g)
  <2>1. \A x \in Positions : ZeroInode.data[x] = ZeroByte
    BY DEF ZeroInode
  <2>2. BytesOK(fs)
    BY DEF Numbered
  <2> QED BY <1>9, <1>10, <2>1, <2>2 DEF BytesOK
<1>12. LiveInodes(g) = 1..(k + 1) /\ \A i \in 1..(k + 1) : g.inodes[i].id = i
  BY <1>1, <1>9, <1>10
<1>13. g.inodes[1].kind = "dir"
  BY <1>1, <1>9 DEF Numbered
<1>14. Numbered(g, k + 1)
  BY <1>8, <1>10, <1>11, <1>12, <1>13 DEF Numbered
<1>15. EntriesOf(g) = EntriesOf(fs) \cup {[dir |-> d, name |-> name, obj |-> k + 1]}
  BY <1>1, <1>9
<1>16. ObjsOf(g) = ObjsOf(fs) \cup {[id |-> k + 1, kind |-> kind]}
  BY <1>1, <1>7, BornObjs
<1> QED BY <1>6, <1>7, <1>14, <1>15, <1>16 DEF g, r, BootMakes

-----------------------------------------------------------------------------
(* The table of cleared inodes, and the root in it. *)
LEMMA RootMade ==
  /\ Numbered(RootFS, 1) /\ RootFS.inodes[1].dir = {}
  /\ EntriesOf(RootFS) = {} /\ ObjsOf(RootFS) = {[id |-> 1, kind |-> "dir"]}
<1> DEFINE zeros == [j \in InodeSlots |-> ZeroInode]
           first == [ZeroInode EXCEPT !.kind = "dir", !.parent = 0, !.id = 1,
                       !.nlink = 1, !.device = "none"]
           node == [first EXCEPT !.parent = 1]
           a == fsAllocInode(EmptyFS, "dir", 0, "none")
           g == RootFS
<1>1. ZeroInode \in Inode
  BY ZeroInodeType
<1>2. /\ LiveInodes(EmptyFS) = {} /\ EmptyFS.nextInodeID = 1
      /\ EmptyFS = [nextInodeID |-> 1, inodes |-> zeros]
  BY DEF LiveInodes, EmptyFS, ZeroInode
<1>3. FirstInode(InodeSlots \ LiveInodes(EmptyFS)) = 1
  <2>1. InodeSlots \ LiveInodes(EmptyFS) = 1..MaxInodes
    BY <1>2, InodesAssumption DEF InodeSlots
  <2> DEFINE S == 1..MaxInodes
  <2>2. S \subseteq Nat /\ 1 \in S /\ \A x \in S : x >= 1
    BY InodesAssumption
  <2> HIDE DEF S
  <2>3. Min(S) \in S /\ \A y \in S : Min(S) <= y
    BY <2>2, LeastNat
  <2>4. Min(S) \in Nat /\ Min(S) >= 1 /\ Min(S) <= 1
    BY <2>2, <2>3
  <2>5. Min(S) = 1
    BY <2>4
  <2> QED BY <2>1, <2>2, <2>5 DEF FirstInode, S
<1>4. 1 \in InodeSlots
  BY InodesAssumption DEF InodeSlots
<1>5. /\ first \in Inode /\ first.kind = "dir" /\ first.id = 1 /\ first.nlink = 1
      /\ first.dir = {} /\ first.data = ZeroInode.data
  BY ZeroInodeType DEF Inode, ZeroInode
<1>6. a.node = 1 /\ a.fs = [nextInodeID |-> 2, inodes |-> [zeros EXCEPT ![1] = first]]
  <2> HIDE DEF first, zeros
  <2>1. a = [node |-> 1, fs |-> [EmptyFS EXCEPT !.nextInodeID = @ + 1, !.inodes[1] = first]]
    BY <1>2, <1>3 DEF fsAllocInode, NoInode, first
  <2>2. EmptyFS.nextInodeID = 1 /\ EmptyFS.inodes = zeros /\ zeros \in [InodeSlots -> Inode]
    BY <1>1, <1>2 DEF zeros
  <2>3. EmptyFS \in [nextInodeID: Nat, inodes: [InodeSlots -> Inode]]
    BY <1>2, <2>2
  <2> HIDE DEF a
  <2> DEFINE b == [EmptyFS EXCEPT !.nextInodeID = @ + 1, !.inodes[1] = first]
  <2>4. b = [nextInodeID |-> 1 + 1, inodes |-> [zeros EXCEPT ![1] = first]]
    <3>1. b = [EmptyFS EXCEPT !.nextInodeID = 1 + 1,
                              !.inodes = [zeros EXCEPT ![1] = first]]
      BY <2>2, <2>3
    <3> HIDE DEF zeros, first, b
    <3> QED BY <1>2, <2>2, <2>3, <3>1
  <2> QED BY <2>1, <2>4
<1> HIDE DEF a
<1>7. /\ g.nextInodeID = 2 /\ g.inodes[1] = node
      /\ \A j \in InodeSlots \ {1} : g.inodes[j] = ZeroInode
      /\ g = [nextInodeID |-> g.nextInodeID, inodes |-> g.inodes]
      /\ g.inodes = [j \in InodeSlots |-> g.inodes[j]]
  <2> HIDE DEF first, zeros
  <2>1. a.node = 1 /\ a.fs = [nextInodeID |-> 2, inodes |-> [zeros EXCEPT ![1] = first]]
    BY <1>6
  <2>2. g = [a.fs EXCEPT !.inodes[1].parent = a.fs.inodes[1].id]
    BY <2>1 DEF RootFS, a
  <2>3. a.fs.inodes[1] = first
    BY <1>4, <2>1 DEF zeros
  <2>4. first.id = 1
    BY <1>5
  <2>5. g = [a.fs EXCEPT !.inodes[1].parent = 1]
    BY <2>2, <2>3, <2>4
  <2>6. g = [nextInodeID |-> 2, inodes |-> [[zeros EXCEPT ![1] = first] EXCEPT ![1].parent = 1]]
    BY <2>1, <2>5
  <2> QED BY <1>4, <2>6 DEF zeros
<1> HIDE DEF g
<1>8. /\ node \in Inode /\ node.kind = "dir" /\ node.id = 1 /\ node.parent = 1
      /\ node.nlink = 1 /\ node.dir = {} /\ node.data = ZeroInode.data
  <2> HIDE DEF first
  <2> QED BY <1>5 DEF Inode
<1> HIDE DEF node, first
<1>9. LiveInodes(g) = {1} /\ IDsOf(g) = {1} /\ 1..1 = {1}
  BY <1>4, <1>7, <1>8 DEF LiveInodes, IDsOf, ZeroInode
<1>10. g \in FSType
  <2>1. g.inodes \in [InodeSlots -> Inode]
    BY <1>1, <1>7, <1>8
  <2>2. g.nextInodeID \in Nat
    BY <1>7
  <2> QED BY <1>7, <2>1, <2>2 DEF FSType
<1>11. SlotsOK(g)
  BY <1>7, <1>8, <1>9 DEF SlotsOK, RootID
<1>12. EntriesOf(g) = {}
  BY <1>7, <1>8, <1>9 DEF EntriesOf, EntriesIn
<1>13. DirsOK(g)
  <2>1. IsFiniteSet({}) /\ Cardinality({}) = 0
    BY FS_EmptySet
  <2>2. GoodDir({}, IDsOf(g))
    BY <2>1, InodesAssumption DEF GoodDir
  <2> QED BY <1>7, <1>8, <1>9, <2>2 DEF DirsOK
<1>14. CountsOK(g)
  <2>1. IsFiniteSet({}) /\ Cardinality({}) = 0
    BY FS_EmptySet
  <2>2. NamesOf(g, 1) = {}
    BY <1>12 DEF NamesOf
  <2> QED BY <1>7, <1>8, <1>9, <1>12, <2>1, <2>2 DEF CountsOK, RootID
<1>15. ParentsOK(g)
  BY <1>7, <1>8, <1>9 DEF ParentsOK, RootID
<1>16. BytesOK(g)
  BY <1>7, <1>8, <1>9 DEF BytesOK, ZeroInode
<1>17. ObjsOf(g) = {[id |-> 1, kind |-> "dir"]}
  BY <1>7, <1>8, <1>9 DEF ObjsOf
<1>18. Numbered(g, 1)
  BY <1>7, <1>8, <1>9, <1>10, <1>11, <1>13, <1>14, <1>15, <1>16 DEF Numbered, TreeInv
<1>19. g.inodes[1].dir = {}
  BY <1>7, <1>8
<1> QED BY <1>12, <1>17, <1>18, <1>19 DEF g

LEMMA BootNames ==
  /\ "dev" \in PlainNames /\ "console" \in PlainNames /\ "uart" \in PlainNames
  /\ "timer" \in PlainNames /\ "init" \in PlainNames
<1>1. /\ "dev" # NoName /\ "console" # NoName /\ "uart" # NoName
      /\ "timer" # NoName /\ "init" # NoName
  BY Zenon DEF NoName
<1>2. /\ "dev" \notin {".", ".."} /\ "console" \notin {".", ".."}
      /\ "uart" \notin {".", ".."} /\ "timer" \notin {".", ".."}
      /\ "init" \notin {".", ".."}
  OBVIOUS
<1>3. /\ "dev" \in PathNames /\ "console" \in PathNames /\ "uart" \in PathNames
      /\ "timer" \in PathNames /\ "init" \in PathNames
  BY DEF PathNames
<1> QED BY <1>1, <1>2, <1>3, Zenon DEF PlainNames

DirEntry(name, id) == [name |-> name, inodeID |-> id]

(* The boot so far: the names in the root and in its directory dev. *)
BootStage(fs, k, top, dev) ==
  /\ Numbered(fs, k)
  /\ fs.inodes[1].dir = top
  /\ fs.inodes[2].kind = "dir" /\ fs.inodes[2].dir = dev

LEMMA DevMade ==
  LET g == fsCreatePath(RootFS, 0, <<NoName, "dev">>, "dir", "none").fs
  IN  /\ BootStage(g, 2, {DirEntry("dev", 2)}, {})
      /\ EntriesOf(g) = {[dir |-> 1, name |-> "dev", obj |-> 2]}
      /\ ObjsOf(g) = {[id |-> 1, kind |-> "dir"], [id |-> 2, kind |-> "dir"]}
<1> DEFINE path == <<NoName, "dev">>
           r == fsCreatePath(RootFS, 0, path, "dir", "none")
<1>1. /\ Numbered(RootFS, 1) /\ RootFS.inodes[1].dir = {}
      /\ EntriesOf(RootFS) = {} /\ ObjsOf(RootFS) = {[id |-> 1, kind |-> "dir"]}
  BY RootMade
<1>2. "dev" \in PlainNames /\ "dev" \in PathNames /\ "dev" # NoName
  BY BootNames DEF PlainNames
<1>3. fsResolveParent(RootFS, 0, path) = [dir |-> 1, name |-> "dev"]
  <2>1. TreeInv(RootFS)
    BY <1>1 DEF Numbered
  <2>2. fsLookupByID(RootFS, RootID) = 1
    <3>1. 1 \in Nat \ {0}
      OBVIOUS
    <3> QED BY <1>1, <3>1, RootFirst
  <2> QED BY <1>2, <2>1, <2>2, TopLevel
<1>4. RootFS.inodes[1].kind = "dir" /\ Cardinality(RootFS.inodes[1].dir) < MaxDirEntries
  BY <1>1, FS_EmptySet, InodesAssumption DEF Numbered
<1> HIDE DEF path
<1>5. /\ r.node = 2 /\ Numbered(r.fs, 2) /\ Born(RootFS, r.fs, 2, 1, "dev", "dir")
      /\ EntriesOf(r.fs) = EntriesOf(RootFS) \cup {[dir |-> 1, name |-> "dev", obj |-> 2]}
      /\ ObjsOf(r.fs) = ObjsOf(RootFS) \cup {[id |-> 2, kind |-> "dir"]}
  <2>1. \A e \in RootFS.inodes[1].dir : e.name # "dev"
    BY <1>1
  <2>2. BootRoom(RootFS, 1, 1, "dev", path)
    BY <1>1, <1>2, <1>3, <1>4, <2>1 DEF BootRoom
  <2>3. BootMakes(RootFS, r, 1, 1, "dev", "dir")
    BY <2>2, BootCreate
  <2> HIDE DEF r
  <2>4. 1 + 1 = 2
    OBVIOUS
  <2> QED BY <2>3, <2>4 DEF BootMakes
<1> HIDE DEF r
<1>6. r.fs.inodes[2].kind = "dir" /\ r.fs.inodes[2].dir = {}
  BY <1>5 DEF Born
<1>7. r.fs.inodes[1].dir = {DirEntry("dev", 2)}
  <2>1. TreeInv(RootFS) /\ RootFS.nextInodeID = 2
    BY <1>1 DEF Numbered
  <2>2. r.fs.inodes[1].dir = RootFS.inodes[1].dir
                               \cup {[name |-> "dev", inodeID |-> RootFS.nextInodeID]}
    BY <1>5, <2>1, BornFacts
  <2> QED BY <1>1, <2>1, <2>2 DEF DirEntry
<1> QED BY <1>1, <1>5, <1>6, <1>7 DEF BootStage, r, path

DeviceDone(fs, k, dev, name, device) ==
  LET g == fsCreatePath(fs, 0, <<NoName, "dev", name>>, "device", device).fs
  IN  /\ BootStage(g, k + 1, {DirEntry("dev", 2)}, dev \cup {DirEntry(name, k + 1)})
      /\ EntriesOf(g) = EntriesOf(fs) \cup {[dir |-> 2, name |-> name, obj |-> k + 1]}
      /\ ObjsOf(g) = ObjsOf(fs) \cup {[id |-> k + 1, kind |-> "device"]}

LEMMA DeviceMade ==
  ASSUME NEW fs, NEW k \in 2..4, NEW dev, BootStage(fs, k, {DirEntry("dev", 2)}, dev),
         NEW name \in PlainNames, \A e \in dev : e.name # name,
         Cardinality(dev) < MaxDirEntries,
         NEW device \in {"console", "uart", "timer"}
  PROVE  DeviceDone(fs, k, dev, name, device)
<1> DEFINE path == <<NoName, "dev", name>>
           r == fsCreatePath(fs, 0, path, "device", device)
<1>1. /\ Numbered(fs, k) /\ TreeInv(fs) /\ LiveInodes(fs) = 1..k
      /\ fs.nextInodeID = k + 1 /\ fs.inodes[2].id = 2
      /\ fs.inodes[1].kind = "dir" /\ fs.inodes[1].dir = {DirEntry("dev", 2)}
      /\ fs.inodes[2].kind = "dir" /\ fs.inodes[2].dir = dev
      /\ \A i \in 1..k : fs.inodes[i].id = i
  BY DEF BootStage, Numbered
<1>2. "dev" \in PlainNames /\ name \in PathNames /\ name # NoName
  BY BootNames DEF PlainNames
<1>3. fsLookupByID(fs, RootID) = 1 /\ 1 \in LiveInodes(fs) /\ 2 \in LiveInodes(fs)
  BY <1>1, RootFirst
<1>4. PathStep(fs, 1, "dev") = 2
  <2>1. EntriesNamed(fs, 1, "dev") = {DirEntry("dev", 2)}
    BY <1>1 DEF EntriesNamed, DirEntry
  <2>2. (CHOOSE e \in EntriesNamed(fs, 1, "dev") : TRUE).inodeID = 2
    <3> DEFINE c == CHOOSE e \in EntriesNamed(fs, 1, "dev") : TRUE
    <3>1. c \in {DirEntry("dev", 2)}
      BY <2>1
    <3> HIDE DEF c
    <3>2. c.inodeID = 2
      BY <3>1 DEF DirEntry
    <3> QED BY <3>2 DEF c
  <2>3. fsLookupByID(fs, 2) = 2
    <3>1. 2 \in IDsOf(fs)
      BY <1>1, <1>3 DEF IDsOf
    <3>2. fsLookupByID(fs, 2) \in LiveInodes(fs) /\ fs.inodes[fsLookupByID(fs, 2)].id = 2
      BY <1>1, <3>1, FindID
    <3> QED BY <1>1, <3>2
  <2>4. fsLookupInDir(fs, 1, "dev") = 2
    BY <1>1, <2>1, <2>2, <2>3 DEF fsLookupInDir
  <2>5. "dev" # ".."
    OBVIOUS
  <2> QED BY <2>4, <2>5 DEF PathStep, NoInode
<1>5. fsResolveParent(fs, 0, path) = [dir |-> 2, name |-> name]
  BY <1>1, <1>2, <1>3, <1>4, SecondLevel
<1> HIDE DEF path
<1>6. /\ Numbered(r.fs, k + 1) /\ Born(fs, r.fs, k + 1, 2, name, "device")
      /\ EntriesOf(r.fs) = EntriesOf(fs) \cup {[dir |-> 2, name |-> name, obj |-> k + 1]}
      /\ ObjsOf(r.fs) = ObjsOf(fs) \cup {[id |-> k + 1, kind |-> "device"]}
  <2>1. k \in 1..5 /\ 2 \in 1..k
    OBVIOUS
  <2>2. BootRoom(fs, k, 2, name, path)
    BY <1>1, <1>2, <1>5, <2>1 DEF BootRoom
  <2>3. BootMakes(fs, r, k, 2, name, "device")
    BY <2>2, BootCreate
  <2> HIDE DEF r
  <2> QED BY <2>3 DEF BootMakes
<1> HIDE DEF r
<1>7. /\ r.fs.inodes[2].kind = fs.inodes[2].kind /\ r.fs.inodes[1] = fs.inodes[1]
      /\ r.fs.inodes[2].dir = dev \cup {DirEntry(name, k + 1)}
  BY <1>1, <1>3, <1>6, BornFacts DEF DirEntry
<1> QED BY <1>1, <1>6, <1>7 DEF BootStage, DeviceDone, r, path

LEMMA Booted ==
  LET fs == phase6Init(Payload(6, 0, 1))
  IN  /\ TreeInv(fs) /\ BytesOK(fs) /\ fs.nextInodeID = 7
      /\ EntriesOf(fs) = { [dir |-> 1, name |-> "dev", obj |-> 2],
                           [dir |-> 2, name |-> "console", obj |-> 3],
                           [dir |-> 2, name |-> "uart", obj |-> 4],
                           [dir |-> 2, name |-> "timer", obj |-> 5],
                           [dir |-> 1, name |-> "init", obj |-> 6] }
      /\ ObjsOf(fs) = { [id |-> 1, kind |-> "dir"], [id |-> 2, kind |-> "dir"],
                        [id |-> 3, kind |-> "device"], [id |-> 4, kind |-> "device"],
                        [id |-> 5, kind |-> "device"], [id |-> 6, kind |-> "file"] }
<1> DEFINE dev     == fsCreatePath(RootFS, 0, <<NoName, "dev">>, "dir", "none").fs
           console == fsCreatePath(dev, 0, <<NoName, "dev", "console">>, "device", "console").fs
           uart    == fsCreatePath(console, 0, <<NoName, "dev", "uart">>, "device", "uart").fs
           timer   == fsCreatePath(uart, 0, <<NoName, "dev", "timer">>, "device", "timer").fs
           init    == fsCreatePath(timer, 0, <<NoName, "init">>, "file", "none")
           last    == fsWriteRegular(init.fs, init.node, 0, Payload(6, 0, 1))
           top     == {DirEntry("dev", 2)}
<1>1. phase6Init(Payload(6, 0, 1)) = last.fs
  BY Zenon DEF phase6Init, NoName
<1>2. /\ "console" \in PlainNames /\ "uart" \in PlainNames /\ "timer" \in PlainNames
      /\ "init" \in PlainNames /\ "init" \in PathNames /\ "init" # NoName
  BY BootNames DEF PlainNames
<1> DEFINE c == DirEntry("console", 3)
           u == DirEntry("uart", 4)
           t == DirEntry("timer", 5)
<1>3. /\ c # u /\ c.name = "console" /\ u.name = "uart" /\ t.name = "timer"
      /\ DirEntry("dev", 2).name = "dev"
  BY DEF DirEntry
<1>4. /\ Cardinality({}) = 0 /\ Cardinality({c}) = 1 /\ Cardinality({c, u}) = 2
      /\ Cardinality(top) = 1
  <2>1. IsFiniteSet({}) /\ Cardinality({}) = 0
    BY FS_EmptySet
  <2>2. IsFiniteSet({c}) /\ Cardinality({c}) = 1 /\ Cardinality(top) = 1
    BY FS_Singleton
  <2>3. {c, u} = {c} \cup {u} /\ u \notin {c}
    BY <1>3
  <2>4. Cardinality({c} \cup {u}) = Cardinality({c}) + 1
    BY <2>2, <2>3, FS_AddElement
  <2> QED BY <2>1, <2>2, <2>3, <2>4
<1> HIDE DEF c, u, t, top
<1>5. /\ BootStage(dev, 2, top, {})
      /\ EntriesOf(dev) = {[dir |-> 1, name |-> "dev", obj |-> 2]}
      /\ ObjsOf(dev) = {[id |-> 1, kind |-> "dir"], [id |-> 2, kind |-> "dir"]}
  BY DevMade DEF top
<1> HIDE DEF dev
<1>6. /\ BootStage(console, 3, top, {c})
      /\ EntriesOf(console) = EntriesOf(dev) \cup {[dir |-> 2, name |-> "console", obj |-> 3]}
      /\ ObjsOf(console) = ObjsOf(dev) \cup {[id |-> 3, kind |-> "device"]}
  <2> HIDE DEF console
  <2>1. Cardinality({}) < MaxDirEntries /\ 2 \in 2..4
    BY <1>4, InodesAssumption
  <2>2. DeviceDone(dev, 2, {}, "console", "console")
    BY <1>2, <1>5, <2>1, DeviceMade DEF top
  <2>3. 2 + 1 = 3 /\ {} \cup {c} = {c}
    OBVIOUS
  <2> QED BY <2>2, <2>3 DEF DeviceDone, console, top, c
<1> HIDE DEF console
<1>7. /\ BootStage(uart, 4, top, {c, u})
      /\ EntriesOf(uart) = EntriesOf(console) \cup {[dir |-> 2, name |-> "uart", obj |-> 4]}
      /\ ObjsOf(uart) = ObjsOf(console) \cup {[id |-> 4, kind |-> "device"]}
  <2>1. Cardinality({c}) < MaxDirEntries /\ 3 \in 2..4
    BY <1>4, InodesAssumption
  <2>2. \A e \in {c} : e.name # "uart"
    BY <1>3
  <2>3. DeviceDone(console, 3, {c}, "uart", "uart")
    BY <1>2, <1>6, <2>1, <2>2, DeviceMade DEF top
  <2>4. 3 + 1 = 4 /\ {c} \cup {u} = {c, u}
    OBVIOUS
  <2> QED BY <2>3, <2>4 DEF DeviceDone, top, u
<1> HIDE DEF uart
<1>8. /\ BootStage(timer, 5, top, {c, u, t})
      /\ EntriesOf(timer) = EntriesOf(uart) \cup {[dir |-> 2, name |-> "timer", obj |-> 5]}
      /\ ObjsOf(timer) = ObjsOf(uart) \cup {[id |-> 5, kind |-> "device"]}
  <2>1. Cardinality({c, u}) < MaxDirEntries /\ 4 \in 2..4
    BY <1>4, InodesAssumption
  <2>2. \A e \in {c, u} : e.name # "timer"
    BY <1>3
  <2>3. DeviceDone(uart, 4, {c, u}, "timer", "timer")
    BY <1>2, <1>7, <2>1, <2>2, DeviceMade DEF top
  <2>4. 4 + 1 = 5 /\ {c, u} \cup {t} = {c, u, t}
    OBVIOUS
  <2> QED BY <2>3, <2>4 DEF DeviceDone, top, t
<1> HIDE DEF timer
<1>9. BootMakes(timer, init, 5, 1, "init", "file")
  <2>1. /\ Numbered(timer, 5) /\ timer.inodes[1].kind = "dir"
        /\ timer.inodes[1].dir = top
    BY <1>8 DEF BootStage, Numbered
  <2>2. \A e \in top : e.name # "init"
    BY <1>3 DEF top
  <2>3. Cardinality(timer.inodes[1].dir) < MaxDirEntries
    BY <1>4, <2>1, InodesAssumption
  <2>4. fsResolveParent(timer, 0, <<NoName, "init">>) = [dir |-> 1, name |-> "init"]
    <3>1. TreeInv(timer)
      BY <2>1 DEF Numbered
    <3>2. 5 \in Nat \ {0}
      OBVIOUS
    <3>3. fsLookupByID(timer, RootID) = 1
      BY <2>1, <3>2, RootFirst
    <3> QED BY <1>2, <3>1, <3>3, TopLevel
  <2>5. BootRoom(timer, 5, 1, "init", <<NoName, "init">>)
    BY <1>2, <2>1, <2>2, <2>3, <2>4 DEF BootRoom
  <2> QED BY <2>5, BootCreate
<1> HIDE DEF init
<1>10. /\ init.node = 6 /\ Numbered(init.fs, 6)
       /\ EntriesOf(init.fs) = EntriesOf(timer) \cup {[dir |-> 1, name |-> "init", obj |-> 6]}
       /\ ObjsOf(init.fs) = ObjsOf(timer) \cup {[id |-> 6, kind |-> "file"]}
  <2>1. 5 + 1 = 6
    OBVIOUS
  <2> QED BY <1>9, <2>1 DEF BootMakes
<1>11. /\ TreeInv(init.fs) /\ BytesOK(init.fs) /\ init.fs.nextInodeID = 7
       /\ 6 \in LiveInodes(init.fs) /\ init.fs.inodes[6].id = 6 /\ init.fs \in FSType
  BY <1>10 DEF Numbered, TreeInv
<1>12. Wrote(init.fs, last.fs, 6, 6)
  <2>1. 0 \in Nat /\ 1 \in Nat /\ 6 \in Nat
    OBVIOUS
  <2>2. last = fsWriteRegular(init.fs, 6, 0, Payload(6, 0, 1))
    BY <1>10
  <2> HIDE DEF last
  <2> QED BY <1>11, <2>1, <2>2, WriteEffect
<1> HIDE DEF last
<1>13. /\ TreeInv(last.fs) /\ BytesOK(last.fs)
       /\ LiveInodes(last.fs) = LiveInodes(init.fs)
       /\ EntriesOf(last.fs) = EntriesOf(init.fs)
       /\ \A j \in LiveInodes(init.fs) :
            /\ last.fs.inodes[j].id = init.fs.inodes[j].id
            /\ last.fs.inodes[j].kind = init.fs.inodes[j].kind
  BY <1>11, <1>12, WroteKeeps
<1>14. last.fs.nextInodeID = 7
  BY <1>11, <1>12 DEF Wrote
<1>15. ObjsOf(last.fs) = ObjsOf(init.fs)
  BY <1>13 DEF ObjsOf
<1>16. EntriesOf(last.fs) =
         { [dir |-> 1, name |-> "dev", obj |-> 2],
           [dir |-> 2, name |-> "console", obj |-> 3],
           [dir |-> 2, name |-> "uart", obj |-> 4],
           [dir |-> 2, name |-> "timer", obj |-> 5],
           [dir |-> 1, name |-> "init", obj |-> 6] }
  BY <1>5, <1>6, <1>7, <1>8, <1>10, <1>13, Zenon
<1>17. ObjsOf(last.fs) =
         { [id |-> 1, kind |-> "dir"], [id |-> 2, kind |-> "dir"],
           [id |-> 3, kind |-> "device"], [id |-> 4, kind |-> "device"],
           [id |-> 5, kind |-> "device"], [id |-> 6, kind |-> "file"] }
  BY <1>5, <1>6, <1>7, <1>8, <1>10, <1>15, Zenon
<1> QED BY <1>1, <1>13, <1>14, <1>16, <1>17

-----------------------------------------------------------------------------
(***************************************************************************)
(* The invariant, and what the runs check.                                 *)
(***************************************************************************)

FilesInv == Inv /\ BytesOK(globalFS)

LEMMA InitKeeps == Init => FilesInv
<1> SUFFICES ASSUME Init PROVE FilesInv
  OBVIOUS
<1>1. /\ TreeInv(globalFS) /\ BytesOK(globalFS) /\ globalFS.nextInodeID = 7
  BY Booted DEF Init
<1>2. procs = [p \in Procs |-> ZeroProc]
  BY DEF Init
<1>3. /\ ZeroProc \in ProcType
      /\ \A fd \in FDs : ZeroProc.fdTable[fd] = FreeFD
  <2>1. FreeFD \in FileDescriptor
    BY DEF FreeFD, FileDescriptor
  <2> QED BY <2>1 DEF ZeroProc, ProcType
<1>4. DescOK(globalFS, FreeFD)
  BY <1>1 DEF DescOK, FreeFD
<1>5. procs \in [Procs -> ProcType] /\ DescsOK(globalFS, procs)
  <2> HIDE DEF FreeFD, ZeroProc
  <2> QED BY <1>2, <1>3, <1>4 DEF DescsOK
<1>6. /\ sinks \in [{"console", "uart"} -> Nat] /\ tick \in Nat
      /\ ret \in {"ok", "error", "short"}
  BY DEF Init
<1> QED BY <1>1, <1>5, <1>6 DEF FilesInv, Inv

(* Whatever calls, exits and ticks there were, the tree, the counts, the   *)
(* descriptors and the contents are in order.                              *)
THEOREM FileSystemInvariant == Spec => []FilesInv
<1>1. Init => FilesInv
  BY InitKeeps
<1>2. FilesInv /\ [Next]_vars => FilesInv'
  <2> SUFFICES ASSUME FilesInv, [Next]_vars PROVE FilesInv'
    OBVIOUS
  <2>1. CallKeeps
    BY StepKeeps DEF FilesInv
  <2>2. BytesOK(globalFS')
    BY <2>1, CallStepKeeps DEF CallKeeps, FilesInv, Inv
  <2> QED BY <2>1, <2>2 DEF CallKeeps, FilesInv, BytesOK
<1> QED BY <1>1, <1>2, PTL DEF Spec

(* Files keep apart: a byte of a file is zero or was written to this file  *)
(* at this place (fsWriteRegular, phase7WriteFile, fsAllocInode).          *)
THEOREM ContentsSeparate == Spec => []FilesKeepApart
<1>1. FilesInv => FilesKeepApart
  BY DEF FilesInv, BytesOK, FilesKeepApart
<1> QED BY <1>1, FileSystemInvariant, PTL

(* Descriptors name the inode they were opened on or none, and no          *)
(* descriptor for writing is one of a directory (sysOpen, fsLookupByID).   *)
THEOREM DescriptorsSound == Spec => []DescriptorsSafe
<1>1. FilesInv => DescriptorsSafe
  BY DEF FilesInv, Inv, TreeInv, SlotsOK, DescsOK, DescOK, DescriptorsSafe, Desc
<1> QED BY <1>1, FileSystemInvariant, PTL

(* Types, for every size of the tables. *)
THEOREM FileSystemTypes == Spec => []TypeOK
<1>1. FilesInv => TypeOK
  BY DEF FilesInv, Inv, TreeInv, FSType, ProcType, TypeOK
<1> QED BY <1>1, FileSystemInvariant, PTL

LEMMA SameNames ==
  /\ Entries = EntriesOf(globalFS) /\ IDs = IDsOf(globalFS)
  /\ \A id : Names(id) = NamesOf(globalFS, id)
BY DEF Entries, EntriesOf, EntriesIn, Entry, EntryOf, IDs, IDsOf, Names, NamesOf

(* Link counts never drift, whatever was linked, unlinked, put back or     *)
(* given up half way (sysLink, sysUnlink, fsCreatePath).                   *)
THEOREM CountsNeverDrift == Spec => []LinksCounted
<1>1. FilesInv => LinksCounted
  <2> SUFFICES ASSUME FilesInv PROVE LinksCounted
    OBVIOUS
  <2>1. CountsOK(globalFS) /\ TreeInv(globalFS)
    BY DEF FilesInv, Inv, TreeInv
  <2>2. \A e \in Entries : e.obj \in IDs
    BY <2>1, SameNames, EntryFacts
  <2> QED BY <2>1, <2>2, SameNames DEF CountsOK, LinksCounted
<1> QED BY <1>1, FileSystemInvariant, PTL

(* The directories are a tree below the root, whatever mkdir, link and     *)
(* unlink did, a dot-dot given as a name included.                         *)
THEOREM DirectoriesFormTree == Spec => []TreeRooted
<1>1. FilesInv => TreeRooted
  <2> SUFFICES ASSUME FilesInv PROVE TreeRooted
    OBVIOUS
  <2>1. TreeInv(globalFS) /\ ParentsOK(globalFS)
    BY DEF FilesInv, Inv, TreeInv
  <2>2. \A e, f \in Entries : e.dir = f.dir /\ e.name = f.name => e = f
    BY <2>1, SameNames, EntryFacts
  <2>3. \A i \in LiveInodes(globalFS) : globalFS.inodes[i].kind = "dir" =>
          /\ globalFS.inodes[i].id = RootID => globalFS.inodes[i].parent = RootID
          /\ globalFS.inodes[i].id # RootID => Directory(globalFS.inodes[i], Entries)
    BY <2>1, SameNames DEF ParentsOK
  <2> QED BY <2>2, <2>3 DEF TreeRooted, Tree
<1> QED BY <1>1, FileSystemInvariant, PTL

-----------------------------------------------------------------------------
(***************************************************************************)
(* The names implement the abstract name space.                            *)
(***************************************************************************)

NSOf(fs) == [names |-> EntriesOf(fs), objs |-> ObjsOf(fs), next |-> fs.nextInodeID]

(* A step of the file system is one of the name space, or leaves it alone. *)
NSMoves(fs, g) == NSOf(g) = NSOf(fs) \/ NS!NSStep(NSOf(fs), NSOf(g))

(* The entries of a directory, and the object of an inode. *)
LEMMA NameFacts ==
  ASSUME NEW fs, TreeInv(fs), NEW d \in LiveInodes(fs)
  PROVE  /\ \A f \in EntriesOf(fs) : f.dir = fs.inodes[d].id =>
              \E e \in fs.inodes[d].dir : f = EntryOf(fs, d, e)
         /\ [id |-> fs.inodes[d].id, kind |-> fs.inodes[d].kind] \in ObjsOf(fs)
         /\ \A o \in ObjsOf(fs) : o.id = fs.inodes[d].id => o.kind = fs.inodes[d].kind
<1>1. \A j \in LiveInodes(fs) : fs.inodes[j].id = fs.inodes[d].id => j = d
  BY DEF TreeInv, SlotsOK
<1>2. ASSUME NEW f \in EntriesOf(fs), f.dir = fs.inodes[d].id
      PROVE  \E e \in fs.inodes[d].dir : f = EntryOf(fs, d, e)
  <2>1. PICK j \in LiveInodes(fs) : f \in EntriesIn(fs, j)
    BY DEF EntriesOf
  <2>2. PICK e \in fs.inodes[j].dir : f = EntryOf(fs, j, e)
    BY <2>1 DEF EntriesIn
  <2>3. j = d
    BY <1>1, <1>2, <2>1, <2>2 DEF EntryOf
  <2> QED BY <2>2, <2>3
<1>3. ASSUME NEW o \in ObjsOf(fs), o.id = fs.inodes[d].id
      PROVE  o.kind = fs.inodes[d].kind
  BY <1>1, <1>3 DEF ObjsOf
<1> QED BY <1>2, <1>3 DEF ObjsOf

LEMMA NameFree ==
  ASSUME NEW fs, TreeInv(fs), NEW d \in LiveInodes(fs), fs.inodes[d].kind = "dir",
         NEW name, EntriesNamed(fs, d, name) = {}, NEW e, e.dir = fs.inodes[d].id,
         e.name = name
  PROVE  NS!Free(NSOf(fs), e) /\ e \notin EntriesOf(fs)
<1>1. ASSUME NEW f \in EntriesOf(fs), f.dir = e.dir, f.name = e.name
      PROVE  FALSE
  <2>1. PICK u \in fs.inodes[d].dir : f = EntryOf(fs, d, u)
    BY <1>1, NameFacts
  <2> QED BY <1>1, <2>1 DEF EntryOf, EntriesNamed
<1>2. NS!IsDir(NSOf(fs), e.dir)
  BY NameFacts DEF NS!IsDir, NSOf
<1> QED BY <1>1, <1>2 DEF NS!Free, NSOf

LEMMA BornCreates ==
  ASSUME NEW fs, NEW g, NEW i, NEW d, NEW name, NEW kind \in {"file", "dir"},
         TreeInv(fs), Born(fs, g, i, d, name, kind)
  PROVE  NSMoves(fs, g)
<1> DEFINE n == fs.nextInodeID
           e == [dir |-> fs.inodes[d].id, name |-> name, obj |-> n]
           o == [id |-> n, kind |-> kind]
<1>1. /\ EntriesOf(g) = EntriesOf(fs) \cup {e} /\ n \notin IDsOf(fs)
      /\ ObjsOf(g) = ObjsOf(fs) \cup {o} /\ g.nextInodeID = n + 1
  BY BornFacts, BornObjs DEF Born
<1>2. NS!Free(NSOf(fs), e) /\ e \notin EntriesOf(fs)
  BY NameFree DEF Born
<1>3. o \notin ObjsOf(fs)
  BY <1>1 DEF ObjsOf, IDsOf
<1>4. e.obj = n /\ o.id = n /\ o.kind \in {"file", "dir"}
  OBVIOUS
<1> HIDE DEF e, o
<1>5. NSOf(g) = [names |-> NSOf(fs).names \cup {e}, objs |-> NSOf(fs).objs \cup {o},
                 next |-> NSOf(fs).next + 1]
  BY <1>1 DEF NSOf
<1>6. /\ e \in NSOf(g).names \ NSOf(fs).names /\ o \in NSOf(g).objs \ NSOf(fs).objs
      /\ NSOf(fs).next = n
  BY <1>1, <1>2, <1>3 DEF NSOf
<1>7. NS!Create(NSOf(fs), NSOf(g))
  BY <1>2, <1>4, <1>5, <1>6, Zenon DEF NS!Create
<1> QED BY <1>7 DEF NSMoves, NS!NSStep

LEMMA LinkedLinks ==
  ASSUME NEW fs, NEW g, NEW i, NEW d, NEW name, TreeInv(fs), Linked(fs, g, i, d, name)
  PROVE  NSMoves(fs, g)
<1> DEFINE e == [dir |-> fs.inodes[d].id, name |-> name, obj |-> fs.inodes[i].id]
           o == [id |-> fs.inodes[i].id, kind |-> fs.inodes[i].kind]
<1>1. /\ EntriesOf(g) = EntriesOf(fs) \cup {e} /\ LiveInodes(g) = LiveInodes(fs)
      /\ \A j \in LiveInodes(fs) :
           g.inodes[j].id = fs.inodes[j].id /\ g.inodes[j].kind = fs.inodes[j].kind
  BY LinkedFacts
<1>2. ObjsOf(g) = ObjsOf(fs) /\ g.nextInodeID = fs.nextInodeID
  BY <1>1 DEF ObjsOf, Linked
<1>3. NS!Free(NSOf(fs), e) /\ e \notin EntriesOf(fs)
  BY NameFree DEF Linked
<1>4. o \in ObjsOf(fs) /\ o.id = e.obj /\ o.kind # "dir"
  BY NameFacts DEF Linked
<1> HIDE DEF e, o
<1>5. NSOf(g) = [NSOf(fs) EXCEPT !.names = @ \cup {e}]
  BY <1>1, <1>2 DEF NSOf
<1>6. e \in NSOf(g).names \ NSOf(fs).names /\ o \in NSOf(fs).objs
  BY <1>1, <1>3, <1>4 DEF NSOf
<1>7. NS!Link(NSOf(fs), NSOf(g))
  BY <1>3, <1>4, <1>5, <1>6, Zenon DEF NS!Link
<1> QED BY <1>7 DEF NSMoves, NS!NSStep

(* What is left is the root and what has a name. *)
LEMMA NamedStay ==
  ASSUME NEW fs, TreeInv(fs), NEW id \in IDsOf(fs), id # RootID
  PROVE  \E f \in EntriesOf(fs) : f.obj = id
<1>1. PICK i \in LiveInodes(fs) : fs.inodes[i].id = id
  BY DEF IDsOf
<1>2. fs.inodes[i].nlink = Cardinality(NamesOf(fs, id)) + 0 /\ fs.inodes[i].nlink > 0
  BY <1>1 DEF TreeInv, CountsOK
<1>3. NamesOf(fs, id) # {}
  <2>1. Cardinality({}) = 0 /\ ~(0 + 0 > 0)
    BY FS_EmptySet
  <2> QED BY <1>2, <2>1
<1> QED BY <1>3 DEF NamesOf

LEMMA UnlinkedRemoves ==
  ASSUME NEW fs, NEW g, NEW i, NEW d, NEW e, TreeInv(fs), Unlinked(fs, g, i, d, e)
  PROVE  NSMoves(fs, g)
<1> DEFINE x == EntryOf(fs, d, e)
           n == fs.inodes[i].id
<1>1. /\ x \in EntriesOf(fs) /\ x.obj = n /\ n # RootID
      /\ EntriesOf(g) = EntriesOf(fs) \ {x} /\ LiveInodes(g) \subseteq LiveInodes(fs)
      /\ \A j \in LiveInodes(g) :
           g.inodes[j].id = fs.inodes[j].id /\ g.inodes[j].kind = fs.inodes[j].kind
  BY UnlinkedFacts
<1>2. TreeInv(g) /\ g.nextInodeID = fs.nextInodeID
  BY UnlinkedKeeps DEF Unlinked
<1>3. i \in LiveInodes(fs) /\ (fs.inodes[i].kind = "dir" => fs.inodes[i].dir = {})
  BY DEF Unlinked
<1> HIDE DEF x
<1>4. NS!IsDir(NSOf(fs), n) => \A f \in EntriesOf(fs) : f.dir # n
  <2> SUFFICES ASSUME NS!IsDir(NSOf(fs), n), NEW f \in EntriesOf(fs), f.dir = n
               PROVE  FALSE
    OBVIOUS
  <2>1. [id |-> n, kind |-> "dir"] \in ObjsOf(fs)
    BY DEF NS!IsDir, NSOf
  <2>2. fs.inodes[i].kind = "dir"
    BY <1>3, <2>1, NameFacts
  <2>3. \E u \in fs.inodes[i].dir : f = EntryOf(fs, i, u)
    BY <1>3, NameFacts
  <2> QED BY <1>3, <2>2, <2>3
<1>5. ObjsOf(g) = {o \in ObjsOf(fs) : o.id = NS!Root \/ \E f \in EntriesOf(g) : f.obj = o.id}
  <2>1. ASSUME NEW o \in ObjsOf(g)
        PROVE  o \in ObjsOf(fs) /\ (o.id = RootID \/ \E f \in EntriesOf(g) : f.obj = o.id)
    <3>1. PICK j \in LiveInodes(g) :
            o = [id |-> g.inodes[j].id, kind |-> g.inodes[j].kind]
      BY DEF ObjsOf
    <3>2. o \in ObjsOf(fs) /\ o.id \in IDsOf(g)
      BY <1>1, <3>1 DEF ObjsOf, IDsOf
    <3> QED BY <1>2, <3>2, NamedStay
  <2>2. ASSUME NEW o \in ObjsOf(fs),
               o.id = RootID \/ \E f \in EntriesOf(g) : f.obj = o.id
        PROVE  o \in ObjsOf(g)
    <3>1. o.id \in IDsOf(g)
      <4>1. RootID \in IDsOf(g)
        BY <1>2 DEF TreeInv, SlotsOK, IDsOf
      <4> QED BY <1>2, <2>2, <4>1, EntryFacts
    <3>2. PICK j \in LiveInodes(g) : g.inodes[j].id = o.id
      BY <3>1 DEF IDsOf
    <3>3. j \in LiveInodes(fs) /\ fs.inodes[j].id = o.id
      BY <1>1, <3>2
    <3>4. PICK k \in LiveInodes(fs) :
            o = [id |-> fs.inodes[k].id, kind |-> fs.inodes[k].kind]
      BY DEF ObjsOf
    <3>5. k = j
      BY <3>3, <3>4 DEF TreeInv, SlotsOK
    <3> QED BY <1>1, <3>2, <3>4, <3>5 DEF ObjsOf
  <2>3. NS!Root = RootID
    BY DEF NS!Root, RootID
  <2> QED BY <2>1, <2>2, <2>3
<1>6. NSOf(g) = [NSOf(fs) EXCEPT
                   !.names = @ \ {x},
                   !.objs = {o \in @ : o.id = NS!Root \/ \E f \in NSOf(g).names : f.obj = o.id}]
  <2> DEFINE A == EntriesOf(fs)  B == ObjsOf(fs)  k == fs.nextInodeID
             C == {o \in B : o.id = NS!Root \/ \E f \in A \ {x} : f.obj = o.id}
  <2>1. NSOf(fs) = [names |-> A, objs |-> B, next |-> k]
    BY DEF NSOf
  <2>2. NSOf(g) = [names |-> A \ {x}, objs |-> C, next |-> k]
    BY <1>1, <1>2, <1>5 DEF NSOf
  <2>3. NSOf(g).names = A \ {x}
    BY <2>2
  <2> DEFINE D == {o \in NSOf(fs).objs :
                     o.id = NS!Root \/ \E f \in NSOf(g).names : f.obj = o.id}
  <2>4. D = C
    BY <2>1, <2>3
  <2> HIDE DEF A, B, C, D, k
  <2> DEFINE r == NSOf(fs)
             X == A \ {x}
  <2>5. r = [names |-> A, objs |-> B, next |-> k] /\ r.names = A
    BY <2>1
  <2>6. NSOf(g) = [names |-> X, objs |-> D, next |-> k]
    BY <2>2, <2>4
  <2>7. NSOf(g) = [r EXCEPT !.names = @ \ {x}, !.objs = D]
    <3> HIDE DEF r, X
    <3>1. [r EXCEPT !.names = X, !.objs = D] = [names |-> X, objs |-> D, next |-> k]
      <4> DEFINE z == [r EXCEPT !.names = X, !.objs = D]
      <4>1. r \in [names: {A, X}, objs: {B, D}, next: {k}]
        BY <2>5
      <4>2. z \in [names: {A, X}, objs: {B, D}, next: {k}]
        BY <4>1
      <4>3. z.names = X /\ z.objs = D /\ z.next = k
        BY <2>5, <4>1
      <4> HIDE DEF z
      <4>4. z = [names |-> X, objs |-> D, next |-> k]
        BY <4>2, <4>3
      <4> QED BY <4>4 DEF z
    <3>2. NSOf(g) = [r EXCEPT !.names = X, !.objs = D]
      BY <2>6, <3>1
    <3>3. X = r.names \ {x}
      BY <2>5 DEF X
    <3> QED BY <3>2, <3>3
  <2> QED BY <2>7, Zenon DEF D, r
<1>7. x \in NSOf(fs).names \ NSOf(g).names
  BY <1>1 DEF NSOf
<1>8. NS!IsDir(NSOf(fs), x.obj) => \A f \in NSOf(fs).names : f.dir # x.obj
  BY <1>1, <1>4 DEF NSOf
<1>9. NS!Remove(NSOf(fs), NSOf(g))
  BY <1>6, <1>7, <1>8, Zenon DEF NS!Remove
<1> QED BY <1>9 DEF NSMoves, NS!NSStep

LEMMA StepMoves ==
  ASSUME NEW fs, NEW g, TreeInv(fs), FSStep(fs, g)
  PROVE  NSMoves(fs, g)
<1>1. CASE NotBorn(fs, g)
  <2>1. LiveInodes(g) = LiveInodes(fs) /\ g.inodes = fs.inodes
    BY <1>1 DEF NotBorn, LiveInodes
  <2>2. EntriesOf(g) = EntriesOf(fs) /\ ObjsOf(g) = ObjsOf(fs)
    BY <2>1 DEF EntriesOf, EntriesIn, EntryOf, ObjsOf
  <2>3. g.nextInodeID = fs.nextInodeID \/ g.nextInodeID = fs.nextInodeID + 1
    BY <1>1 DEF NotBorn
  <2>4. CASE g.nextInodeID = fs.nextInodeID
    BY <2>2, <2>4 DEF NSMoves, NSOf
  <2>5. CASE g.nextInodeID = fs.nextInodeID + 1
    <3>1. NSOf(g) = [NSOf(fs) EXCEPT !.next = @ + 1]
      BY <2>2, <2>5 DEF NSOf
    <3> QED BY <3>1 DEF NSMoves, NS!NSStep, NS!Burn
  <2> QED BY <2>3, <2>4, <2>5
<1>2. ASSUME NEW i, NEW d, NEW name, NEW kind \in {"file", "dir"},
             Born(fs, g, i, d, name, kind)
      PROVE  NSMoves(fs, g)
  BY <1>2, BornCreates
<1>3. ASSUME NEW i, NEW d, NEW name, Linked(fs, g, i, d, name)
      PROVE  NSMoves(fs, g)
  BY <1>3, LinkedLinks
<1>4. ASSUME NEW i, NEW d, NEW e, Unlinked(fs, g, i, d, e)
      PROVE  NSMoves(fs, g)
  BY <1>4, UnlinkedRemoves
<1>5. ASSUME NEW i, NEW id, Wrote(fs, g, i, id)
      PROVE  NSMoves(fs, g)
  <2>1. /\ LiveInodes(g) = LiveInodes(fs) /\ EntriesOf(g) = EntriesOf(fs)
        /\ \A j \in LiveInodes(fs) :
             g.inodes[j].id = fs.inodes[j].id /\ g.inodes[j].kind = fs.inodes[j].kind
    BY <1>5, WroteKeeps
  <2>2. ObjsOf(g) = ObjsOf(fs) /\ g.nextInodeID = fs.nextInodeID
    BY <1>5, <2>1 DEF ObjsOf, Wrote
  <2> QED BY <2>1, <2>2 DEF NSMoves, NSOf
<1> QED BY <1>1, <1>2, <1>3, <1>4, <1>5 DEF FSStep

LEMMA CallMoves ==
  ASSUME NEW fs, NEW g, TreeInv(fs), CallStep(fs, g)
  PROVE  NSMoves(fs, g)
<1>1. PICK h : FSStep(fs, h) /\ (g = h \/ \E i : Wrote(h, g, i, h.inodes[i].id))
  BY DEF CallStep
<1>2. TreeInv(h) /\ NSMoves(fs, h)
  BY <1>1, FSStepKeeps, StepMoves
<1>3. ASSUME NEW i, Wrote(h, g, i, h.inodes[i].id)
      PROVE  NSOf(g) = NSOf(h)
  <2>1. /\ LiveInodes(g) = LiveInodes(h) /\ EntriesOf(g) = EntriesOf(h)
        /\ \A j \in LiveInodes(h) :
             g.inodes[j].id = h.inodes[j].id /\ g.inodes[j].kind = h.inodes[j].kind
    BY <1>2, <1>3, WroteKeeps
  <2>2. ObjsOf(g) = ObjsOf(h) /\ g.nextInodeID = h.nextInodeID
    BY <1>3, <2>1 DEF ObjsOf, Wrote
  <2> QED BY <2>1, <2>2 DEF NSOf
<1>4. NSOf(g) = NSOf(h)
  BY <1>1, <1>3
<1> QED BY <1>2, <1>4 DEF NSMoves

(* The names behave like the abstract name space: however a call ends, it  *)
(* creates one file or directory, adds one name, removes one with what has *)
(* none left, uses up a number, or leaves the names alone.                 *)
THEOREM NamesImplementNamespace == Spec => ImplementsNamespace
<1> DEFINE now == [names |-> Entries,
                   objs  |-> {[id |-> globalFS.inodes[i].id, kind |-> globalFS.inodes[i].kind] :
                                i \in LiveInodes(globalFS)},
                   next  |-> globalFS.nextInodeID]
<1>1. now = NSOf(globalFS)
  BY SameNames DEF NSOf, ObjsOf
<1>2. Init => NS!NSInit
  <2> SUFFICES ASSUME Init PROVE NS!NSInit
    OBVIOUS
  <2>1. globalFS = phase6Init(Payload(6, 0, 1))
    BY DEF Init
  <2> QED BY <1>1, <2>1, Booted, Zenon DEF NS!NSInit, NSOf
<1>3. FilesInv /\ [Next]_vars => [NS!NSNext]_now
  <2> SUFFICES ASSUME FilesInv, [Next]_vars PROVE now' = now \/ NS!NSStep(now, now')
    BY DEF NS!NSNext
  <2>1. CallStep(globalFS, globalFS') /\ TreeInv(globalFS)
    BY StepKeeps DEF CallKeeps, FilesInv, Inv
  <2>2. NSMoves(globalFS, globalFS')
    BY <2>1, CallMoves
  <2>3. now' = NSOf(globalFS')
    BY DEF NSOf, ObjsOf, Entries, Entry, EntriesOf, EntriesIn, EntryOf
  <2> QED BY <1>1, <2>2, <2>3 DEF NSMoves
<1> QED BY <1>2, <1>3, FileSystemInvariant, PTL DEF Spec, ImplementsNamespace, NS!NSSpec
-----------------------------------------------------------------------------
(***************************************************************************)
(* Calls that return an error.                                             *)
(***************************************************************************)

(* The inode open leaves behind when the process has no descriptor free. *)
LeftBehind ==
  /\ \E p \in Procs : Alive(p) /\ FreeFDs(p) = {}
  /\ IDs' = IDs \cup {globalFS.nextInodeID}
  /\ Cardinality(Entries') = Cardinality(Entries) + 1

ErrorKeeps ==
  ret' = "error" =>
    UNCHANGED <<procs, sinks>> /\ (UNCHANGED globalFS.inodes \/ LeftBehind)

LEMMA FailsError == Fails => ErrorKeeps
BY DEF Fails, ErrorKeeps

LEMMA BornLeft ==
  ASSUME TreeInv(globalFS), NEW i, NEW d, NEW name, NEW kind \in {"file", "dir", "device"},
         Born(globalFS, globalFS', i, d, name, kind)
  PROVE  /\ IDs' = IDs \cup {globalFS.nextInodeID}
         /\ Cardinality(Entries') = Cardinality(Entries) + 1
<1> DEFINE x == [dir |-> globalFS.inodes[d].id, name |-> name, obj |-> globalFS.nextInodeID]
<1>1. /\ IDsOf(globalFS') = IDsOf(globalFS) \cup {globalFS.nextInodeID}
      /\ EntriesOf(globalFS') = EntriesOf(globalFS) \cup {x}
      /\ globalFS.nextInodeID \notin IDsOf(globalFS)
  BY BornFacts
<1>2. x \notin EntriesOf(globalFS)
  <2>1. x \in EntriesOf(globalFS) => x.obj \in IDsOf(globalFS)
    BY EntryFacts
  <2> QED BY <1>1, <2>1
<1>3. IsFiniteSet(EntriesOf(globalFS))
  BY DEF TreeInv, CountsOK
<1> HIDE DEF x
<1>4. Cardinality(EntriesOf(globalFS')) = Cardinality(EntriesOf(globalFS)) + 1
  BY <1>1, <1>2, <1>3, FS_AddElement
<1>5. /\ Entries' = EntriesOf(globalFS') /\ IDs' = IDsOf(globalFS')
      /\ Entries = EntriesOf(globalFS) /\ IDs = IDsOf(globalFS)
  BY DEF Entries, EntriesOf, EntriesIn, Entry, EntryOf, IDs, IDsOf
<1> QED BY <1>1, <1>4, <1>5

LEMMA OpenError ==
  ASSUME Inv, NEW p \in Procs, Alive(p), NEW path \in OpenPaths, NEW flags \in OpenFlags,
         sysOpen(p, path, flags)
  PROVE  ErrorKeeps
<1> SUFFICES ASSUME ret' = "error"
             PROVE  UNCHANGED <<procs, sinks>> /\ (UNCHANGED globalFS.inodes \/ LeftBehind)
  BY DEF ErrorKeeps
<1> DEFINE node == fsLookupByPath(globalFS, Cwd(p), path)
           created == fsCreatePath(globalFS, Cwd(p), path, "file", "none")
<1>1. path \in Seq(PathNames) /\ TreeInv(globalFS)
  BY PathTyped DEF Inv
<1>2. CASE ~(node = NoInode /\ "create" \in flags)
  <2>1. OpenInode(p, [node |-> node, fs |-> globalFS], flags)
    BY <1>2 DEF sysOpen
  <2> QED BY <2>1 DEF OpenInode, allocFD
<1>3. CASE node = NoInode /\ "create" \in flags
  <2>1. OpenInode(p, created, flags)
    BY <1>3 DEF sysOpen
  <2>2. PICK d, name : CreateReply(globalFS, d, name, "file", created)
    BY <1>1, CreatePathEffect
  <2> HIDE DEF created
  <2>3. UNCHANGED <<procs, sinks>> /\ globalFS' = created.fs
    BY <2>1 DEF OpenInode, allocFD
  <2>4. CASE created.node = NoInode /\ NotBorn(globalFS, created.fs)
    BY <2>3, <2>4 DEF NotBorn
  <2>5. CASE Born(globalFS, created.fs, created.node, d, name, "file")
    <3>1. /\ created.node # NoInode /\ created.fs.inodes[created.node].kind = "file"
      BY <2>5, InodesAssumption DEF Born, InodeSlots, NoInode
    <3>2. FreeFDs(p) = {}
      BY <2>1, <3>1 DEF OpenInode, allocFD
    <3>3. LeftBehind
      BY <1>1, <2>3, <2>5, <3>2, BornLeft DEF LeftBehind
    <3> QED BY <2>3, <3>3
  <2> QED BY <2>2, <2>4, <2>5 DEF CreateReply
<1> QED BY <1>2, <1>3

LEMMA UnlinkError ==
  ASSUME Inv, NEW p \in Procs, NEW path \in NamePaths, sysUnlink(p, path)
  PROVE  ErrorKeeps
<1> DEFINE parent  == fsResolveParent(globalFS, Cwd(p), path)
           removed == fsRemoveDirEntry(globalFS, parent.dir, parent.name)
           i == fsLookupByID(removed.fs, removed.id)
           stays == removed.fs.inodes[i].kind = "dir" /\ ~fsDirEmpty(removed.fs, i)
           put == fsAddDirEntry(removed.fs, parent.dir, parent.name, removed.id).fs
           g == DropLink(removed.fs, i)
<1>1. path \in Seq(PathNames) /\ TreeInv(globalFS)
  BY PathTyped DEF Inv
<1>2. CASE Fails
  BY <1>2, FailsError
<1>3. CASE /\ parent.dir # NoInode /\ removed.ok
           /\ UnlinkRemoved(parent.dir, parent.name, removed)
  <2>1. /\ parent.dir \in LiveInodes(globalFS)
        /\ globalFS.inodes[parent.dir].kind = "dir"
    BY <1>1, <1>3, ParentFound
  <2> HIDE DEF parent
  <2>2. i # NoInode /\ (stays => put = globalFS)
    BY <1>1, <1>3, <2>1, UnlinkEffect
  <2>3. \/ /\ stays /\ globalFS' = put /\ UNCHANGED <<procs, sinks, tick>>
        \/ Changes(g)
    BY <1>3, <2>2 DEF UnlinkRemoved
  <2> HIDE DEF stays, put, g, i, removed
  <2> QED BY <2>2, <2>3 DEF Changes, ErrorKeeps
<1> QED BY <1>2, <1>3 DEF sysUnlink

LEMMA SyscallError ==
  ASSUME Inv, NEW p \in Procs, Alive(p), Syscall(p)
  PROVE  ErrorKeeps
<1>1. CASE \E path \in OpenPaths, flags \in OpenFlags : sysOpen(p, path, flags)
  BY <1>1, OpenError
<1>2. CASE \E fd \in Handles : sysClose(p, fd)
  BY <1>2, FailsError DEF sysClose, ErrorKeeps
<1>3. ASSUME NEW fd \in Handles, NEW count \in Counts, NEW copied \in BOOLEAN,
             sysRead(p, fd, count, copied)
      PROVE  ErrorKeeps
  BY <1>3, FailsError DEF sysRead, Reads, ErrorKeeps
<1>4. ASSUME NEW fd \in Handles, NEW count \in Counts, NEW copied \in BOOLEAN,
             sysWrite(p, fd, count, copied)
      PROVE  ErrorKeeps
  BY <1>4, FailsError, Zenon DEF sysWrite, WriteInode, WriteDevice, Writes, ErrorKeeps
<1>5. CASE \E path \in OpenPaths, size \in TextSizes : redirect(p, path, size)
  BY <1>5 DEF redirect, ErrorKeeps
<1>6. ASSUME NEW path \in NamePaths, sysMkdir(p, path)
      PROVE  ErrorKeeps
  <2> DEFINE made == fsCreatePath(globalFS, Cwd(p), path, "dir", "none")
  <2>1. path \in Seq(PathNames) /\ TreeInv(globalFS)
    BY PathTyped DEF Inv
  <2>2. PICK d, name : CreateReply(globalFS, d, name, "dir", made)
    BY <2>1, CreatePathEffect
  <2>3. /\ globalFS' = made.fs /\ ret' = (IF made.node = NoInode THEN "error" ELSE "ok")
        /\ UNCHANGED <<procs, sinks, tick>>
    BY <1>6 DEF sysMkdir
  <2> HIDE DEF made
  <2>4. CASE Born(globalFS, made.fs, made.node, d, name, "dir")
    <3>1. made.node # NoInode
      BY <2>4, InodesAssumption DEF Born, InodeSlots, NoInode
    <3> QED BY <2>3, <3>1 DEF ErrorKeeps
  <2>5. CASE NotBorn(globalFS, made.fs)
    BY <2>3, <2>5 DEF NotBorn, ErrorKeeps
  <2> QED BY <2>2, <2>4, <2>5 DEF CreateReply
<1>7. CASE \E path \in NamePaths : sysChdir(p, path) \/ sysUnlink(p, path)
  BY <1>7, UnlinkError, FailsError DEF sysChdir, ErrorKeeps
<1>8. CASE \E old, new \in NamePaths : sysLink(p, old, new)
  BY <1>8, FailsError, Zenon DEF sysLink, Changes, ErrorKeeps
<1>9. CASE badRequest(p)
  BY <1>9, FailsError DEF badRequest
<1> QED BY <1>1, <1>2, <1>3, <1>4, <1>5, <1>6, <1>7, <1>8, <1>9 DEF Syscall

(* A call that returns an error has changed nothing, but for the file open *)
(* created before it found no descriptor free (sysOpen, sysUnlink's        *)
(* put-back, the copies of sysRead and sysWrite).                          *)
THEOREM ErrorsLeaveNoTrace == Spec => ErrorsChangeNothing
<1>1. Inv /\ [Next]_vars => [ErrorKeeps]_vars
  <2> SUFFICES ASSUME Inv, Next PROVE ErrorKeeps
    OBVIOUS
  <2>1. CASE \E p \in Procs :
               Alive(p) /\ Syscall(p) /\ globalFS'.nextInodeID <= InodeIDLimit
    BY <2>1, SyscallError
  <2>2. CASE \E p \in Procs : allocProcess(p) \/ processExit(p) \/ releaseProcess(p)
    BY <2>2 DEF allocProcess, processExit, releaseProcess, SetProc, ErrorKeeps
  <2>3. CASE timerTick
    BY <2>3 DEF timerTick, ErrorKeeps
  <2> QED BY <2>1, <2>2, <2>3 DEF Next
<1>2. FilesInv => Inv
  BY DEF FilesInv
<1> QED BY <1>1, <1>2, FileSystemInvariant, PTL
     DEF Spec, ErrorsChangeNothing, ErrorKeeps, LeftBehind
=============================================================================
