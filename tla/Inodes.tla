------------------------------- MODULE Inodes -------------------------------
(***************************************************************************)
(* The inode table of cmd/kernel/phase6_fs.go: directories, path           *)
(* resolution, creation and the contents of regular files.                 *)
(*                                                                         *)
(* The module has no variables.  An operation takes the file system fs, a  *)
(* record like globalFS, and yields a record with its result and the new   *)
(* file system.  A path is the sequence strings.Split(path, "/") yields:   *)
(* "" is <<"">>, "/" is <<"", "">>, "/a/../b" is <<"", "a", "..", "b">>.   *)
(* A directory is the set of its used entries.                             *)
(***************************************************************************)
EXTENDS Integers, SequencesExt

CONSTANTS
  MaxInodes,       \* phase6MaxInodes
  MaxDirEntries,   \* phase6MaxDirEntries
  MaxFileBytes,    \* phase6MaxFileBytes
  ZeroByte         \* the byte of cleared memory

(* phase6Init makes six inodes, and directories of two and three entries. *)
ASSUME InodesAssumption ==
  /\ MaxInodes \in Nat /\ MaxInodes >= 6
  /\ MaxDirEntries \in Nat /\ MaxDirEntries >= 3
  /\ MaxFileBytes \in Nat \ {0}

InodeSlots == 1..MaxInodes

NoInode == 0

RootID == 1

Positions == 0..(MaxFileBytes - 1)

ZeroInode ==
  [kind |-> "none", id |-> 0, parent |-> 0, nlink |-> 0, device |-> "none",
   size |-> 0, data |-> [x \in Positions |-> ZeroByte], dir |-> {}]

(* An inode is used when it has a kind. *)
LiveInodes(fs) == {i \in InodeSlots : fs.inodes[i].kind # "none"}

FirstInode(S) == IF S = {} THEN NoInode ELSE Min(S)

fsAllocInode(fs, kind, parent, device) ==
  LET i == FirstInode(InodeSlots \ LiveInodes(fs))
  IN  IF i = NoInode
      THEN [node |-> NoInode, fs |-> fs]
      ELSE [node |-> i,
            fs |-> [fs EXCEPT
                      !.nextInodeID = @ + 1,
                      !.inodes[i] = [ZeroInode EXCEPT
                                       !.kind = kind, !.parent = parent,
                                       !.id = fs.nextInodeID,
                                       !.nlink = 1, !.device = device]]]

fsLookupByID(fs, id) ==
  FirstInode({i \in LiveInodes(fs) : id > 0 /\ fs.inodes[i].id = id})

-----------------------------------------------------------------------------
(***************************************************************************)
(* Directories.                                                            *)
(***************************************************************************)

EntriesNamed(fs, d, name) == {e \in fs.inodes[d].dir : e.name = name}

fsLookupInDir(fs, d, name) ==
  IF fs.inodes[d].kind # "dir" \/ EntriesNamed(fs, d, name) = {}
  THEN NoInode
  ELSE fsLookupByID(fs, (CHOOSE e \in EntriesNamed(fs, d, name) : TRUE).inodeID)

fsAddDirEntry(fs, d, name, childID) ==
  IF \/ fs.inodes[d].kind # "dir" \/ name = ""
     \/ fsLookupInDir(fs, d, name) # NoInode
     \/ Cardinality(fs.inodes[d].dir) >= MaxDirEntries
  THEN [ok |-> FALSE, fs |-> fs]
  ELSE [ok |-> TRUE,
        fs |-> [fs EXCEPT !.inodes[d].dir =
                  @ \cup {[name |-> name, inodeID |-> childID]}]]

fsRemoveDirEntry(fs, d, name) ==
  IF fs.inodes[d].kind # "dir" \/ EntriesNamed(fs, d, name) = {}
  THEN [ok |-> FALSE, id |-> 0, fs |-> fs]
  ELSE LET e == CHOOSE e \in EntriesNamed(fs, d, name) : TRUE
       IN  [ok |-> TRUE, id |-> e.inodeID,
            fs |-> [fs EXCEPT !.inodes[d].dir = @ \ {e}]]

fsDirEmpty(fs, i) == fs.inodes[i].kind = "dir" /\ fs.inodes[i].dir = {}

-----------------------------------------------------------------------------
(***************************************************************************)
(* Paths.  cwd is the cwdInode of the calling process, zero for none and   *)
(* for calls without a process.                                            *)
(***************************************************************************)

EmptyPath == <<"">>

IsAbsolute(path) == Len(path) > 1 /\ path[1] = ""

fsSplitPath(path) ==
  FoldLeft(LAMBDA parts, part : IF part \in {"", "."} THEN parts ELSE Append(parts, part),
           <<>>, path)

fsStartingDir(fs, cwd, path) ==
  LET root == fsLookupByID(fs, RootID)
  IN  IF root = NoInode \/ IsAbsolute(path) \/ cwd = 0
      THEN root
      ELSE fsLookupByID(fs, cwd)

(* One round of the loop of fsLookupByPath: a dot-dot goes to the parent   *)
(* of any inode, whatever entry of that name there is.                     *)
PathStep(fs, current, part) ==
  IF current = NoInode THEN NoInode
  ELSE IF part = ".." THEN fsLookupByID(fs, fs.inodes[current].parent)
  ELSE fsLookupInDir(fs, current, part)

fsLookupByPath(fs, cwd, path) ==
  IF path = EmptyPath
  THEN NoInode
  ELSE FoldLeft(LAMBDA current, part : PathStep(fs, current, part),
                fsStartingDir(fs, cwd, path), fsSplitPath(path))

(* The directory part of a path, as fsResolveParent joins it again. *)
ParentPath(path, parts) ==
  IF Len(parts) > 1
  THEN (IF IsAbsolute(path) THEN <<"">> ELSE <<>>) \o Front(parts)
  ELSE IF IsAbsolute(path) THEN <<"", "">> ELSE <<".">>

(* The last part is a name in the directory, dot-dot included. *)
fsResolveParent(fs, cwd, path) ==
  LET parts == fsSplitPath(path)
      dir   == fsLookupByPath(fs, cwd, ParentPath(path, parts))
  IN  IF parts = <<>>
      THEN [dir |-> NoInode, name |-> ""]
      ELSE IF dir \notin LiveInodes(fs) \/ fs.inodes[dir].kind # "dir"
      THEN [dir |-> NoInode, name |-> ""]
      ELSE [dir |-> dir, name |-> Last(parts)]

(* Mutant: an inode without a name is not given back. *)
NameOrLeak(fs, alloc, d, name) ==
  LET added == fsAddDirEntry(alloc.fs, d, name, alloc.fs.inodes[alloc.node].id)
  IN  IF alloc.node = NoInode THEN alloc
      ELSE [node |-> IF added.ok THEN alloc.node ELSE NoInode, fs |-> added.fs]

(* fsCreatePath once the inode is allocated: without room for the entry    *)
(* the inode is given back, its number is not.                             *)
NameInode(fs, alloc, d, name) ==
  LET added == fsAddDirEntry(alloc.fs, d, name, alloc.fs.inodes[alloc.node].id)
  IN  IF alloc.node = NoInode THEN alloc
      ELSE IF added.ok THEN [node |-> alloc.node, fs |-> added.fs]
      ELSE [node |-> NoInode,
            fs |-> [alloc.fs EXCEPT !.inodes[alloc.node] = ZeroInode]]

CreateIn(fs, d, name, kind, device) ==
  IF d = NoInode \/ fsLookupInDir(fs, d, name) # NoInode
  THEN [node |-> NoInode, fs |-> fs]
  ELSE NameInode(fs, fsAllocInode(fs, kind, fs.inodes[d].id, device), d, name)

fsCreatePath(fs, cwd, path, kind, device) ==
  LET parent == fsResolveParent(fs, cwd, path)
  IN  CreateIn(fs, parent.dir, parent.name, kind, device)

-----------------------------------------------------------------------------
(***************************************************************************)
(* Contents of regular files, and the file system phase6Init makes.        *)
(***************************************************************************)

(* Mutant: the size grows by what was asked for. *)
fsWriteUncapped(fs, i, offset, src) ==
  LET n == IF fs.inodes[i].kind # "file" \/ offset >= MaxFileBytes THEN 0
           ELSE Len(src)
  IN  [n  |-> n,
       fs |-> [fs EXCEPT
                 !.inodes[i].data =
                   [x \in Positions |-> IF x \in offset..(offset + n - 1)
                                        THEN src[x - offset + 1] ELSE @[x]],
                 !.inodes[i].size = IF n > 0 THEN Max({@, offset + n}) ELSE @]]

fsWriteRegular(fs, i, offset, src) ==
  LET n == IF fs.inodes[i].kind # "file" \/ offset >= MaxFileBytes THEN 0
           ELSE Min({MaxFileBytes - offset, Len(src)})
  IN  [n  |-> n,
       fs |-> [fs EXCEPT
                 !.inodes[i].data =
                   [x \in Positions |-> IF x \in offset..(offset + n - 1)
                                        THEN src[x - offset + 1] ELSE @[x]],
                 !.inodes[i].size = IF n > 0 THEN Max({@, offset + n}) ELSE @]]

(* The bytes fsReadRegular copies into a buffer of count bytes. *)
fsReadRegular(fs, i, offset, count) ==
  LET n == IF fs.inodes[i].kind # "file" \/ offset >= fs.inodes[i].size THEN 0
           ELSE Min({fs.inodes[i].size - offset, count})
  IN  [k \in 1..n |-> fs.inodes[i].data[offset + k - 1]]

(* Mutant: the contents are added to the old ones. *)
Appended(found, data) ==
  IF found.node = NoInode \/ found.fs.inodes[found.node].kind # "file"
  THEN [ok |-> FALSE, fs |-> found.fs]
  ELSE LET written == fsWriteRegular(found.fs, found.node,
                                     found.fs.inodes[found.node].size, data)
       IN  [ok |-> written.n = Len(data), fs |-> written.fs]

(* phase7WriteFile and phase7EnsureFile: the file is created if need be,   *)
(* its size set to zero and its contents written over the old bytes.       *)
Rewrite(found, data) ==
  IF found.node = NoInode \/ found.fs.inodes[found.node].kind # "file"
  THEN [ok |-> FALSE, fs |-> found.fs]
  ELSE LET written == fsWriteRegular([found.fs EXCEPT !.inodes[found.node].size = 0],
                                     found.node, 0, data)
       IN  [ok |-> written.n = Len(data), fs |-> written.fs]

phase7WriteFile(fs, cwd, path, data) ==
  LET node == fsLookupByPath(fs, cwd, path)
  IN  Rewrite(IF node # NoInode THEN [node |-> node, fs |-> fs]
              ELSE fsCreatePath(fs, cwd, path, "file", "none"), data)

EmptyFS == [nextInodeID |-> 1, inodes |-> [i \in InodeSlots |-> ZeroInode]]

RootFS ==
  LET root == fsAllocInode(EmptyFS, "dir", 0, "none")
  IN  [root.fs EXCEPT !.inodes[root.node].parent = root.fs.inodes[root.node].id]

(* phase6Init; its calls of fsCreatePath do not fail. *)
phase6Init(initText) ==
  LET dev     == fsCreatePath(RootFS, 0, <<"", "dev">>, "dir", "none").fs
      console == fsCreatePath(dev, 0, <<"", "dev", "console">>, "device", "console").fs
      uart    == fsCreatePath(console, 0, <<"", "dev", "uart">>, "device", "uart").fs
      timer   == fsCreatePath(uart, 0, <<"", "dev", "timer">>, "device", "timer").fs
      init    == fsCreatePath(timer, 0, <<"", "init">>, "file", "none")
  IN  fsWriteRegular(init.fs, init.node, 0, initText).fs
=============================================================================
