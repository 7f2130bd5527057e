----------------------------- MODULE FileSystem -----------------------------
(***************************************************************************)
(* The file syscalls of cmd/kernel/phase6_fs.go over the inode table, with *)
(* the descriptors and working directories of the processes, the device    *)
(* files and the rewriting of files by the shell (phase7_userland.go).     *)
(*                                                                         *)
(* A syscall runs to its return, so an action is one call.  Whether the    *)
(* copy from or to user memory succeeds is the choice of the caller's      *)
(* address space.  Of the life of a process the module keeps what clears   *)
(* its descriptors: a slot is filled, its process exits, it is reaped.     *)
(*                                                                         *)
(* A byte names the place it was written to: the number of the inode and   *)
(* the position in the file.                                               *)
(***************************************************************************)
EXTENDS Inodes

CONSTANTS
  Procs,              \* slots of the process table
  MaxOpenFiles,       \* maxOpenFiles
  MaxSyscallIOBytes,  \* maxSyscallIOBytes
  OpenPaths,          \* paths passed to open and to the redirections
  NamePaths,          \* paths passed to mkdir, chdir, link and unlink
  OpenFlags,          \* sets of flags passed to open
  Counts,             \* byte counts passed to read and write
  TextSizes,          \* sizes of the files the shell writes
  Radix,              \* the base the timer device prints ticks in
  TickLimit,          \* bound on the tick counter
  SinkLimit,          \* bound on the bytes kept by a device sink
  InodeIDLimit        \* bound on nextInodeID

ASSUME FileSystemAssumption ==
  /\ MaxOpenFiles \in Nat \ {0}
  /\ MaxSyscallIOBytes \in Nat
  /\ OpenPaths \cup NamePaths \subseteq Seq(STRING) \ {<<>>}
  /\ OpenFlags \subseteq SUBSET {"read", "write", "create"}
  /\ Counts \subseteq Nat /\ TextSizes \subseteq Nat
  /\ Radix \in Nat \ {0, 1}
  /\ TickLimit \in Nat /\ SinkLimit \in Nat /\ InodeIDLimit \in Nat

VARIABLES
  globalFS,
  procs,      \* state, cwdInode and fdTable of the processes
  sinks,      \* lengths of consoleDeviceSink and uartDeviceSink
  tick,       \* monotonicTickCount
  ret         \* did the last call return an error?

vars == <<globalFS, procs, sinks, tick, ret>>

FDs == 0..(MaxOpenFiles - 1)

NoFD == -1

(* A descriptor is used when it names an inode. *)
FreeFD == [inodeID |-> 0, offset |-> 0, readable |-> FALSE, writable |-> FALSE]

ZeroProc ==
  [state |-> "UNUSED", cwdInode |-> 0, fdTable |-> [fd \in FDs |-> FreeFD]]

(* The bytes a caller writes to inode id at the offset. *)
Payload(id, offset, count) == [k \in 1..count |-> <<id, offset + k - 1>>]

Init ==
  /\ globalFS = phase6Init(Payload(6, 0, 1))
  /\ procs = [p \in Procs |-> ZeroProc]
  /\ sinks = [d \in {"console", "uart"} |-> 0]
  /\ tick = 0
  /\ ret = "ok"

-----------------------------------------------------------------------------
(***************************************************************************)
(* Descriptors.                                                            *)
(***************************************************************************)

Alive(p) == procs[p].state = "ALIVE"

Cwd(p) == procs[p].cwdInode

Desc(p, fd) == procs[p].fdTable[fd]

FreeFDs(p) == {fd \in FDs : Desc(p, fd).inodeID = 0}

(* lookupFD; ok when the descriptor is in range and used. *)
lookupFD(p, fd) == fd \in FDs /\ Desc(p, fd).inodeID # 0

Fails == ret' = "error" /\ UNCHANGED <<globalFS, procs, sinks, tick>>

(* allocFD, at the end of sysOpen: the lowest free descriptor. *)
allocFD(p, inodeID, readable, writable) ==
  IF FreeFDs(p) = {}
  THEN ret' = "error" /\ UNCHANGED procs
  ELSE /\ ret' = "ok"
       /\ procs' = [procs EXCEPT ![p].fdTable[Min(FreeFDs(p))] =
                      [inodeID |-> inodeID, offset |-> 0,
                       readable |-> readable, writable |-> writable]]

(* Mutant: a directory may be opened for writing. *)
OpenAnyInode(p, found, flags) ==
  /\ globalFS' = found.fs
  /\ IF found.node = NoInode
     THEN ret' = "error" /\ UNCHANGED procs
     ELSE allocFD(p, found.fs.inodes[found.node].id,
                  "read" \in flags \/ "write" \notin flags, "write" \in flags)
  /\ UNCHANGED <<sinks, tick>>

(* sysOpen with the inode found or just created. *)
OpenInode(p, found, flags) ==
  LET node == found.fs.inodes[found.node]
  IN  /\ globalFS' = found.fs
      /\ IF \/ found.node = NoInode
            \/ node.kind = "dir" /\ "write" \in flags
         THEN ret' = "error" /\ UNCHANGED procs
         ELSE allocFD(p, node.id, "read" \in flags \/ "write" \notin flags,
                      "write" \in flags)
      /\ UNCHANGED <<sinks, tick>>

sysOpen(p, path, flags) ==
  LET node == fsLookupByPath(globalFS, Cwd(p), path)
  IN  IF node = NoInode /\ "create" \in flags
      THEN OpenInode(p, fsCreatePath(globalFS, Cwd(p), path, "file", "none"), flags)
      ELSE OpenInode(p, [node |-> node, fs |-> globalFS], flags)

sysClose(p, fd) ==
  \/ ~lookupFD(p, fd) /\ Fails
  \/ /\ lookupFD(p, fd)
     /\ procs' = [procs EXCEPT ![p].fdTable[fd] = FreeFD]
     /\ ret' = "ok"
     /\ UNCHANGED <<globalFS, sinks, tick>>

-----------------------------------------------------------------------------
(***************************************************************************)
(* Reading and writing.                                                    *)
(***************************************************************************)

(* strconv.FormatUint: the digits of the tick. *)
Digits(t) ==
  LET len == 1 + Cardinality({k \in 1..t : Radix^k <= t})
  IN  [j \in 1..len |-> (t \div Radix^(len - j)) % Radix]

(* Each call formats the tick anew. *)
fsReadDevice(device, offset, count) ==
  IF device # "timer" \/ offset >= Len(Digits(tick))
  THEN <<>>
  ELSE SubSeq(Digits(tick), offset + 1, Min({Len(Digits(tick)), offset + count}))

ReadBytes(i, offset, count) ==
  IF globalFS.inodes[i].kind = "file"
  THEN fsReadRegular(globalFS, i, offset, count)
  ELSE fsReadDevice(globalFS.inodes[i].device, offset, count)

(* Mutant: the offset moves although the copyout failed. *)
ReadsAhead(p, fd, bytes, copied) ==
  /\ procs' = [procs EXCEPT ![p].fdTable[fd].offset = @ + Len(bytes)]
  /\ ret' = IF bytes # <<>> /\ ~copied THEN "error" ELSE "ok"
  /\ UNCHANGED <<globalFS, sinks, tick>>

Reads(p, fd, bytes, copied) ==
  IF bytes # <<>> /\ ~copied
  THEN Fails
  ELSE /\ procs' = [procs EXCEPT ![p].fdTable[fd].offset = @ + Len(bytes)]
       /\ ret' = "ok"
       /\ UNCHANGED <<globalFS, sinks, tick>>

(* A directory cannot be read.  A copyout that fails leaves the offset. *)
sysRead(p, fd, count, copied) ==
  LET i == fsLookupByID(globalFS, Desc(p, fd).inodeID)
  IN  IF \/ ~lookupFD(p, fd) \/ ~Desc(p, fd).readable
         \/ count > MaxSyscallIOBytes
         \/ i = NoInode \/ globalFS.inodes[i].kind = "dir"
      THEN Fails
      ELSE Reads(p, fd, ReadBytes(i, Desc(p, fd).offset, count), copied)

Writes(p, fd, written) ==
  /\ globalFS' = written.fs
  /\ procs' = [procs EXCEPT ![p].fdTable[fd].offset = @ + written.n]
  /\ ret' = "ok"
  /\ UNCHANGED tick

(* fsWriteDevice; a write to the timer is accepted and writes nothing. *)
WriteDevice(p, fd, device, count) ==
  \/ /\ device \in DOMAIN sinks /\ sinks[device] + count <= SinkLimit
     /\ sinks' = [sinks EXCEPT ![device] = @ + count]
     /\ Writes(p, fd, [n |-> count, fs |-> globalFS])
  \/ /\ device \notin DOMAIN sinks
     /\ Writes(p, fd, [n |-> 0, fs |-> globalFS])
     /\ UNCHANGED sinks

(* A full file takes part of the bytes and reports how many.  A writable   *)
(* descriptor is never one of a directory.                                 *)
WriteInode(p, fd, i, count) ==
  \/ /\ globalFS.inodes[i].kind = "file"
     /\ Writes(p, fd, fsWriteRegular(globalFS, i, Desc(p, fd).offset,
                 Payload(globalFS.inodes[i].id, Desc(p, fd).offset, count)))
     /\ UNCHANGED sinks
  \/ /\ globalFS.inodes[i].kind = "device"
     /\ WriteDevice(p, fd, globalFS.inodes[i].device, count)

sysWrite(p, fd, count, copied) ==
  LET i == fsLookupByID(globalFS, Desc(p, fd).inodeID)
  IN  IF \/ ~lookupFD(p, fd) \/ ~Desc(p, fd).writable
         \/ count > MaxSyscallIOBytes
         \/ i = NoInode
         \/ count > 0 /\ ~copied
         \/ globalFS.inodes[i].kind = "dir"
      THEN Fails
      ELSE WriteInode(p, fd, i, count)

(* phase7WriteFile, called by the shell for an output redirection. *)
redirect(p, path, size) ==
  LET node    == fsLookupByPath(globalFS, Cwd(p), path)
      id      == IF node = NoInode THEN globalFS.nextInodeID
                 ELSE globalFS.inodes[node].id
      written == phase7WriteFile(globalFS, Cwd(p), path, Payload(id, 0, size))
  IN  /\ globalFS' = written.fs
      /\ ret' = IF written.ok THEN "ok" ELSE "short"
      /\ UNCHANGED <<procs, sinks, tick>>

-----------------------------------------------------------------------------
(***************************************************************************)
(* The name space.                                                         *)
(***************************************************************************)

Changes(fs) ==
  globalFS' = fs /\ ret' = "ok" /\ UNCHANGED <<procs, sinks, tick>>

sysMkdir(p, path) ==
  LET made == fsCreatePath(globalFS, Cwd(p), path, "dir", "none")
  IN  /\ globalFS' = made.fs
      /\ ret' = IF made.node = NoInode THEN "error" ELSE "ok"
      /\ UNCHANGED <<procs, sinks, tick>>

sysChdir(p, path) ==
  LET node == fsLookupByPath(globalFS, Cwd(p), path)
  IN  IF node = NoInode \/ globalFS.inodes[node].kind # "dir"
      THEN Fails
      ELSE /\ procs' = [procs EXCEPT ![p].cwdInode = globalFS.inodes[node].id]
           /\ ret' = "ok"
           /\ UNCHANGED <<globalFS, sinks, tick>>

(* Mutant: the new name is not counted. *)
linkUncounted(p, oldPath, newPath) ==
  LET old    == fsLookupByPath(globalFS, Cwd(p), oldPath)
      parent == fsResolveParent(globalFS, Cwd(p), newPath)
      added  == fsAddDirEntry(globalFS, parent.dir, parent.name,
                              globalFS.inodes[old].id)
  IN  IF \/ old = NoInode \/ globalFS.inodes[old].kind = "dir"
         \/ parent.dir = NoInode \/ ~added.ok
      THEN Fails
      ELSE Changes(added.fs)

(* Mutant: directories are linked like files. *)
linkAnything(p, oldPath, newPath) ==
  LET old    == fsLookupByPath(globalFS, Cwd(p), oldPath)
      parent == fsResolveParent(globalFS, Cwd(p), newPath)
      added  == fsAddDirEntry(globalFS, parent.dir, parent.name,
                              globalFS.inodes[old].id)
  IN  IF old = NoInode \/ parent.dir = NoInode \/ ~added.ok
      THEN Fails
      ELSE Changes([added.fs EXCEPT !.inodes[old].nlink = @ + 1])

(* Directories have one name. *)
sysLink(p, oldPath, newPath) ==
  LET old    == fsLookupByPath(globalFS, Cwd(p), oldPath)
      parent == fsResolveParent(globalFS, Cwd(p), newPath)
      added  == fsAddDirEntry(globalFS, parent.dir, parent.name,
                              globalFS.inodes[old].id)
  IN  IF \/ old = NoInode \/ globalFS.inodes[old].kind = "dir"
         \/ parent.dir = NoInode \/ ~added.ok
      THEN Fails
      ELSE Changes([added.fs EXCEPT !.inodes[old].nlink = @ + 1])

(* The inode goes with its last name, whoever has it open. *)
DropLink(fs, i) ==
  LET node == fs.inodes[i]
  IN  [fs EXCEPT !.inodes[i] = IF node.nlink - 1 <= 0 THEN ZeroInode
                               ELSE [node EXCEPT !.nlink = @ - 1]]

(* The entry of a directory that is not empty is removed and put back. *)
UnlinkRemoved(d, name, removed) ==
  LET i == fsLookupByID(removed.fs, removed.id)
  IN  IF i = NoInode \/ (removed.fs.inodes[i].kind = "dir" /\ ~fsDirEmpty(removed.fs, i))
      THEN /\ globalFS' = IF i = NoInode THEN removed.fs
                          ELSE fsAddDirEntry(removed.fs, d, name, removed.id).fs
           /\ ret' = "error" /\ UNCHANGED <<procs, sinks, tick>>
      ELSE Changes(DropLink(removed.fs, i))

sysUnlink(p, path) ==
  LET parent  == fsResolveParent(globalFS, Cwd(p), path)
      removed == fsRemoveDirEntry(globalFS, parent.dir, parent.name)
  IN  IF parent.dir = NoInode \/ ~removed.ok
      THEN Fails
      ELSE UnlinkRemoved(parent.dir, parent.name, removed)

-----------------------------------------------------------------------------
(***************************************************************************)
(* Processes and ticks.                                                    *)
(***************************************************************************)

(* What allocProcess, processExit and releaseProcess do to the slot. *)
SetProc(p, proc) ==
  procs' = [procs EXCEPT ![p] = proc] /\ ret' = "ok" /\ UNCHANGED <<globalFS, sinks, tick>>

allocProcess(p) ==
  procs[p].state = "UNUSED" /\ SetProc(p, [ZeroProc EXCEPT !.state = "ALIVE"])

processExit(p) == Alive(p) /\ SetProc(p, [procs[p] EXCEPT !.state = "ZOMBIE"])

releaseProcess(p) == procs[p].state = "ZOMBIE" /\ SetProc(p, ZeroProc)

timerTick ==
  tick < TickLimit /\ tick' = tick + 1 /\ UNCHANGED <<globalFS, procs, sinks, ret>>

(* Numbers of descriptors a caller may pass, in range or not. *)
Handles == FDs \cup {NoFD, MaxOpenFiles}

(* copyinstr cannot read a path, or there is no such syscall. *)
badRequest(p) == Alive(p) /\ Fails

Syscall(p) ==
  \/ \E path \in OpenPaths, flags \in OpenFlags : sysOpen(p, path, flags)
  \/ \E fd \in Handles : sysClose(p, fd)
  \/ \E fd \in Handles, count \in Counts, copied \in BOOLEAN :
       sysRead(p, fd, count, copied) \/ sysWrite(p, fd, count, copied)
  \/ \E path \in OpenPaths, size \in TextSizes : redirect(p, path, size)
  \/ \E path \in NamePaths : sysMkdir(p, path)
  \/ \E path \in NamePaths : sysChdir(p, path) \/ sysUnlink(p, path)
  \/ \E old, new \in NamePaths : sysLink(p, old, new)
  \/ badRequest(p)

Next ==
  \/ \E p \in Procs :
       Alive(p) /\ Syscall(p) /\ globalFS'.nextInodeID <= InodeIDLimit
  \/ \E p \in Procs : allocProcess(p) \/ processExit(p) \/ releaseProcess(p)
  \/ timerTick

Spec == Init /\ [][Next]_vars

-----------------------------------------------------------------------------
(***************************************************************************)
(* Properties.                                                             *)
(***************************************************************************)

Bytes == {ZeroByte} \cup (Nat \X Positions)

(* The names phase6Init gives, and the parts of the paths. *)
PathNames ==
  {"dev", "console", "uart", "timer", "init"}
    \cup UNION {Range(path) : path \in OpenPaths \cup NamePaths}

Inode ==
  [kind: {"none", "file", "dir", "device"}, id: Nat, parent: Nat, nlink: Nat,
   device: {"none", "console", "uart", "timer"}, size: 0..MaxFileBytes,
   data: [Positions -> Bytes], dir: SUBSET [name: PathNames, inodeID: Nat]]

FileDescriptor ==
  [inodeID: Nat, offset: Nat, readable: BOOLEAN, writable: BOOLEAN]

TypeOK ==
  /\ globalFS \in [nextInodeID: Nat, inodes: [InodeSlots -> Inode]]
  /\ procs \in [Procs -> [state: {"UNUSED", "ALIVE", "ZOMBIE"}, cwdInode: Nat,
                          fdTable: [FDs -> FileDescriptor]]]
  /\ sinks \in [{"console", "uart"} -> Nat]
  /\ tick \in Nat
  /\ ret \in {"ok", "error", "short"}

(* All names there are, with the number of their directory. *)
Entry(d, e) == [dir |-> globalFS.inodes[d].id, name |-> e.name, obj |-> e.inodeID]

Entries ==
  UNION {{Entry(d, e) : e \in globalFS.inodes[d].dir} : d \in LiveInodes(globalFS)}

Names(id) == {e \in Entries : e.obj = id}

IDs == {globalFS.inodes[i].id : i \in LiveInodes(globalFS)}

(* Link counts never drift: whatever links, unlinks, failed creations and  *)
(* put-back entries there were, an inode has as many names as nlink says,  *)
(* the root one that no directory holds, and every name has an inode.      *)
LinksCounted ==
  /\ \A i \in LiveInodes(globalFS) :
       LET node == globalFS.inodes[i]
       IN  /\ node.nlink = Cardinality(Names(node.id)) + (IF node.id = RootID THEN 1 ELSE 0)
           /\ node.nlink > 0
  /\ \A e \in Entries : e.obj \in IDs

(* The directories form a tree below the root: names in a directory        *)
(* differ, and a directory other than the root has one name, which is in   *)
(* the directory its dot-dot leads to.  That one is the older of the two,  *)
(* so dot-dots end at the root and no path runs in a circle.               *)
Directory(node, names) ==
  \E e \in names :
    /\ e.obj = node.id /\ e.dir = node.parent /\ node.parent < node.id
    /\ \A f \in names : f.obj = node.id => f = e

Tree(nodes, names) ==
  /\ \A node \in nodes : node.id = RootID => node.parent = RootID
  /\ \A node \in nodes : node.id # RootID => Directory(node, names)
  /\ \A e, f \in names : e.dir = f.dir /\ e.name = f.name => e = f

TreeRooted ==
  Tree({globalFS.inodes[i] : i \in {j \in LiveInodes(globalFS) :
                                     globalFS.inodes[j].kind = "dir"}}, Entries)

(* A descriptor outlives the file it was opened on, but never comes to     *)
(* name another one: numbers are unique and not handed out again.  So a    *)
(* descriptor for writing never reaches a directory.                       *)
DescriptorsSafe ==
  /\ \A i, j \in LiveInodes(globalFS) :
       globalFS.inodes[i].id = globalFS.inodes[j].id => i = j
  /\ \A p \in Procs, fd \in FDs :
       Desc(p, fd).inodeID < globalFS.nextInodeID
  /\ \A p \in Procs, fd \in FDs, i \in LiveInodes(globalFS) :
       Desc(p, fd).writable /\ globalFS.inodes[i].id = Desc(p, fd).inodeID =>
         globalFS.inodes[i].kind # "dir"

(* A byte of a file is one that was written to this file, at this place,   *)
(* or zero: no slot, offset, truncation or short write brings in the bytes *)
(* of another file.                                                        *)
FilesKeepApart ==
  \A i \in LiveInodes(globalFS), x \in Positions :
    globalFS.inodes[i].data[x] \in {ZeroByte, <<globalFS.inodes[i].id, x>>}

(* A syscall that returns an error has changed nothing: not the tree, the  *)
(* contents, the descriptors or their offsets.  Only open may leave a new  *)
(* empty file behind when the process has no descriptor free for it.       *)
ErrorsChangeNothing ==
  [][ret' = "error" =>
       /\ UNCHANGED <<procs, sinks>>
       /\ \/ UNCHANGED globalFS.inodes
          \/ /\ \E p \in Procs : Alive(p) /\ FreeFDs(p) = {}
             /\ IDs' = IDs \cup {globalFS.nextInodeID}
             /\ Cardinality(Entries') = Cardinality(Entries) + 1]_vars

(* The names behave like the abstract name space: every call creates one   *)
(* named file or directory, links one, removes one name and what has none  *)
(* left, uses up a number, or leaves the names alone.                      *)
NS == INSTANCE Namespace WITH
        ns <- [names |-> Entries,
               objs  |-> {[id |-> globalFS.inodes[i].id, kind |-> globalFS.inodes[i].kind] :
                            i \in LiveInodes(globalFS)},
               next  |-> globalFS.nextInodeID]

ImplementsNamespace == NS!NSSpec
=============================================================================
