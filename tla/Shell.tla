------------------------------- MODULE Shell -------------------------------
(***************************************************************************)
(* Init, shell and utilities of cmd/kernel/phase7_userland.go over the     *)
(* inode table.                                                            *)
(*                                                                         *)
(* Text is a sequence of words: what strings.Fields yields, "\n" for the   *)
(* end of a line and "|" for a bar.  Contents of files are text, a word to *)
(* a byte, so that a file can be a script.  An action is one call of       *)
(* phase7RunShellLine or phase7RunInit by the running process, to its end  *)
(* or until it kills that process.  Of the processes only their states are *)
(* here: the first one waits for its two children, and who runs next, and  *)
(* what else processes do, is in module Processes.                         *)
(***************************************************************************)
EXTENDS Inodes

CONSTANTS
  Lines,         \* lines given to the shell
  InitLines,     \* lines given to init
  Split,         \* the parts of words that hold a slash
  Pids,          \* the numbers of the words that are numbers
  SortedNames,   \* names and states in the order of slices.Sort
  Programs,      \* paths of the programs in /bin
  Script,        \* a script to find in the file /s
  DepthLimit     \* bound on scripts run by scripts

ASSUME ShellAssumption ==
  /\ \A w \in DOMAIN Split : Split[w] \in Seq(STRING)
  /\ \A w \in DOMAIN Pids : Pids[w] \in Int
  /\ DepthLimit \in Nat

VARIABLES
  globalFS,
  procs,     \* states of the processes, by pid
  last       \* the line run last, and whether it succeeded

vars == <<globalFS, procs, last>>

NoLine == [call |-> "none", line |-> <<>>, ok |-> TRUE]

(* currentProc, or nothing after its death: no line runs without it. *)
Running(table) == {p \in DOMAIN table : table[p] = "RUNNING"}

parentPID(p) == IF p = 1 THEN 0 ELSE 1

PathOf(word) == IF word \in DOMAIN Split THEN Split[word] ELSE <<word>>

(* The parts of text between separators. *)
SplitAt(text, separator) ==
  FoldLeft(LAMBDA parts, w : IF w = separator THEN Append(parts, <<>>)
                             ELSE [parts EXCEPT ![Len(parts)] = Append(@, w)],
           << <<>> >>, text)

phase7ReadFile(fs, path) ==
  LET i == fsLookupByPath(fs, 0, path)
  IN  IF i = NoInode \/ i \notin LiveInodes(fs) THEN [ok |-> FALSE, data |-> <<>>]
      ELSE IF fs.inodes[i].kind # "file" THEN [ok |-> FALSE, data |-> <<>>]
      ELSE [ok |-> TRUE, data |-> fsReadRegular(fs, i, 0, fs.inodes[i].size)]

-----------------------------------------------------------------------------
(***************************************************************************)
(* phase7Init.                                                             *)
(***************************************************************************)

phase7EnsureDir(fs, path) ==
  LET i    == fsLookupByPath(fs, 0, path)
      made == fsCreatePath(fs, 0, path, "dir", "none")
  IN  IF i # NoInode THEN [ok |-> fs.inodes[i].kind = "dir", fs |-> fs]
      ELSE [ok |-> made.node # NoInode, fs |-> made.fs]

(* It is phase7WriteFile without a process. *)
phase7EnsureFile(fs, path, data) == phase7WriteFile(fs, 0, path, data)

(* The files with their texts, /init first. *)
Image ==
  << [path |-> "/init", text |-> <<"sh", "\n">>] >>
    \o [k \in DOMAIN Programs |-> [path |-> Programs[k], text |-> <<Programs[k], "\n">>]]

phase7Init(fs) ==
  FoldLeft(LAMBDA done, f : IF done.ok
                            THEN phase7EnsureFile(done.fs, PathOf(f.path), f.text)
                            ELSE done,
           phase7EnsureDir(fs, <<"", "bin">>), Image)

-----------------------------------------------------------------------------
(***************************************************************************)
(* Parsing a stage of a pipeline.  The word after a redirection is its     *)
(* path, whatever it is.                                                   *)
(***************************************************************************)

Unparsed == [ok |-> TRUE, next |-> "word", input |-> "", output |-> "", words |-> <<>>]

ParseWord(c, w) ==
  CASE c.next = "input"  -> [c EXCEPT !.input = w, !.next = "word"]
    [] c.next = "output" -> [c EXCEPT !.output = w, !.next = "word"]
    [] c.next = "word" /\ w = "<" ->
         [c EXCEPT !.next = "input", !.ok = @ /\ c.input = ""]
    [] c.next = "word" /\ w = ">" ->
         [c EXCEPT !.next = "output", !.ok = @ /\ c.output = ""]
    [] OTHER -> [c EXCEPT !.words = Append(@, w)]

phase7ParseCommandSegment(segment) ==
  LET c == FoldLeft(ParseWord, Unparsed, segment)
  IN  [c EXCEPT !.ok = @ /\ c.next = "word" /\ c.words # <<>>]

-----------------------------------------------------------------------------
(***************************************************************************)
(* Running lines.  st is the file system and the processes; deep says that *)
(* DepthLimit was met.                                                     *)
(***************************************************************************)

Yields(ok, out, st) == [ok |-> ok, out |-> IF ok THEN out ELSE <<>>, st |-> st]

cat(st, args) ==
  LET files == [k \in DOMAIN args |-> phase7ReadFile(st.fs, PathOf(args[k]))]
  IN  Yields(\A k \in DOMAIN files : files[k].ok,
             FlattenSeq([k \in DOMAIN files |-> files[k].data]), st)

(* Text with one line for each of the words. *)
InLines(words) == FlattenSeq([k \in DOMAIN words |-> <<words[k], "\n">>])

ls(st, args) ==
  LET i == fsLookupByPath(st.fs, 0, IF args = <<>> THEN <<".">> ELSE PathOf(args[1]))
      names == {e.name : e \in st.fs.inodes[i].dir}
  IN  IF i = NoInode THEN Yields(FALSE, <<>>, st)
      ELSE Yields(st.fs.inodes[i].kind = "dir",
                  InLines(SelectSeq(SortedNames, LAMBDA w : w \in names)), st)

processExit(table, pid) ==
  [p \in DOMAIN table |->
     IF p = pid THEN "ZOMBIE"
     ELSE IF p = parentPID(pid) /\ table[p] = "SLEEPING" THEN "RUNNABLE"
     ELSE table[p]]

(* Through syscallDispatch and sysKill.  Killing the running process       *)
(* panics, and switchToProcess ends the process: the panic unwinds every   *)
(* line and script that runs, which is to fail with nobody left to run on. *)
kill(st, args) ==
  LET pids    == {Pids[w] : w \in ToSet(args) \cap DOMAIN Pids}
      targets == {p \in pids : p > 0} \cap DOMAIN st.procs
  IN  IF Len(args) # 1 \/ targets = {}
      THEN Yields(FALSE, <<>>, st)
      ELSE Yields(targets \cap Running(st.procs) = {}, <<>>,
                  [st EXCEPT !.procs = processExit(@, Pids[args[1]])])

(* A line has the number and the state of a process. *)
ps(st) ==
  Yields(TRUE, FlattenSeq([k \in DOMAIN SortedNames |->
                 IF SortedNames[k] \in DOMAIN Pids /\ Pids[SortedNames[k]] \in DOMAIN st.procs
                 THEN <<SortedNames[k], st.procs[Pids[SortedNames[k]]], "\n">> ELSE <<>>]), st)

RECURSIVE phase7RunShellLine(_, _, _, _)

(* The lines of a script add to its output; the first to fail ends it. *)
RunScript(st, script, depth) ==
  FoldLeft(LAMBDA done, line :
             IF ~done.ok \/ line = <<>> THEN done
             ELSE LET r == phase7RunShellLine(done.st, line, <<>>, depth)
                  IN  Yields(r.ok, done.out \o r.out, r.st),
           Yields(TRUE, <<>>, st), SplitAt(script, "\n"))

sh(st, args, depth) ==
  LET script == phase7ReadFile(st.fs, PathOf(args[1]))
  IN  IF args = <<>> THEN Yields(TRUE, <<>>, st)
      ELSE IF ~script.ok THEN Yields(FALSE, <<>>, st)
      ELSE IF depth = 0 THEN Yields(FALSE, <<>>, [st EXCEPT !.deep = TRUE])
      ELSE RunScript(st, script.data, depth - 1)

phase7RunCommand(st, cmd, args, stdin, depth) ==
  CASE cmd = "echo" -> Yields(TRUE, Append(args, "\n"), st)
    [] cmd = "cat"  -> IF args = <<>> THEN Yields(TRUE, stdin, st) ELSE cat(st, args)
    [] cmd = "ls"   -> ls(st, args)
    [] cmd = "kill" -> kill(st, args)
    [] cmd = "ps"   -> ps(st)
    [] cmd = "sh"   -> sh(st, args, depth)
    [] OTHER        -> Yields(FALSE, <<>>, st)

(* Mutant: any stage may redirect its output. *)
RedirectAnywhere(r, output, final) ==
  LET written == phase7WriteFile(r.st.fs, 0, PathOf(output), r.out)
  IN  IF ~r.ok \/ output = "" THEN r
      ELSE Yields(written.ok, <<>>, [r.st EXCEPT !.fs = written.fs])

(* The output of a stage that has run: only the last one may redirect it. *)
Redirect(r, output, final) ==
  LET written == phase7WriteFile(r.st.fs, 0, PathOf(output), r.out)
  IN  IF ~r.ok \/ output = "" THEN r
      ELSE IF ~final THEN Yields(FALSE, <<>>, r.st)
      ELSE Yields(written.ok, <<>>, [r.st EXCEPT !.fs = written.fs])

(* Mutant: the output file is emptied before the command runs. *)
RunStageEmptied(st, c, in, final, depth) ==
  LET given   == IF c.input = "" THEN [ok |-> TRUE, data |-> in]
                 ELSE phase7ReadFile(st.fs, PathOf(c.input))
      emptied == IF c.output = "" THEN st
                 ELSE [st EXCEPT !.fs = phase7WriteFile(@, 0, PathOf(c.output), <<>>).fs]
  IN  IF ~c.ok \/ ~given.ok THEN Yields(FALSE, <<>>, st)
      ELSE Redirect(phase7RunCommand(emptied, Head(c.words), Tail(c.words), given.data, depth),
                    c.output, final)

RunStage(st, c, in, final, depth) ==
  LET given == IF c.input = "" THEN [ok |-> TRUE, data |-> in]
               ELSE phase7ReadFile(st.fs, PathOf(c.input))
  IN  IF ~c.ok \/ ~given.ok THEN Yields(FALSE, <<>>, st)
      ELSE Redirect(phase7RunCommand(st, Head(c.words), Tail(c.words), given.data, depth),
                    c.output, final)

Stages(line) == LET segments == SplitAt(line, "|")
                IN  [k \in DOMAIN segments |-> phase7ParseCommandSegment(segments[k])]

RunStages(st, stages, stdin, depth) ==
  FoldLeft(LAMBDA done, k : IF ~done.ok THEN done
                            ELSE RunStage(done.st, stages[k], done.out,
                                          k = Len(stages), depth),
           Yields(TRUE, stdin, st), [k \in DOMAIN stages |-> k])

(* Parsing fails a stage once the stages before it have run. *)
phase7RunShellLine(st, line, stdin, depth) ==
  RunStages(st, Stages(line), stdin, depth)

-----------------------------------------------------------------------------
(***************************************************************************)
(* The actions.                                                            *)
(***************************************************************************)

State == [fs |-> globalFS, procs |-> procs, deep |-> FALSE]

Ends(call, line, r) ==
  /\ ~r.st.deep
  /\ globalFS' = r.st.fs /\ procs' = r.st.procs
  /\ last' = [call |-> call, line |-> line, ok |-> r.ok]

runShellLine(line) ==
  Running(procs) # {} /\ Ends("line", line, phase7RunShellLine(State, line, <<>>, DepthLimit))

InitLine(fs, line) ==
  IF line # <<>> THEN line
  ELSE SelectSeq(phase7ReadFile(fs, <<"", "init">>).data, LAMBDA w : w # "\n")

(* phase7RunInit once phase7Init has run; no line means the one in /init. *)
AfterInit(line, image) ==
  IF ~image.ok
  THEN Ends("init", line, Yields(FALSE, <<>>, [State EXCEPT !.fs = image.fs]))
  ELSE Ends("init", line,
            phase7RunShellLine([State EXCEPT !.fs = image.fs],
                               InitLine(image.fs, line), <<>>, DepthLimit))

phase7RunInit(line) == Running(procs) # {} /\ AfterInit(line, phase7Init(globalFS))

(* After the death of a process another one runs. *)
switchToProcess(p) ==
  /\ Running(procs) = {} /\ procs[p] = "RUNNABLE"
  /\ procs' = [procs EXCEPT ![p] = "RUNNING"]
  /\ last' = NoLine
  /\ UNCHANGED globalFS

(* The script was written by a process beforehand; the first process has   *)
(* forked twice and waits.                                                 *)
Init ==
  /\ globalFS = phase7WriteFile(phase6Init(<<"init", "\n">>), 0, <<"", "s">>, Script).fs
  /\ procs = << "SLEEPING", "RUNNING", "RUNNABLE" >>
  /\ last = NoLine

Next ==
  \/ \E line \in Lines : runShellLine(line)
  \/ \E line \in InitLines : phase7RunInit(line)
  \/ \E p \in DOMAIN procs : switchToProcess(p)

Spec == Init /\ [][Next]_vars

-----------------------------------------------------------------------------
(***************************************************************************)
(* Properties.                                                             *)
(***************************************************************************)

(* Where the last stage of a line redirects its output. *)
Target(line) == LET c == Last(Stages(line)) IN IF c.ok THEN c.output ELSE ""

(* A line without its last output redirection. *)
Plain(line) ==
  LET k == Max({0} \cup {j \in DOMAIN line : line[j] = ">"})
  IN  SubSeq(line, 1, k - 1) \o SubSeq(line, k + 2, Len(line))

Shown(line) == phase7RunShellLine(State, Plain(line), <<>>, DepthLimit)

TextNow(word) == phase7ReadFile(globalFS', PathOf(word))

Faithful(shown, text) ==
  /\ last'.ok = (shown.ok /\ text.ok /\ Len(shown.out) <= MaxFileBytes)
  /\ shown.ok /\ text.ok =>
       text.data = SubSeq(shown.out, 1, Min({Len(shown.out), MaxFileBytes}))
  /\ procs' = shown.st.procs
  /\ ~shown.ok => globalFS' = shown.st.fs

(* A redirection puts into the file what the line would have shown, from   *)
(* its start as far as it fits and nothing of the old contents, also when  *)
(* the line reads the file it writes; it fails when not all of it fits.    *)
(* When the line fails, or kills the process that runs it, it leaves what  *)
(* the scripts in it had written by then, and the redirection nothing.     *)
RedirectFaithful ==
  [][last'.call = "line" /\ Target(last'.line) # "" =>
       Faithful(Shown(last'.line), TextNow(Target(last'.line)))]_vars

Untouched(target) ==
  \A i \in LiveInodes(globalFS) :
    \/ globalFS.inodes[i].kind = "dir" \/ i = target
    \/ globalFS'.inodes[i] = globalFS.inodes[i]

(* A line without scripts changes no file but the one its last stage       *)
(* writes, and none at all when a stage fails, when one kills the process  *)
(* that runs the line, or when another stage redirects its output.         *)
OnlyTargetWritten ==
  [][last'.call = "line" /\ "sh" \notin ToSet(last'.line) =>
       /\ Untouched(fsLookupByPath(globalFS, 0, PathOf(Target(last'.line))))
       /\ \/ Target(last'.line) = "" \/ ~Shown(last'.line).ok
          \/ Running(procs') = {}
          => UNCHANGED globalFS]_vars
=============================================================================
