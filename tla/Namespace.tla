------------------------------ MODULE Namespace ------------------------------
(***************************************************************************)
(* What the file system promises of its names, without link counts, slots  *)
(* and descriptors: a name in a directory stands for one object; an object *)
(* exists as long as it has a name; numbers of objects are not used again. *)
(***************************************************************************)
EXTENDS Integers

VARIABLE
  ns   \* names: [dir, name, obj]; objs: [id, kind]; next: objs are below it

Root == 1

(* The names phase6Init makes. *)
NSInit ==
  ns = [ names |-> { [dir |-> 1, name |-> "dev", obj |-> 2],
                     [dir |-> 2, name |-> "console", obj |-> 3],
                     [dir |-> 2, name |-> "uart", obj |-> 4],
                     [dir |-> 2, name |-> "timer", obj |-> 5],
                     [dir |-> 1, name |-> "init", obj |-> 6] },
         objs  |-> { [id |-> 1, kind |-> "dir"], [id |-> 2, kind |-> "dir"],
                     [id |-> 3, kind |-> "device"], [id |-> 4, kind |-> "device"],
                     [id |-> 5, kind |-> "device"], [id |-> 6, kind |-> "file"] },
         next  |-> 7 ]

IsDir(s, o) == [id |-> o, kind |-> "dir"] \in s.objs

(* The name of entry e is free in its directory. *)
Free(s, e) ==
  IsDir(s, e.dir) /\ \A f \in s.names : ~(f.dir = e.dir /\ f.name = e.name)

(* The entry and the object a step adds are those of the next state t. *)
Create(s, t) ==
  \E e \in t.names \ s.names, o \in t.objs \ s.objs :
    /\ Free(s, e) /\ e.obj = s.next
    /\ o.id = s.next /\ o.kind \in {"file", "dir"}
    /\ t = [names |-> s.names \cup {e}, objs |-> s.objs \cup {o}, next |-> s.next + 1]

Link(s, t) ==
  \E e \in t.names \ s.names :
    /\ Free(s, e)
    /\ \E o \in s.objs : o.id = e.obj /\ o.kind # "dir"
    /\ t = [s EXCEPT !.names = @ \cup {e}]

(* The last name takes the object with it; a directory goes only empty. *)
Remove(s, t) ==
  \E e \in s.names \ t.names :
    /\ IsDir(s, e.obj) => \A f \in s.names : f.dir # e.obj
    /\ t = [s EXCEPT
              !.names = @ \ {e},
              !.objs  = {o \in @ : o.id = Root \/ \E f \in t.names : f.obj = o.id}]

(* A creation that fails may use up a number. *)
Burn(s, t) == t = [s EXCEPT !.next = @ + 1]

NSStep(s, t) == Create(s, t) \/ Link(s, t) \/ Remove(s, t) \/ Burn(s, t)

NSNext == NSStep(ns, ns')

NSSpec == NSInit /\ [][NSNext]_ns
=============================================================================
