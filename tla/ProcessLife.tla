----------------------------- MODULE ProcessLife -----------------------------
(***************************************************************************)
(* What the kernel promises of the life of a process, without memory and   *)
(* scheduling: it is born in a free slot with a new pid, to a process that *)
(* lives or to the kernel; it dies once; then its parent, alive, reaps it, *)
(* and only then its slot is free again.  Nothing happens to two processes *)
(* at once.                                                                *)
(***************************************************************************)
EXTENDS Integers

VARIABLE
  life   \* procs: [slot, pid, parent, dead]; next: the pid of the next one

LifeInit == life = [procs |-> {}, next |-> 1]

Lives(s, pid) == \E p \in s.procs : p.pid = pid /\ ~p.dead

(* The process a step adds is one of the next state t. *)
Birth(s, t) ==
  \E p \in t.procs \ s.procs :
    /\ p.pid = s.next /\ ~p.dead
    /\ p.parent = 0 \/ Lives(s, p.parent)
    /\ \A q \in s.procs : q.slot # p.slot
    /\ t = [procs |-> s.procs \cup {p}, next |-> s.next + 1]

Death(s, t) ==
  \E p \in s.procs \ t.procs :
    /\ ~p.dead
    /\ t = [s EXCEPT !.procs = (@ \ {p}) \cup {[p EXCEPT !.dead = TRUE]}]

Reaping(s, t) ==
  \E p \in s.procs \ t.procs :
    /\ p.dead /\ Lives(s, p.parent)
    /\ t = [s EXCEPT !.procs = @ \ {p}]

LifeStep(s, t) == Birth(s, t) \/ Death(s, t) \/ Reaping(s, t)

LifeNext == LifeStep(life, life')

LifeSpec == LifeInit /\ [][LifeNext]_life
=============================================================================
