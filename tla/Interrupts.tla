----------------------------- MODULE Interrupts -----------------------------
(***************************************************************************)
(* The interrupt state, the spinlock and the tick counter of               *)
(* cmd/kernel/phase1_kernel.go, one access to shared state at a time.      *)
(*                                                                         *)
(* The one thread of the kernel calls timerInit, monotonicTick and, at     *)
(* this commit, timerInterrupt.  The lock is written for a timer that      *)
(* calls timerInterrupt by itself: between any two steps while the flag    *)
(* permits, on top of what runs, and again on top of that.  No vector does *)
(* so yet and the flag masks no hardware; such a timer is an assumption on *)
(* the environment.  The top of the stack runs until it returns.           *)
(* Here timerInterrupt ends where it has counted the tick; what it then    *)
(* does to the processes is in module Processes.                           *)
(***************************************************************************)
EXTENDS Integers, Sequences

CONSTANTS
  NestLimit,   \* bound on the calls on top of one another
  FireLimit    \* bound on the times the timer fires

ASSUME InterruptsAssumption == NestLimit \in Nat /\ FireLimit \in Nat

VARIABLES
  interruptsEnabled,
  interruptDisableN,
  locked,              \* tickLock
  timerConfigured,     \* and timerIRQEnabled, which is set with it
  monotonicTickCount,
  stack,               \* the calls that run, the innermost one first
  panic,
  fired,               \* times the timer fired
  due,                 \* times it did after the timer was configured
  seen                 \* what monotonicTick returned last

irq   == <<interruptsEnabled, interruptDisableN>>
timer == <<timerConfigured, monotonicTickCount>>
ghost == <<fired, due, seen>>
vars  == <<irq, locked, timer, stack, panic, ghost>>

Frame(op) == [op |-> op, pc |-> "save", saved |-> FALSE, tick |-> 0]

Init ==
  /\ interruptsEnabled = TRUE /\ interruptDisableN = 0
  /\ locked = FALSE
  /\ timerConfigured = FALSE /\ monotonicTickCount = 0
  /\ stack = <<>> /\ panic = "none"
  /\ fired = 0 /\ due = 0 /\ seen = 0

Top == Head(stack)

At(pc) == stack # <<>> /\ Top.pc = pc /\ panic = "none"

Goto(pc) == stack' = <<[Top EXCEPT !.pc = pc]>> \o Tail(stack)

Call(op) ==
  /\ panic = "none" /\ stack = <<>>
  /\ stack' = <<Frame(op)>>
  /\ UNCHANGED <<irq, locked, timer, panic, ghost>>

(* The thread calls timerInterrupt, or a timer that honours the flag does. *)
TimerFires ==
  /\ panic = "none" /\ (stack = <<>> \/ interruptsEnabled)
  /\ Len(stack) < NestLimit /\ fired < FireLimit
  /\ stack' = <<Frame("timerInterrupt")>> \o stack
  /\ fired' = fired + 1
  /\ UNCHANGED <<irq, locked, timer, panic, due, seen>>

-----------------------------------------------------------------------------
(***************************************************************************)
(* lock, with irqDisableSave.                                              *)
(***************************************************************************)

SaveIRQ ==
  /\ At("save")
  /\ stack' = <<[Top EXCEPT !.saved = interruptsEnabled, !.pc = "disable"]>> \o Tail(stack)
  /\ UNCHANGED <<irq, locked, timer, panic, ghost>>

(* Mutant: interrupts stay enabled while the lock is held. *)
DisableNothing ==
  At("disable") /\ Goto("count") /\ UNCHANGED <<irq, locked, timer, panic, ghost>>

DisableIRQ ==
  /\ At("disable")
  /\ interruptsEnabled' = FALSE
  /\ Goto("count")
  /\ UNCHANGED <<interruptDisableN, locked, timer, panic, ghost>>

CountDisabled ==
  /\ At("count")
  /\ interruptDisableN' = interruptDisableN + 1
  /\ Goto("test")
  /\ UNCHANGED <<interruptsEnabled, locked, timer, panic, ghost>>

TestRecursive ==
  /\ At("test")
  /\ IF interruptDisableN > 1 /\ locked
     THEN panic' = "recursive lock" /\ UNCHANGED stack
     ELSE Goto("swap") /\ UNCHANGED panic
  /\ UNCHANGED <<irq, locked, timer, ghost>>

(* The compare and swap; it spins while the lock is held. *)
Swap ==
  /\ At("swap")
  /\ IF locked THEN UNCHANGED <<locked, stack>>
     ELSE locked' = TRUE /\ Goto("body")
  /\ UNCHANGED <<irq, timer, panic, ghost>>

-----------------------------------------------------------------------------
(***************************************************************************)
(* What is done under the lock.                                            *)
(***************************************************************************)

timerInit ==
  /\ At("body") /\ Top.op = "timerInit"
  /\ timerConfigured' = TRUE
  /\ Goto("check")
  /\ UNCHANGED <<irq, locked, monotonicTickCount, panic, ghost>>

monotonicTick ==
  /\ At("body") /\ Top.op = "monotonicTick"
  /\ seen' = monotonicTickCount
  /\ Goto("check")
  /\ UNCHANGED <<irq, locked, timer, panic, fired, due>>

(* Mutant: ticks before timerInit are counted. *)
LoadTickAlways ==
  /\ At("body") /\ Top.op = "timerInterrupt"
  /\ stack' = <<[Top EXCEPT !.tick = monotonicTickCount, !.pc = "store"]>> \o Tail(stack)
  /\ due' = IF timerConfigured THEN due + 1 ELSE due
  /\ UNCHANGED <<irq, locked, timer, panic, fired, seen>>

(* A timer that is not configured does not count. *)
LoadTick ==
  /\ At("body") /\ Top.op = "timerInterrupt"
  /\ IF timerConfigured
     THEN /\ stack' = <<[Top EXCEPT !.tick = monotonicTickCount, !.pc = "store"]>>
                      \o Tail(stack)
          /\ due' = due + 1
     ELSE Goto("check") /\ UNCHANGED due
  /\ UNCHANGED <<irq, locked, timer, panic, fired, seen>>

StoreTick ==
  /\ At("store")
  /\ monotonicTickCount' = Top.tick + 1
  /\ Goto("check")
  /\ UNCHANGED <<irq, locked, timerConfigured, panic, ghost>>

-----------------------------------------------------------------------------
(***************************************************************************)
(* unlock, with irqRestore.                                                *)
(***************************************************************************)

TestLocked ==
  /\ At("check")
  /\ IF locked THEN Goto("clear") /\ UNCHANGED panic
     ELSE panic' = "not locked" /\ UNCHANGED stack
  /\ UNCHANGED <<irq, locked, timer, ghost>>

(* Mutant: the lock is not given back. *)
ClearNothing ==
  At("clear") /\ Goto("restore") /\ UNCHANGED <<irq, locked, timer, panic, ghost>>

Clear ==
  /\ At("clear")
  /\ locked' = FALSE
  /\ Goto("restore")
  /\ UNCHANGED <<irq, timer, panic, ghost>>

Return == stack' = Tail(stack)

CountRestored ==
  /\ At("restore")
  /\ IF interruptDisableN = 0
     THEN Return /\ UNCHANGED interruptDisableN
     ELSE interruptDisableN' = interruptDisableN - 1 /\ Goto("enable")
  /\ UNCHANGED <<interruptsEnabled, locked, timer, panic, ghost>>

(* Mutant: interrupts stay disabled. *)
EnableNever ==
  At("enable") /\ Return /\ UNCHANGED <<irq, locked, timer, panic, ghost>>

EnableIRQ ==
  /\ At("enable")
  /\ interruptsEnabled' = (interruptsEnabled \/ (interruptDisableN = 0 /\ Top.saved))
  /\ Return
  /\ UNCHANGED <<interruptDisableN, locked, timer, panic, ghost>>

Step ==
  \/ SaveIRQ \/ DisableIRQ \/ CountDisabled \/ TestRecursive \/ Swap
  \/ timerInit \/ monotonicTick \/ LoadTick \/ StoreTick
  \/ TestLocked \/ Clear \/ CountRestored \/ EnableIRQ

Next == (\E op \in {"timerInit", "monotonicTick"} : Call(op)) \/ TimerFires \/ Step

(* What is on top of the stack runs. *)
Spec == Init /\ [][Next]_vars /\ WF_vars(Step)

-----------------------------------------------------------------------------
(***************************************************************************)
(* Properties.                                                             *)
(***************************************************************************)

Holding == {"body", "store", "check", "clear"}

(* The lock is held by the innermost call, by it alone, and never with     *)
(* interrupts enabled: so no handler ever meets the lock held, which it    *)
(* could only wait for forever or panic over.  Neither panic of the lock   *)
(* is raised.                                                              *)
LockMasksInterrupts ==
  /\ panic = "none"
  /\ locked = (\E k \in DOMAIN stack : stack[k].pc \in Holding)
  /\ locked => ~interruptsEnabled
  /\ \A k \in DOMAIN stack : k > 1 => stack[k].pc \in {"save", "disable"}

(* Interrupts are enabled again, and the nesting count is back at zero,    *)
(* whenever no call is past its irqDisableSave: no order of saving,        *)
(* nesting and restoring leaves the kernel deaf to the timer.              *)
EnabledRestored ==
  (stack = <<>> \/ Top.pc \in {"save", "disable"}) =>
     interruptsEnabled /\ interruptDisableN = 0 /\ ~locked

(* Every tick after timerInit is counted once, and no time that was read   *)
(* lies ahead of the count.                                                *)
TicksExact ==
  /\ (\A k \in DOMAIN stack : stack[k].pc # "store") => monotonicTickCount = due
  /\ seen <= monotonicTickCount

(* Every call ends: none spins on the lock forever. *)
CallReturns == stack # <<>> ~> stack = <<>>
=============================================================================
