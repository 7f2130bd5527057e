-------------------------- MODULE InterruptsProofs --------------------------
(***************************************************************************)
(* Proofs about Interrupts, for every depth of nesting and every number of *)
(* timer interrupts.                                                       *)
(*                                                                         *)
(* At most the call on top of the stack is past irqDisableSave.  So the    *)
(* interrupt flag, the nesting count and the lock are functions of the     *)
(* label it is at, which is what the invariant says.                       *)
(***************************************************************************)
EXTENDS Interrupts, SequenceTheorems, TLAPS

Operations == {"timerInit", "monotonicTick", "timerInterrupt"}

Labels == {"save", "disable", "count", "test", "swap", "body", "store",
           "check", "clear", "restore", "enable"}

Calls == [op: Operations, pc: Labels, saved: BOOLEAN, tick: Nat]

TypeInv ==
  /\ interruptsEnabled \in BOOLEAN /\ interruptDisableN \in Nat
  /\ locked \in BOOLEAN
  /\ timerConfigured \in BOOLEAN /\ monotonicTickCount \in Nat
  /\ stack \in Seq(Calls)
  /\ fired \in Nat /\ due \in Nat /\ seen \in Nat

(* Where the top of the stack is; nowhere when nothing runs. *)
Label == IF stack = <<>> THEN "none" ELSE Top.pc

(* A call that was interrupted had not disabled interrupts yet, and every  *)
(* call found them enabled.                                                *)
Waiting ==
  \A k \in 1..Len(stack) :
    /\ k > 1 => stack[k].pc \in {"save", "disable"}
    /\ stack[k].pc # "save" => stack[k].saved

(* The flag, the count and the lock go with the label. *)
Masked ==
  /\ interruptsEnabled <=> Label \in {"none", "save", "disable"}
  /\ interruptDisableN =
       IF Label \in {"none", "save", "disable", "count", "enable"} THEN 0 ELSE 1
  /\ locked <=> Label \in Holding

(* The tick that is being stored is the one after the count. *)
Counted ==
  /\ due = monotonicTickCount + (IF Label = "store" THEN 1 ELSE 0)
  /\ Label = "store" => Top.tick = monotonicTickCount
  /\ seen <= monotonicTickCount

IInv == TypeInv /\ panic = "none" /\ Waiting /\ Masked /\ Counted

-----------------------------------------------------------------------------
(***************************************************************************)
(* The stack of calls.                                                     *)
(***************************************************************************)

LEMMA Replaced ==
  ASSUME NEW S, NEW s \in Seq(S), s # <<>>, NEW f \in S
  PROVE  LET t == <<f>> \o Tail(s)
         IN  /\ t \in Seq(S) /\ t # <<>> /\ Head(t) = f
             /\ Len(t) = Len(s)
             /\ t[1] = f
             /\ \A k \in 2..Len(s) : t[k] = s[k]
<1> DEFINE t == <<f>> \o Tail(s)
<1>1. /\ Tail(s) \in Seq(S) /\ Len(s) \in Nat /\ Len(s) > 0
      /\ Len(Tail(s)) = Len(s) - 1
      /\ \A k \in 1..Len(Tail(s)) : Tail(s)[k] = s[k + 1]
  BY HeadTailProperties, EmptySeq, LenProperties
<1>2. <<f>> \in Seq(S) /\ Len(<<f>>) = 1 /\ <<f>>[1] = f
  OBVIOUS
<1>3. /\ t \in Seq(S) /\ Len(t) = 1 + Len(Tail(s))
      /\ \A k \in 1..Len(t) : t[k] = IF k <= 1 THEN <<f>>[k] ELSE Tail(s)[k - 1]
  BY <1>1, <1>2, ConcatProperties
<1> HIDE DEF t
<1>4. Len(t) = Len(s) /\ t[1] = f
  BY <1>1, <1>2, <1>3
<1>5. \A k \in 2..Len(s) : t[k] = s[k]
  <2> TAKE k \in 2..Len(s)
  <2>1. t[k] = Tail(s)[k - 1] /\ k - 1 \in 1..Len(Tail(s))
    BY <1>1, <1>3, <1>4
  <2> QED BY <1>1, <2>1
<1>6. t # <<>> /\ Head(t) = t[1]
  BY <1>1, <1>3, <1>4
<1> QED BY <1>3, <1>4, <1>5, <1>6 DEF t

LEMMA Pushed ==
  ASSUME NEW S, NEW s \in Seq(S), NEW f \in S
  PROVE  LET t == <<f>> \o s
         IN  /\ t \in Seq(S) /\ t # <<>> /\ Head(t) = f
             /\ Len(t) = Len(s) + 1
             /\ t[1] = f
             /\ \A k \in 1..Len(s) : t[k + 1] = s[k]
<1> DEFINE t == <<f>> \o s
<1>1. <<f>> \in Seq(S) /\ Len(<<f>>) = 1 /\ <<f>>[1] = f /\ Len(s) \in Nat
  OBVIOUS
<1>2. /\ t \in Seq(S) /\ Len(t) = 1 + Len(s)
      /\ \A k \in 1..Len(t) : t[k] = IF k <= 1 THEN <<f>>[k] ELSE s[k - 1]
  BY <1>1, ConcatProperties
<1> HIDE DEF t
<1>3. \A k \in 1..Len(s) : t[k + 1] = s[k]
  BY <1>1, <1>2
<1>4. t # <<>> /\ Head(t) = t[1] /\ t[1] = f
  BY <1>1, <1>2
<1> QED BY <1>1, <1>2, <1>3, <1>4 DEF t

(* The call on top goes on to f, having found interrupts enabled. *)
LEMMA TopMoves ==
  ASSUME TypeInv, Waiting, stack # <<>>, NEW f \in Calls,
         f.pc # "save" => f.saved, stack' = <<f>> \o Tail(stack)
  PROVE  stack' \in Seq(Calls) /\ Top' = f /\ Label' = f.pc /\ Waiting'
<1>1. /\ stack \in Seq(Calls)
      /\ stack' \in Seq(Calls) /\ stack' # <<>> /\ Head(stack') = f
      /\ Len(stack') = Len(stack) /\ stack'[1] = f
      /\ \A k \in 2..Len(stack) : stack'[k] = stack[k]
  BY Replaced DEF TypeInv
<1>2. Len(stack) \in Nat
  BY <1>1
<1>3. ASSUME NEW k \in 1..Len(stack')
      PROVE  /\ k > 1 => stack'[k].pc \in {"save", "disable"}
             /\ stack'[k].pc # "save" => stack'[k].saved
  <2>1. CASE k = 1
    BY <2>1, <1>1
  <2>2. CASE k # 1
    <3>1. k \in 2..Len(stack) /\ k \in 1..Len(stack) /\ k > 1
      BY <1>1, <1>2, <2>2
    <3> QED BY <1>1, <3>1 DEF Waiting
  <2> QED BY <2>1, <2>2
<1> QED BY <1>1, <1>3 DEF Waiting, Label, Top

(* The call on top returns; what it interrupted is at save or disable. *)
LEMMA TopReturns ==
  ASSUME TypeInv, Waiting, stack # <<>>, stack' = Tail(stack)
  PROVE  stack' \in Seq(Calls) /\ Label' \in {"none", "save", "disable"} /\ Waiting'
<1>1. /\ stack \in Seq(Calls) /\ Tail(stack) \in Seq(Calls)
      /\ Len(stack) \in Nat /\ Len(stack) > 0
      /\ Len(Tail(stack)) = Len(stack) - 1
      /\ \A k \in 1..Len(Tail(stack)) : Tail(stack)[k] = stack[k + 1]
  BY HeadTailProperties, EmptySeq, LenProperties DEF TypeInv
<1>2. ASSUME NEW k \in 1..Len(stack')
      PROVE  /\ stack'[k].pc \in {"save", "disable"}
             /\ stack'[k].pc # "save" => stack'[k].saved
  <2>1. k + 1 \in 1..Len(stack) /\ k + 1 > 1 /\ stack'[k] = stack[k + 1]
    BY <1>1
  <2> QED BY <2>1 DEF Waiting
<1>3. Waiting'
  BY <1>2 DEF Waiting
<1>4. Label' \in {"none", "save", "disable"}
  <2>1. CASE stack' = <<>>
    BY <2>1 DEF Label
  <2>2. CASE stack' # <<>>
    <3>1. 1 \in 1..Len(stack') /\ Head(stack') = stack'[1]
      BY <1>1, <2>2
    <3> QED BY <1>2, <2>2, <3>1 DEF Label, Top
  <2> QED BY <2>1, <2>2
<1> QED BY <1>1, <1>3, <1>4

(* A call is put on top of what runs. *)
LEMMA TopPushed ==
  ASSUME TypeInv, Waiting, Label \in {"none", "save", "disable"},
         NEW op \in Operations, stack' = <<Frame(op)>> \o stack
  PROVE  stack' \in Seq(Calls) /\ Label' = "save" /\ Waiting'
<1>1. Frame(op) \in Calls /\ Frame(op).pc = "save"
  BY DEF Frame, Calls, Labels
<1>2. /\ stack \in Seq(Calls) /\ stack' \in Seq(Calls) /\ stack' # <<>>
      /\ Head(stack') = Frame(op) /\ stack'[1] = Frame(op)
      /\ Len(stack') = Len(stack) + 1
      /\ \A k \in 1..Len(stack) : stack'[k + 1] = stack[k]
  BY <1>1, Pushed DEF TypeInv
<1>3. Len(stack) \in Nat
  BY <1>2
<1>4. ASSUME NEW k \in 1..Len(stack')
      PROVE  /\ k > 1 => stack'[k].pc \in {"save", "disable"}
             /\ stack'[k].pc # "save" => stack'[k].saved
  <2>1. CASE k = 1
    BY <2>1, <1>1, <1>2
  <2>2. CASE k # 1
    <3>1. k - 1 \in 1..Len(stack) /\ stack'[k] = stack[k - 1]
      BY <1>2, <1>3, <2>2
    <3>2. stack[k - 1].pc \in {"save", "disable"}
      <4>1. CASE k - 1 = 1
        <5>1. Len(stack) > 0 /\ 1 \in 1..Len(stack)
          BY <1>3, <3>1
        <5>2. stack # <<>> /\ Head(stack) = stack[1] /\ stack[1] \in Calls
          BY <1>2, <5>1
        <5> QED BY <4>1, <5>2 DEF Label, Top, Calls, Labels
      <4>2. CASE k - 1 # 1
        BY <3>1, <4>2 DEF Waiting
      <4> QED BY <4>1, <4>2
    <3> QED BY <3>1, <3>2 DEF Waiting
  <2> QED BY <2>1, <2>2
<1> QED BY <1>1, <1>2, <1>4 DEF Waiting, Label, Top

(* What the invariant says of the call on top. *)
LEMMA TopTyped ==
  ASSUME TypeInv, Waiting, stack # <<>>
  PROVE  /\ Top \in Calls /\ Label = Top.pc
         /\ Top.pc # "save" => Top.saved
<1>1. stack \in Seq(Calls) /\ Len(stack) \in Nat /\ Len(stack) > 0
  BY EmptySeq, LenProperties DEF TypeInv
<1>2. 1 \in 1..Len(stack) /\ Head(stack) = stack[1] /\ stack[1] \in Calls
  BY <1>1
<1> QED BY <1>2 DEF Waiting, Label, Top

-----------------------------------------------------------------------------
(***************************************************************************)
(* The steps.                                                              *)
(***************************************************************************)

LEMMA InitInv == Init => IInv
<1> SUFFICES ASSUME Init PROVE IInv
  OBVIOUS
<1>1. TypeInv
  BY EmptySeq DEF Init, TypeInv
<1>2. Len(stack) = 0 /\ Label = "none"
  BY DEF Init, Label
<1> QED BY <1>1, <1>2 DEF Init, IInv, Waiting, Masked, Counted, Holding

LEMMA CallKeepsInv ==
  ASSUME IInv, NEW op \in Operations, Call(op)
  PROVE  IInv'
<1>1. Label = "none" /\ stack = <<>>
  BY DEF Call, Label
<1>2. stack' = <<Frame(op)>> \o stack
  BY <1>1 DEF Call
<1>3. stack' \in Seq(Calls) /\ Label' = "save" /\ Waiting'
  BY <1>1, <1>2, TopPushed DEF IInv
<1> QED BY <1>1, <1>3 DEF Call, irq, timer, ghost, IInv, TypeInv, Masked, Counted, Holding

LEMMA TimerKeepsInv ==
  ASSUME IInv, TimerFires
  PROVE  IInv'
<1>1. Label \in {"none", "save", "disable"}
  <2>1. CASE stack = <<>>
    BY <2>1 DEF Label
  <2>2. CASE interruptsEnabled
    BY <2>2 DEF IInv, Masked
  <2> QED BY <2>1, <2>2 DEF TimerFires
<1>2. stack' \in Seq(Calls) /\ Label' = "save" /\ Waiting'
  BY <1>1, TopPushed DEF TimerFires, Operations, IInv
<1> QED BY <1>1, <1>2 DEF TimerFires, irq, timer, IInv, TypeInv, Masked, Counted, Holding

(* A step of the call on top that changes only its label and its saved     *)
(* flag, the interrupt state and the lock.                                 *)
LEMMA StepKeepsInv ==
  ASSUME IInv, Step
  PROVE  IInv'
<1>1. TypeInv /\ Waiting /\ Masked /\ Counted /\ panic = "none"
  BY DEF IInv
<1>2. stack # <<>>
  BY DEF Step, SaveIRQ, DisableIRQ, CountDisabled, TestRecursive, Swap, timerInit,
         monotonicTick, LoadTick, StoreTick, TestLocked, Clear, CountRestored,
         EnableIRQ, At
<1>3. Top \in Calls /\ Label = Top.pc /\ (Top.pc # "save" => Top.saved)
  BY <1>1, <1>2, TopTyped
<1>4. ASSUME NEW pc \in Labels \ {"save"}, Goto(pc), Top.pc # "save"
      PROVE  /\ stack' \in Seq(Calls) /\ Waiting'
             /\ Label' = pc /\ Top' = [Top EXCEPT !.pc = pc]
  <2> DEFINE f == [Top EXCEPT !.pc = pc]
  <2>1. f \in Calls /\ f.pc = pc /\ f.saved = Top.saved
    BY <1>3 DEF Calls
  <2>2. stack' = <<f>> \o Tail(stack)
    BY <1>4 DEF Goto
  <2> HIDE DEF f
  <2>3. stack' \in Seq(Calls) /\ Top' = f /\ Label' = f.pc /\ Waiting'
    BY <1>1, <1>2, <1>3, <1>4, <2>1, <2>2, TopMoves
  <2> QED BY <2>1, <2>3 DEF f
<1> USE DEF irq, timer, ghost, IInv, TypeInv, Masked, Counted, Holding, At
<1>5. CASE SaveIRQ
  <2> DEFINE f == [Top EXCEPT !.saved = interruptsEnabled, !.pc = "disable"]
  <2>1. interruptsEnabled
    BY <1>1, <1>3, <1>5 DEF SaveIRQ
  <2>2. f \in Calls /\ f.pc = "disable" /\ f.saved
    BY <1>1, <1>3, <2>1 DEF Calls, Labels
  <2>3. stack' = <<f>> \o Tail(stack)
    BY <1>5 DEF SaveIRQ
  <2> HIDE DEF f
  <2>4. stack' \in Seq(Calls) /\ Top' = f /\ Label' = f.pc /\ Waiting'
    BY <1>1, <1>2, <2>2, <2>3, TopMoves
  <2> QED BY <1>1, <1>3, <1>5, <2>2, <2>4 DEF SaveIRQ
<1>6. CASE DisableIRQ
  <2>1. stack' \in Seq(Calls) /\ Waiting' /\ Label' = "count" /\ Label = "disable"
    BY <1>1, <1>3, <1>4, <1>6 DEF DisableIRQ, Labels
  <2>2. ~interruptsEnabled'
    BY <1>6 DEF DisableIRQ
  <2>3. interruptsEnabled' \in BOOLEAN
    BY <1>6 DEF DisableIRQ
  <2> QED BY <1>1, <1>6, <2>1, <2>2, <2>3 DEF DisableIRQ
<1>7. CASE CountDisabled
  BY <1>1, <1>3, <1>4, <1>7 DEF CountDisabled, Labels
<1>8. CASE TestRecursive
  BY <1>1, <1>3, <1>4, <1>8 DEF TestRecursive, Labels
<1>9. CASE Swap
  BY <1>1, <1>3, <1>4, <1>9 DEF Swap, Labels
<1>10. CASE timerInit
  BY <1>1, <1>3, <1>4, <1>10 DEF timerInit, Labels
<1>11. CASE monotonicTick
  BY <1>1, <1>3, <1>4, <1>11 DEF monotonicTick, Labels
<1>12. CASE LoadTick
  <2>1. CASE ~timerConfigured
    BY <1>1, <1>3, <1>4, <1>12, <2>1 DEF LoadTick, Labels
  <2>2. CASE timerConfigured
    <3> DEFINE f == [Top EXCEPT !.tick = monotonicTickCount, !.pc = "store"]
    <3>1. /\ f \in Calls /\ f.pc = "store" /\ f.saved
          /\ f.tick = monotonicTickCount
      BY <1>1, <1>3, <1>12 DEF LoadTick, Calls, Labels
    <3>2. stack' = <<f>> \o Tail(stack)
      BY <1>12, <2>2 DEF LoadTick
    <3> HIDE DEF f
    <3>3. stack' \in Seq(Calls) /\ Top' = f /\ Label' = f.pc /\ Waiting'
      BY <1>1, <1>2, <3>1, <3>2, TopMoves
    <3> QED BY <1>1, <1>3, <1>12, <2>2, <3>1, <3>3 DEF LoadTick
  <2> QED BY <2>1, <2>2
<1>13. CASE StoreTick
  BY <1>1, <1>3, <1>4, <1>13 DEF StoreTick, Labels
<1>14. CASE TestLocked
  BY <1>1, <1>3, <1>4, <1>14 DEF TestLocked, Labels
<1>15. CASE Clear
  <2>1. stack' \in Seq(Calls) /\ Waiting' /\ Label' = "restore" /\ Label = "clear"
    BY <1>1, <1>3, <1>4, <1>15 DEF Clear, Labels
  <2>2. ~locked'
    BY <1>15 DEF Clear
  <2>3. locked' \in BOOLEAN
    BY <1>15 DEF Clear
  <2> QED BY <1>1, <1>15, <2>1, <2>2, <2>3 DEF Clear
<1>16. CASE CountRestored
  BY <1>1, <1>3, <1>4, <1>16 DEF CountRestored, Labels
<1>17. CASE EnableIRQ
  <2>1. stack' \in Seq(Calls) /\ Label' \in {"none", "save", "disable"} /\ Waiting'
    BY <1>1, <1>2, <1>17, TopReturns DEF EnableIRQ, Return
  <2> QED BY <1>1, <1>3, <1>17, <2>1 DEF EnableIRQ
<1> QED
  BY <1>5, <1>6, <1>7, <1>8, <1>9, <1>10, <1>11, <1>12, <1>13, <1>14, <1>15,
     <1>16, <1>17 DEF Step

LEMMA NextKeepsInv == IInv /\ [Next]_vars => IInv'
<1> SUFFICES ASSUME IInv, [Next]_vars PROVE IInv'
  OBVIOUS
<1>1. CASE UNCHANGED vars
  BY <1>1 DEF vars, irq, timer, ghost, IInv, TypeInv, Waiting, Masked, Counted, Label, Top
<1>2. CASE \E op \in {"timerInit", "monotonicTick"} : Call(op)
  BY <1>2, CallKeepsInv DEF Operations
<1> QED BY <1>1, <1>2, TimerKeepsInv, StepKeepsInv DEF Next

LEMMA InvAlways == Spec => []IInv
  BY InitInv, NextKeepsInv, PTL DEF Spec

-----------------------------------------------------------------------------
(***************************************************************************)
(* The theorems.                                                           *)
(***************************************************************************)

(* The lock is held by the innermost call alone and with interrupts off,   *)
(* and neither panic of the lock is raised, however deep calls nest.       *)
THEOREM LockIsInnermost == Spec => []LockMasksInterrupts
<1>1. IInv => LockMasksInterrupts
  <2> SUFFICES ASSUME IInv PROVE LockMasksInterrupts
    OBVIOUS
  <2>1. /\ stack \in Seq(Calls) /\ Len(stack) \in Nat
        /\ DOMAIN stack = 1..Len(stack) /\ panic = "none"
    BY DEF IInv, TypeInv
  <2>2. \A k \in DOMAIN stack : k > 1 => stack[k].pc \in {"save", "disable"}
    BY <2>1 DEF IInv, Waiting
  <2>3. locked = (\E k \in DOMAIN stack : stack[k].pc \in Holding)
    <3>1. CASE stack = <<>>
      <4>1. Label = "none" /\ DOMAIN stack = {}
        BY <3>1, <2>1 DEF Label
      <4> QED BY <4>1 DEF IInv, TypeInv, Masked, Holding
    <3>2. CASE stack # <<>>
      <4>1. 1 \in DOMAIN stack /\ Top = stack[1] /\ Label = stack[1].pc
        BY <2>1, <3>2 DEF Top, Label
      <4>2. \A k \in DOMAIN stack : stack[k].pc \in Holding => k = 1
        BY <2>1, <2>2 DEF Holding
      <4> QED BY <4>1, <4>2 DEF IInv, Masked, TypeInv
    <3> QED BY <3>1, <3>2
  <2>4. locked => ~interruptsEnabled
    BY DEF IInv, Masked, Holding
  <2> QED BY <2>1, <2>2, <2>3, <2>4 DEF LockMasksInterrupts
<1> QED BY <1>1, InvAlways, PTL

(* Interrupts are enabled and the nesting count is zero whenever no call   *)
(* is past irqDisableSave.                                                 *)
THEOREM InterruptsComeBack == Spec => []EnabledRestored
<1>1. IInv => EnabledRestored
  BY DEF IInv, Masked, Label, EnabledRestored, Holding
<1> QED BY <1>1, InvAlways, PTL

(* Every tick after timerInit is counted exactly once, for every placing   *)
(* of the timer interrupts.                                                *)
THEOREM NoTickLost == Spec => []TicksExact
<1>1. IInv => TicksExact
  <2> SUFFICES ASSUME IInv PROVE TicksExact
    OBVIOUS
  <2>1. CASE Label = "store"
    <3>1. stack # <<>> /\ stack \in Seq(Calls)
      BY <2>1 DEF Label, IInv, TypeInv
    <3>2. 1 \in DOMAIN stack /\ stack[1].pc = "store"
      BY <2>1, <3>1 DEF Label, Top
    <3> QED BY <3>2 DEF TicksExact, IInv, Counted
  <2>2. CASE Label # "store"
    BY <2>2 DEF IInv, Counted, TypeInv, TicksExact
  <2> QED BY <2>1, <2>2
<1> QED BY <1>1, InvAlways, PTL
=============================================================================
