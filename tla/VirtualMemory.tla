---------------------------- MODULE VirtualMemory ----------------------------
(***************************************************************************)
(* The address space of one process (cmd/kernel/phase5_vm.go): its page    *)
(* table, the layout fields that change and the fault handler.             *)
(*                                                                         *)
(* Virtual addresses are page numbers and a page table is the set of its   *)
(* present mappings, at most one for a page.  Like PageFrames, the module  *)
(* has no variables: an operation takes the address space and the frame    *)
(* bitmap and cursors, and yields a record with the new ones.              *)
(***************************************************************************)
EXTENDS PageFrames

CONSTANTS
  MaxVMPageMappings,   \* maxVMPageMappings
  UserStackTop,        \* userStackTop, the first page above the stack
  UserStackPages,      \* userStackPages
  UserTrapPage         \* userTrapPageVA

ASSUME LayoutAssumption ==
  /\ MaxVMPageMappings \in Nat \ {0}
  /\ UserStackPages \in Nat
  /\ UserStackTop \in Nat
  /\ UserStackPages + 1 < UserStackTop
  /\ UserTrapPage \in Nat
  /\ UserTrapPage >= UserStackTop

UserStackFloor == UserStackTop - UserStackPages

vmNoGuard == 0

Perms == {"read", "write", "exec", "user"}

VMMapping ==
  [va: Nat, frame: Frames, perm: SUBSET Perms, pool: Pools, owned: BOOLEAN]

(* layout.stackBase, layout.guardStart (guardEnd is one page further) and  *)
(* the page table; the other layout fields never change.                   *)
AddressSpace ==
  [ptable: SUBSET VMMapping, stackBase: Nat, guard: Nat]

(* The zero vmAddressSpace of an unused process slot. *)
ZeroAddressSpace == [ptable |-> {}, stackBase |-> 0, guard |-> vmNoGuard]

-----------------------------------------------------------------------------

vmFindMapping(pt, va) == {m \in pt : m.va = va}

(* Remapping a page keeps the owned and pool fields of its entry; a new    *)
(* entry is not owned.  A full table makes the call fail.                  *)
vmMapPage(pt, va, f, perm) ==
  LET old == vmFindMapping(pt, va)
  IN  IF old # {}
      THEN [ok |-> TRUE,
            pt |-> (pt \ old) \cup
                     {[m EXCEPT !.frame = f, !.perm = perm] : m \in old}]
      ELSE IF Cardinality(pt) < MaxVMPageMappings
      THEN [ok |-> TRUE,
            pt |-> pt \cup {[va |-> va, frame |-> f, perm |-> perm,
                             pool |-> "kernel", owned |-> FALSE]}]
      ELSE [ok |-> FALSE, pt |-> pt]

(* Mutant: the entry is not marked owned. *)
vmMapUnownedPage(pt, va, f, pool, perm) == vmMapPage(pt, va, f, perm)

(* Mutant: the pool of the page is not recorded. *)
vmMapKernelPage(pt, va, f, pool, perm) ==
  LET mapped == vmMapPage(pt, va, f, perm)
  IN  [mapped EXCEPT !.pt = {[m EXCEPT !.owned = TRUE] : m \in @}]

vmMapOwnedPage(pt, va, f, pool, perm) ==
  LET mapped == vmMapPage(pt, va, f, perm)
      entry  == vmFindMapping(mapped.pt, va)
  IN  IF ~mapped.ok
      THEN mapped
      ELSE [ok |-> TRUE,
            pt |-> (mapped.pt \ entry) \cup
                     {[m EXCEPT !.owned = TRUE, !.pool = pool] : m \in entry}]

(* May the page be accessed from user code with these permissions? *)
vmTranslate(pt, va, required) ==
  \E m \in vmFindMapping(pt, va) : required \cup {"user"} \subseteq m.perm

-----------------------------------------------------------------------------

(* Mutant: the guard page is the lowest page of the stack. *)
vmGuardInStack(vm) ==
  [vm EXCEPT !.guard = IF vm.stackBase = UserStackTop
                       THEN vmNoGuard ELSE vm.stackBase]

vmRefreshGuard(vm) ==
  [vm EXCEPT !.guard = IF vm.stackBase = UserStackTop
                       THEN vmNoGuard ELSE vm.stackBase - 1]

(* A page just allocated from the pool is mapped into the address space,   *)
(* or given back when the page table is full.                              *)
MapFreshPage(vm, va, page, pool, perm, message) ==
  LET mapped == vmMapOwnedPage(vm.ptable, va, page.frame, pool, perm)
      freed  == freePageInPool(page.used, page.next, page.frame, pool)
  IN  IF page.frame = NoFrame
      THEN [ok |-> FALSE, panic |-> "none", vm |-> vm,
            used |-> page.used, next |-> page.next]
      ELSE IF ~mapped.ok
      THEN [ok |-> FALSE, panic |-> IF freed.ok THEN "none" ELSE message,
            vm |-> vm, used |-> freed.used, next |-> freed.next]
      ELSE [ok |-> TRUE, panic |-> "none",
            vm |-> [vm EXCEPT !.ptable = mapped.pt],
            used |-> page.used, next |-> page.next]

(* A fresh address space with its trap page, which user code cannot reach. *)
vmInitProcess(u, n) ==
  MapFreshPage([ptable |-> {}, stackBase |-> UserStackTop, guard |-> vmNoGuard],
               UserTrapPage, allocPageFromPool(u, n, "kernel"), "kernel",
               {"read"}, "failed to free trap page")

(* Once the page is mapped the stack starts there, above its guard page. *)
MoveStackBase(grown, va) ==
  IF ~grown.ok
  THEN grown
  ELSE [grown EXCEPT !.vm = vmRefreshGuard([@ EXCEPT !.stackBase = va])]

vmGrowStack(vm, u, n, va) ==
  IF \/ va >= UserStackTop \/ va < UserStackFloor
     \/ va + 1 # vm.stackBase
  THEN [ok |-> FALSE, panic |-> "none", vm |-> vm, used |-> u, next |-> n]
  ELSE MoveStackBase(
         MapFreshPage(vm, va, allocPageFromPool(u, n, "user"), "user",
                      {"read", "write", "user"}, "failed to free stack page"),
         va)

(* vmHandleFault; ok = FALSE means that the process is marked faulted. *)
vmHandleFault(vm, u, n, va, write) ==
  LET required == IF write THEN {"read", "write"} ELSE {"read"}
      same     == [ok |-> TRUE, panic |-> "none", vm |-> vm,
                   used |-> u, next |-> n]
  IN  IF vmTranslate(vm.ptable, va, required)
      THEN same
      ELSE IF vm.guard # vmNoGuard /\ va = vm.guard
      THEN [same EXCEPT !.ok = FALSE]
      ELSE vmGrowStack(vm, u, n, va)

(* The address is translated again after the fault. *)
Retranslate(fault, va, required) ==
  [fault EXCEPT !.ok = @ /\ vmTranslate(fault.vm.ptable, va, required)]

(* What copyin (write = FALSE) and copyout (write = TRUE) do for the bytes *)
(* they touch in one page.                                                 *)
copyPage(vm, u, n, va, write) ==
  LET required == IF write THEN {"write"} ELSE {"read"}
  IN  IF vmTranslate(vm.ptable, va, required)
      THEN [ok |-> TRUE, panic |-> "none", vm |-> vm, used |-> u, next |-> n]
      ELSE Retranslate(vmHandleFault(vm, u, n, va, write), va, required)

-----------------------------------------------------------------------------
(***************************************************************************)
(* Releasing pages.  The mappings are freed one by one, which leaves the   *)
(* cursor of a pool on the lowest frame freed; a frame that cannot be      *)
(* freed, or is freed twice, is a panic.                                   *)
(***************************************************************************)
FreeAll(u, n, ms) ==
  LET framesIn(pool) == {m.frame : m \in {x \in ms : x.pool = pool}}
  IN  [ok   |-> /\ \A m \in ms : Freeable(u, m.frame, m.pool)
                /\ \A m1, m2 \in ms : m1.frame = m2.frame => m1 = m2,
       used |-> u \ {m.frame : m \in ms},
       next |-> [pool \in Pools |-> Min({n[pool]} \cup framesIn(pool))]]

vmReleaseProcess(vm, u, n) == FreeAll(u, n, {m \in vm.ptable : m.owned})
=============================================================================
