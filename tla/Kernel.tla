------------------------------- MODULE Kernel -------------------------------
(***************************************************************************)
(* The components that draw on physical memory, together: the processes    *)
(* with their kernel stacks, trap pages and user stacks, and the runtime   *)
(* heap, which any kernel code may call on at any time.  Processes and     *)
(* heap share the bitmap and the cursor of the kernel pool, so the frames  *)
(* of one are what the other leaves.                                       *)
(***************************************************************************)
EXTENDS Processes, RuntimeHeap

kernelVars == <<procVars, heapVars, memVars>>

KernelInit == Init /\ HeapInit

KernelNext ==
  \/ Next /\ UNCHANGED heapVars
  \/ HeapNext /\ UNCHANGED procVars

KernelSpec == KernelInit /\ [][KernelNext]_kernelVars

-----------------------------------------------------------------------------

(* The whole of memory is accounted for: a used frame is reserved, or held *)
(* by one process, or part of one heap allocation, and by nothing else.    *)
MemoryAccounted ==
  KernelRuns =>
    /\ used = InitialUsed \cup HeapFrames \cup UNION {Held(s) : s \in Slots}
    /\ HeapFrames \cap InitialUsed = {}
    /\ \A i, j \in HeapSlots : i # j => Block(i) \cap Block(j) = {}
    /\ \A s \in Slots : Held(s) \cap (InitialUsed \cup HeapFrames) = {}
    /\ \A s, t \in Slots : s # t => Held(s) \cap Held(t) = {}

(* Processes and heap never make each other's frees fail: the kernel stops *)
(* only for want of pids, of memory or of a slot in the heap's table, or   *)
(* because the runtime passes realloc an address it was never given.       *)
OnlyDeclaredPanics ==
  panic \in {"none", "pid space exhausted", "allocation failed",
             "realloc invalid address"}
=============================================================================
