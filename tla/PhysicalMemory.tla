--------------------------- MODULE PhysicalMemory ---------------------------
(***************************************************************************)
(* The physical-memory state every kernel component shares: the frame      *)
(* bitmap with its cursors, and whether the kernel still runs.             *)
(***************************************************************************)
EXTENDS PageFrames

VARIABLES
  used,       \* pageFrameBitmap: the frames whose bit is set
  nextFree,   \* nextFreeFrame and userNextFreeFrame
  panic       \* the Go panic that stopped the kernel, "none" while it runs

memVars == <<used, nextFree, panic>>

(* The bitmap and the cursors after phase2Init. *)
MemInit ==
  /\ used = InitialUsed
  /\ nextFree = InitialNextFree
  /\ panic = "none"

KernelRuns == panic = "none"
=============================================================================
