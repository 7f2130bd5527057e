----------------------------- MODULE MCProcesses -----------------------------
(* Small instances of Processes. *)
EXTENDS Processes

(* Leaves the whole kernel pool and the first two frames of the user pool. *)
MCHardwareRegions ==
  << [start |-> FrameAddress(ReserveFrames + KernelFrameCount + 2),
      end |-> FrameAddress(PageFrameCount), kind |-> "IRAM", reserved |-> TRUE] >>

(* An unmapped data page, the three topmost pages of the stack area and    *)
(* the trap page.                                                          *)
MCUserPages ==
  {1, UserTrapPage} \cup (UserStackTop - 3)..(UserStackTop - 1)

(* The topmost page of the stack area. *)
MCStackPages == {UserStackTop - 1}
=============================================================================
