----------------------------- MODULE MCUserCopy -----------------------------
(* A small instance of UserCopy. *)
EXTENDS UserCopy

(* Leaves the whole kernel pool and the first two frames of the user       *)
(* pool.                                                                   *)
CopyHardwareRegions ==
  << [start |-> FrameAddress(ReserveFrames + KernelFrameCount + 2),
      end |-> FrameAddress(PageFrameCount), kind |-> "IRAM", reserved |-> TRUE] >>

CopySymmetry == Permutations(Procs)

CopyPayloads == { <<1>>, <<1, 1, 0>>, <<0, 1, 1>> }
=============================================================================
