------------------------------ MODULE MCKernel ------------------------------
(* Small instances of Kernel. *)
EXTENDS Kernel

(* One frame in the middle of the kernel pool is not usable. *)
MCHardwareRegions ==
  << [start |-> FrameAddress(ReserveFrames + 2),
      end |-> FrameAddress(ReserveFrames + 3), kind |-> "IRAM", reserved |-> TRUE] >>

(* Null, and the addresses of the kernel pool with the bytes around it. *)
MCHeapAddresses ==
  {0} \cup (FrameAddress(ReserveFrames) - 1)..FrameAddress(PoolEnd("kernel"))

(* One and two pages, and a size at the end of the address range. *)
MCHeapSizes == {0, 1, 3, WordSize - 1}
=============================================================================
