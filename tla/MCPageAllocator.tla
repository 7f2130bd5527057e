--------------------------- MODULE MCPageAllocator ---------------------------
(* Small instances of PageAllocator. *)
EXTENDS PageAllocator

(* The last frames of the reserve and the first of the kernel pool lie in  *)
(* a hardware range, one frame of the user pool in another.                *)
MCHardwareRegions ==
  << [start |-> 0, end |-> 4, kind |-> "ROM", reserved |-> TRUE],
     [start |-> 12, end |-> 16, kind |-> "IRAM", reserved |-> TRUE],
     [start |-> 24, end |-> 26, kind |-> "Peripheral", reserved |-> TRUE] >>

(* Every address of the window, odd ones included, and its two neighbours. *)
MCAddresses == (MemoryBase - PageSize)..(FrameAddress(PageFrameCount) + 1)
=============================================================================
