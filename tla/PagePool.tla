------------------------------ MODULE PagePool ------------------------------
(***************************************************************************)
(* What the page-frame allocator promises its callers, without bitmap,     *)
(* cursors or search order: a frame is either free or handed out, an       *)
(* allocation takes any suitable free frames of its pool, and it fails     *)
(* only when the pool has none.                                            *)
(***************************************************************************)
EXTENDS Integers

CONSTANTS
  Pool,       \* the names of the pools
  FramesOf,   \* the frames of each pool
  Counts,     \* the lengths of run a caller asks for
  NoFrame     \* the frame of a failed call

VARIABLES
  open,   \* has the kernel taken ownership of the frames?
  free,   \* the frames nobody holds
  reply   \* what the last call returned

poolVars == <<open, free, reply>>

FreeIn(pool) == free \cap FramesOf[pool]

(* The first frames of the runs of count free frames in a pool. *)
FreeRuns(pool, count) ==
  {f \in FreeIn(pool) : count > 0 /\ f..(f + count - 1) \subseteq FreeIn(pool)}

Reply(call, pool, frame) == [call |-> call, pool |-> pool, frame |-> frame]

Init ==
  /\ open = FALSE
  /\ free = {}
  /\ reply = Reply("none", "none", NoFrame)

Open ==
  /\ ~open
  /\ open' = TRUE
  /\ free' = UNION {FramesOf[pool] : pool \in Pool}
  /\ reply' = reply

AllocPage(pool) ==
  /\ open' = open
  /\ \/ \E f \in FreeIn(pool) :
          /\ free' = free \ {f}
          /\ reply' = Reply("AllocPage", pool, f)
     \/ /\ FreeIn(pool) = {}
        /\ free' = free
        /\ reply' = Reply("AllocPage", pool, NoFrame)

AllocContig(pool, count) ==
  /\ open' = open
  /\ \/ \E f \in FreeRuns(pool, count) :
          /\ free' = free \ f..(f + count - 1)
          /\ reply' = Reply("AllocContig", pool, f)
     \/ /\ FreeRuns(pool, count) = {}
        /\ free' = free
        /\ reply' = Reply("AllocContig", pool, NoFrame)

(* Only a frame of the pool that is handed out can be given back. *)
FreePage(pool, f) ==
  /\ open' = open
  /\ \/ /\ open /\ f \in FramesOf[pool] \ free
        /\ free' = free \cup {f}
        /\ reply' = Reply("FreePage", pool, f)
     \/ /\ ~(open /\ f \in FramesOf[pool] \ free)
        /\ free' = free
        /\ reply' = Reply("FreePage", pool, NoFrame)

Next ==
  \/ Open
  \/ \E pool \in Pool :
       \/ AllocPage(pool)
       \/ \E count \in Counts : AllocContig(pool, count)
       \/ \E f \in FramesOf[pool] \cup {NoFrame} : FreePage(pool, f)

Spec == Init /\ [][Next]_poolVars
=============================================================================
