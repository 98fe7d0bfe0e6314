--------------------------- MODULE FrameAllocator ---------------------------
(***************************************************************************)
(* What the physical memory manager of UmbralOS promises its callers,      *)
(* without saying how it keeps its books: page frames are given to the     *)
(* allocator once, granted as whole blocks to one caller at a time, and    *)
(* come back as the block that was granted.                                *)
(***************************************************************************)
VARIABLES
  free,           \* frames that may be granted
  granted         \* the blocks (sets of frames) callers hold

vars == <<free, granted>>

Init == free = {} /\ granted = {}

\* Memory becomes the allocator's: it was neither free nor in anyone's hands.
Contribute ==
  /\ free \subseteq free'
  /\ (free' \ free) \cap UNION granted = {}
  /\ UNCHANGED granted

Grant ==
  \E S \in SUBSET free :
    /\ free' = free \ S
    /\ granted' = granted \cup {S}

Return ==
  \E S \in granted :
    /\ free' = free \cup S
    /\ granted' = granted \ {S}

Next == Contribute \/ Grant \/ Return

Spec == Init /\ [][Next]_vars

\* No frame is in two callers' hands, and none is in a caller's hands while
\* the allocator could grant it again.
Exclusive ==
  /\ \A S, T \in granted : S # T => S \cap T = {}
  /\ free \cap UNION granted = {}
=============================================================================
