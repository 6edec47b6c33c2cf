---------------------------- MODULE MCLogBuffers ----------------------------
(* Values of LogBuffers' constants for TLC. *)
EXTENDS LogBuffers

Cells == 1..12

(* An allocator that hands out the lowest free cell, and so gives a cell that *)
(* was just freed away again as soon as it can.                               *)
LowestFree(L) == {b \in Cells \ L : \A c \in Cells \ L : b <= c}

=============================================================================
