------------------------------ MODULE MCQuery -------------------------------
(* A small screen that changes its shape, and the strings of xterm. *)
EXTENDS Query, TLC

CONSTANTS csi, semi, H, R, n, x, left

Addressing == <<csi, "%i", "%p1", "%d", semi, "%p2", "%d", H>>
ReportFormat == <<csi, "%i", "%d", semi, "%d", R>>
Asking == <<csi, 6, n>>

TwoSizes == {[row |-> 2, col |-> 3], [row |-> 3, col |-> 2]}
TinySizes == {[row |-> 1, col |-> 2], [row |-> 2, col |-> 1]}
Nothing == {<<>>}
Line == {<<x, left, x>>}
Uninitialised == {0, 1}

Maybe == {-1, 0}

(* The theorems are about these strings; of PositionIsTrue the rest is here, *)
(* too.                                                                     *)
ASSUME XtermStrings /\ RoomForReport
=============================================================================
