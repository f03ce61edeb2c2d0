----------------------------- MODULE MCTaskQueue ----------------------------
(* Instances of TaskQueue for TLC. *)
EXTENDS TaskQueue

CONSTANTS a1, a2, c1, c2, c3   \* actions and cells

Actions == {a1, a2}
Cells == {c1, c2, c3}
=============================================================================
