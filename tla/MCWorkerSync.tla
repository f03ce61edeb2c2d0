---------------------------- MODULE MCWorkerSync ----------------------------
(* Instances of WorkerSync for TLC. *)
EXTENDS WorkerSync, TLC

CONSTANTS f1, f2, v1   \* two files and a content

Files == {f1, f2}
OneFile == {f2}
Texts == {v1}
=============================================================================
