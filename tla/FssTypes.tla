------------------------------ MODULE FssTypes ------------------------------
(***************************************************************************)
(* The vocabulary the parts of the file sync system share: directory names *)
(* and the jobs that fss_manager gives to worker processes (the argv of    *)
(* worker_process, without the file name).                                 *)
(***************************************************************************)
CONSTANT Dir   \* the directory names in use

Operation == {"FULL", "ADDED", "MODIFIED", "DELETED"}

Job == [src : Dir, tgt : Dir, op : Operation]
=============================================================================
