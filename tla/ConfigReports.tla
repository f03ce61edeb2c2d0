---------------------------- MODULE ConfigReports ----------------------------
(***************************************************************************)
(* How far the reports of the workers can be trusted in the loop over the  *)
(* config file.                                                            *)
(*                                                                         *)
(* The swap of workers_buffer (fss_manager.c:180-182) leaves two slots     *)
(* with one buffer, and then the reports of two workers are mixed, see     *)
(* StatusIsOwn.  The history variable apart says that this has not         *)
(* happened so far: no two slots in use have read into one buffer.  As     *)
(* long as it is TRUE, what the manager concludes from a report is what    *)
(* the worker wrote, wherever the reports are cut and whatever workers     *)
(* die or write NUL bytes.                                                 *)
(***************************************************************************)
EXTENDS ConfigPhase

VARIABLE apart   \* history: no two slots in use ever had one buffer

reportsVars == <<configVars, apart>>

BuffersApart ==
  \A i, j \in Used : workers_buffer[i] = workers_buffer[j] => i = j

ReportsInit == ConfigInit /\ apart = TRUE

ReportsNext == ConfigNext /\ apart' = (apart /\ BuffersApart')

ReportsSpec == ReportsInit /\ [][ReportsNext]_reportsVars /\ ConfigFairness

-----------------------------------------------------------------------------
(* Properties.                                                             *)

(***************************************************************************)
(* The status of a directory was reported by a worker of that directory    *)
(* (fss_manager.c:143-172): the pieces of one report are joined in one     *)
(* buffer and nothing of the report before is left in it.                  *)
(***************************************************************************)
OwnWhileApart == apart => StatusIsOwn

(***************************************************************************)
(* is_in_workers is set exactly while the worker is in the table, if the   *)
(* directory had one worker only: what the sync command relies on when it  *)
(* refuses a second one (fss_manager.c:467).                               *)
(***************************************************************************)
OnlyWorkerOf(p, source) ==
  \A q \in DOMAIN workers : workers[q].job.src = source <=> q = p

FlagWhileApart ==
  apart => \A info \in Entries(mem), p \in DOMAIN workers :
             OnlyWorkerOf(p, info.source) => (info.is_in_workers <=> p \in Running)

(***************************************************************************)
(* The loop crashes of the store's load factor only, and exits over a      *)
(* report only because the entry of the worker it is from is not found: no *)
(* field is missing from a report and none is of a directory that was not  *)
(* the worker's.                                                           *)
(***************************************************************************)
EndsWhileApart ==
  apart => /\ phase = "crashed" => Overloaded(mem)
           /\ phase = "exited" /\ pc = "drain" =>
                \E p \in Running : ~IsFound(mem, workers[p].job.src)
=============================================================================
