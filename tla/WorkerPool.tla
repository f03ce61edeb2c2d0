----------------------------- MODULE WorkerPool -----------------------------
(***************************************************************************)
(* What fss_manager promises of its worker processes, without slots,       *)
(* pipes, buffers or polling: jobs wait in line, at most WorkerLimit       *)
(* workers run at a time, and jobs are launched in the order in which they *)
(* were asked for, each at most once for every time it was asked for.  A   *)
(* closed pool gets no new jobs: there the jobs launched are those that    *)
(* were in line, each of them once.                                        *)
(*                                                                         *)
(* A worker is named by its number in launch order.                        *)
(***************************************************************************)
EXTENDS Naturals, Sequences, FiniteSets

CONSTANTS
  Job,          \* what a worker can be asked to do
  WorkerLimit,  \* how many workers may run at a time
  Lossy         \* TRUE if a job in line may be forgotten

VARIABLES
  waiting,      \* the jobs in line, oldest first
  launched,     \* the jobs launched so far, in launch order
  running       \* the numbers of the workers that run

poolVars == <<waiting, launched, running>>

PoolInit ==
  /\ waiting \in Seq(Job)
  /\ launched = <<>>
  /\ running = {}

HasRoom == Cardinality(running) < WorkerLimit

(* A new job joins the line. *)
Submit(job) ==
  /\ waiting' = Append(waiting, job)
  /\ UNCHANGED <<launched, running>>

(* The oldest job in line gets a worker. *)
Launch ==
  /\ waiting # <<>>
  /\ HasRoom
  /\ waiting' = Tail(waiting)
  /\ launched' = Append(launched, Head(waiting))
  /\ running' = running \cup {Len(launched) + 1}

(* A new job gets a worker at once: nobody is in line before it. *)
LaunchDirectly(job) ==
  /\ waiting = <<>>
  /\ HasRoom
  /\ launched' = Append(launched, job)
  /\ running' = running \cup {Len(launched) + 1}
  /\ UNCHANGED waiting

(* The report of a worker has been taken in. *)
Retire(p) ==
  /\ running' = running \ {p}
  /\ UNCHANGED <<waiting, launched>>

(* The oldest job in line is forgotten. *)
Forget ==
  /\ Lossy
  /\ waiting # <<>>
  /\ waiting' = Tail(waiting)
  /\ UNCHANGED <<launched, running>>

ClosedNext == Launch \/ Forget \/ \E p \in running : Retire(p)

PoolNext == ClosedNext \/ \E job \in Job : Submit(job) \/ LaunchDirectly(job)

ClosedSpec == PoolInit /\ [][ClosedNext]_poolVars

PoolSpec == PoolInit /\ [][PoolNext]_poolVars
=============================================================================
