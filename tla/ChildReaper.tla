---------------------------- MODULE ChildReaper -----------------------------
(***************************************************************************)
(* Worker processes as fss_manager's children: their pipes, the SIGCHLD    *)
(* each of them causes twice (by kill at the end of its report and by its  *)
(* exit), and the handler, which waits for a child.                        *)
(*                                                                         *)
(* While the handler waits the manager does nothing else: it reads no      *)
(* pipe, and the child it waits for may be writing to one.                 *)
(***************************************************************************)
EXTENDS Naturals, FiniteSets

CONSTANTS
  Child,        \* the worker processes of a behaviour
  WorkerLimit,
  ReportSize,   \* how much a worker writes
  PipeSize      \* how much a pipe holds

ASSUME ChildAssumption == IsFiniteSet(Child) /\ WorkerLimit \in Nat \ {0}

(* error_buffer holds 1024 bytes and so does each name, a pipe of Linux 65536:
   a whole report fits in the pipe, and a worker never waits for the manager. *)
ASSUME ReportFits ==
  ReportSize \in Nat \ {0} /\ PipeSize \in Nat /\ ReportSize <= PipeSize

VARIABLES
  child,       \* child -> what has become of it
  wrote, got,  \* child -> how much of its report it has written, the manager read
  sigchld,     \* SIGCHLD is pending: one bit, however often it was sent
  in_handler   \* the manager is in handler()

childVars == <<child, wrote, got, sigchld, in_handler>>

ChildInit ==
  /\ child = [c \in Child |-> "unborn"]
  /\ wrote = [c \in Child |-> 0]
  /\ got = [c \in Child |-> 0]
  /\ sigchld = FALSE
  /\ in_handler = FALSE

Alive == {c \in Child : child[c] \in {"running", "leaving"}}
Zombies == {c \in Child : child[c] = "zombie"}

(* num_of_current_workers: the workers whose report has not been read to its end. *)
InTable == {c \in Child : child[c] # "unborn" /\ got[c] < ReportSize}
HasRoom == Cardinality(InTable) < WorkerLimit

-----------------------------------------------------------------------------
(* Mutant of WritesReport: off by one. *)
WritesTooMuch(c) ==
  /\ child[c] = "running"
  /\ wrote[c] <= ReportSize
  /\ wrote[c] - got[c] < PipeSize
  /\ wrote' = [wrote EXCEPT ![c] = @ + 1]
  /\ UNCHANGED <<child, got, sigchld, in_handler>>

(* A worker writes its report; write() waits for room in the pipe. *)
WritesReport(c) ==
  /\ child[c] = "running"
  /\ wrote[c] < ReportSize
  /\ wrote[c] - got[c] < PipeSize
  /\ wrote' = [wrote EXCEPT ![c] = @ + 1]
  /\ UNCHANGED <<child, got, sigchld, in_handler>>

(* kill(getppid(), SIGCHLD) after the report. *)
SignalsParent(c) ==
  /\ child[c] = "running"
  /\ wrote[c] = ReportSize
  /\ child' = [child EXCEPT ![c] = "leaving"]
  /\ sigchld' = TRUE
  /\ UNCHANGED <<wrote, got, in_handler>>

(* The end of a child: the kernel sends SIGCHLD. *)
Exits(c) ==
  /\ child[c] = "leaving"
  /\ child' = [child EXCEPT ![c] = "zombie"]
  /\ sigchld' = TRUE
  /\ UNCHANGED <<wrote, got, in_handler>>

WorkerRuns(c) == WritesReport(c) \/ SignalsParent(c) \/ Exits(c)

-----------------------------------------------------------------------------
(* fork, and the slot for the new worker. *)
Fork(c) ==
  /\ HasRoom
  /\ child[c] = "unborn"
  /\ child' = [child EXCEPT ![c] = "running"]
  /\ UNCHANGED <<wrote, got, sigchld, in_handler>>

(* Mutant of ReadsPipe: the last piece of a report is left in the pipe. *)
ReadsPipeShort(c) ==
  /\ got[c] < wrote[c]
  /\ got' = [got EXCEPT ![c] = IF wrote[c] = ReportSize THEN @ ELSE wrote[c]]
  /\ UNCHANGED <<child, wrote, sigchld, in_handler>>

(* What is in a pipe is read; the end of a report frees the slot. *)
ReadsPipe(c) ==
  /\ got[c] < wrote[c]
  /\ got' = [got EXCEPT ![c] = wrote[c]]
  /\ UNCHANGED <<child, wrote, sigchld, in_handler>>

(* SIGCHLD is delivered between two instructions of the manager, or in a
   blocking call; it is blocked while its handler runs. *)
EntersHandler ==
  /\ sigchld
  /\ ~in_handler
  /\ sigchld' = FALSE
  /\ in_handler' = TRUE
  /\ UNCHANGED <<child, wrote, got>>

(* Mutant of WaitFails: wait() is called again. *)
WaitAgain ==
  /\ in_handler
  /\ Alive \cup Zombies = {}
  /\ UNCHANGED childVars

(* wait() without a child: ECHILD, and the handler returns. *)
WaitFails ==
  /\ in_handler
  /\ Alive \cup Zombies = {}
  /\ in_handler' = FALSE
  /\ UNCHANGED <<child, wrote, got, sigchld>>

(* wait() takes one zombie, or waits until there is one. *)
WaitReaps ==
  /\ in_handler
  /\ \E c \in Zombies : child' = [child EXCEPT ![c] = "reaped"]
  /\ in_handler' = FALSE
  /\ UNCHANGED <<wrote, got, sigchld>>

Handler == EntersHandler \/ WaitFails \/ WaitReaps

-----------------------------------------------------------------------------
ChildTypeOK ==
  /\ child \in [Child -> {"unborn", "running", "leaving", "zombie", "reaped"}]
  /\ wrote \in [Child -> 0..ReportSize]
  /\ got \in [Child -> 0..ReportSize]
  /\ sigchld \in BOOLEAN
  /\ in_handler \in BOOLEAN
  /\ Cardinality(InTable) <= WorkerLimit

(***************************************************************************)
(* Whenever the handler has been entered it returns, although it has no    *)
(* WNOHANG and is entered once too often: a signal that finds no zombie    *)
(* makes the manager wait for a worker that still runs, and that worker    *)
(* must not be waiting for the manager.                                    *)
(***************************************************************************)
HandlerReturns == in_handler ~> ~in_handler
=============================================================================
