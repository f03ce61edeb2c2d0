----------------------------- MODULE FssManager -----------------------------
(***************************************************************************)
(* fss_manager: the loop over the config file (ConfigPhase), then the loop *)
(* that serves the console and the inotify watches until shutdown          *)
(* (fss_manager.c:277-573).                                                *)
(*                                                                         *)
(* An iteration of the second loop polls the worker pipes ("poll"), reads  *)
(* the readable ones ("drain") and then does ONE of three things ("take"): *)
(* pops the queue, reads the inotify descriptor, or reads fss_in.  The     *)
(* fork of a worker is inside the branch of the last two.                  *)
(*                                                                         *)
(* Around the manager: a console that writes commands into fss_in, and     *)
(* files that change in the watched directories (users do that, and so do  *)
(* workers, that open the source of an ADDED file for writing).            *)
(***************************************************************************)
EXTENDS ConfigPhase

CONSTANTS
  Commands,       \* the commands the console may send, of Command
  MaxCommands,    \* bound: commands sent in a behaviour
  MaxEvents,      \* bound: file events in a behaviour
  EventsPerRead   \* inotify events that fit in the 1024 bytes of one read

Command ==
  [cmd : {"add"}, src : Dir, tgt : Dir]
    \cup [cmd : {"status", "sync", "cancel"}, src : Dir]
    \cup [cmd : {"shutdown"}]

Mask == {"CREATE", "MODIFY", "DELETE"}
Event == [wd : Nat \ {0}, mask : Mask \cup {"IGNORED"}]

ASSUME CommandsAssumption == Commands \subseteq Command
ASSUME EventsPerReadAssumption == EventsPerRead \in Nat \ {0}
ASSUME BoundsAssumption == MaxCommands \in Nat /\ MaxEvents \in Nat

VARIABLES
  fss_in,         \* the commands in the fifo, oldest first
  events,         \* kernel: the event queue of inotify_fd
  shutdown_flag,
  sent,           \* commands sent so far (bounds the console)
  edits           \* file events so far (bounds the users of the directories)

serveVars == <<fss_in, events, shutdown_flag, sent, edits>>
vars == <<configVars, serveVars>>

Init ==
  /\ ConfigInit
  /\ fss_in = <<>>
  /\ events = <<>>
  /\ shutdown_flag = FALSE
  /\ sent = 0
  /\ edits = 0

-----------------------------------------------------------------------------
(* The world around the manager.                                           *)

(* The console sends a command; shutdown is its last.  It gets here only
   once the manager has opened the fifos, after the config file. *)
ConsoleSends(c) ==
  /\ phase = "serve"
  /\ sent < MaxCommands
  /\ sent' = IF c.cmd = "shutdown" THEN MaxCommands ELSE sent + 1
  /\ fss_in' = Append(fss_in, c)
  /\ UNCHANGED <<configVars, events, shutdown_flag, edits>>

(* A file of a watched directory is created, written or deleted. *)
FileChanges(d, mask) ==
  /\ phase \in {"config", "serve"}
  /\ edits < MaxEvents
  /\ watch[d] # 0
  /\ edits' = edits + 1
  /\ events' = Append(events, [wd |-> watch[d], mask |-> mask])
  /\ UNCHANGED <<configVars, fss_in, shutdown_flag, sent>>

-----------------------------------------------------------------------------
(* The loop that serves.                                                   *)

(* Mutant of LoopEnds: the workers that still run are left behind. *)
LoopEndsEarly == shutdown_flag /\ queue = <<>>

LoopEnds == shutdown_flag /\ queue = <<>> /\ num_workers = 0

ServePoll ==
  /\ pc = "poll"
  /\ ~LoopEnds
  /\ PollWorkers
  /\ pc' = "drain"
  /\ UNCHANGED <<phase, unread, eof, queue, storeVars, workers, num_workers,
                 workers_pid, workers_buffer, buffers, serveVars>>

(* Shutdown is complete. *)
ServeLeave ==
  /\ pc = "poll"
  /\ LoopEnds
  /\ Halt("done")
  /\ UNCHANGED serveVars

(* In this loop only the report of a FULL job ends is_in_workers. *)
ServeDrain ==
  /\ \/ DrainDone
     \/ \E i \in ready : \/ DrainChunk(i)
                         \/ DrainWild(i)
                         \/ DrainUnknown(i)
                         \/ DrainReport(i, {"FULL"})
  /\ UNCHANGED serveVars

MayPop == HasRoom /\ queue # <<>>

(* Mutant of PopQueued: the action is read and stays in the queue. *)
PeekQueued ==
  /\ pc = "take"
  /\ MayPop
  /\ pc' = "poll"
  /\ UNCHANGED <<phase, unread, eof, queue, storeVars, tableVars, serveVars>>

(***************************************************************************)
(* A queued action is popped into buffer and workers_flag is set: the fork *)
(* that would act on them is in the other branch, and the flag is reset at *)
(* the top of the next iteration.                                          *)
(***************************************************************************)
PopQueued ==
  /\ pc = "take"
  /\ MayPop
  /\ queue' = Tail(queue)
  /\ pc' = "poll"
  /\ UNCHANGED <<phase, unread, eof, storeVars, tableVars, serveVars>>

(* Neither of the two descriptors has input. *)
NoInput ==
  /\ pc = "take"
  /\ ~MayPop
  /\ events = <<>>
  /\ fss_in = <<>>
  /\ pc' = "poll"
  /\ UNCHANGED <<phase, unread, eof, queue, storeVars, tableVars, serveVars>>

(* Mutant of Dispatch: the queue is a stack. *)
DispatchLast(job) ==
  \/ /\ HasRoom
     /\ AddWorker(job)
     /\ UNCHANGED <<phase, queue>>
  \/ /\ ~HasRoom
     /\ queue' = <<job>> \o queue
     /\ UNCHANGED <<phase, tableVars>>

(* Mutant of Dispatch: the job is queued also when it was given a worker. *)
DispatchAndQueue(job) ==
  /\ queue' = Append(queue, job)
  /\ UNCHANGED phase
  /\ IF HasRoom THEN AddWorker(job) ELSE UNCHANGED tableVars

(* A job that an event or a command asks for: a worker if there is room (or
   exit(-1) if fork fails), the queue otherwise. *)
Dispatch(job) ==
  \/ /\ HasRoom
     /\ AddWorker(job)
     /\ UNCHANGED <<phase, queue>>
  \/ /\ HasRoom
     /\ "fork" \in Faults
     /\ phase' = "exited"
     /\ UNCHANGED <<queue, tableVars>>
  \/ /\ ~HasRoom
     /\ queue' = Append(queue, job)
     /\ UNCHANGED <<phase, tableVars>>

NoDispatch == UNCHANGED <<phase, queue, tableVars>>

-----------------------------------------------------------------------------
(* Inotify events.                                                         *)

JobOf(mask) ==
  CASE mask = "CREATE" -> "ADDED"
    [] mask = "MODIFY" -> "MODIFIED"
    [] mask = "DELETE" -> "DELETED"

(* Mutant of ReadEvents: the event that is acted upon stays. *)
PeekEvents == events' = events

(* One read of the inotify descriptor. *)
ReadEvents ==
  events' = SubSeq(events, EventsPerRead + 1, Len(events))

(***************************************************************************)
(* The first event that was read is acted upon.  pos, which would keep the *)
(* others for the next iteration, is computed from strlen(buffer): the     *)
(* descriptor at the start of the buffer makes that 1, and pos stays 0.    *)
(***************************************************************************)
TakeEvent ==
  /\ pc = "take"
  /\ ~MayPop
  /\ events # <<>>
  /\ LET e == Head(events)
         src == inotify_map[e.wd].source
     IN /\ e.wd \in DOMAIN inotify_map
        /\ IsFound(mem, src)
        /\ IF e.mask \in Mask
           THEN Dispatch([src |-> src, op |-> JobOf(e.mask),
                          tgt |-> sync_info_mem_store_find(mem, src).target])
           ELSE NoDispatch
  /\ ReadEvents
  /\ pc' = "poll"
  /\ UNCHANGED <<unread, eof, storeVars, fss_in, shutdown_flag, sent, edits>>

(* The descriptor of the event is not in the map: exit(-1).  Or its directory
   is not found in the store: assert(dr != NULL) fails. *)
TakeLostEvent ==
  /\ pc = "take"
  /\ ~MayPop
  /\ events # <<>>
  /\ LET wd == Head(events).wd
     IN IF wd \in DOMAIN inotify_map
        THEN ~IsFound(mem, inotify_map[wd].source) /\ Halt("crashed")
        ELSE Halt("exited")
  /\ UNCHANGED serveVars

-----------------------------------------------------------------------------
(* Commands from fss_in.                                                   *)

(***************************************************************************)
(* read() empties the fifo (commands are short, up to 1024 bytes come      *)
(* along), and strtok takes the words of the FIRST line: whatever came     *)
(* after it is gone.                                                       *)
(***************************************************************************)
TakeCommand(cmd) ==
  /\ pc = "take"
  /\ ~MayPop
  /\ events = <<>>
  /\ fss_in # <<>>
  /\ Head(fss_in).cmd = cmd
  /\ fss_in' = <<>>
  /\ pc' = "poll"
  /\ UNCHANGED <<unread, eof, sent, edits>>

(* dir_info of a source that find finds. *)
Info(src) == sync_info_mem_store_find(mem, src)

(* add of a directory that is not monitored: a new entry, whose is_in_workers
   is not set to anything, or the old one with the new target. *)
AddDirectory ==
  /\ TakeCommand("add")
  /\ LET c == Head(fss_in)
     IN /\ \/ /\ ~IsFound(mem, c.src)
              /\ \E garbage \in BOOLEAN :
                   mem' = sync_info_mem_store_add(mem, NewInfo(c.src, c.tgt, garbage))
              /\ ~Overloaded(mem')
           \/ /\ IsFound(mem, c.src)
              /\ ~Info(c.src).is_active
              /\ mem' = Overwrite(mem, c.src, [Info(c.src) EXCEPT !.is_active = TRUE,
                                                                !.target = c.tgt])
        /\ AddWatch(c.src)
        /\ Dispatch([src |-> c.src, tgt |-> c.tgt, op |-> "FULL"])
  /\ UNCHANGED <<events, shutdown_flag>>

(* add overloads the store, which never comes back from the rehash. *)
AddOverloads ==
  /\ TakeCommand("add")
  /\ ~IsFound(mem, Head(fss_in).src)
  /\ Overloaded([mem EXCEPT !.size = @ + 1])
  /\ phase' = "crashed"
  /\ UNCHANGED <<queue, storeVars, tableVars, events, shutdown_flag>>

(* add of a directory that is monitored already. *)
AddRefused ==
  /\ TakeCommand("add")
  /\ IsFound(mem, Head(fss_in).src)
  /\ Info(Head(fss_in).src).is_active
  /\ NoDispatch
  /\ UNCHANGED <<storeVars, events, shutdown_flag>>

(* status only prints. *)
ShowStatus ==
  /\ TakeCommand("status")
  /\ NoDispatch
  /\ UNCHANGED <<storeVars, events, shutdown_flag>>

MaySync(src) ==
  /\ IsFound(mem, src)
  /\ ~Info(src).is_in_workers
  /\ Info(src).is_active

SyncDirectory ==
  /\ TakeCommand("sync")
  /\ LET src == Head(fss_in).src
     IN /\ MaySync(src)
        /\ AddWatch(src)
        /\ Dispatch([src |-> src, tgt |-> Info(src).target, op |-> "FULL"])
  /\ UNCHANGED <<mem, events, shutdown_flag>>

(* sync of a directory that is unknown, busy or not monitored. *)
SyncRefused ==
  /\ TakeCommand("sync")
  /\ ~MaySync(Head(fss_in).src)
  /\ NoDispatch
  /\ UNCHANGED <<storeVars, events, shutdown_flag>>

(* inotify_rm_watch(wd): the kernel reports the end of a watch with an
   IN_IGNORED event; a descriptor that watches nothing any more is an error,
   which the manager does not look at. *)
RemoveWatch(wd) ==
  /\ watch' = [d \in Dir |-> IF watch[d] = wd THEN 0 ELSE watch[d]]
  /\ events' = IF \E d \in Dir : watch[d] = wd
               THEN Append(events, [wd |-> wd, mask |-> "IGNORED"]) ELSE events

(* Mutant of CancelDirectory: the descriptor is removed from the map too. *)
CancelForgets ==
  /\ TakeCommand("cancel")
  /\ LET src == Head(fss_in).src
         wd == hash_table_find_key(inotify_map, src)
     IN /\ wd # NoWatch
        /\ IsFound(mem, src)
        /\ Info(src).is_active
        /\ mem' = Overwrite(mem, src, [Info(src) EXCEPT !.is_active = FALSE])
        /\ RemoveWatch(wd)
        /\ inotify_map' = [w \in DOMAIN inotify_map \ {wd} |-> inotify_map[w]]
  /\ NoDispatch
  /\ UNCHANGED <<next_wd, shutdown_flag>>

CancelDirectory ==
  /\ TakeCommand("cancel")
  /\ LET src == Head(fss_in).src
         wd == hash_table_find_key(inotify_map, src)
     IN /\ ~ScanGoesWild(inotify_map, src)
        /\ wd # NoWatch
        /\ IsFound(mem, src)
        /\ Info(src).is_active
        /\ mem' = Overwrite(mem, src, [Info(src) EXCEPT !.is_active = FALSE])
        /\ RemoveWatch(wd)
  /\ NoDispatch
  /\ UNCHANGED <<inotify_map, next_wd, shutdown_flag>>

(* cancel of a directory that was never watched, or is not monitored. *)
CancelRefused ==
  /\ TakeCommand("cancel")
  /\ LET src == Head(fss_in).src
     IN /\ ~ScanGoesWild(inotify_map, src)
        /\ \/ hash_table_find_key(inotify_map, src) = NoWatch
           \/ IsFound(mem, src) /\ ~Info(src).is_active
  /\ NoDispatch
  /\ UNCHANGED <<storeVars, events, shutdown_flag>>

(* cancel crashes: find returns NULL for a watched directory, or the scan of
   the hash table follows an uninitialised pointer. *)
CancelCrashes ==
  /\ TakeCommand("cancel")
  /\ LET src == Head(fss_in).src
     IN \/ ScanGoesWild(inotify_map, src)
        \/ /\ hash_table_find_key(inotify_map, src) # NoWatch
           /\ ~IsFound(mem, src)
  /\ phase' = "crashed"
  /\ UNCHANGED <<queue, storeVars, tableVars, events, shutdown_flag>>

Shutdown ==
  /\ TakeCommand("shutdown")
  /\ shutdown_flag' = TRUE
  /\ NoDispatch
  /\ UNCHANGED <<storeVars, events>>

-----------------------------------------------------------------------------
ObeyCommand ==
  \/ AddDirectory \/ AddOverloads \/ AddRefused
  \/ ShowStatus
  \/ SyncDirectory \/ SyncRefused
  \/ CancelDirectory \/ CancelRefused \/ CancelCrashes
  \/ Shutdown

ServeManager ==
  /\ phase = "serve"
  /\ \/ ServePoll
     \/ ServeLeave
     \/ ServeDrain
     \/ PopQueued
     \/ NoInput
     \/ TakeEvent
     \/ TakeLostEvent
     \/ ObeyCommand

Manager == ServeManager \/ (ConfigManager /\ UNCHANGED serveVars)

Console == \E c \in Commands : ConsoleSends(c)

Users == \E d \in Dir, mask \in Mask : FileChanges(d, mask)

Over ==
  /\ phase \notin {"config", "serve"}
  /\ UNCHANGED vars

Next ==
  \/ Manager
  \/ WorkerStep /\ UNCHANGED serveVars
  \/ Console
  \/ Users
  \/ Over

(***************************************************************************)
(* The manager never blocks once its fifos are open, and the workers' file *)
(* operations end.  Nothing is assumed of the console and of the users.    *)
(***************************************************************************)
Fairness ==
  /\ WF_vars(Manager)
  /\ WF_vars(WorkerProgress /\ UNCHANGED serveVars)

Spec == Init /\ [][Next]_vars /\ Fairness

-----------------------------------------------------------------------------
(* Properties that hold.                                                   *)

(* Every variable of the manager has the type its C counterpart has. *)
TypeOK ==
  /\ ConfigTypeOK
  /\ fss_in \in Seq(Command)
  /\ events \in Seq(Event)
  /\ shutdown_flag \in BOOLEAN
  /\ sent \in 0..MaxCommands
  /\ edits \in 0..MaxEvents

(***************************************************************************)
(* The manager over its whole life is a worker pool that may forget jobs:  *)
(* in both loops jobs are launched in the order in which they were asked   *)
(* for, each at most once for every time it came, and never more than      *)
(* worker_limit at a time.                                                 *)
(***************************************************************************)
LossyPool == INSTANCE WorkerPool WITH
               Lossy <- TRUE,
               waiting <- queue \o unread,
               launched <- Launched,
               running <- Running

ManagerIsLossyPool == LossyPool!PoolSpec

(***************************************************************************)
(* The exit(-1) of "watch fd didn't found" is out of reach: the map knows  *)
(* the descriptor of every live watch under its own directory, and that of *)
(* every event still in the kernel's queue, events of cancelled watches    *)
(* and the IN_IGNORED of the cancellation included.                        *)
(***************************************************************************)
DescriptorsKnown ==
  /\ \A d \in Dir : watch[d] # 0 => /\ watch[d] \in DOMAIN inotify_map
                                   /\ inotify_map[watch[d]].source = d
  /\ \A k \in DOMAIN events : events[k].wd \in DOMAIN inotify_map

(***************************************************************************)
(* A directory that status shows as active is watched by the kernel, if it *)
(* can be: however add, sync and cancel follow each other, no cancel takes *)
(* away the watch of a directory that stays active.                        *)
(***************************************************************************)
ActiveIsWatched ==
  \A d \in Dir \ NoSuchDir :
    IsFound(mem, d) /\ Info(d).is_active => watch[d] # 0

(***************************************************************************)
(* "Manager shutdown complete" is the truth: when the loop is left no job  *)
(* is in line and every worker ever forked has been heard to the end of    *)
(* its report.                                                             *)
(***************************************************************************)
DoneIsQuiet ==
  phase = "done" =>
    /\ queue = <<>>
    /\ \A p \in DOMAIN workers : workers[p].got = END_PART

(***************************************************************************)
(* A command in fss_in is taken out of it, or the manager ends, once files *)
(* stop changing (MaxEvents): the queue and the inotify events go first,   *)
(* and an endless stream of events would be served for ever.               *)
(***************************************************************************)
CommandsAreTaken == (fss_in # <<>>) ~> (fss_in = <<>> \/ phase # "serve")

(***************************************************************************)
(* A shutdown that is read ends the manager (README.md:42), provided that  *)
(* every worker gets to the end of its report: one that dies before it     *)
(* leaves POLLHUP on its pipe, which line 298 does not look at, keeps its  *)
(* slot, and the loop condition at line 568 stays true.                    *)
(***************************************************************************)
ShutdownCompletes == shutdown_flag ~> phase = "done"

-----------------------------------------------------------------------------
(* What the documents and comments of the repository say, and the code     *)
(* does not do.                                                            *)

(* README.md:60-62: what cannot be started is pushed in a queue (to be
   started later): no queued job is forgotten. *)
QueuedIsLaunched == Pool!PoolSpec

(* README.md:40: cancel ends the syncing of a directory: a directory that is
   not active is not watched. *)
CancelStops ==
  \A d \in Dir : IsFound(mem, d) /\ ~Info(d).is_active => watch[d] = 0
=============================================================================
