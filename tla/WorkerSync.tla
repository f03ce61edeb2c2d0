----------------------------- MODULE WorkerSync -----------------------------
(***************************************************************************)
(* What worker processes do to the files of one directory pair             *)
(* (worker_process.c), while users change the source and fss_manager turns *)
(* inotify events into workers.                                            *)
(*                                                                         *)
(* A worker goes from system call to system call: unlink, open of a source *)
(* file, open of a target file, copy.  Between two of them other workers   *)
(* and the users act.  A copy is one step: contents fit in one read, and   *)
(* what is written between two reads of a longer file raises an event of   *)
(* its own.                                                                *)
(***************************************************************************)
EXTENDS Naturals, Sequences, SequencesExt

CONSTANTS
  File,           \* the names of files
  Text,           \* contents other than the empty one, all of one length
  WorkerLimit,    \* workers that may run at a time
  EventsPerRead,  \* inotify events that fit in one read of the manager
  Fragile,        \* bound: files on which system calls may fail, and whose
                  \* mode the users may set to deny reading or writing
  MaxEdits,       \* bound: changes made by the users
  MaxSyncs        \* bound: sync commands

ASSUME SyncWorkerLimitAssumption == WorkerLimit \in Nat \ {0}
ASSUME FragileAssumption == Fragile \subseteq File
ASSUME SyncEventsAssumption == EventsPerRead \in Nat \ {0}
ASSUME FileAssumption == File # {}
ASSUME SyncBoundsAssumption == MaxEdits \in Nat /\ MaxSyncs \in Nat

NoFile == "no file"
Empty == "empty"
Content == {Empty} \cup Text

(* No text is taken for a file that is not there, an empty one or the state of
   a descriptor. *)
ASSUME TextAssumption == Text \cap {NoFile, Empty, "live", "closed"} = {}
Change == [file : File, mask : {"CREATE", "MODIFY", "DELETE"}]

VARIABLES
  src, tgt,       \* file -> its content, or NoFile
  locked, sealed, \* source files whose mode denies reading, writing
  workers,        \* slot -> what its worker is about to do
  events,         \* the kernel's queue for the watch on the source
  watched,        \* the watch is set
  is_in_workers,  \* of the dir_info of the pair
  edits, syncs,   \* changes and sync commands so far
  stale           \* history: files that may be out of date, see InDoubt

vars == <<src, tgt, locked, sealed, workers, events, watched, is_in_workers,
          edits, syncs, stale>>

(***************************************************************************)
(* A worker: the files of its job, those it has yet to delete or to copy,  *)
(* the file it copies, and what its two descriptors give: "held" is what   *)
(* reading the source returns ("live" if that is what src holds), "linked" *)
(* is FALSE if the open target file has been unlinked since.               *)
(***************************************************************************)
Slot == 1..WorkerLimit
Stage == {"idle", "scan", "delete", "truncate", "copy", "target", "write", "done"}
Worker == [op : {"FULL", "ADDED", "MODIFIED", "DELETED"}, stage : Stage,
           files : SUBSET File, todo : SUBSET File, file : File,
           held : Content \cup {"live", "closed"}, linked : BOOLEAN]

(* Mutant of FirstStage: MODIFIED, too, opens the source as ADDED does. *)
FirstStageTruncates(op) ==
  CASE op = "FULL" -> "scan"
    [] op \in {"ADDED", "MODIFIED"} -> "truncate"
    [] op = "DELETED" -> "delete"

FirstStage(op) ==
  CASE op = "FULL" -> "scan"
    [] op = "ADDED" -> "truncate"
    [] op = "MODIFIED" -> "copy"
    [] op = "DELETED" -> "delete"

NewWorker(op, files) ==
  [op |-> op, stage |-> FirstStage(op), files |-> files, todo |-> files,
   file |-> CHOOSE f \in files : TRUE, held |-> "closed", linked |-> FALSE]

(* What is kept of a slot in which no worker runs. *)
NoWorker == [NewWorker("FULL", File) EXCEPT !.stage = "idle"]

Idle(w) == workers[w].stage = "idle"
Busy(f) == {w \in Slot : workers[w].stage \notin {"idle", "done"} /\ f \in workers[w].files}

(* The config file has named the pair: its FULL worker is forked, the watch
   is not yet set. *)
Init ==
  /\ src \in [File -> {NoFile} \cup Text]
  /\ tgt \in [File -> {NoFile} \cup Text]
  /\ locked = {} /\ sealed = {}
  /\ workers = [w \in Slot |-> IF w = 1 THEN NewWorker("FULL", File) ELSE NoWorker]
  /\ events = <<>>
  /\ watched = FALSE
  /\ is_in_workers = TRUE
  /\ edits = 0
  /\ syncs = 0
  /\ stale = {}

(* The kernel reports a change of a watched directory; an event equal to the
   last one in the queue is merged with it. *)
Notify(f, mask) ==
  LET e == [file |-> f, mask |-> mask]
  IN events' = IF ~watched \/ (events # <<>> /\ Last(events) = e)
               THEN events ELSE Append(events, e)

-----------------------------------------------------------------------------
(* The users of the source directory.                                      *)

(* A deleted file can still be read by those who have it open. *)
KeepOpen(f) ==
  workers' = [w \in Slot |->
    IF workers[w].stage \in {"target", "write"} /\ workers[w].file = f
         /\ workers[w].held = "live"
    THEN [workers[w] EXCEPT !.held = src[f]] ELSE workers[w]]

Edit ==
  /\ edits < MaxEdits
  /\ edits' = edits + 1
  /\ UNCHANGED <<tgt, watched, is_in_workers, syncs>>

(* A change that the watch reports, if it is set already. *)
Seen(f, mask) ==
  /\ Notify(f, mask)
  /\ stale' = IF watched THEN stale ELSE stale \cup {f}
  /\ Edit

(* A change that is not in the mask of the watch. *)
Unseen(f) ==
  /\ stale' = stale \cup {f}
  /\ Edit
  /\ UNCHANGED events

(* The mode of a file: nothing denied, or whatever. *)
PlainMode(f) == locked' = locked \ {f} /\ sealed' = sealed \ {f}
AnyMode(f) ==
  /\ locked' \in {locked \ {f}, locked \cup {f}}
  /\ sealed' \in {sealed \ {f}, sealed \cup {f}}
UsersMode(f) == PlainMode(f) \/ (f \in Fragile /\ AnyMode(f))

UserCreates(f) ==
  /\ src[f] = NoFile
  /\ src' = [src EXCEPT ![f] = Empty]
  /\ UsersMode(f)
  /\ Seen(f, "CREATE")
  /\ UNCHANGED workers

UserWrites(f, c) ==
  /\ src[f] # NoFile
  /\ src' = [src EXCEPT ![f] = c]
  /\ Seen(f, "MODIFY")
  /\ UNCHANGED <<locked, sealed, workers>>

UserDeletes(f) ==
  /\ src[f] # NoFile
  /\ src' = [src EXCEPT ![f] = NoFile]
  /\ PlainMode(f)
  /\ KeepOpen(f)
  /\ Seen(f, "DELETE")

(***************************************************************************)
(* rename: a file is moved out of the directory, or one comes in from      *)
(* elsewhere, over the one of its name if there is one.  The mask of the   *)
(* watch is IN_CREATE | IN_DELETE | IN_MODIFY: no event.                   *)
(***************************************************************************)
UserMoves(f, c) ==
  /\ src[f] # c
  /\ src' = [src EXCEPT ![f] = c]
  /\ IF c = NoFile THEN PlainMode(f) ELSE UsersMode(f)
  /\ IF src[f] = NoFile THEN UNCHANGED workers ELSE KeepOpen(f)
  /\ Unseen(f)

(* chmod: no event either. *)
UserChmods(f) ==
  /\ src[f] # NoFile
  /\ f \in Fragile
  /\ AnyMode(f)
  /\ Unseen(f)
  /\ UNCHANGED <<src, workers>>

-----------------------------------------------------------------------------
(* The manager.                                                            *)

(* inotify_add_watch, after the fork of the FULL worker. *)
AddWatch ==
  /\ ~watched
  /\ watched' = TRUE
  /\ UNCHANGED <<src, tgt, locked, sealed, workers, events, is_in_workers, edits, syncs, stale>>

JobOf(mask) ==
  CASE mask = "CREATE" -> "ADDED"
    [] mask = "MODIFY" -> "MODIFIED"
    [] mask = "DELETE" -> "DELETED"

(***************************************************************************)
(* A new worker brings a file up to date that was not if its operation     *)
(* suits the file as it is now, and no event about the file is left that   *)
(* could undo it.  It leaves in doubt those another worker is at work on.  *)
(***************************************************************************)
Suits(op, f) == op = "FULL" \/ (op = "DELETED" <=> src[f] = NoFile)
Renews(op, f, left) == Suits(op, f) /\ \A k \in DOMAIN left : left[k].file # f
InDoubt(op, files, left) ==
  {f \in stale : f \in files => ~Renews(op, f, left)} \cup {f \in files : Busy(f) # {}}

Start(w, op, files) ==
  /\ Idle(w)
  /\ workers' = [workers EXCEPT ![w] = NewWorker(op, files)]

(***************************************************************************)
(* One read of the inotify descriptor: the first event gets a worker if    *)
(* one may run.  The others of the read are lost; and without a free slot  *)
(* the first one is queued, from where it is popped and forgotten.         *)
(***************************************************************************)
TakeEvents ==
  /\ events # <<>>
  /\ LET e == Head(events)
         read == {k \in DOMAIN events : k <= EventsPerRead}
         lost(first) == {events[k].file : k \in {i \in read : i >= first}}
         left == SubSeq(events, EventsPerRead + 1, Len(events))
     IN /\ \/ /\ \E w \in Slot : Start(w, JobOf(e.mask), {e.file})
              /\ stale' = InDoubt(JobOf(e.mask), {e.file}, left) \cup lost(2)
           \/ /\ \A w \in Slot : ~Idle(w)
              /\ stale' = stale \cup lost(1)
              /\ UNCHANGED workers
        /\ events' = left
  /\ UNCHANGED <<src, tgt, locked, sealed, watched, is_in_workers, edits, syncs>>

(* The sync command; without a free slot it, too, is queued and forgotten. *)
SyncCommand ==
  /\ watched
  /\ syncs < MaxSyncs
  /\ ~is_in_workers
  /\ \E w \in Slot : Start(w, "FULL", File)
  /\ syncs' = syncs + 1
  /\ stale' = InDoubt("FULL", File, events)
  /\ UNCHANGED <<src, tgt, locked, sealed, events, watched, is_in_workers, edits>>

(* The report of a worker that is done has been read: its slot is free. *)
Retire(w) ==
  /\ workers[w].stage = "done"
  /\ workers' = [workers EXCEPT ![w] = NoWorker]
  /\ is_in_workers' = (is_in_workers /\ workers[w].op # "FULL")
  /\ UNCHANGED <<src, tgt, locked, sealed, events, watched, edits, syncs, stale>>

-----------------------------------------------------------------------------
(* The workers.                                                            *)

UnlessSource == UNCHANGED <<src, locked, sealed, events, watched, is_in_workers, edits, syncs, stale>>

(* FULL: readdir of the target. *)
ScanTarget(w) ==
  /\ workers[w].stage = "scan"
  /\ workers' = [workers EXCEPT ![w].stage = "delete",
                                ![w].todo = {f \in File : tgt[f] # NoFile}]
  /\ UNCHANGED tgt
  /\ UnlessSource

(* delete_file: unlink, which fails on a file that is gone already. *)
delete_file(w, f) ==
  /\ workers[w].stage = "delete"
  /\ f \in workers[w].todo
  /\ tgt' = [tgt EXCEPT ![f] = NoFile]
  /\ workers' = [x \in Slot |->
       IF x = w THEN [workers[w] EXCEPT !.todo = @ \ {f}]
       ELSE IF workers[x].file = f THEN [workers[x] EXCEPT !.linked = FALSE]
       ELSE workers[x]]
  /\ UnlessSource

(* Nothing is left to delete: FULL goes on with readdir of the source. *)
ScanSource(w) ==
  /\ workers[w].stage = "delete"
  /\ workers[w].todo = {}
  /\ workers' = [workers EXCEPT
       ![w].stage = IF workers[w].op = "FULL" THEN "copy" ELSE "done",
       ![w].todo = IF workers[w].op = "FULL" THEN {f \in File : src[f] # NoFile} ELSE {}]
  /\ UNCHANGED tgt
  /\ UnlessSource

(***************************************************************************)
(* ADDED: open(source, O_CREAT | O_WRONLY | O_TRUNC) without a mode.  A    *)
(* file that is there loses its content; one that is gone is created       *)
(* again, with whatever mode; one that may not be written is an error, and *)
(* nothing is copied.                                                      *)
(***************************************************************************)
TruncateSource(w) ==
  /\ workers[w].stage = "truncate"
  /\ \E f \in workers[w].todo :
       \/ /\ src[f] # NoFile /\ f \notin sealed
          /\ src' = [src EXCEPT ![f] = Empty]
          /\ Notify(f, "MODIFY")
          /\ workers' = [workers EXCEPT ![w].stage = "copy"]
          /\ UNCHANGED <<locked, sealed, stale>>
       \/ /\ src[f] = NoFile
          /\ src' = [src EXCEPT ![f] = Empty]
          /\ AnyMode(f)
          /\ Notify(f, "CREATE")
          /\ workers' = [workers EXCEPT ![w].stage = "copy"]
          /\ UNCHANGED stale
       \/ /\ src[f] # NoFile /\ f \in sealed
          /\ workers' = [workers EXCEPT ![w].stage = "done"]
          /\ stale' = stale \cup {f}
          /\ UNCHANGED <<src, locked, sealed, events>>
  /\ UNCHANGED <<tgt, watched, is_in_workers, edits, syncs>>

(* synchronize_files: open of the source file, for reading. *)
OpenSource(w, f) ==
  /\ workers[w].stage = "copy"
  /\ f \in workers[w].todo
  /\ workers' = [workers EXCEPT
       ![w].stage = "target", ![w].todo = @ \ {f}, ![w].file = f,
       ![w].held = IF src[f] = NoFile \/ f \in locked THEN "closed" ELSE "live"]
  /\ UNCHANGED tgt
  /\ UnlessSource

(* Mutant of OpenTarget: the target is opened without O_TRUNC. *)
OpenTargetAsIs(w) ==
  LET f == workers[w].file
  IN /\ workers[w].stage = "target"
     /\ tgt' = [tgt EXCEPT ![f] = IF @ = NoFile THEN Empty ELSE @]
     /\ workers' = [workers EXCEPT
          ![w].linked = TRUE,
          ![w].stage = IF workers[w].held = "closed" THEN "copy" ELSE "write"]
     /\ UnlessSource

(* Mutant of OpenTarget: the descriptors are not checked. *)
OpenTargetUnchecked(w) ==
  /\ workers[w].stage = "target"
  /\ tgt' = [tgt EXCEPT ![workers[w].file] = Empty]
  /\ workers' = [workers EXCEPT ![w].linked = TRUE, ![w].stage = "write"]
  /\ UnlessSource

(* synchronize_files: the target is created or truncated, and only then the
   descriptors are checked: no source leaves an empty target. *)
OpenTarget(w) ==
  /\ workers[w].stage = "target"
  /\ tgt' = [tgt EXCEPT ![workers[w].file] = Empty]
  /\ workers' = [workers EXCEPT
       ![w].linked = workers[w].held # "closed",
       ![w].stage = IF workers[w].held = "closed" THEN "copy" ELSE "write"]
  /\ UnlessSource

(* synchronize_files: read and write until the end of the source file. *)
CopyText(w) ==
  LET f == workers[w].file
      text == IF workers[w].held = "live" THEN src[f] ELSE workers[w].held
  IN /\ workers[w].stage = "write"
     /\ tgt' = IF text = Empty \/ ~workers[w].linked THEN tgt
               ELSE [tgt EXCEPT ![f] = text]
     /\ workers' = [workers EXCEPT ![w].stage = "copy", ![w].held = "closed",
                                   ![w].linked = FALSE]
     /\ UnlessSource

(***************************************************************************)
(* A system call fails: opendir of one of the directories, which ends      *)
(* FULL; the first open of ADDED, which ends it; unlink, open of the       *)
(* target, read or write of one file, which the worker skips.  A write     *)
(* that fails leaves the file truncated.                                   *)
(***************************************************************************)
CallFails(w) ==
  /\ \/ /\ workers[w].stage = "scan"
        /\ workers' = [workers EXCEPT ![w].stage = "done"]
        /\ stale' = File
     \/ /\ workers[w].stage = "truncate"
        /\ workers[w].todo \subseteq Fragile
        /\ workers' = [workers EXCEPT ![w].stage = "done"]
        /\ stale' = stale \cup workers[w].todo
     \/ /\ workers[w].stage = "delete"
        /\ \E f \in workers[w].todo \cap Fragile :
             /\ workers' = [workers EXCEPT ![w].todo = @ \ {f}]
             /\ stale' = stale \cup {f}
     \/ /\ workers[w].stage \in {"target", "write"}
        /\ workers[w].file \in Fragile
        /\ workers' = [workers EXCEPT ![w].stage = "copy", ![w].held = "closed",
                                      ![w].linked = FALSE]
        /\ stale' = stale \cup {workers[w].file}
  /\ UNCHANGED <<src, tgt, locked, sealed, events, watched, is_in_workers, edits, syncs>>

(* Nothing is left to copy: the report is written. *)
Report(w) ==
  /\ workers[w].stage = "copy"
  /\ workers[w].todo = {}
  /\ workers' = [workers EXCEPT ![w].stage = "done"]
  /\ UNCHANGED tgt
  /\ UnlessSource

-----------------------------------------------------------------------------
Users ==
  \E f \in File :
    \/ UserCreates(f)
    \/ UserDeletes(f)
    \/ UserChmods(f)
    \/ \E c \in Content : UserWrites(f, c)
    \/ \E c \in Content \cup {NoFile} : UserMoves(f, c)

Manager == AddWatch \/ TakeEvents \/ \E w \in Slot : Retire(w)

WorkerSteps(w) ==
  \/ ScanTarget(w) \/ ScanSource(w) \/ TruncateSource(w)
  \/ OpenTarget(w) \/ CopyText(w) \/ CallFails(w) \/ Report(w)
  \/ \E f \in File : delete_file(w, f) \/ OpenSource(w, f)

Quiet == watched /\ events = <<>> /\ \A w \in Slot : Idle(w)

(* All is quiet, and the users may leave it so. *)
Rest == Quiet /\ UNCHANGED vars

Next == Users \/ Manager \/ SyncCommand \/ Rest \/ \E w \in Slot : WorkerSteps(w)

(* The manager polls without blocking and file operations end; the users owe
   nothing, and neither does the console. *)
Fairness == WF_vars(Manager) /\ \A w \in Slot : WF_vars(WorkerSteps(w))

Spec == Init /\ [][Next]_vars /\ Fairness

-----------------------------------------------------------------------------
TypeOK ==
  /\ src \in [File -> {NoFile} \cup Content]
  /\ tgt \in [File -> {NoFile} \cup Content]
  /\ locked \subseteq File /\ sealed \subseteq File
  /\ workers \in [Slot -> Worker]
  /\ events \in Seq(Change)
  /\ watched \in BOOLEAN /\ is_in_workers \in BOOLEAN
  /\ edits \in 0..MaxEdits /\ syncs \in 0..MaxSyncs
  /\ stale \subseteq File
  /\ \A w \in Slot : workers[w].stage = "write" => workers[w].held # "closed"

(***************************************************************************)
(* When no event waits and no worker runs, every file of the target is     *)
(* what the source has, but for these: changed before the watch was set,   *)
(* or by an event that was lost, or in a way the watch does not report     *)
(* (rename, chmod); given to a worker while another one was at work on it; *)
(* not readable; skipped by its last worker because a system call failed,  *)
(* or because ADDED may not write to the source file.  No order of the     *)
(* other changes and of the workers' system calls does any further harm,   *)
(* and a later worker that has such a file to itself makes it good.        *)
(***************************************************************************)
QuietMeansMirrored ==
  Quiet => \A f \in File \ (stale \cup locked) : tgt[f] = src[f]

(***************************************************************************)
(* The workers come to rest when the users do.  An ADDED worker writes to  *)
(* its source and so causes an event, which causes a worker: that must not *)
(* go on for ever.                                                         *)
(***************************************************************************)
Settles == <>[]Quiet

-----------------------------------------------------------------------------
(* What the documents and comments of the repository say, and the code     *)
(* does not do.                                                            *)

(* worker_process.c:1-4, 111: a worker synchronises the target with its
   source, and ADDED creates the new file and copies the source's content to
   it: the source is changed by its users only. *)
SourceIsTheUsers == [][edits' = edits => src' = src]_vars
=============================================================================
