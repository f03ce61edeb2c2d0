----------------------------- MODULE ConfigPhase ----------------------------
(***************************************************************************)
(* The first loop of fss_manager's main() (fss_manager.c:136-263): the     *)
(* directory pairs of the config file are read, entered in the             *)
(* sync_info_mem_store and the inotify map, and synchronised by workers,   *)
(* before the manager talks to any console.                                *)
(*                                                                         *)
(* One iteration of the loop is three kinds of steps, between which        *)
(* workers run: the poll of the pipes (pc "poll"), one read per readable   *)
(* pipe ("drain"), and the start of at most one job ("take").  Their       *)
(* memory ends with the manager, so a step that ends it changes phase      *)
(* only.                                                                   *)
(***************************************************************************)
EXTENDS WorkerTable, MemStore, WatchMap, FiniteSets

CONSTANTS
  ConfigFiles,  \* the contents the config file may have: sequences of FULL jobs
  NoSuchDir     \* the names of no directory: inotify_add_watch fails on them

ASSUME ConfigFilesAssumption == ConfigFiles \subseteq Seq([src : Dir, tgt : Dir, op : {"FULL"}])
ASSUME NoSuchDirAssumption == NoSuchDir \subseteq Dir

VARIABLES
  phase,        \* the part of main() that runs, or how the process ended
  pc,           \* the next kind of step in the loop
  unread,       \* what is left of the config file
  eof,          \* feof(config_input)
  queue,        \* workers_queue
  mem,          \* the sync_info_mem_store
  inotify_map,  \* the hash_table of watch descriptors
  watch,        \* kernel: the descriptor that watches each directory, 0 if none
  next_wd       \* kernel: the next descriptor inotify_add_watch hands out

Phase == {"config", "serve", "done", "exited", "crashed"}

storeVars == <<mem, inotify_map, watch, next_wd>>
configVars == <<phase, pc, unread, eof, queue, storeVars, tableVars>>

ConfigInit ==
  /\ phase = "config"
  /\ pc = "poll"
  /\ unread \in ConfigFiles
  /\ eof = FALSE
  /\ queue = <<>>
  /\ mem = sync_info_mem_store_create
  /\ inotify_map = EmptyMap
  /\ watch = [d \in Dir |-> 0]
  /\ next_wd = 1
  /\ TableInit

(* The process ends, by exit(-1) or by a fault; its memory is gone. *)
Halt(how) ==
  /\ phase' = how
  /\ UNCHANGED <<pc, unread, eof, queue, storeVars, tableVars>>

-----------------------------------------------------------------------------
(* What both loops of main() do with watches and workers.                  *)

(* Mutant of AddWatch: a directory that has a descriptor in the map is not
   watched again. *)
AddWatchOnce(d) ==
  IF KeysOf(inotify_map, d) # {}
  THEN UNCHANGED <<inotify_map, watch, next_wd>>
  ELSE /\ inotify_map' = hash_table_insert(inotify_map, next_wd, d, FALSE)
       /\ watch' = [watch EXCEPT ![d] = next_wd]
       /\ next_wd' = next_wd + 1

(* inotify_add_watch(d) and hash_table_insert of the descriptor it returns:
   the one d has, or a new one, or -1. *)
AddWatch(d) ==
  LET wd == IF d \in NoSuchDir THEN NoWatch
            ELSE IF watch[d] # 0 THEN watch[d] ELSE next_wd
  IN /\ \E wild \in BOOLEAN :
          /\ wild => "wild" \in Faults
          /\ inotify_map' = hash_table_insert(inotify_map, wd, d, wild)
     /\ watch' = [watch EXCEPT ![d] = IF d \in NoSuchDir THEN 0 ELSE wd]
     /\ next_wd' = IF wd = next_wd THEN next_wd + 1 ELSE next_wd

(* The entry of a new directory pair. *)
NewInfo(src, tgt, in_workers) ==
  [source |-> src, target |-> tgt, is_active |-> TRUE,
   is_in_workers |-> in_workers, status |-> 0]

(* A chunk of slot i's pipe that does not complete a report. *)
DrainChunk(i) ==
  /\ pc = "drain"
  /\ NextReady(i)
  /\ ~HasEnd(Contents(i))
  /\ MarkRead(i)
  /\ KeepText(i)
  /\ UNCHANGED <<phase, pc, unread, eof, queue, storeVars>>

(* A report whose fields are missing: a variable that was never set is used. *)
DrainWild(i) ==
  /\ pc = "drain"
  /\ NextReady(i)
  /\ HasEnd(Contents(i))
  /\ MayCrash(Contents(i))
  /\ Halt("crashed")

(* A report for a directory that find does not find. *)
DrainUnknown(i) ==
  /\ pc = "drain"
  /\ NextReady(i)
  /\ HasEnd(Contents(i))
  /\ \E d \in Sources(Contents(i)) : ~IsFound(mem, d)
  /\ Halt("exited")

(***************************************************************************)
(* A complete report: the status goes to the entry of the directory it     *)
(* names and the slot is emptied.  Only reports of the operations in       *)
(* clearing end is_in_workers.                                             *)
(***************************************************************************)
DrainReport(i, clearing) ==
  /\ pc = "drain"
  /\ NextReady(i)
  /\ HasEnd(Contents(i))
  /\ \E d \in Sources(Contents(i)), op \in Operations(Contents(i)),
        p \in StatusWriters(Contents(i)) :
       /\ IsFound(mem, d)
       /\ mem' = LET info == sync_info_mem_store_find(mem, d)
                 IN Overwrite(mem, d,
                      [info EXCEPT !.status = p,
                                   !.is_in_workers = @ /\ op \notin clearing])
  /\ MarkRead(i)
  /\ RetireSlot(i)
  /\ UNCHANGED <<phase, pc, unread, eof, queue, inotify_map, watch, next_wd>>

(* No readable pipe is left in this iteration. *)
DrainDone ==
  /\ pc = "drain"
  /\ ready = {}
  /\ pc' = "take"
  /\ UNCHANGED <<phase, unread, eof, queue, storeVars, tableVars>>

-----------------------------------------------------------------------------
(* The loop over the config file.                                          *)

Finished == eof /\ num_workers = 0 /\ queue = <<>>

(* The loop condition holds: poll the pipes of the workers. *)
ConfigPoll ==
  /\ pc = "poll"
  /\ ~Finished
  /\ PollWorkers
  /\ pc' = "drain"
  /\ UNCHANGED <<phase, unread, eof, queue, storeVars, workers, num_workers,
                 workers_pid, workers_buffer, buffers>>

(* The loop is left: the manager goes on to open its fifos. *)
ConfigLeave ==
  /\ pc = "poll"
  /\ Finished
  /\ phase' = "serve"
  /\ UNCHANGED <<pc, unread, eof, queue, storeVars, tableVars>>

(* Mutant of StartPair: the entry does not say that a worker is at it. *)
StartPairUnmarked(job) ==
  /\ AddWorker(job)
  /\ AddWatch(job.src)
  /\ mem' = sync_info_mem_store_add(mem, NewInfo(job.src, job.tgt, FALSE))
  /\ UNCHANGED phase
  /\ pc' = "poll"

(* fork a FULL worker, watch the source, enter the pair in the store. *)
StartPair(job) ==
  /\ AddWorker(job)
  /\ AddWatch(job.src)
  /\ mem' = sync_info_mem_store_add(mem, NewInfo(job.src, job.tgt, TRUE))
  /\ phase' = IF Overloaded(mem') THEN "crashed" ELSE phase
  /\ pc' = "poll"

(* Mutant of HasRoom: one slot too many. *)
HasRoomForOneMore == num_workers <= WorkerLimit

HasRoom == num_workers < WorkerLimit

TakeQueued ==
  /\ pc = "take"
  /\ HasRoom
  /\ queue # <<>>
  /\ queue' = Tail(queue)
  /\ StartPair(Head(queue))
  /\ UNCHANGED <<unread, eof>>

(* Mutant of TakeConfig: the file goes before the queue. *)
TakeConfigFirst ==
  /\ pc = "take"
  /\ HasRoom
  /\ unread # <<>>
  /\ unread' = Tail(unread)
  /\ eof' \in {eof, unread' = <<>>}
  /\ StartPair(Head(unread))
  /\ UNCHANGED queue

(* The next pair of the file is started.  The file may end right after its
   last pair, which sets feof at once. *)
TakeConfig ==
  /\ pc = "take"
  /\ HasRoom
  /\ queue = <<>>
  /\ unread # <<>>
  /\ unread' = Tail(unread)
  /\ eof' \in {eof, unread' = <<>>}
  /\ StartPair(Head(unread))
  /\ UNCHANGED queue

(* The next pair of the file finds no free slot. *)
QueueConfig ==
  /\ pc = "take"
  /\ ~HasRoom
  /\ unread # <<>>
  /\ unread' = Tail(unread)
  /\ eof' \in {eof, unread' = <<>>}
  /\ queue' = Append(queue, Head(unread))
  /\ pc' = "poll"
  /\ UNCHANGED <<phase, storeVars, tableVars>>

(* fscanf finds no pair any more. *)
ReadNothing ==
  /\ pc = "take"
  /\ ~(HasRoom /\ queue # <<>>)
  /\ unread = <<>>
  /\ eof' = TRUE
  /\ pc' = "poll"
  /\ UNCHANGED <<phase, unread, queue, storeVars, tableVars>>

(* fork() fails for the pair that was to be started. *)
ConfigForkFails ==
  /\ pc = "take"
  /\ "fork" \in Faults
  /\ HasRoom
  /\ queue # <<>> \/ unread # <<>>
  /\ Halt("exited")

ConfigDrain ==
  \/ DrainDone
  \/ \E i \in ready : \/ DrainChunk(i)
                      \/ DrainWild(i)
                      \/ DrainUnknown(i)
                      \/ DrainReport(i, Operation)

ConfigManager ==
  /\ phase = "config"
  /\ \/ ConfigPoll
     \/ ConfigLeave
     \/ ConfigDrain
     \/ TakeQueued
     \/ TakeConfig
     \/ QueueConfig
     \/ ReadNothing
     \/ ConfigForkFails

(* A worker runs as long as somebody holds the other end of its pipe. *)
WorkerStep ==
  /\ phase \in {"config", "serve"}
  /\ \E p \in DOMAIN workers : WorkerWrite(p) \/ WorkerDies(p)
  /\ UNCHANGED <<phase, pc, unread, eof, queue, storeVars>>

WorkerProgress ==
  /\ phase \in {"config", "serve"}
  /\ \E p \in DOMAIN workers : WorkerWrite(p)
  /\ UNCHANGED <<phase, pc, unread, eof, queue, storeVars>>

(* The loop is over, one way or another. *)
ConfigOver ==
  /\ phase # "config"
  /\ UNCHANGED configVars

ConfigNext == ConfigManager \/ WorkerStep \/ ConfigOver

(***************************************************************************)
(* The manager is scheduled again and again (it never blocks in this       *)
(* loop), and so are the workers, whose file operations end.               *)
(***************************************************************************)
ConfigFairness == WF_configVars(ConfigManager) /\ WF_configVars(WorkerProgress)

ConfigSpec == ConfigInit /\ [][ConfigNext]_configVars /\ ConfigFairness

-----------------------------------------------------------------------------
(* Properties.                                                             *)

(* Every variable of the loop has the type its C counterpart has. *)
ConfigTypeOK ==
  /\ phase \in Phase
  /\ pc \in {"poll", "drain", "take"}
  /\ unread \in Seq(Job)
  /\ eof \in BOOLEAN
  /\ queue \in Seq(Job)
  /\ mem \in Store
  /\ next_wd \in Nat \ {0}
  /\ watch \in [Dir -> 0..next_wd - 1]
  /\ DOMAIN inotify_map \subseteq {NoWatch} \cup 1..next_wd - 1
  /\ inotify_map \in [DOMAIN inotify_map -> [source : Dir, wild : BOOLEAN]]
  /\ TableTypeOK

(***************************************************************************)
(* The loop is a lossless worker pool that nobody hands new jobs: the      *)
(* pairs of the config file, and no others, are launched in the order of   *)
(* the file, each line of it once, whichever of them had to wait in the    *)
(* queue, and never more than worker_limit at a time.                      *)
(***************************************************************************)
Launched == [p \in DOMAIN workers |-> workers[p].job]

Pool == INSTANCE WorkerPool WITH
          Lossy <- FALSE,
          waiting <- queue \o unread,
          launched <- Launched,
          running <- Running

ConfigIsPool == Pool!ClosedSpec

(***************************************************************************)
(* A directory is found by its source_dir exactly if one of the workers    *)
(* that were started is for it and has a target whose name falls in the    *)
(* same bucket: add hashes the target, find the source.  Whoever has no    *)
(* such worker is not found when his report comes, and the process exits.  *)
(***************************************************************************)
FoundByBucket ==
  \A d \in Dir :
    IsFound(mem, d) <=>
      \E p \in DOMAIN workers :
        workers[p].job.src = d /\ Bucket(workers[p].job.tgt) = Bucket(d)

(***************************************************************************)
(* The directory of every worker that was started can be found in the      *)
(* sync_info_mem_store by its source_dir, which is how its report will be  *)
(* looked up: the lookup that ends in exit(-1) does not fail.              *)
(***************************************************************************)
StartedIsFound == \A p \in DOMAIN workers : IsFound(mem, workers[p].job.src)

(***************************************************************************)
(* The status kept for a directory was reported by a worker that           *)
(* synchronised that directory: reports that arrive in pieces over several *)
(* pipes are put together from the pieces of one worker.                   *)
(***************************************************************************)
StatusIsOwn ==
  \A info \in Entries(mem) :
    info.status # 0 => workers[info.status].job.src = info.source

(***************************************************************************)
(* The loop over the config file ends, in serving or in the end of the     *)
(* process, if no worker dies before its report is complete and no NUL     *)
(* hides the end of one: buffers that several slots share do not keep the  *)
(* manager waiting for a report that came.                                 *)
(***************************************************************************)
Heard == \A p \in DOMAIN workers : workers[p].alive /\ ~workers[p].nul

ConfigLoopEnds == []Heard => <>(phase # "config")
=============================================================================
