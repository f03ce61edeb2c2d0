---------------------------- MODULE FssManagerProofs ---------------------------
(***************************************************************************)
(* Theorems about fss_manager over its whole life, for any directories,    *)
(* names, config files, commands, number of slots and any of the faults:   *)
(* types and the accounting of the slots, that watches, descriptors and    *)
(* active directories go together, that a shutdown leaves nothing behind,  *)
(* and the refinement of the worker pool that may forget jobs.             *)
(***************************************************************************)
EXTENDS FssManager, ConfigPhaseProofs

-----------------------------------------------------------------------------
(* Types.                                                                  *)

ServeTypeOK ==
  /\ fss_in \in Seq(Command)
  /\ events \in Seq(Event)
  /\ shutdown_flag \in BOOLEAN
  /\ sent \in 0..MaxCommands
  /\ edits \in 0..MaxEvents

ManagerInv == ConfigInv /\ ServeTypeOK

LEMMA ManagerTypeOK ==
  ASSUME ManagerInv
  PROVE  TypeOK
BY DEF ManagerInv, ConfigInv, ServeTypeOK, TypeOK

LEMMA ServeUnchanged ==
  ASSUME ServeTypeOK, UNCHANGED serveVars
  PROVE  ServeTypeOK'
BY DEF ServeTypeOK, serveVars

LEMMA ManagerInitInv ==
  ASSUME Init
  PROVE  ManagerInv
<1>1. ConfigInv
  BY InitInv DEF Init
<1>2. ServeTypeOK
  <2>1. fss_in \in Seq(Command) /\ events \in Seq(Event)
    BY EmptySeq DEF Init
  <2>2. sent \in 0..MaxCommands /\ edits \in 0..MaxEvents
    BY BoundsAssumption DEF Init
  <2> QED BY <2>1, <2>2 DEF Init, ServeTypeOK
<1> QED BY <1>1, <1>2 DEF ManagerInv

(* A job gets a worker, or a place in the queue, or the manager exits. *)
LEMMA DispatchInv ==
  ASSUME ConfigInv, NEW job \in Job, Dispatch(job)
  PROVE  TableInv' /\ queue' \in Seq(Job) /\ phase' \in Phase
<1>1. queue \in Seq(Job) /\ phase \in Phase /\ TableInv
  BY DEF ConfigInv, ConfigTypeOK
<1>2. CASE HasRoom /\ AddWorker(job) /\ UNCHANGED <<phase, queue>>
  BY <1>1, <1>2, AddWorkerInv DEF HasRoom
<1>3. CASE phase' = "exited" /\ UNCHANGED <<queue, tableVars>>
  BY <1>1, <1>3, TableUnchanged DEF Phase
<1>4. CASE queue' = Append(queue, job) /\ UNCHANGED <<phase, tableVars>>
  BY <1>1, <1>4, TableUnchanged, AppendProperties
<1> QED BY <1>2, <1>3, <1>4 DEF Dispatch

LEMMA NoDispatchInv ==
  ASSUME ConfigInv, NoDispatch
  PROVE  TableInv' /\ queue' \in Seq(Job) /\ phase' \in Phase
<1>1. queue \in Seq(Job) /\ phase \in Phase /\ TableInv
  BY DEF ConfigInv, ConfigTypeOK
<1> QED BY <1>1, TableUnchanged DEF NoDispatch

(* What is left of the types once the table, the queue and the store are
   known to be in order. *)
LEMMA TypesFromParts ==
  ASSUME ConfigInv, TableInv', queue' \in Seq(Job), phase' \in Phase,
         pc' \in {"poll", "drain", "take"}, UNCHANGED <<unread, eof>>,
         mem' \in Store,
         next_wd' \in Nat \ {0},
         watch' \in [Dir -> 0..next_wd' - 1],
         DOMAIN inotify_map' \subseteq {NoWatch} \cup 1..next_wd' - 1,
         inotify_map' \in [DOMAIN inotify_map' -> [source : Dir, wild : BOOLEAN]]
  PROVE  ConfigInv'
BY DEF ConfigInv, ConfigTypeOK, TableInv

LEMMA QuietStore ==
  ASSUME ConfigInv, TableInv', queue' \in Seq(Job), phase' \in Phase,
         pc' \in {"poll", "drain", "take"}, UNCHANGED <<unread, eof, storeVars>>
  PROVE  ConfigInv'
BY DEF ConfigInv, ConfigTypeOK, TableInv, storeVars

(* The words of the command at the head of fss_in. *)
LEMMA CommandFacts ==
  ASSUME ServeTypeOK, NEW cmd, TakeCommand(cmd)
  PROVE  /\ fss_in' \in Seq(Command) /\ pc' = "poll"
         /\ UNCHANGED <<unread, eof, sent, edits>>
         /\ Head(fss_in) \in Command /\ Head(fss_in).cmd = cmd
         /\ cmd = "add" => Head(fss_in).src \in Dir /\ Head(fss_in).tgt \in Dir
         /\ cmd \in {"status", "sync", "cancel"} => Head(fss_in).src \in Dir
<1>1. /\ fss_in \in Seq(Command) /\ fss_in # <<>> /\ fss_in' = <<>> /\ pc' = "poll"
      /\ UNCHANGED <<unread, eof, sent, edits>> /\ Head(fss_in).cmd = cmd
  BY DEF ServeTypeOK, TakeCommand
<1>2. Head(fss_in) \in Command
  BY <1>1, HeadTailProperties
<1> QED BY <1>1, <1>2, EmptySeq DEF Command

(* A descriptor that find_key returns is in the map, under the directory that
   was looked for. *)
LEMMA KeyFacts ==
  ASSUME ConfigTypeOK, NEW d \in Dir, hash_table_find_key(inotify_map, d) # NoWatch
  PROVE  /\ hash_table_find_key(inotify_map, d) \in DOMAIN inotify_map
         /\ inotify_map[hash_table_find_key(inotify_map, d)].source = d
         /\ hash_table_find_key(inotify_map, d) \in Nat \ {0}
<1> DEFINE keys == KeysOf(inotify_map, d)
           wd == hash_table_find_key(inotify_map, d)
           numbers == {BucketOf(w) : w \in keys}
<1>1. next_wd \in Nat \ {0} /\ DOMAIN inotify_map \subseteq {NoWatch} \cup 1..next_wd - 1
  BY DEF ConfigTypeOK
<1>2. keys # {} /\ keys \subseteq DOMAIN inotify_map
  BY DEF hash_table_find_key, KeysOf
<1>3. numbers \in SUBSET Nat /\ numbers # {}
  BY <1>1, <1>2 DEF BucketOf, MinusOneBucket
<1>4. PICK m \in numbers : \A n \in numbers : m <= n
  BY <1>3, LeastNumber
<1>5. \E w \in keys : \A v \in keys : BucketOf(w) <= BucketOf(v)
  BY <1>4
<1>6. wd \in keys
  BY <1>2, <1>5 DEF hash_table_find_key
<1>7. wd \in DOMAIN inotify_map /\ inotify_map[wd].source = d
  BY <1>6 DEF KeysOf
<1> QED BY <1>1, <1>7

LEMMA RemoveWatchTypes ==
  ASSUME ConfigTypeOK, ServeTypeOK, NEW wd \in Nat \ {0}, RemoveWatch(wd)
  PROVE  watch' \in [Dir -> 0..next_wd - 1] /\ events' \in Seq(Event)
<1>1. watch' \in [Dir -> 0..next_wd - 1]
  BY DEF ConfigTypeOK, RemoveWatch
<1>2. [wd |-> wd, mask |-> "IGNORED"] \in Event
  BY DEF Event
<1>3. events' \in Seq(Event)
  BY <1>2, AppendProperties DEF ServeTypeOK, RemoveWatch
<1> QED BY <1>1, <1>3

(* The steps of the second loop that neither read events nor commands. *)
LEMMA ServeLoopInv ==
  ASSUME ManagerInv,
         ServePoll \/ ServeLeave \/ ServeDrain \/ PopQueued \/ NoInput \/ TakeLostEvent
  PROVE  ManagerInv'
<1>1. ConfigInv /\ ServeTypeOK
  BY DEF ManagerInv
<1>2. UNCHANGED serveVars
  BY DEF ServePoll, ServeLeave, ServeDrain, PopQueued, NoInput, TakeLostEvent
<1>3. ServeTypeOK'
  BY <1>1, <1>2, ServeUnchanged
<1>4. CASE ServePoll
  <2>1. TableInv'
    BY <1>1, <1>4, PollWorkersInv DEF ConfigInv, ServePoll
  <2> QED
    BY <1>1, <1>3, <1>4, <2>1, QuietStore DEF ServePoll, ManagerInv, ConfigInv, ConfigTypeOK
<1>5. CASE ServeLeave \/ TakeLostEvent
  <2>1. \E how \in Phase : Halt(how)
    BY <1>5 DEF ServeLeave, TakeLostEvent, Phase
  <2> QED BY <1>1, <1>3, <2>1, HaltInv DEF ManagerInv
<1>6. CASE ServeDrain
  <2>1. CASE DrainDone
    BY <1>1, <1>3, <2>1, ControlInv DEF ManagerInv
  <2>2. ASSUME NEW i \in ready, DrainChunk(i) PROVE ConfigInv'
    BY <1>1, <2>2, DrainChunkInv
  <2>3. ASSUME NEW i \in ready, DrainWild(i) \/ DrainUnknown(i) PROVE ConfigInv'
    BY <1>1, <2>3, HaltInv DEF DrainWild, DrainUnknown, Phase
  <2>4. ASSUME NEW i \in ready, DrainReport(i, {"FULL"}) PROVE ConfigInv'
    BY <1>1, <2>4, DrainReportInv
  <2> QED BY <1>3, <1>6, <2>1, <2>2, <2>3, <2>4 DEF ServeDrain, ManagerInv
<1>7. CASE PopQueued \/ NoInput
  <2>1. TableInv'
    BY <1>1, <1>7, TableUnchanged DEF ConfigInv, PopQueued, NoInput
  <2>2. queue' \in Seq(Job)
    BY <1>1, <1>7, TakeJob DEF ConfigInv, ConfigTypeOK, PopQueued, NoInput, MayPop
  <2> QED
    BY <1>1, <1>3, <1>7, <2>1, <2>2, QuietStore
    DEF PopQueued, NoInput, ManagerInv, ConfigInv, ConfigTypeOK
<1> QED BY <1>4, <1>5, <1>6, <1>7

LEMMA TakeEventInv ==
  ASSUME ManagerInv, TakeEvent
  PROVE  ManagerInv'
<1> DEFINE e == Head(events)
           dir == inotify_map[e.wd].source
           job == [src |-> dir, op |-> JobOf(e.mask),
                   tgt |-> sync_info_mem_store_find(mem, dir).target]
<1>1. ConfigInv /\ ServeTypeOK
  BY DEF ManagerInv
<1>2. /\ e.wd \in DOMAIN inotify_map /\ IsFound(mem, dir)
      /\ IF e.mask \in Mask THEN Dispatch(job) ELSE NoDispatch
      /\ events' = SubSeq(events, EventsPerRead + 1, Len(events)) /\ pc' = "poll"
      /\ UNCHANGED <<unread, eof, storeVars, fss_in, shutdown_flag, sent, edits>>
  BY DEF TakeEvent, ReadEvents
<1>3. dir \in Dir
  <2>1. inotify_map[e.wd] \in [source : Dir, wild : BOOLEAN]
    BY <1>1, <1>2 DEF ConfigInv, ConfigTypeOK
  <2> QED BY <2>1
<1> HIDE DEF dir, e
<1>4. sync_info_mem_store_find(mem, dir).target \in Dir
  BY <1>1, <1>2, <1>3, PositionFacts DEF ConfigInv, ConfigTypeOK, DirInfo
<1>5. e.mask \in Mask => JobOf(e.mask) \in Operation
  BY DEF Mask, JobOf, Operation
<1>6. e.mask \in Mask => job \in Job
  BY <1>3, <1>4, <1>5 DEF Job
<1> HIDE DEF job
<1>7. TableInv' /\ queue' \in Seq(Job) /\ phase' \in Phase
  <2>1. CASE e.mask \in Mask
    BY <1>1, <1>2, <1>6, <2>1, DispatchInv
  <2>2. CASE e.mask \notin Mask
    BY <1>1, <1>2, <2>2, NoDispatchInv
  <2> QED BY <2>1, <2>2
<1>8. ConfigInv'
  BY <1>1, <1>2, <1>7, QuietStore
<1>9. events' \in Seq(Event)
  <2>1. events \in Seq(Event) /\ EventsPerRead \in Nat
    BY <1>1, EventsPerReadAssumption DEF ServeTypeOK
  <2> QED BY <2>1, <1>2, SubSeqProperties
<1>10. ServeTypeOK'
  BY <1>1, <1>2, <1>9 DEF ServeTypeOK
<1> QED BY <1>8, <1>10 DEF ManagerInv

(* A command that changes neither the store nor the events. *)
LEMMA QuietCommandInv ==
  ASSUME ManagerInv, NEW cmd, TakeCommand(cmd), TableInv', queue' \in Seq(Job),
         phase' \in Phase, shutdown_flag' \in BOOLEAN, UNCHANGED <<storeVars, events>>
  PROVE  ManagerInv'
<1>1. ConfigInv /\ ServeTypeOK
  BY DEF ManagerInv
<1>2. /\ fss_in' \in Seq(Command) /\ pc' = "poll"
      /\ UNCHANGED <<unread, eof, sent, edits>>
  BY <1>1, CommandFacts
<1>3. ConfigInv'
  BY <1>1, <1>2, QuietStore
<1>4. ServeTypeOK'
  BY <1>1, <1>2 DEF ServeTypeOK
<1> QED BY <1>3, <1>4 DEF ManagerInv

(* Commands that are refused, only print, set the flag or end in a crash. *)
LEMMA SmallCommandInv ==
  ASSUME ManagerInv,
         \/ AddOverloads \/ AddRefused \/ ShowStatus \/ SyncRefused
         \/ CancelRefused \/ CancelCrashes \/ Shutdown
  PROVE  ManagerInv'
<1>1. ConfigInv /\ ServeTypeOK
  BY DEF ManagerInv
<1>2. PICK cmd \in {"add", "status", "sync", "cancel", "shutdown"} : TakeCommand(cmd)
  BY DEF AddOverloads, AddRefused, ShowStatus, SyncRefused, CancelRefused, CancelCrashes,
         Shutdown
<1>3. UNCHANGED <<storeVars, events>> /\ shutdown_flag' \in BOOLEAN
  BY <1>1 DEF AddOverloads, AddRefused, ShowStatus, SyncRefused, CancelRefused,
         CancelCrashes, Shutdown, ServeTypeOK
<1>4. CASE AddOverloads \/ CancelCrashes
  <2>1. phase' = "crashed" /\ UNCHANGED <<queue, tableVars>>
    BY <1>4 DEF AddOverloads, CancelCrashes
  <2>2. TableInv' /\ queue' \in Seq(Job) /\ phase' \in Phase
    BY <1>1, <2>1, TableUnchanged DEF ConfigInv, ConfigTypeOK, Phase
  <2> QED BY <1>2, <1>3, <2>2, QuietCommandInv
<1>5. CASE AddRefused \/ ShowStatus \/ SyncRefused \/ CancelRefused \/ Shutdown
  <2>1. NoDispatch
    BY <1>5 DEF AddRefused, ShowStatus, SyncRefused, CancelRefused, Shutdown
  <2>2. TableInv' /\ queue' \in Seq(Job) /\ phase' \in Phase
    BY <1>1, <2>1, NoDispatchInv
  <2> QED BY <1>2, <1>3, <2>2, QuietCommandInv
<1> QED BY <1>4, <1>5

(* What add does to the store. *)
LEMMA AddDirectoryStore ==
  ASSUME ManagerInv, AddDirectory
  PROVE  /\ mem' \in Store
         /\ LET c == Head(fss_in)
            IN \/ \E garbage \in BOOLEAN :
                    /\ NewInfo(c.src, c.tgt, garbage) \in DirInfo
                    /\ mem' = sync_info_mem_store_add(mem, NewInfo(c.src, c.tgt, garbage))
               \/ /\ IsFound(mem, c.src)
                  /\ [Info(c.src) EXCEPT !.is_active = TRUE, !.target = c.tgt] \in DirInfo
                  /\ Info(c.src).source = c.src
                  /\ mem' = Overwrite(mem, c.src, [Info(c.src) EXCEPT !.is_active = TRUE,
                                                                   !.target = c.tgt])
<1> DEFINE c == Head(fss_in)
           info == [Info(c.src) EXCEPT !.is_active = TRUE, !.target = c.tgt]
<1>1. c.src \in Dir /\ c.tgt \in Dir /\ mem \in Store
  BY CommandFacts DEF AddDirectory, ManagerInv, ConfigInv, ConfigTypeOK
<1>2. \/ \E garbage \in BOOLEAN :
           mem' = sync_info_mem_store_add(mem, NewInfo(c.src, c.tgt, garbage))
      \/ IsFound(mem, c.src) /\ mem' = Overwrite(mem, c.src, info)
  BY DEF AddDirectory
<1> HIDE DEF c
<1>3. ASSUME NEW garbage \in BOOLEAN
      PROVE  NewInfo(c.src, c.tgt, garbage) \in DirInfo
  BY <1>1 DEF NewInfo, DirInfo
<1>4. ASSUME IsFound(mem, c.src)
      PROVE  Info(c.src).source = c.src /\ info \in DirInfo /\ info.source = c.src
  <2>1. Info(c.src) \in DirInfo /\ Info(c.src).source = c.src
    BY <1>1, <1>4, PositionFacts DEF Info
  <2> QED BY <1>1, <2>1 DEF DirInfo
<1> HIDE DEF info
<1>5. mem' \in Store
  <2>1. CASE \E garbage \in BOOLEAN :
               mem' = sync_info_mem_store_add(mem, NewInfo(c.src, c.tgt, garbage))
    BY <1>1, <1>3, <2>1, AddFacts
  <2>2. CASE IsFound(mem, c.src) /\ mem' = Overwrite(mem, c.src, info)
    BY <1>1, <1>4, <2>2, OverwriteFacts
  <2> QED BY <1>2, <2>1, <2>2
<1> QED BY <1>2, <1>3, <1>4, <1>5 DEF c, info

LEMMA AddDirectoryInv ==
  ASSUME ManagerInv, AddDirectory
  PROVE  ManagerInv'
<1> DEFINE c == Head(fss_in)
           job == [src |-> c.src, tgt |-> c.tgt, op |-> "FULL"]
<1>1. ConfigInv /\ ServeTypeOK /\ ConfigTypeOK
  BY DEF ManagerInv, ConfigInv
<1>2. /\ c.src \in Dir /\ c.tgt \in Dir /\ fss_in' \in Seq(Command) /\ pc' = "poll"
      /\ UNCHANGED <<unread, eof, sent, edits>>
  BY <1>1, CommandFacts DEF AddDirectory
<1>3. AddWatch(c.src) /\ Dispatch(job) /\ UNCHANGED <<events, shutdown_flag>>
  BY DEF AddDirectory
<1> HIDE DEF c
<1>4. job \in Job
  BY <1>2 DEF Job, Operation
<1> HIDE DEF job
<1>5. TableInv' /\ queue' \in Seq(Job) /\ phase' \in Phase
  BY <1>1, <1>3, <1>4, DispatchInv
<1>6. /\ next_wd' \in Nat \ {0}
      /\ watch' \in [Dir -> 0..next_wd' - 1]
      /\ DOMAIN inotify_map' \subseteq {NoWatch} \cup 1..next_wd' - 1
      /\ inotify_map' \in [DOMAIN inotify_map' -> [source : Dir, wild : BOOLEAN]]
  BY <1>1, <1>2, <1>3, AddWatchTypes
<1>7. mem' \in Store
  BY AddDirectoryStore
<1>8. ConfigInv'
  BY <1>1, <1>2, <1>5, <1>6, <1>7, TypesFromParts
<1>9. ServeTypeOK'
  BY <1>1, <1>2, <1>3 DEF ServeTypeOK
<1> QED BY <1>8, <1>9 DEF ManagerInv

LEMMA SyncDirectoryInv ==
  ASSUME ManagerInv, SyncDirectory
  PROVE  ManagerInv'
<1> DEFINE dir == Head(fss_in).src
           job == [src |-> dir, tgt |-> Info(dir).target, op |-> "FULL"]
<1>1. ConfigInv /\ ServeTypeOK /\ ConfigTypeOK
  BY DEF ManagerInv, ConfigInv
<1>2. /\ dir \in Dir /\ fss_in' \in Seq(Command) /\ pc' = "poll"
      /\ UNCHANGED <<unread, eof, sent, edits>>
  BY <1>1, CommandFacts DEF SyncDirectory
<1>3. /\ IsFound(mem, dir) /\ AddWatch(dir) /\ Dispatch(job)
      /\ UNCHANGED <<mem, events, shutdown_flag>>
  BY DEF SyncDirectory, MaySync
<1> HIDE DEF dir
<1>4. Info(dir).target \in Dir
  BY <1>1, <1>2, <1>3, PositionFacts DEF ConfigTypeOK, Info, DirInfo
<1>5. job \in Job
  BY <1>2, <1>4 DEF Job, Operation
<1> HIDE DEF job
<1>6. TableInv' /\ queue' \in Seq(Job) /\ phase' \in Phase
  BY <1>1, <1>3, <1>5, DispatchInv
<1>7. /\ next_wd' \in Nat \ {0}
      /\ watch' \in [Dir -> 0..next_wd' - 1]
      /\ DOMAIN inotify_map' \subseteq {NoWatch} \cup 1..next_wd' - 1
      /\ inotify_map' \in [DOMAIN inotify_map' -> [source : Dir, wild : BOOLEAN]]
  BY <1>1, <1>2, <1>3, AddWatchTypes
<1>8. mem' \in Store
  BY <1>1, <1>3 DEF ConfigTypeOK
<1>9. ConfigInv'
  BY <1>1, <1>2, <1>6, <1>7, <1>8, TypesFromParts
<1>10. ServeTypeOK'
  BY <1>1, <1>2, <1>3 DEF ServeTypeOK
<1> QED BY <1>9, <1>10 DEF ManagerInv

LEMMA CancelDirectoryInv ==
  ASSUME ManagerInv, CancelDirectory
  PROVE  ManagerInv'
<1> DEFINE dir == Head(fss_in).src
           wd == hash_table_find_key(inotify_map, dir)
           info == [Info(dir) EXCEPT !.is_active = FALSE]
<1>1. ConfigInv /\ ServeTypeOK /\ ConfigTypeOK
  BY DEF ManagerInv, ConfigInv
<1>2. /\ dir \in Dir /\ fss_in' \in Seq(Command) /\ pc' = "poll"
      /\ UNCHANGED <<unread, eof, sent, edits>>
  BY <1>1, CommandFacts DEF CancelDirectory
<1>3. /\ wd # NoWatch /\ IsFound(mem, dir) /\ mem' = Overwrite(mem, dir, info)
      /\ RemoveWatch(wd) /\ NoDispatch /\ UNCHANGED <<inotify_map, next_wd, shutdown_flag>>
  BY DEF CancelDirectory
<1> HIDE DEF dir
<1>4. wd \in Nat \ {0}
  BY <1>1, <1>2, <1>3, KeyFacts
<1> HIDE DEF wd
<1>5. info \in DirInfo /\ info.source = dir
  <2>1. Info(dir) \in DirInfo /\ Info(dir).source = dir
    BY <1>1, <1>2, <1>3, PositionFacts DEF ConfigTypeOK, Info
  <2> QED BY <2>1 DEF DirInfo
<1> HIDE DEF info
<1>6. mem' \in Store
  BY <1>1, <1>2, <1>3, <1>5, OverwriteFacts DEF ConfigTypeOK
<1>7. watch' \in [Dir -> 0..next_wd - 1] /\ events' \in Seq(Event)
  BY <1>1, <1>3, <1>4, RemoveWatchTypes
<1>8. TableInv' /\ queue' \in Seq(Job) /\ phase' \in Phase
  BY <1>1, <1>3, NoDispatchInv
<1>9. ConfigInv'
  BY <1>1, <1>2, <1>3, <1>6, <1>7, <1>8, TypesFromParts DEF ConfigTypeOK
<1>10. ServeTypeOK'
  BY <1>1, <1>2, <1>3, <1>7 DEF ServeTypeOK
<1> QED BY <1>9, <1>10 DEF ManagerInv

(* The console and the users of the directories. *)
LEMMA WorldInv ==
  ASSUME ManagerInv, Console \/ Users
  PROVE  ManagerInv'
<1>1. ConfigInv /\ ServeTypeOK /\ ConfigTypeOK
  BY DEF ManagerInv, ConfigInv
<1>2. UNCHANGED configVars /\ UNCHANGED shutdown_flag
  BY DEF Console, Users, ConsoleSends, FileChanges
<1>3. ConfigInv'
  BY <1>1, <1>2, ConfigUnchanged
<1>4. CASE Console
  <2>1. PICK c \in Commands : ConsoleSends(c)
    BY <1>4 DEF Console
  <2>2. /\ sent < MaxCommands
        /\ sent' = IF c.cmd = "shutdown" THEN MaxCommands ELSE sent + 1
        /\ fss_in' = Append(fss_in, c) /\ UNCHANGED <<events, edits>>
    BY <2>1 DEF ConsoleSends
  <2>3. fss_in' \in Seq(Command)
    BY <1>1, <2>2, CommandsAssumption, AppendProperties DEF ServeTypeOK
  <2>4. sent' \in 0..MaxCommands
    BY <1>1, <2>2, BoundsAssumption DEF ServeTypeOK
  <2> QED BY <1>1, <1>2, <1>3, <2>2, <2>3, <2>4 DEF ServeTypeOK, ManagerInv
<1>5. CASE Users
  <2>1. PICK d \in Dir, mask \in Mask : FileChanges(d, mask)
    BY <1>5 DEF Users
  <2>2. /\ edits < MaxEvents /\ watch[d] # 0 /\ edits' = edits + 1
        /\ events' = Append(events, [wd |-> watch[d], mask |-> mask])
        /\ UNCHANGED <<fss_in, sent>>
    BY <2>1 DEF FileChanges
  <2>3. watch[d] \in Nat \ {0}
    BY <1>1, <2>2 DEF ConfigTypeOK
  <2>4. [wd |-> watch[d], mask |-> mask] \in Event
    BY <2>3 DEF Event
  <2>5. events' \in Seq(Event)
    BY <1>1, <2>2, <2>4, AppendProperties DEF ServeTypeOK
  <2>6. edits' \in 0..MaxEvents
    BY <1>1, <2>2, BoundsAssumption DEF ServeTypeOK
  <2> QED BY <1>1, <1>2, <1>3, <2>2, <2>5, <2>6 DEF ServeTypeOK, ManagerInv
<1> QED BY <1>4, <1>5

(* Every step keeps the types and the accounting of the slots. *)
LEMMA ManagerStepInv ==
  ASSUME ManagerInv, [Next]_vars
  PROVE  ManagerInv'
<1>1. ConfigInv /\ ServeTypeOK
  BY DEF ManagerInv
<1>2. CASE ConfigManager /\ UNCHANGED serveVars
  BY <1>1, <1>2, StepInv, ServeUnchanged DEF ConfigNext, ManagerInv
<1>3. CASE WorkerStep /\ UNCHANGED serveVars
  BY <1>1, <1>3, WorkerStepInv, ServeUnchanged DEF ManagerInv
<1>4. CASE UNCHANGED vars
  BY <1>1, <1>4, ConfigUnchanged, ServeUnchanged DEF vars, ManagerInv
<1>5. CASE Console \/ Users
  BY <1>5, WorldInv
<1>6. CASE ServePoll \/ ServeLeave \/ ServeDrain \/ PopQueued \/ NoInput \/ TakeLostEvent
  BY <1>6, ServeLoopInv
<1>7. CASE TakeEvent
  BY <1>7, TakeEventInv
<1>8. CASE \/ AddOverloads \/ AddRefused \/ ShowStatus \/ SyncRefused
           \/ CancelRefused \/ CancelCrashes \/ Shutdown
  BY <1>8, SmallCommandInv
<1>9. CASE AddDirectory
  BY <1>9, AddDirectoryInv
<1>10. CASE SyncDirectory
  BY <1>10, SyncDirectoryInv
<1>11. CASE CancelDirectory
  BY <1>11, CancelDirectoryInv
<1> QED
  BY <1>2, <1>3, <1>4, <1>5, <1>6, <1>7, <1>8, <1>9, <1>10, <1>11
  DEF Next, Manager, ServeManager, ObeyCommand, Over

THEOREM ManagerInvariant == Spec => []ManagerInv
<1>1. Init => ManagerInv
  BY ManagerInitInv
<1>2. ManagerInv /\ [Next]_vars => ManagerInv'
  BY ManagerStepInv
<1> QED BY <1>1, <1>2, PTL DEF Spec

(* Types: every variable of the manager keeps the type of its C counterpart,
   from the first line of the config file to the end of the process. *)
THEOREM ManagerTypes == Spec => []TypeOK
<1>1. ManagerInv => TypeOK
  BY ManagerTypeOK
<1> QED BY <1>1, ManagerInvariant, PTL

(* The table follows every worker of both loops once: no job of a command or
   of an event makes the manager lose one or hear one twice. *)
THEOREM ManagerSlots == Spec => []SlotAccounting
<1>1. ManagerInv => SlotAccounting
  BY DEF ManagerInv, ConfigInv, TableInv
<1> QED BY <1>1, ManagerInvariant, PTL

-----------------------------------------------------------------------------
(* Watches, descriptors and active directories.                            *)

(* That the descriptors of watches and events are known needs nothing more to
   be inductive; that active directories are watched needs it: cancel removes
   the watch of the descriptor find_key returns, which is no other's. *)
WatchInv == DescriptorsKnown /\ ActiveIsWatched

LEMMA WatchInit ==
  ASSUME Init
  PROVE  WatchInv
<1>1. \A d \in Dir : watch[d] = 0
  BY DEF Init, ConfigInit
<1>2. DOMAIN events = {}
  BY DEF Init
<1>3. \A d \in Dir : ~IsFound(mem, d)
  <2> SUFFICES ASSUME NEW d \in Dir PROVE ~IsFound(mem, d)
    OBVIOUS
  <2>1. Bucket(d) \in Buckets
    BY DEF Buckets
  <2>2. mem.chain[Bucket(d)] = <<>>
    BY <2>1 DEF Init, ConfigInit, sync_info_mem_store_create
  <2> QED BY <2>2 DEF IsFound, Matches
<1> QED BY <1>1, <1>2, <1>3 DEF WatchInv, DescriptorsKnown, ActiveIsWatched

LEMMA WatchQuiet ==
  ASSUME WatchInv, UNCHANGED storeVars,
         \A k \in DOMAIN events' : events'[k].wd \in DOMAIN inotify_map
  PROVE  WatchInv'
BY DEF WatchInv, DescriptorsKnown, ActiveIsWatched, storeVars, Info

LEMMA EventsQuiet ==
  ASSUME WatchInv, UNCHANGED <<storeVars, events>>
  PROVE  WatchInv'
BY WatchQuiet DEF WatchInv, DescriptorsKnown

(* The descriptor that inotify_add_watch returns is in the map, under its own
   directory, and no other watch is touched. *)
LEMMA AddWatchKnown ==
  ASSUME ConfigTypeOK, DescriptorsKnown, NEW d \in Dir, AddWatch(d), UNCHANGED events
  PROVE  /\ DescriptorsKnown'
         /\ d \notin NoSuchDir => watch'[d] # 0
         /\ \A e \in Dir : e # d => watch'[e] = watch[e]
<1> DEFINE wd == IF d \in NoSuchDir THEN NoWatch
                 ELSE IF watch[d] # 0 THEN watch[d] ELSE next_wd
<1>1. /\ next_wd \in Nat \ {0} /\ watch \in [Dir -> 0..next_wd - 1]
      /\ DOMAIN inotify_map \subseteq {NoWatch} \cup 1..next_wd - 1
  BY DEF ConfigTypeOK
<1>2. PICK wild \in BOOLEAN : inotify_map' = hash_table_insert(inotify_map, wd, d, wild)
  BY DEF AddWatch
<1>3. watch' = [watch EXCEPT ![d] = IF d \in NoSuchDir THEN 0 ELSE wd]
  BY DEF AddWatch
<1>4. /\ \A w \in DOMAIN inotify_map : w \in DOMAIN inotify_map' /\ inotify_map'[w] = inotify_map[w]
      /\ wd \in DOMAIN inotify_map'
      /\ wd \notin DOMAIN inotify_map => inotify_map'[wd].source = d
  <2> HIDE DEF wd
  <2> QED BY <1>2 DEF hash_table_insert
<1>5. d \notin NoSuchDir => wd # 0 /\ inotify_map'[wd].source = d
  <2> SUFFICES ASSUME d \notin NoSuchDir
               PROVE  wd # 0 /\ inotify_map'[wd].source = d
    OBVIOUS
  <2>1. CASE watch[d] # 0
    BY <2>1, <1>4 DEF DescriptorsKnown
  <2>2. CASE watch[d] = 0
    <3>1. wd = next_wd /\ wd \notin DOMAIN inotify_map
      BY <2>2, <1>1 DEF NoWatch
    <3> QED BY <3>1, <1>1, <1>4
  <2> QED BY <2>1, <2>2
<1> HIDE DEF wd
<1>6. watch'[d] = (IF d \in NoSuchDir THEN 0 ELSE wd) /\ \A e \in Dir : e # d => watch'[e] = watch[e]
  BY <1>1, <1>3
<1>7. ASSUME NEW e \in Dir, watch'[e] # 0
      PROVE  watch'[e] \in DOMAIN inotify_map' /\ inotify_map'[watch'[e]].source = e
  <2>1. CASE e = d
    BY <2>1, <1>4, <1>5, <1>6, <1>7
  <2>2. CASE e # d
    <3>1. watch[e] # 0 /\ watch'[e] = watch[e]
      BY <2>2, <1>6, <1>7
    <3> QED BY <3>1, <1>4 DEF DescriptorsKnown
  <2> QED BY <2>1, <2>2
<1>8. \A k \in DOMAIN events' : events'[k].wd \in DOMAIN inotify_map'
  BY <1>4 DEF DescriptorsKnown
<1> QED BY <1>5, <1>6, <1>7, <1>8 DEF DescriptorsKnown

(* A report changes what the store says of a directory, never whether it is
   active. *)
LEMMA DrainReportWatch ==
  ASSUME ManagerInv, WatchInv, UNCHANGED events,
         NEW i \in ready, NEW clearing, DrainReport(i, clearing)
  PROVE  WatchInv'
<1>1. ConfigInv /\ mem \in Store
  BY DEF ManagerInv, ConfigInv, ConfigTypeOK
<1>2. UNCHANGED <<inotify_map, watch, next_wd>>
  BY DEF DrainReport
<1>3. PICK d \in Sources(Contents(i)), op \in Operations(Contents(i)),
           p \in StatusWriters(Contents(i)) :
        /\ IsFound(mem, d)
        /\ mem' = LET info == sync_info_mem_store_find(mem, d)
                  IN Overwrite(mem, d,
                       [info EXCEPT !.status = p,
                                    !.is_in_workers = @ /\ op \notin clearing])
  BY DEF DrainReport
<1> DEFINE old == sync_info_mem_store_find(mem, d)
           info == [old EXCEPT !.status = p, !.is_in_workers = @ /\ op \notin clearing]
<1>4. p \in Nat /\ d \in Dir
  BY <1>1, WritersAreNumbers, SourcesAreNames DEF ConfigInv
<1>5. old \in DirInfo /\ old.source = d
  BY <1>1, <1>3, <1>4, PositionFacts
<1>6. info \in DirInfo /\ info.source = d /\ info.is_active = old.is_active
  BY <1>4, <1>5 DEF DirInfo
<1>7. mem' = Overwrite(mem, d, info)
  BY <1>3
<1> HIDE DEF info
<1>8. /\ \A e \in Dir : IsFound(mem', e) <=> IsFound(mem, e)
      /\ sync_info_mem_store_find(mem', d) = info
      /\ \A e \in Dir : IsFound(mem, e) /\ e # d =>
           sync_info_mem_store_find(mem', e) = sync_info_mem_store_find(mem, e)
  BY <1>1, <1>3, <1>4, <1>6, <1>7, OverwriteFind
<1>9. ASSUME NEW e \in Dir, IsFound(mem', e)
      PROVE  /\ IsFound(mem, e)
             /\ sync_info_mem_store_find(mem', e).is_active = sync_info_mem_store_find(mem, e).is_active
  <2>1. CASE e = d
    BY <2>1, <1>6, <1>8, <1>9
  <2>2. CASE e # d
    BY <2>2, <1>8, <1>9
  <2> QED BY <2>1, <2>2
<1>10. ActiveIsWatched'
  BY <1>2, <1>9 DEF WatchInv, ActiveIsWatched, Info
<1>11. DescriptorsKnown'
  BY <1>2 DEF WatchInv, DescriptorsKnown
<1> QED BY <1>10, <1>11 DEF WatchInv

(* A new pair is entered in the store and watched in one step. *)
LEMMA EnterPairWatch ==
  ASSUME ManagerInv, WatchInv, UNCHANGED events,
         NEW src \in Dir, NEW tgt \in Dir, NEW busy \in BOOLEAN, AddWatch(src),
         mem' = sync_info_mem_store_add(mem, NewInfo(src, tgt, busy))
  PROVE  WatchInv'
<1> DEFINE info == NewInfo(src, tgt, busy)
<1>1. ConfigTypeOK /\ mem \in Store
  BY DEF ManagerInv, ConfigInv, ConfigTypeOK
<1>2. info \in DirInfo /\ info.source = src
  BY DEF NewInfo, DirInfo
<1> HIDE DEF info
<1>3. /\ DescriptorsKnown'
      /\ src \notin NoSuchDir => watch'[src] # 0
      /\ \A e \in Dir : e # src => watch'[e] = watch[e]
  BY <1>1, AddWatchKnown DEF WatchInv
<1>4. ASSUME NEW d \in Dir \ NoSuchDir, IsFound(mem', d),
             sync_info_mem_store_find(mem', d).is_active
      PROVE  watch'[d] # 0
  <2>1. CASE d = src
    BY <2>1, <1>3, <1>4
  <2>2. CASE d # src
    <3>1. mem' = sync_info_mem_store_add(mem, info)
      BY DEF info
    <3>2. /\ IsFound(mem, d)
          /\ sync_info_mem_store_find(mem', d) = sync_info_mem_store_find(mem, d)
      BY <2>2, <3>1, <1>1, <1>2, <1>4, AddFind
    <3> QED BY <2>2, <3>2, <1>3, <1>4 DEF WatchInv, ActiveIsWatched, Info
  <2> QED BY <2>1, <2>2
<1> QED BY <1>3, <1>4 DEF WatchInv, ActiveIsWatched, Info

LEMMA StartPairWatch ==
  ASSUME ManagerInv, WatchInv, UNCHANGED events, TakeQueued \/ TakeConfig
  PROVE  WatchInv'
<1>1. queue \in Seq(Job) /\ unread \in Seq(Job)
  BY DEF ManagerInv, ConfigInv, ConfigTypeOK
<1>2. PICK job \in Job : StartPair(job)
  BY <1>1, TakeJob DEF TakeQueued, TakeConfig
<1>3. /\ job.src \in Dir /\ job.tgt \in Dir /\ AddWatch(job.src)
      /\ mem' = sync_info_mem_store_add(mem, NewInfo(job.src, job.tgt, TRUE))
  BY <1>2 DEF StartPair, Job
<1> QED BY <1>3, EnterPairWatch

LEMMA AddDirectoryWatch ==
  ASSUME ManagerInv, WatchInv, AddDirectory
  PROVE  WatchInv'
<1> DEFINE c == Head(fss_in)
           info == [Info(c.src) EXCEPT !.is_active = TRUE, !.target = c.tgt]
<1>1. c.src \in Dir /\ c.tgt \in Dir /\ ConfigTypeOK /\ mem \in Store
  BY CommandFacts DEF AddDirectory, ManagerInv, ConfigInv, ConfigTypeOK
<1>2. AddWatch(c.src) /\ UNCHANGED events
  BY DEF AddDirectory
<1>3. CASE \E garbage \in BOOLEAN :
             mem' = sync_info_mem_store_add(mem, NewInfo(c.src, c.tgt, garbage))
  BY <1>1, <1>2, <1>3, EnterPairWatch
<1>4. CASE /\ IsFound(mem, c.src) /\ info \in DirInfo /\ Info(c.src).source = c.src
           /\ mem' = Overwrite(mem, c.src, info)
  <2> HIDE DEF c
  <2>1. Info(c.src) \in DirInfo
    BY <1>1, <1>4, PositionFacts DEF Info
  <2>2. info.source = c.src
    BY <1>4, <2>1 DEF DirInfo
  <2> HIDE DEF info
  <2>3. /\ \A e \in Dir : IsFound(mem', e) <=> IsFound(mem, e)
        /\ \A e \in Dir : IsFound(mem, e) /\ e # c.src =>
             sync_info_mem_store_find(mem', e) = sync_info_mem_store_find(mem, e)
    BY <1>1, <1>4, <2>2, OverwriteFind
  <2>4. /\ DescriptorsKnown'
        /\ c.src \notin NoSuchDir => watch'[c.src] # 0
        /\ \A e \in Dir : e # c.src => watch'[e] = watch[e]
    BY <1>1, <1>2, AddWatchKnown DEF WatchInv
  <2>5. ActiveIsWatched'
    BY <2>3, <2>4 DEF WatchInv, ActiveIsWatched, Info
  <2> QED BY <2>4, <2>5 DEF WatchInv
<1> QED BY <1>3, <1>4, AddDirectoryStore

LEMMA SyncDirectoryWatch ==
  ASSUME ManagerInv, WatchInv, SyncDirectory
  PROVE  WatchInv'
<1> DEFINE dir == Head(fss_in).src
<1>1. dir \in Dir /\ ConfigTypeOK /\ AddWatch(dir) /\ UNCHANGED <<mem, events>>
  BY CommandFacts DEF SyncDirectory, ManagerInv, ConfigInv
<1> HIDE DEF dir
<1>2. /\ DescriptorsKnown'
      /\ dir \notin NoSuchDir => watch'[dir] # 0
      /\ \A e \in Dir : e # dir => watch'[e] = watch[e]
  BY <1>1, AddWatchKnown DEF WatchInv
<1>3. ActiveIsWatched'
  BY <1>1, <1>2 DEF WatchInv, ActiveIsWatched, Info
<1> QED BY <1>2, <1>3 DEF WatchInv

(* cancel removes the watch of its own directory, if any, and that directory
   is not active any more; the event of the removal carries a known
   descriptor. *)
LEMMA CancelDirectoryWatch ==
  ASSUME ManagerInv, WatchInv, CancelDirectory
  PROVE  WatchInv'
<1> DEFINE dir == Head(fss_in).src
           wd == hash_table_find_key(inotify_map, dir)
           info == [Info(dir) EXCEPT !.is_active = FALSE]
<1>1. dir \in Dir /\ ConfigTypeOK /\ ServeTypeOK /\ mem \in Store
  BY CommandFacts DEF CancelDirectory, ManagerInv, ConfigInv, ConfigTypeOK
<1>2. /\ wd # NoWatch /\ IsFound(mem, dir) /\ mem' = Overwrite(mem, dir, info)
      /\ RemoveWatch(wd) /\ UNCHANGED inotify_map
  BY DEF CancelDirectory
<1> HIDE DEF dir
<1>3. /\ wd \in DOMAIN inotify_map /\ inotify_map[wd].source = dir
      /\ wd \in Nat \ {0}
  BY <1>1, <1>2, KeyFacts
<1> HIDE DEF wd
<1>4. info \in DirInfo /\ info.source = dir /\ ~info.is_active
  <2>1. Info(dir) \in DirInfo /\ Info(dir).source = dir
    BY <1>1, <1>2, PositionFacts DEF Info
  <2> QED BY <2>1 DEF DirInfo
<1> HIDE DEF info
<1>5. /\ \A e \in Dir : IsFound(mem', e) <=> IsFound(mem, e)
      /\ sync_info_mem_store_find(mem', dir) = info
      /\ \A e \in Dir : IsFound(mem, e) /\ e # dir =>
           sync_info_mem_store_find(mem', e) = sync_info_mem_store_find(mem, e)
  BY <1>1, <1>2, <1>4, OverwriteFind
<1>6. \A e \in Dir : watch'[e] = IF watch[e] = wd THEN 0 ELSE watch[e]
  BY <1>2 DEF RemoveWatch
<1>7. \A e \in Dir : e # dir => watch'[e] = watch[e]
  BY <1>3, <1>6 DEF WatchInv, DescriptorsKnown
<1>8. ActiveIsWatched'
  BY <1>4, <1>5, <1>7 DEF WatchInv, ActiveIsWatched, Info
<1>9. \A k \in DOMAIN events' : events'[k].wd \in DOMAIN inotify_map
  <2> DEFINE e == [wd |-> wd, mask |-> "IGNORED"]
  <2>1. e \in Event /\ e.wd = wd
    BY <1>3 DEF Event
  <2>2. events' = events \/ events' = Append(events, e)
    BY <1>2 DEF RemoveWatch
  <2> HIDE DEF e
  <2>3. /\ Len(events) \in Nat /\ DOMAIN events = 1..Len(events)
        /\ DOMAIN Append(events, e) = 1..Len(events) + 1
        /\ Append(events, e)[Len(events) + 1] = e
        /\ \A k \in 1..Len(events) : Append(events, e)[k] = events[k]
    <3>1. events \in Seq(Event)
      BY <1>1 DEF ServeTypeOK
    <3> QED BY <3>1, <2>1, AppendProperties, LenProperties
  <2> QED BY <2>1, <2>2, <2>3, <1>3 DEF WatchInv, DescriptorsKnown
<1>10. DescriptorsKnown'
  BY <1>2, <1>6, <1>9 DEF WatchInv, DescriptorsKnown
<1> QED BY <1>8, <1>10 DEF WatchInv

(* The events that stay in the kernel's queue are those it had, and a file
   changes under a watch whose descriptor is known. *)
LEMMA EventStepsWatch ==
  ASSUME ManagerInv, WatchInv, TakeEvent \/ Users
  PROVE  WatchInv'
<1>1. events \in Seq(Event) /\ watch \in [Dir -> 0..next_wd - 1]
  BY DEF ManagerInv, ConfigInv, ConfigTypeOK, ServeTypeOK
<1>2. Len(events) \in Nat /\ DOMAIN events = 1..Len(events)
  BY <1>1, LenProperties
<1>3. UNCHANGED storeVars
  BY DEF TakeEvent, Users, FileChanges, configVars
<1>4. CASE TakeEvent
  <2> DEFINE m == EventsPerRead + 1
             n == Len(events)
  <2>1. events' = SubSeq(events, m, n)
    BY <1>4 DEF TakeEvent, ReadEvents
  <2>2. m \in Nat /\ n \in Nat /\ m >= 1
    BY <1>2, EventsPerReadAssumption
  <2>3. \A k \in m..n : events[k] \in Event
    BY <1>1, <1>2, <2>2, ElementOfSeq
  <2> HIDE DEF m, n
  <2>4. /\ events' \in Seq(Event)
        /\ Len(events') = (IF m <= n THEN n - m + 1 ELSE 0)
        /\ \A k \in 1..n - m + 1 : events'[k] = events[m + k - 1]
    BY <2>1, <2>2, <2>3, SubSeqProperties
  <2>5. ASSUME NEW k \in DOMAIN events' PROVE events'[k].wd \in DOMAIN inotify_map
    <3>1. k \in 1..Len(events')
      BY <2>4, LenProperties
    <3>2. k \in 1..n - m + 1 /\ m + k - 1 \in 1..n
      BY <3>1, <2>2, <2>4
    <3> QED BY <3>2, <2>4, <1>2 DEF WatchInv, DescriptorsKnown, n
  <2> QED BY <2>5, <1>3, WatchQuiet
<1>5. CASE Users
  <2>1. PICK d \in Dir, mask \in Mask : FileChanges(d, mask)
    BY <1>5 DEF Users
  <2> DEFINE e == [wd |-> watch[d], mask |-> mask]
  <2>2. watch[d] # 0 /\ events' = Append(events, e)
    BY <2>1 DEF FileChanges
  <2>3. e \in Event /\ e.wd \in DOMAIN inotify_map
    BY <1>1, <2>2 DEF Event, WatchInv, DescriptorsKnown
  <2> HIDE DEF e
  <2>4. /\ DOMAIN Append(events, e) = 1..Len(events) + 1
        /\ Append(events, e)[Len(events) + 1] = e
        /\ \A k \in 1..Len(events) : Append(events, e)[k] = events[k]
    BY <1>1, <2>3, AppendProperties, LenProperties
  <2>5. \A k \in DOMAIN events' : events'[k].wd \in DOMAIN inotify_map
    BY <1>2, <2>2, <2>3, <2>4 DEF WatchInv, DescriptorsKnown
  <2> QED BY <2>5, <1>3, WatchQuiet
<1> QED BY <1>4, <1>5

LEMMA WatchStep ==
  ASSUME ManagerInv, WatchInv, [Next]_vars
  PROVE  WatchInv'
<1>1. CASE ConfigManager /\ UNCHANGED serveVars
  <2>1. UNCHANGED events
    BY <1>1 DEF serveVars
  <2>2. CASE TakeQueued \/ TakeConfig
    BY <2>1, <2>2, StartPairWatch
  <2>3. ASSUME NEW i \in ready, DrainReport(i, Operation) PROVE WatchInv'
    BY <2>1, <2>3, DrainReportWatch
  <2>4. CASE UNCHANGED storeVars
    BY <2>1, <2>4, EventsQuiet
  <2> QED
    BY <1>1, <2>2, <2>3, <2>4
    DEF ConfigManager, ConfigDrain, ConfigPoll, ConfigLeave, DrainDone, DrainChunk,
        DrainWild, DrainUnknown, QueueConfig, ReadNothing, ConfigForkFails, Halt
<1>2. CASE ServeDrain
  <2>1. UNCHANGED events
    BY <1>2 DEF ServeDrain, serveVars
  <2>2. ASSUME NEW i \in ready, DrainReport(i, {"FULL"}) PROVE WatchInv'
    BY <2>1, <2>2, DrainReportWatch
  <2>3. CASE UNCHANGED storeVars
    BY <2>1, <2>3, EventsQuiet
  <2> QED
    BY <1>2, <2>2, <2>3 DEF ServeDrain, DrainDone, DrainChunk, DrainWild, DrainUnknown, Halt
<1>3. CASE TakeEvent \/ Users
  BY <1>3, EventStepsWatch
<1>4. CASE AddDirectory
  BY <1>4, AddDirectoryWatch
<1>5. CASE SyncDirectory
  BY <1>5, SyncDirectoryWatch
<1>6. CASE CancelDirectory
  BY <1>6, CancelDirectoryWatch
<1>7. CASE UNCHANGED <<storeVars, events>>
  BY <1>7, EventsQuiet
<1>8. CASE ServePoll \/ ServeLeave \/ PopQueued \/ NoInput \/ TakeLostEvent
  BY <1>8, <1>7 DEF ServePoll, ServeLeave, PopQueued, NoInput, TakeLostEvent, Halt, serveVars
<1>9. CASE \/ AddOverloads \/ AddRefused \/ ShowStatus \/ SyncRefused
           \/ CancelRefused \/ CancelCrashes \/ Shutdown
  BY <1>9, <1>7 DEF AddOverloads, AddRefused, ShowStatus, SyncRefused, CancelRefused,
                    CancelCrashes, Shutdown
<1>10. CASE Console \/ (WorkerStep /\ UNCHANGED serveVars) \/ UNCHANGED vars
  BY <1>10, <1>7 DEF Console, ConsoleSends, WorkerStep, vars, configVars, serveVars
<1> QED
  BY <1>1, <1>2, <1>3, <1>4, <1>5, <1>6, <1>8, <1>9, <1>10
  DEF Next, Manager, ServeManager, ObeyCommand, Over

THEOREM WatchInvariant == Spec => []WatchInv
<1>1. Init => WatchInv
  BY WatchInit
<1>2. ManagerInv /\ WatchInv /\ [Next]_vars => WatchInv'
  BY WatchStep
<1> QED BY <1>1, <1>2, ManagerInvariant, PTL DEF Spec

(* The exit of fss_manager.c:368-371, "watch fd didn't found", is out of
   reach: the map knows the descriptor of every watch and of every event. *)
THEOREM ManagerKnowsDescriptors == Spec => []DescriptorsKnown
<1>1. WatchInv => DescriptorsKnown
  BY DEF WatchInv
<1> QED BY <1>1, WatchInvariant, PTL

(* However add, sync and cancel follow each other, an active directory that
   exists is watched. *)
THEOREM ManagerWatchesActive == Spec => []ActiveIsWatched
<1>1. WatchInv => ActiveIsWatched
  BY DEF WatchInv
<1> QED BY <1>1, WatchInvariant, PTL

-----------------------------------------------------------------------------
(* The end.                                                                *)

(* Nothing happens to a manager that is done. *)
LEMMA DoneStays ==
  ASSUME phase = "done", DoneIsQuiet, [Next]_vars
  PROVE  DoneIsQuiet'
<1>1. UNCHANGED <<queue, workers>>
  BY DEF Next, Manager, ServeManager, ConfigManager, WorkerStep, Console, ConsoleSends,
         Users, FileChanges, Over, vars, configVars, tableVars
<1> QED BY <1>1 DEF DoneIsQuiet

(* Only the end of the loop makes it done. *)
LEMMA OnlyLeaveIsDone ==
  ASSUME phase # "done", [Next]_vars, phase' = "done"
  PROVE  ServeLeave
<1>1. CASE ConfigManager
  BY <1>1
  DEF ConfigManager, ConfigPoll, ConfigLeave, ConfigDrain, DrainDone, DrainChunk, DrainWild,
      DrainUnknown, DrainReport, TakeQueued, TakeConfig, StartPair, QueueConfig,
      ReadNothing, ConfigForkFails, Halt
<1>2. CASE ServePoll \/ ServeDrain \/ PopQueued \/ NoInput \/ TakeLostEvent
  BY <1>2
  DEF ServePoll, ServeDrain, DrainDone, DrainChunk, DrainWild, DrainUnknown, DrainReport,
      PopQueued, NoInput, TakeLostEvent, Halt
<1>3. CASE TakeEvent
  BY <1>3 DEF TakeEvent, Dispatch, NoDispatch
<1>4. CASE ObeyCommand
  BY <1>4
  DEF ObeyCommand, AddDirectory, AddOverloads, AddRefused, ShowStatus, SyncDirectory,
      SyncRefused, CancelDirectory, CancelRefused, CancelCrashes, Shutdown, Dispatch,
      NoDispatch
<1>5. CASE WorkerStep \/ Console \/ Users \/ UNCHANGED vars
  BY <1>5 DEF WorkerStep, Console, ConsoleSends, Users, FileChanges, vars, configVars
<1> QED BY <1>1, <1>2, <1>3, <1>4, <1>5 DEF Next, Manager, ServeManager, Over

LEMMA LeaveIsQuiet ==
  ASSUME ManagerInv, ServeLeave
  PROVE  DoneIsQuiet'
<1>1. queue = <<>> /\ num_workers = 0 /\ UNCHANGED <<queue, workers>>
  BY DEF ServeLeave, LoopEnds, Halt, tableVars
<1>2. Running = {}
  BY <1>1 DEF Running, Used
<1>3. \A p \in DOMAIN workers : workers[p].got = END_PART
  BY <1>2 DEF ManagerInv, ConfigInv, TableInv, SlotAccounting
<1> QED BY <1>1, <1>3 DEF DoneIsQuiet

(* When the loop is left no job is in line, and by the accounting of the slots
   every worker ever forked has been heard to the end of its report. *)
THEOREM ManagerDoneIsQuiet == Spec => []DoneIsQuiet
<1>1. Init => DoneIsQuiet
  BY DEF Init, ConfigInit, DoneIsQuiet
<1>2. ASSUME ManagerInv, DoneIsQuiet, [Next]_vars PROVE DoneIsQuiet'
  <2>1. CASE phase = "done"
    BY <1>2, <2>1, DoneStays
  <2>2. CASE phase # "done" /\ phase' = "done"
    BY <1>2, <2>2, OnlyLeaveIsDone, LeaveIsQuiet
  <2>3. CASE phase' # "done"
    BY <2>3 DEF DoneIsQuiet
  <2> QED BY <2>1, <2>2, <2>3
<1>3. ManagerInv /\ DoneIsQuiet /\ [Next]_vars => DoneIsQuiet'
  BY <1>2
<1> QED BY <1>1, <1>3, ManagerInvariant, PTL DEF Spec

-----------------------------------------------------------------------------
(* The manager implements the worker pool that may forget jobs.            *)

(* What is needed besides the types: the config file has been read to its end
   when the manager serves, so that the line of the pool is the queue alone. *)
FileIsRead ==
  /\ eof => unread = <<>>
  /\ phase = "serve" => unread = <<>>

LEMMA FileIsReadStep ==
  ASSUME ManagerInv, FileIsRead, [Next]_vars
  PROVE  FileIsRead'
<1>1. CASE UNCHANGED <<unread, eof>> /\ (phase' = phase \/ phase' # "serve")
  BY <1>1 DEF FileIsRead
<1>2. CASE ConfigManager
  <2>1. CASE TakeConfig \/ TakeQueued
    <3>1. phase' # "serve"
      BY <1>2, <2>1 DEF ConfigManager, TakeConfig, TakeQueued, StartPair
    <3>2. CASE TakeQueued
      BY <3>1, <3>2 DEF FileIsRead, TakeQueued
    <3>3. CASE TakeConfig
      <4>1. unread # <<>> /\ (eof' = eof \/ eof' = (unread' = <<>>))
        BY <3>3 DEF TakeConfig
      <4>2. ~eof
        BY <4>1 DEF FileIsRead
      <4>3. eof' => unread' = <<>>
        BY <4>1, <4>2
      <4> QED BY <3>1, <4>3 DEF FileIsRead
    <3> QED BY <2>1, <3>2, <3>3
  <2>2. CASE QueueConfig \/ ReadNothing
    BY <1>2, <2>2 DEF FileIsRead, ConfigManager, QueueConfig, ReadNothing
  <2>3. CASE ConfigLeave
    BY <2>3 DEF FileIsRead, ConfigLeave, Finished
  <2>4. CASE ConfigPoll \/ ConfigDrain \/ ConfigForkFails
    BY <1>1, <2>4
    DEF FileIsRead, ConfigPoll, ConfigDrain, ConfigForkFails, DrainDone, DrainChunk,
        DrainWild, DrainUnknown, DrainReport, Halt
  <2> QED BY <1>2, <2>1, <2>2, <2>3, <2>4 DEF ConfigManager
<1>3. CASE ServeManager
  <2>1. UNCHANGED <<unread, eof>>
    BY <1>3
    DEF ServeManager, ServePoll, ServeLeave, ServeDrain, DrainDone, DrainChunk, DrainWild,
        DrainUnknown, DrainReport, PopQueued, NoInput, TakeEvent, TakeLostEvent, Halt,
        ObeyCommand, AddDirectory, AddOverloads, AddRefused, ShowStatus, SyncDirectory,
        SyncRefused, CancelDirectory, CancelRefused, CancelCrashes, Shutdown, TakeCommand
  <2> QED BY <1>3, <2>1 DEF FileIsRead, ServeManager
<1>4. CASE WorkerStep \/ Console \/ Users \/ UNCHANGED vars
  BY <1>1, <1>4 DEF WorkerStep, Console, ConsoleSends, Users, FileChanges, vars, configVars
<1> QED BY <1>2, <1>3, <1>4 DEF Next, Manager, Over

THEOREM ManagerReadsItsFile == Spec => []FileIsRead
<1>1. Init => FileIsRead
  BY DEF Init, ConfigInit, FileIsRead
<1>2. ManagerInv /\ FileIsRead /\ [Next]_vars => FileIsRead'
  BY FileIsReadStep
<1> QED BY <1>1, <1>2, ManagerInvariant, PTL DEF Spec

(* What the lossless pool allows, the lossy one does. *)
LEMMA LosslessIsLossy ==
  ASSUME [Pool!PoolNext]_(Pool!poolVars)
  PROVE  [LossyPool!PoolNext]_(LossyPool!poolVars)
<1>1. Pool!HasRoom = LossyPool!HasRoom
  BY DEF Pool!HasRoom, LossyPool!HasRoom, Pool!Cardinality, LossyPool!Cardinality,
         Cardinality
<1> QED
  BY <1>1
  DEF Pool!PoolNext, Pool!ClosedNext, Pool!poolVars, Pool!Launch, Pool!Forget, Pool!Submit,
      Pool!LaunchDirectly, Pool!Retire,
      LossyPool!PoolNext, LossyPool!ClosedNext, LossyPool!poolVars,
      LossyPool!Launch, LossyPool!Submit,
      LossyPool!LaunchDirectly, LossyPool!Retire

(* In the second loop the line of the pool is the queue. *)
LEMMA ServeLine ==
  ASSUME ManagerInv, FileIsRead, phase = "serve"
  PROVE  /\ queue \o unread = queue
         /\ unread' = unread /\ queue' \in Seq(Job) => queue' \o unread' = queue'
<1>1. unread = <<>> /\ queue \in Seq(Job)
  BY DEF FileIsRead, ManagerInv, ConfigInv, ConfigTypeOK
<1> QED BY <1>1, ConcatEmptySeq

(* A job that comes with nobody in line is launched at once, joins the line,
   or ends the manager. *)
LEMMA DispatchRefines ==
  ASSUME ManagerInv, FileIsRead, phase = "serve", ~MayPop, NEW job \in Job,
         Dispatch(job), UNCHANGED unread
  PROVE  [LossyPool!PoolNext]_(LossyPool!poolVars)
<1>1. ConfigInv /\ queue \in Seq(Job)
  BY DEF ManagerInv, ConfigInv, ConfigTypeOK
<1>2. queue' \in Seq(Job)
  BY <1>1, DispatchInv
<1>3. queue \o unread = queue /\ queue' \o unread' = queue'
  BY <1>2, ServeLine
<1>4. CASE HasRoom /\ AddWorker(job) /\ UNCHANGED <<phase, queue>>
  <2>1. queue = <<>>
    BY <1>4 DEF MayPop
  <2>2. /\ Pool!HasRoom
        /\ Launched' = Append(Launched, job)
        /\ Running' = Running \cup {Len(Launched) + 1}
    BY <1>1, <1>4, AddWorkerLaunches
  <2>3. Pool!LaunchDirectly(job)
    BY <1>3, <1>4, <2>1, <2>2 DEF Pool!LaunchDirectly
  <2> QED BY <2>3, LosslessIsLossy DEF Pool!PoolNext
<1>5. CASE phase' = "exited" /\ UNCHANGED <<queue, tableVars>>
  <2>1. UNCHANGED Pool!poolVars
    BY <1>5, QuietTable, StutterRefines DEF tableVars
  <2> QED BY <2>1, LosslessIsLossy
<1>6. CASE queue' = Append(queue, job) /\ UNCHANGED <<phase, tableVars>>
  <2>1. Launched' = Launched /\ Running' = Running
    BY <1>6, QuietTable DEF tableVars
  <2>2. Pool!Submit(job)
    BY <1>3, <1>6, <2>1 DEF Pool!Submit
  <2> QED BY <2>2, LosslessIsLossy DEF Pool!PoolNext
<1> QED BY <1>4, <1>5, <1>6 DEF Dispatch

(* What neither takes nor gives a job is a stutter of the pool. *)
LEMMA LineQuiet ==
  ASSUME UNCHANGED <<queue, unread, tableVars>>
  PROVE  [LossyPool!PoolNext]_(LossyPool!poolVars)
<1>1. UNCHANGED Pool!poolVars
  BY QuietTable, StutterRefines DEF tableVars
<1> QED BY <1>1, LosslessIsLossy

(* The job that is popped from the queue is forgotten. *)
LEMMA PopRefines ==
  ASSUME ManagerInv, FileIsRead, phase = "serve", PopQueued
  PROVE  [LossyPool!PoolNext]_(LossyPool!poolVars)
<1>1. queue \in Seq(Job) /\ queue # <<>> /\ queue' = Tail(queue) /\ UNCHANGED unread
      /\ UNCHANGED tableVars
  BY DEF ManagerInv, ConfigInv, ConfigTypeOK, PopQueued, MayPop
<1>2. queue \o unread = queue /\ queue' \o unread' = Tail(queue)
  BY <1>1, TakeJob, ServeLine
<1>3. Launched' = Launched /\ Running' = Running
  BY <1>1, QuietTable DEF tableVars
<1>4. LossyPool!Forget
  BY <1>1, <1>2, <1>3 DEF LossyPool!Forget
<1> QED BY <1>4 DEF LossyPool!PoolNext, LossyPool!ClosedNext

LEMMA ServeDrainRefines ==
  ASSUME ManagerInv, ServeDrain
  PROVE  [LossyPool!PoolNext]_(LossyPool!poolVars)
<1>1. ConfigInv
  BY DEF ManagerInv
<1>2. ASSUME NEW i \in ready, DrainReport(i, {"FULL"})
      PROVE  [LossyPool!PoolNext]_(LossyPool!poolVars)
  BY <1>1, <1>2, DrainReportRefines, LosslessIsLossy DEF Pool!PoolNext
<1>3. ASSUME NEW i \in ready, DrainChunk(i)
      PROVE  [LossyPool!PoolNext]_(LossyPool!poolVars)
  <2>1. Launched' = Launched
    BY <1>1, <1>3, MarkReadFacts, SameJobsLaunched DEF ConfigInv, DrainChunk
  <2>2. Running' = Running
    BY <1>3 DEF DrainChunk, KeepText, Running, Used
  <2>3. UNCHANGED Pool!poolVars
    BY <1>3, <2>1, <2>2, StutterRefines DEF DrainChunk
  <2> QED BY <2>3, LosslessIsLossy
<1>4. CASE UNCHANGED <<queue, unread, tableVars>>
  BY <1>4, LineQuiet
<1> QED
  BY <1>2, <1>3, <1>4 DEF ServeDrain, DrainDone, DrainWild, DrainUnknown, Halt

LEMMA ManagerStepRefines ==
  ASSUME ManagerInv, FileIsRead, [Next]_vars
  PROVE  [LossyPool!PoolNext]_(LossyPool!poolVars)
<1>1. ConfigInv /\ ConfigTypeOK /\ ServeTypeOK /\ mem \in Store
  BY DEF ManagerInv, ConfigInv, ConfigTypeOK
<1>2. CASE ConfigManager \/ WorkerStep
  BY <1>1, <1>2, StepRefines, LosslessIsLossy DEF ConfigNext, Pool!PoolNext
<1>3. CASE UNCHANGED <<queue, unread, tableVars>>
  BY <1>3, LineQuiet
<1>4. CASE Console \/ Users \/ UNCHANGED vars
  BY <1>3, <1>4 DEF Console, ConsoleSends, Users, FileChanges, vars, configVars
<1>5. CASE phase = "serve" /\ ServePoll
  <2>1. UNCHANGED Pool!poolVars
    BY <1>5, QuietTable, StutterRefines DEF ServePoll
  <2> QED BY <2>1, LosslessIsLossy
<1>6. CASE ServeLeave \/ NoInput \/ TakeLostEvent
  BY <1>3, <1>6 DEF ServeLeave, NoInput, TakeLostEvent, Halt
<1>7. CASE ServeDrain
  BY <1>7, ServeDrainRefines
<1>8. CASE phase = "serve" /\ PopQueued
  BY <1>8, PopRefines
<1>9. CASE phase = "serve" /\ TakeEvent
  <2> DEFINE e == Head(events)
             dir == inotify_map[e.wd].source
             job == [src |-> dir, op |-> JobOf(e.mask),
                     tgt |-> sync_info_mem_store_find(mem, dir).target]
  <2>1. /\ ~MayPop /\ UNCHANGED unread
        /\ e.wd \in DOMAIN inotify_map /\ IsFound(mem, dir)
        /\ IF e.mask \in Mask THEN Dispatch(job) ELSE NoDispatch
    BY <1>9 DEF TakeEvent
  <2>2. dir \in Dir
    <3>1. inotify_map[e.wd] \in [source : Dir, wild : BOOLEAN]
      BY <1>1, <2>1 DEF ConfigTypeOK
    <3> QED BY <3>1
  <2> HIDE DEF dir, e
  <2>3. sync_info_mem_store_find(mem, dir).target \in Dir
    BY <1>1, <2>1, <2>2, PositionFacts DEF DirInfo
  <2>4. e.mask \in Mask => job \in Job
    <3>1. e.mask \in Mask => JobOf(e.mask) \in Operation
      BY DEF Mask, JobOf, Operation
    <3> QED BY <2>2, <2>3, <3>1 DEF Job
  <2> HIDE DEF job
  <2>5. CASE e.mask \in Mask
    BY <1>9, <2>1, <2>4, <2>5, DispatchRefines
  <2>6. CASE e.mask \notin Mask
    BY <1>3, <2>1, <2>6 DEF NoDispatch
  <2> QED BY <2>5, <2>6
<1>10. CASE phase = "serve" /\ AddDirectory
  <2> DEFINE c == Head(fss_in)
             job == [src |-> c.src, tgt |-> c.tgt, op |-> "FULL"]
  <2>1. ~MayPop /\ UNCHANGED unread /\ Dispatch(job)
    BY <1>10 DEF AddDirectory, TakeCommand
  <2>2. c.src \in Dir /\ c.tgt \in Dir
    BY <1>1, <1>10, CommandFacts DEF AddDirectory
  <2> HIDE DEF c
  <2>3. job \in Job
    BY <2>2 DEF Job, Operation
  <2> QED BY <1>10, <2>1, <2>3, DispatchRefines
<1>11. CASE phase = "serve" /\ SyncDirectory
  <2> DEFINE dir == Head(fss_in).src
             job == [src |-> dir, tgt |-> Info(dir).target, op |-> "FULL"]
  <2>1. ~MayPop /\ UNCHANGED unread /\ Dispatch(job) /\ IsFound(mem, dir)
    BY <1>11 DEF SyncDirectory, TakeCommand, MaySync
  <2>2. dir \in Dir
    BY <1>1, <1>11, CommandFacts DEF SyncDirectory
  <2> HIDE DEF dir
  <2>3. job \in Job
    BY <1>1, <2>1, <2>2, PositionFacts DEF Info, DirInfo, Job, Operation
  <2> QED BY <1>11, <2>1, <2>3, DispatchRefines
<1>12. CASE \/ AddOverloads \/ AddRefused \/ ShowStatus \/ SyncRefused
            \/ CancelDirectory \/ CancelRefused \/ CancelCrashes \/ Shutdown
  BY <1>3, <1>12
  DEF AddOverloads, AddRefused, ShowStatus, SyncRefused, CancelDirectory, CancelRefused,
      CancelCrashes, Shutdown, NoDispatch, TakeCommand
<1> QED
  BY <1>2, <1>4, <1>5, <1>6, <1>7, <1>8, <1>9, <1>10, <1>11, <1>12
  DEF Next, Manager, ServeManager, ObeyCommand, Over

(* The manager over its whole life is a worker pool that may forget jobs: it
   launches them in the order in which they were asked for, each at most once
   for every time it came, and never more than worker_limit at a time. *)
THEOREM ManagerImplementsLossyPool == Spec => ManagerIsLossyPool
<1>1. Init => LossyPool!PoolInit
  BY InitRefines DEF Init, Pool!PoolInit, LossyPool!PoolInit
<1>2. ManagerInv /\ FileIsRead /\ [Next]_vars => [LossyPool!PoolNext]_(LossyPool!poolVars)
  BY ManagerStepRefines
<1> QED
  BY <1>1, <1>2, ManagerInvariant, ManagerReadsItsFile, PTL
  DEF Spec, ManagerIsLossyPool, LossyPool!PoolSpec
=============================================================================
