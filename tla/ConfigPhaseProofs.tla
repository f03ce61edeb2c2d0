-------------------------- MODULE ConfigPhaseProofs --------------------------
(***************************************************************************)
(* Theorems about the loop over the config file, for any number of pairs   *)
(* and slots, any names and any of the faults: types, the accounting of    *)
(* the slots, the refinement of the abstract worker pool and which         *)
(* directories are found.                                                  *)
(***************************************************************************)
EXTENDS ConfigPhase, WorkerTableProofs, MemStoreProofs, FiniteSetTheorems

ConfigInv == ConfigTypeOK /\ TableInv

LEMMA ConfigUnchanged ==
  ASSUME ConfigInv, UNCHANGED configVars
  PROVE  ConfigInv'
<1>1. TableInv'
  BY TableUnchanged DEF ConfigInv, configVars
<1>2. ConfigTypeOK'
  BY <1>1 DEF ConfigInv, ConfigTypeOK, configVars, storeVars, TableInv
<1> QED BY <1>1, <1>2 DEF ConfigInv

(* A step that ends the process changes the phase only. *)
LEMMA HaltInv ==
  ASSUME ConfigInv, NEW how \in Phase, Halt(how)
  PROVE  ConfigInv'
<1>1. TableInv'
  BY TableUnchanged DEF ConfigInv, Halt
<1>2. ConfigTypeOK'
  BY <1>1 DEF ConfigInv, ConfigTypeOK, Halt, storeVars, TableInv
<1> QED BY <1>1, <1>2 DEF ConfigInv

(* inotify_add_watch and the insertion of the descriptor keep the types of
   the map and of the kernel's side. *)
LEMMA AddWatchTypes ==
  ASSUME ConfigTypeOK, NEW d \in Dir, AddWatch(d)
  PROVE  /\ next_wd' \in Nat \ {0}
         /\ watch' \in [Dir -> 0..next_wd' - 1]
         /\ DOMAIN inotify_map' \subseteq {NoWatch} \cup 1..next_wd' - 1
         /\ inotify_map' \in [DOMAIN inotify_map' -> [source : Dir, wild : BOOLEAN]]
<1> DEFINE wd == IF d \in NoSuchDir THEN NoWatch
                 ELSE IF watch[d] # 0 THEN watch[d] ELSE next_wd
<1>1. /\ next_wd \in Nat \ {0}
      /\ watch \in [Dir -> 0..next_wd - 1]
      /\ DOMAIN inotify_map \subseteq {NoWatch} \cup 1..next_wd - 1
      /\ inotify_map \in [DOMAIN inotify_map -> [source : Dir, wild : BOOLEAN]]
  BY DEF ConfigTypeOK
<1>2. wd \in {NoWatch} \cup 1..next_wd
  BY <1>1
<1>3. /\ \E wild \in BOOLEAN : inotify_map' = hash_table_insert(inotify_map, wd, d, wild)
      /\ watch' = [watch EXCEPT ![d] = IF d \in NoSuchDir THEN 0 ELSE wd]
      /\ next_wd' = IF wd = next_wd THEN next_wd + 1 ELSE next_wd
  BY DEF AddWatch
<1>4. PICK wild \in BOOLEAN : inotify_map' = hash_table_insert(inotify_map, wd, d, wild)
  BY <1>3
<1>5. /\ next_wd' \in Nat \ {0} /\ wd \in {NoWatch} \cup 1..next_wd' - 1
      /\ 0..next_wd - 1 \subseteq 0..next_wd' - 1
      /\ 1..next_wd - 1 \subseteq 1..next_wd' - 1
      /\ wd # NoWatch => wd \in 0..next_wd' - 1
      /\ 0 \in 0..next_wd' - 1
  BY <1>1, <1>2, <1>3 DEF NoWatch
<1>6. d \notin NoSuchDir => wd # NoWatch
  BY <1>1 DEF NoWatch
<1> HIDE DEF wd
<1>7. watch' \in [Dir -> 0..next_wd' - 1]
  BY <1>1, <1>3, <1>5, <1>6
<1>8. CASE wd \in DOMAIN inotify_map
  <2>1. inotify_map' = inotify_map
    BY <1>4, <1>8 DEF hash_table_insert
  <2> QED BY <2>1, <1>1, <1>5, <1>7
<1>9. CASE wd \notin DOMAIN inotify_map
  <2>1. inotify_map' = [w \in DOMAIN inotify_map \cup {wd} |->
                          IF w = wd THEN [source |-> d, wild |-> wild] ELSE inotify_map[w]]
    BY <1>4, <1>9 DEF hash_table_insert
  <2>2. DOMAIN inotify_map' = DOMAIN inotify_map \cup {wd}
    BY <2>1
  <2>3. \A w \in DOMAIN inotify_map : inotify_map[w] \in [source : Dir, wild : BOOLEAN]
    BY <1>1
  <2>4. inotify_map' \in [DOMAIN inotify_map' -> [source : Dir, wild : BOOLEAN]]
    BY <2>1, <2>2, <2>3
  <2> QED BY <2>2, <2>4, <1>1, <1>5, <1>7
<1> QED BY <1>8, <1>9

-----------------------------------------------------------------------------
(* What both loops do with the pipes.                                      *)

LEMMA DrainChunkInv ==
  ASSUME ConfigInv, NEW i \in ready, DrainChunk(i)
  PROVE  ConfigInv'
<1>1. TableInv'
  BY KeepTextInv DEF ConfigInv, DrainChunk
<1>2. ConfigTypeOK'
  BY <1>1 DEF ConfigInv, ConfigTypeOK, DrainChunk, storeVars, TableInv
<1> QED BY <1>1, <1>2 DEF ConfigInv

(* Every piece of a text is of a worker that was forked. *)
LEMMA PiecesAreOfWorkers ==
  ASSUME TableInv, NEW i \in ready
  PROVE  \A k \in DOMAIN Contents(i) : Contents(i)[k].by \in DOMAIN workers
<1> DEFINE text == Contents(i)
<1>1. text \in Seq(Token)
  BY ReadFacts
<1> HIDE DEF text
<1>2. \A k \in DOMAIN text : text[k] \in Token
  BY <1>1, LenProperties, ElementOfSeq
<1>3. \A k \in DOMAIN text : text[k].by \in DOMAIN workers
  BY <1>2 DEF Token
<1> QED BY <1>3 DEF text

(* Whoever a text says it is from, it is the number of a worker. *)
LEMMA WritersAreNumbers ==
  ASSUME TableInv, NEW i \in ready
  PROVE  StatusWriters(Contents(i)) \subseteq Nat
<1>1. WriterOf(Contents(i), STATUS_PART) \subseteq DOMAIN workers
  BY PiecesAreOfWorkers DEF WriterOf, FieldAt
<1>2. DOMAIN workers \subseteq Nat
  BY TableFacts DEF TableInv
<1> QED BY <1>1, <1>2 DEF StatusWriters

(* Whatever directory a text is about, it is the name of one: a token is of
   a worker that was forked. *)
LEMMA SourcesAreNames ==
  ASSUME TableInv, NEW i \in ready
  PROVE  Sources(Contents(i)) \subseteq Dir
<1>1. \A p \in DOMAIN workers : workers[p].job.src \in Dir
  BY TableFacts DEF TableInv, Worker, Job
<1>2. WriterOf(Contents(i), SOURCE_PART) \subseteq DOMAIN workers
  BY PiecesAreOfWorkers DEF WriterOf, FieldAt
<1> QED BY <1>1, <1>2 DEF Sources

LEMMA DrainReportInv ==
  ASSUME ConfigInv, NEW i \in ready, NEW clearing, DrainReport(i, clearing)
  PROVE  /\ ConfigInv'
         /\ Running' = Running \ {workers_pid[i]}
         /\ \A d \in Dir : IsFound(mem', d) <=> IsFound(mem, d)
<1>1. TableInv' /\ Running' = Running \ {workers_pid[i]}
  BY RetireSlotInv DEF ConfigInv, DrainReport
<1>2. PICK d \in Sources(Contents(i)), op \in Operations(Contents(i)),
           p \in StatusWriters(Contents(i)) :
        /\ IsFound(mem, d)
        /\ mem' = LET info == sync_info_mem_store_find(mem, d)
                  IN Overwrite(mem, d,
                       [info EXCEPT !.status = p,
                                    !.is_in_workers = @ /\ op \notin clearing])
  BY DEF DrainReport
<1> DEFINE old == sync_info_mem_store_find(mem, d)
           info == [old EXCEPT !.status = p, !.is_in_workers = @ /\ op \notin clearing]
<1>3. p \in Nat
  BY WritersAreNumbers DEF ConfigInv
<1>4. d \in Dir
  BY SourcesAreNames DEF ConfigInv
<1>5. mem \in Store
  BY DEF ConfigInv, ConfigTypeOK
<1>6. old \in DirInfo /\ old.source = d
  BY <1>2, <1>4, <1>5, PositionFacts
<1>7. info \in DirInfo /\ info.source = d
  BY <1>3, <1>6 DEF DirInfo
<1>8. mem' = Overwrite(mem, d, info)
  BY <1>2
<1> HIDE DEF info
<1>9. mem' \in Store /\ \A e \in Dir : IsFound(mem', e) <=> IsFound(mem, e)
  BY <1>2, <1>4, <1>5, <1>7, <1>8, OverwriteFacts, OverwriteFind
<1>10. ConfigTypeOK'
  BY <1>1, <1>9 DEF ConfigInv, ConfigTypeOK, DrainReport, TableInv
<1> QED BY <1>1, <1>9, <1>10 DEF ConfigInv

-----------------------------------------------------------------------------
(* The loop over the config file.                                          *)

(* A new pair gets a worker, a watch and an entry. *)
LEMMA StartPairInv ==
  ASSUME ConfigInv, NEW job \in Job, HasRoom, StartPair(job),
         queue' \in Seq(Job), unread' \in Seq(Job), eof' \in BOOLEAN
  PROVE  /\ ConfigInv'
         /\ \A d \in Dir :
              IsFound(mem', d) <=>
                IsFound(mem, d) \/ (d = job.src /\ Bucket(job.tgt) = Bucket(d))
<1>1. AddWorker(job) /\ AddWatch(job.src) /\ num_workers < WorkerLimit /\ pc' = "poll"
  BY DEF StartPair, HasRoom
<1>2. TableInv'
  BY <1>1, AddWorkerInv DEF ConfigInv
<1>3. job.src \in Dir /\ job.tgt \in Dir
  BY DEF Job
<1>4. /\ next_wd' \in Nat \ {0}
      /\ watch' \in [Dir -> 0..next_wd' - 1]
      /\ DOMAIN inotify_map' \subseteq {NoWatch} \cup 1..next_wd' - 1
      /\ inotify_map' \in [DOMAIN inotify_map' -> [source : Dir, wild : BOOLEAN]]
  BY <1>1, <1>3, AddWatchTypes DEF ConfigInv
<1> DEFINE info == NewInfo(job.src, job.tgt, TRUE)
<1>5. info \in DirInfo /\ info.source = job.src /\ info.target = job.tgt
  BY <1>3 DEF NewInfo, DirInfo
<1>6. mem' = sync_info_mem_store_add(mem, info)
  BY DEF StartPair
<1>7. mem \in Store
  BY DEF ConfigInv, ConfigTypeOK
<1> HIDE DEF info
<1>8. mem' \in Store
  BY <1>5, <1>6, <1>7, AddFacts
<1>9. \A d \in Dir :
        IsFound(mem', d) <=>
          IsFound(mem, d) \/ (d = job.src /\ Bucket(job.tgt) = Bucket(d))
  BY <1>5, <1>6, <1>7, AddIsFound
<1>10. phase' \in Phase
  BY DEF StartPair, ConfigInv, ConfigTypeOK, Phase
<1>11. ConfigTypeOK'
  BY <1>1, <1>2, <1>4, <1>8, <1>10 DEF ConfigTypeOK, TableInv
<1> QED BY <1>2, <1>9, <1>11 DEF ConfigInv

LEMMA InitInv ==
  ASSUME ConfigInit
  PROVE  ConfigInv
<1>1. TableInv
  BY TableInitInv DEF ConfigInit
<1>2. unread \in Seq(Job)
  <2>1. [src : Dir, tgt : Dir, op : {"FULL"}] \subseteq Job
    BY DEF Job, Operation
  <2> QED BY <2>1, ConfigFilesAssumption, SeqMonotonic DEF ConfigInit
<1>3. queue \in Seq(Job)
  BY EmptySeq DEF ConfigInit
<1>4. /\ DOMAIN inotify_map = {}
      /\ inotify_map \in [DOMAIN inotify_map -> [source : Dir, wild : BOOLEAN]]
  BY DEF ConfigInit, EmptyMap
<1>5. watch \in [Dir -> 0..next_wd - 1] /\ next_wd \in Nat \ {0}
  BY DEF ConfigInit
<1>6. ConfigTypeOK
  BY <1>1, <1>2, <1>3, <1>4, <1>5, CreateType DEF ConfigInit, ConfigTypeOK, Phase, TableInv
<1> QED BY <1>1, <1>6 DEF ConfigInv

(* A sequence that is not empty has a head and a tail. *)
LEMMA TakeJob ==
  ASSUME NEW s \in Seq(Job), s # <<>>
  PROVE  Head(s) \in Job /\ Tail(s) \in Seq(Job)
BY HeadTailProperties

LEMMA TakeInv ==
  ASSUME ConfigInv, TakeQueued \/ TakeConfig
  PROVE  ConfigInv'
<1>1. queue \in Seq(Job) /\ unread \in Seq(Job) /\ eof \in BOOLEAN
  BY DEF ConfigInv, ConfigTypeOK
<1>2. CASE TakeQueued
  <2>1. /\ HasRoom /\ Head(queue) \in Job /\ StartPair(Head(queue))
        /\ queue' \in Seq(Job) /\ unread' \in Seq(Job) /\ eof' \in BOOLEAN
    BY <1>1, <1>2, TakeJob DEF TakeQueued
  <2> QED BY <2>1, StartPairInv
<1>3. CASE TakeConfig
  <2>1. /\ HasRoom /\ Head(unread) \in Job /\ StartPair(Head(unread))
        /\ queue' \in Seq(Job) /\ unread' \in Seq(Job)
    BY <1>1, <1>3, TakeJob DEF TakeConfig
  <2>2. eof' \in BOOLEAN
    BY <1>1, <1>3 DEF TakeConfig
  <2> QED BY <2>1, <2>2, StartPairInv
<1> QED BY <1>2, <1>3

LEMMA QueueConfigInv ==
  ASSUME ConfigInv, QueueConfig
  PROVE  ConfigInv'
<1>1. TableInv'
  BY TableUnchanged DEF ConfigInv, QueueConfig
<1>2. queue' \in Seq(Job) /\ unread' \in Seq(Job)
  BY TakeJob, AppendProperties DEF ConfigInv, ConfigTypeOK, QueueConfig
<1>3. eof' \in BOOLEAN
  BY DEF ConfigInv, ConfigTypeOK, QueueConfig
<1>4. ConfigTypeOK'
  BY <1>1, <1>2, <1>3 DEF ConfigInv, ConfigTypeOK, QueueConfig, storeVars, TableInv
<1> QED BY <1>1, <1>4 DEF ConfigInv

LEMMA ConfigPollInv ==
  ASSUME ConfigInv, ConfigPoll
  PROVE  ConfigInv'
<1>1. TableInv'
  BY PollWorkersInv DEF ConfigInv, ConfigPoll
<1>2. ConfigTypeOK'
  BY <1>1 DEF ConfigInv, ConfigTypeOK, ConfigPoll, storeVars, TableInv
<1> QED BY <1>1, <1>2 DEF ConfigInv

(* Steps that change neither the table nor the store. *)
LEMMA ControlInv ==
  ASSUME ConfigInv, ConfigLeave \/ DrainDone \/ ReadNothing
  PROVE  ConfigInv'
<1>1. TableInv'
  BY TableUnchanged DEF ConfigInv, ConfigLeave, DrainDone, ReadNothing
<1>2. CASE ConfigLeave
  BY <1>1, <1>2 DEF ConfigInv, ConfigTypeOK, ConfigLeave, storeVars, TableInv, Phase
<1>3. CASE DrainDone
  BY <1>1, <1>3 DEF ConfigInv, ConfigTypeOK, DrainDone, storeVars, TableInv
<1>4. CASE ReadNothing
  BY <1>1, <1>4 DEF ConfigInv, ConfigTypeOK, ReadNothing, storeVars, TableInv
<1> QED BY <1>2, <1>3, <1>4

LEMMA WorkerStepInv ==
  ASSUME ConfigInv, WorkerStep
  PROVE  ConfigInv' /\ SameJobs /\ Running' = Running
<1>1. PICK p \in DOMAIN workers : WorkerWrite(p) \/ WorkerDies(p)
  BY DEF WorkerStep
<1>2. TableInv' /\ SameJobs /\ Running' = Running
  BY <1>1, WorkerWriteInv, WorkerDiesInv DEF ConfigInv
<1>3. ConfigTypeOK'
  BY <1>2 DEF ConfigInv, ConfigTypeOK, WorkerStep, storeVars, TableInv
<1> QED BY <1>2, <1>3 DEF ConfigInv

(* Every step keeps the invariant. *)
LEMMA StepInv ==
  ASSUME ConfigInv, [ConfigNext]_configVars
  PROVE  ConfigInv'
<1>1. CASE ConfigPoll
  BY <1>1, ConfigPollInv
<1>2. CASE ConfigLeave
  BY <1>2, ControlInv
<1>3. CASE DrainDone
  BY <1>3, ControlInv
<1>4. ASSUME NEW i \in ready, DrainChunk(i) PROVE ConfigInv'
  BY <1>4, DrainChunkInv
<1>5. ASSUME NEW i \in ready, DrainWild(i) \/ DrainUnknown(i) PROVE ConfigInv'
  BY <1>5, HaltInv DEF DrainWild, DrainUnknown, Phase
<1>6. ASSUME NEW i \in ready, DrainReport(i, Operation) PROVE ConfigInv'
  BY <1>6, DrainReportInv
<1>7. CASE TakeQueued \/ TakeConfig
  BY <1>7, TakeInv
<1>8. CASE QueueConfig
  BY <1>8, QueueConfigInv
<1>9. CASE ReadNothing
  BY <1>9, ControlInv
<1>10. CASE ConfigForkFails
  BY <1>10, HaltInv DEF ConfigForkFails, Phase
<1>11. CASE WorkerStep
  BY <1>11, WorkerStepInv
<1>12. CASE UNCHANGED configVars
  BY <1>12, ConfigUnchanged
<1> QED
  BY <1>1, <1>2, <1>3, <1>4, <1>5, <1>6, <1>7, <1>8, <1>9, <1>10, <1>11, <1>12
  DEF ConfigNext, ConfigManager, ConfigDrain, ConfigOver

(* The invariant holds in every reachable state of the loop, whatever the
   config file, the number of slots, the names and the faults. *)
THEOREM ConfigInvariant == ConfigSpec => []ConfigInv
<1>1. ConfigInit => ConfigInv
  BY InitInv
<1>2. ConfigInv /\ [ConfigNext]_configVars => ConfigInv'
  BY StepInv
<1> QED BY <1>1, <1>2, PTL DEF ConfigSpec

(* Types: every variable of the loop keeps the type of its C counterpart. *)
THEOREM ConfigTypes == ConfigSpec => []ConfigTypeOK
<1>1. ConfigInv => ConfigTypeOK
  BY DEF ConfigInv
<1> QED BY <1>1, ConfigInvariant, PTL

(* The swap of a finished worker's slot with the last one, in the middle of
   the visit of the slots (fss_manager.c:143-189), never loses a worker and
   never follows one twice. *)
THEOREM ConfigSlots == ConfigSpec => []SlotAccounting
<1>1. ConfigInv => SlotAccounting
  BY DEF ConfigInv, TableInv
<1> QED BY <1>1, ConfigInvariant, PTL

(* What SlotAccounting rests on holds as well: no buffer keeps the end of a
   report between two reads, nobody has read more than was written, and poll's
   readable slots have something to read. *)
THEOREM ConfigTable == ConfigSpec => []TableInv
<1>1. ConfigInv => TableInv
  BY DEF ConfigInv
<1> QED BY <1>1, ConfigInvariant, PTL

-----------------------------------------------------------------------------
(* The loop implements the lossless worker pool.                           *)

(* No more workers run than slots are in use. *)
LEMMA RunningIsSmall ==
  ASSUME TableInv
  PROVE  Cardinality(Running) \in Nat /\ Cardinality(Running) <= num_workers
<1> DEFINE f == [i \in Used |-> workers_pid[i]]
<1>1. num_workers \in Nat
  BY DEF TableInv, TableTypeOK
<1>2. IsFiniteSet(Used) /\ Cardinality(Used) = num_workers
  BY <1>1, FS_Interval DEF Used
<1>3. f \in Surjection(Used, Running)
  BY DEF Surjection, Running
<1>4. IsFiniteSet(Running) /\ Cardinality(Running) <= Cardinality(Used)
  BY <1>2, <1>3, FS_Surjection
<1>5. Cardinality(Running) \in Nat
  BY <1>4, FS_CardinalityType
<1> QED BY <1>2, <1>4, <1>5

(* Launched is the sequence of the workers' jobs. *)
LEMMA LaunchedFacts ==
  ASSUME ConfigInv
  PROVE  /\ Launched \in Seq(Job)
         /\ Len(Launched) = Len(workers)
<1>1. /\ Len(workers) \in Nat /\ DOMAIN workers = 1..Len(workers)
      /\ \A p \in DOMAIN workers : workers[p].job \in Job
  BY TableFacts DEF ConfigInv, TableInv, Worker
<1>2. Launched \in [1..Len(workers) -> Job]
  BY <1>1 DEF Launched
<1> QED BY <1>1, <1>2, FunctionIsSeq

LEMMA SameJobsLaunched ==
  ASSUME SameJobs
  PROVE  Launched' = Launched
BY DEF SameJobs, Launched

(* AddWorker launches its job, in the next number. *)
LEMMA AddWorkerLaunches ==
  ASSUME ConfigInv, NEW job \in Job, HasRoom, AddWorker(job)
  PROVE  /\ Pool!HasRoom
         /\ Launched' = Append(Launched, job)
         /\ Running' = Running \cup {Len(Launched) + 1}
<1> DEFINE n == Len(workers)
<1>1. /\ TableInv'
      /\ Len(workers') = n + 1
      /\ \A q \in DOMAIN workers : workers'[q] = workers[q]
      /\ workers'[n + 1].job = job
      /\ Running' = Running \cup {n + 1}
  BY AddWorkerInv DEF ConfigInv, HasRoom
<1>2. n \in Nat /\ DOMAIN workers = 1..n /\ \A q \in 1..n : workers[q].job \in Job
  BY TableFacts DEF ConfigInv, TableInv, Worker
<1>3. DOMAIN workers' = 1..n + 1
  BY <1>1, LenProperties DEF TableInv, TableTypeOK
<1>4. Launched \in Seq(Job) /\ Len(Launched) = n
  BY LaunchedFacts
<1>5. \A q \in 1..n + 1 : workers'[q].job = IF q <= n THEN Launched[q] ELSE job
  BY <1>1, <1>2 DEF Launched
<1>6. Launched' = [q \in 1..n + 1 |-> workers'[q].job]
  BY <1>3 DEF Launched
<1>7. Launched' \in Seq(Job) /\ Len(Launched') = n + 1
  <2>1. \A q \in 1..n + 1 : workers'[q].job \in Job
    BY <1>1, <1>2
  <2>2. Launched' \in [1..n + 1 -> Job]
    BY <1>6, <2>1
  <2> QED BY <2>2, <1>2, FunctionIsSeq
<1>8. /\ Append(Launched, job) \in Seq(Job)
      /\ Len(Append(Launched, job)) = n + 1
      /\ \A q \in 1..n : Append(Launched, job)[q] = Launched[q]
      /\ Append(Launched, job)[n + 1] = job
  BY <1>4, AppendProperties
<1>9. \A q \in 1..n + 1 : Launched'[q] = Append(Launched, job)[q]
  BY <1>2, <1>5, <1>6, <1>8
<1>10. Launched' = Append(Launched, job)
  BY <1>7, <1>8, <1>9, SeqEqual
<1>11. Pool!HasRoom
  <2>1. num_workers < WorkerLimit /\ num_workers \in Nat /\ WorkerLimit \in Nat
    BY WorkerLimitAssumption DEF HasRoom, ConfigInv, TableInv, TableTypeOK
  <2>2. Cardinality(Running) \in Nat /\ Cardinality(Running) <= num_workers
    BY RunningIsSmall DEF ConfigInv
  <2>3. Cardinality(Running) < WorkerLimit
    BY <2>1, <2>2
  <2> QED BY <2>3 DEF Pool!HasRoom, Pool!Cardinality, Cardinality
<1> QED BY <1>1, <1>4, <1>10, <1>11

(* The line of the pool is the queue, then what is left of the file: popping
   the queue takes its head, and pushing the head of the file changes nothing. *)
LEMMA LineFacts ==
  ASSUME NEW q \in Seq(Job), NEW u \in Seq(Job)
  PROVE  /\ q # <<>> => /\ q \o u # <<>>
                       /\ Head(q \o u) = Head(q)
                       /\ Tail(q \o u) = Tail(q) \o u
         /\ u # <<>> => Append(q, Head(u)) \o Tail(u) = q \o u
         /\ <<>> \o u = u
<1>1. /\ Len(q) \in Nat /\ Len(u) \in Nat
      /\ q \o u \in Seq(Job) /\ Len(q \o u) = Len(q) + Len(u)
      /\ \A k \in 1..Len(q) + Len(u) :
           (q \o u)[k] = IF k <= Len(q) THEN q[k] ELSE u[k - Len(q)]
  BY ConcatProperties, LenProperties
<1>2. ASSUME q # <<>>
      PROVE  /\ q \o u # <<>>
             /\ Head(q \o u) = Head(q)
             /\ Tail(q \o u) = Tail(q) \o u
  <2>1. /\ Len(q) # 0 /\ Head(q) = q[1] /\ Tail(q) \in Seq(Job) /\ Len(Tail(q)) = Len(q) - 1
        /\ \A k \in 1..Len(Tail(q)) : Tail(q)[k] = q[k + 1]
    BY <1>2, HeadTailProperties, EmptySeq
  <2>2. q \o u # <<>> /\ Head(q \o u) = q[1]
    BY <1>1, <2>1, EmptySeq
  <2>3. /\ Tail(q \o u) \in Seq(Job) /\ Len(Tail(q \o u)) = Len(q) + Len(u) - 1
        /\ \A k \in 1..Len(Tail(q \o u)) : Tail(q \o u)[k] = (q \o u)[k + 1]
    BY <1>1, <2>2, HeadTailProperties
  <2>4. /\ Tail(q) \o u \in Seq(Job) /\ Len(Tail(q) \o u) = Len(q) - 1 + Len(u)
        /\ \A k \in 1..(Len(q) - 1) + Len(u) :
             (Tail(q) \o u)[k] = IF k <= Len(q) - 1 THEN Tail(q)[k] ELSE u[k - (Len(q) - 1)]
    BY <2>1, ConcatProperties
  <2>5. ASSUME NEW k \in 1..(Len(q) - 1) + Len(u)
        PROVE  Tail(q \o u)[k] = (Tail(q) \o u)[k]
    <3>1. Tail(q \o u)[k] = (q \o u)[k + 1] /\ k + 1 \in 1..Len(q) + Len(u)
      BY <1>1, <2>1, <2>3
    <3>2. CASE k <= Len(q) - 1
      BY <3>1, <3>2, <1>1, <2>1, <2>4
    <3>3. CASE ~(k <= Len(q) - 1)
      <4>1. ~(k + 1 <= Len(q)) /\ (k + 1) - Len(q) = k - (Len(q) - 1)
        BY <3>3, <1>1
      <4> QED BY <4>1, <3>1, <3>3, <1>1, <2>4
    <3> QED BY <3>2, <3>3
  <2>6. Tail(q \o u) = Tail(q) \o u
    BY <1>1, <2>3, <2>4, <2>5, SeqEqual
  <2> QED BY <2>1, <2>2, <2>6
<1>3. ASSUME u # <<>>
      PROVE  Append(q, Head(u)) \o Tail(u) = q \o u
  <2>1. /\ Head(u) \in Job /\ Tail(u) \in Seq(Job)
        /\ u = <<Head(u)>> \o Tail(u)
    <3>1. Len(u) # 0 /\ Head(u) = u[1] /\ Head(u) \in Job /\ Tail(u) \in Seq(Job)
          /\ Len(Tail(u)) = Len(u) - 1
          /\ \A k \in 1..Len(Tail(u)) : Tail(u)[k] = u[k + 1]
      BY <1>3, HeadTailProperties, EmptySeq
    <3>2. /\ <<Head(u)>> \in Seq(Job) /\ Len(<<Head(u)>>) = 1 /\ <<Head(u)>>[1] = u[1]
      BY <3>1
    <3>3. /\ <<Head(u)>> \o Tail(u) \in Seq(Job)
          /\ Len(<<Head(u)>> \o Tail(u)) = 1 + Len(Tail(u))
          /\ \A k \in 1..1 + Len(Tail(u)) :
               (<<Head(u)>> \o Tail(u))[k] = IF k <= 1 THEN <<Head(u)>>[k] ELSE Tail(u)[k - 1]
      BY <3>1, <3>2, ConcatProperties
    <3>4. \A k \in 1..Len(u) : u[k] = (<<Head(u)>> \o Tail(u))[k]
      BY <1>1, <3>1, <3>2, <3>3
    <3> QED BY <1>1, <3>1, <3>3, <3>4, SeqEqual
  <2>2. Append(q, Head(u)) = q \o <<Head(u)>>
    BY <2>1, AppendIsConcat
  <2>3. (q \o <<Head(u)>>) \o Tail(u) = q \o (<<Head(u)>> \o Tail(u))
    <3>1. <<Head(u)>> \in Seq(Job)
      BY <2>1
    <3> QED BY <2>1, <3>1, ConcatAssociative
  <2> QED BY <2>1, <2>2, <2>3
<1>4. <<>> \o u = u
  BY ConcatEmptySeq
<1> QED BY <1>2, <1>3, <1>4

LEMMA StutterRefines ==
  ASSUME UNCHANGED <<queue, unread>>, Launched' = Launched, Running' = Running
  PROVE  UNCHANGED Pool!poolVars
BY DEF Pool!poolVars

(* The next job in line is launched. *)
LEMMA LaunchRefines ==
  ASSUME ConfigInv, NEW job \in Job, HasRoom, AddWorker(job),
         queue \o unread # <<>>, Head(queue \o unread) = job,
         queue' \o unread' = Tail(queue \o unread)
  PROVE  Pool!Launch
<1>1. /\ Pool!HasRoom
      /\ Launched' = Append(Launched, job)
      /\ Running' = Running \cup {Len(Launched) + 1}
  BY AddWorkerLaunches
<1> QED BY <1>1 DEF Pool!Launch

LEMMA TakeRefines ==
  ASSUME ConfigInv, TakeQueued \/ TakeConfig
  PROVE  Pool!ClosedNext
<1>1. queue \in Seq(Job) /\ unread \in Seq(Job)
  BY DEF ConfigInv, ConfigTypeOK
<1>2. CASE TakeQueued
  <2>1. /\ HasRoom /\ Head(queue) \in Job /\ AddWorker(Head(queue))
        /\ queue # <<>> /\ queue' = Tail(queue) /\ unread' = unread
    BY <1>1, <1>2, TakeJob DEF TakeQueued, StartPair
  <2>2. /\ queue \o unread # <<>> /\ Head(queue \o unread) = Head(queue)
        /\ queue' \o unread' = Tail(queue \o unread)
    BY <1>1, <2>1, LineFacts
  <2> QED BY <2>1, <2>2, LaunchRefines DEF Pool!ClosedNext
<1>3. CASE TakeConfig
  <2>1. /\ HasRoom /\ Head(unread) \in Job /\ AddWorker(Head(unread))
        /\ queue = <<>> /\ unread # <<>> /\ queue' = queue /\ unread' = Tail(unread)
        /\ Tail(unread) \in Seq(Job)
    BY <1>1, <1>3, TakeJob DEF TakeConfig, StartPair
  <2>2. queue \o unread = unread /\ queue' \o unread' = Tail(unread)
    BY <1>1, <2>1, LineFacts
  <2> QED BY <2>1, <2>2, LaunchRefines DEF Pool!ClosedNext
<1> QED BY <1>2, <1>3

LEMMA DrainReportRefines ==
  ASSUME ConfigInv, NEW i \in ready, NEW clearing, DrainReport(i, clearing)
  PROVE  Pool!ClosedNext
<1>1. Running' = Running \ {workers_pid[i]}
  BY DrainReportInv
<1>2. workers_pid[i] \in Running
  BY DEF Running, ConfigInv, ConfigTypeOK, TableTypeOK
<1>3. Launched' = Launched
  BY MarkReadFacts, SameJobsLaunched DEF ConfigInv, DrainReport
<1>4. UNCHANGED <<queue, unread>>
  BY DEF DrainReport
<1>5. Pool!Retire(workers_pid[i])
  BY <1>1, <1>3, <1>4 DEF Pool!Retire
<1> QED BY <1>2, <1>5 DEF Pool!ClosedNext

(* A step that leaves the workers' jobs and slots as they are is a stutter. *)
LEMMA QuietTable ==
  ASSUME UNCHANGED <<workers, num_workers, workers_pid>>
  PROVE  Launched' = Launched /\ Running' = Running
BY DEF Launched, Running, Used

LEMMA StepRefines ==
  ASSUME ConfigInv, [ConfigNext]_configVars
  PROVE  [Pool!ClosedNext]_(Pool!poolVars)
<1>1. CASE TakeQueued \/ TakeConfig
  BY <1>1, TakeRefines
<1>2. ASSUME NEW i \in ready, DrainReport(i, Operation) PROVE Pool!ClosedNext
  BY <1>2, DrainReportRefines
<1>3. ASSUME NEW i \in ready, DrainChunk(i) PROVE UNCHANGED Pool!poolVars
  <2>1. Launched' = Launched
    BY <1>3, MarkReadFacts, SameJobsLaunched DEF ConfigInv, DrainChunk
  <2>2. Running' = Running
    BY <1>3 DEF DrainChunk, KeepText, Running, Used
  <2> QED BY <1>3, <2>1, <2>2, StutterRefines DEF DrainChunk
<1>4. CASE QueueConfig
  <2>1. queue' \o unread' = queue \o unread
    BY <1>4, LineFacts DEF ConfigInv, ConfigTypeOK, QueueConfig
  <2>2. Launched' = Launched /\ Running' = Running
    BY <1>4, QuietTable DEF QueueConfig, tableVars
  <2> QED BY <2>1, <2>2 DEF Pool!poolVars
<1>5. CASE WorkerStep
  BY <1>5, WorkerStepInv, SameJobsLaunched, StutterRefines DEF WorkerStep
<1>6. ASSUME NEW how, Halt(how) PROVE UNCHANGED Pool!poolVars
  BY <1>6, QuietTable, StutterRefines DEF Halt, tableVars
<1>7. CASE ConfigPoll \/ ConfigLeave \/ DrainDone \/ ReadNothing \/ UNCHANGED configVars
  <2>1. UNCHANGED <<queue, unread, workers, num_workers, workers_pid>>
    BY <1>7 DEF ConfigPoll, ConfigLeave, DrainDone, ReadNothing, configVars, tableVars
  <2> QED BY <2>1, QuietTable, StutterRefines
<1> QED
  BY <1>1, <1>2, <1>3, <1>4, <1>5, <1>6, <1>7
  DEF ConfigNext, ConfigManager, ConfigDrain, ConfigOver, ConfigForkFails,
      DrainWild, DrainUnknown

LEMMA InitRefines ==
  ASSUME ConfigInit
  PROVE  Pool!PoolInit
<1>1. unread \in Seq(Job)
  BY InitInv DEF ConfigInv, ConfigTypeOK
<1>2. queue \o unread = unread
  BY <1>1, LineFacts, EmptySeq DEF ConfigInit
<1>3. Launched = <<>>
  <2>1. ConfigInv /\ Len(workers) = 0
    BY InitInv, EmptySeq DEF ConfigInit, TableInit
  <2> QED BY <2>1, LaunchedFacts, EmptySeq
<1>4. Running = {}
  BY DEF ConfigInit, TableInit, Running, Used
<1> QED BY <1>1, <1>2, <1>3, <1>4 DEF Pool!PoolInit

(* The loop over the config file is a lossless pool that gets no new jobs: the
   pairs of the file are launched in its order, each line of it once, whatever
   had to wait in the queue, and at most worker_limit workers run at a time. *)
THEOREM ConfigImplementsPool == ConfigSpec => ConfigIsPool
<1>1. ConfigInit => Pool!PoolInit
  BY InitRefines
<1>2. ConfigInv /\ [ConfigNext]_configVars => [Pool!ClosedNext]_(Pool!poolVars)
  BY StepRefines
<1> QED BY <1>1, <1>2, ConfigInvariant, PTL DEF ConfigSpec, ConfigIsPool, Pool!ClosedSpec

-----------------------------------------------------------------------------
(* Lookups.                                                                *)

(* A step that keeps the jobs and what is found. *)
LEMMA QuietLookups ==
  ASSUME ConfigInv, FoundByBucket, SameJobs,
         \A d \in Dir : IsFound(mem', d) <=> IsFound(mem, d)
  PROVE  FoundByBucket'
BY DEF FoundByBucket, SameJobs

LEMMA StartPairLookups ==
  ASSUME ConfigInv, FoundByBucket, NEW job \in Job, HasRoom,
         StartPair(job), queue' \in Seq(Job), unread' \in Seq(Job), eof' \in BOOLEAN
  PROVE  FoundByBucket'
<1> DEFINE n == Len(workers)
<1>1. \A d \in Dir :
        IsFound(mem', d) <=>
          IsFound(mem, d) \/ (d = job.src /\ Bucket(job.tgt) = Bucket(d))
  BY StartPairInv
<1>2. /\ TableInv'
      /\ Len(workers') = n + 1
      /\ \A q \in DOMAIN workers : workers'[q] = workers[q]
      /\ workers'[n + 1].job = job
  BY AddWorkerInv DEF ConfigInv, HasRoom, StartPair
<1>3. n \in Nat /\ DOMAIN workers = 1..n
  BY TableFacts DEF ConfigInv, TableInv
<1>4. DOMAIN workers' = 1..n + 1
  BY <1>2, LenProperties DEF TableInv, TableTypeOK
<1>5. DOMAIN workers' = DOMAIN workers \cup {n + 1}
  BY <1>3, <1>4
<1> HIDE DEF n
<1>6. ASSUME NEW d \in Dir
      PROVE  (\E p \in DOMAIN workers' : workers'[p].job.src = d
                                        /\ Bucket(workers'[p].job.tgt) = Bucket(d))
               <=> \/ \E p \in DOMAIN workers : workers[p].job.src = d
                                                /\ Bucket(workers[p].job.tgt) = Bucket(d)
                   \/ d = job.src /\ Bucket(job.tgt) = Bucket(d)
  BY <1>2, <1>5
<1> QED BY <1>1, <1>6 DEF FoundByBucket

LEMMA StepLookups ==
  ASSUME ConfigInv, FoundByBucket, [ConfigNext]_configVars
  PROVE  FoundByBucket'
<1>1. queue \in Seq(Job) /\ unread \in Seq(Job) /\ eof \in BOOLEAN
  BY DEF ConfigInv, ConfigTypeOK
<1>2. CASE TakeQueued
  BY <1>1, <1>2, TakeJob, StartPairLookups DEF TakeQueued
<1>3. CASE TakeConfig
  <2>1. eof' \in BOOLEAN
    BY <1>1, <1>3 DEF TakeConfig
  <2> QED BY <2>1, <1>1, <1>3, TakeJob, StartPairLookups DEF TakeConfig
<1>4. ASSUME NEW i \in ready, DrainReport(i, Operation) PROVE FoundByBucket'
  BY <1>4, MarkReadFacts, DrainReportInv, QuietLookups DEF ConfigInv, DrainReport
<1>5. ASSUME NEW i \in ready, DrainChunk(i) PROVE FoundByBucket'
  BY <1>5, MarkReadFacts, QuietLookups DEF ConfigInv, DrainChunk, storeVars
<1>6. CASE WorkerStep
  BY <1>6, WorkerStepInv, QuietLookups DEF WorkerStep, storeVars
<1>7. ASSUME UNCHANGED <<mem, workers>> PROVE FoundByBucket'
  BY <1>7, QuietLookups DEF SameJobs
<1>8. ASSUME NEW how, Halt(how) PROVE FoundByBucket'
  BY <1>7, <1>8 DEF Halt, storeVars, tableVars
<1>9. CASE ConfigPoll \/ ConfigLeave \/ DrainDone \/ QueueConfig \/ ReadNothing
           \/ UNCHANGED configVars
  BY <1>7, <1>9
  DEF ConfigPoll, ConfigLeave, DrainDone, QueueConfig, ReadNothing, configVars, tableVars,
      storeVars
<1> QED
  BY <1>2, <1>3, <1>4, <1>5, <1>6, <1>8, <1>9
  DEF ConfigNext, ConfigManager, ConfigDrain, ConfigOver, ConfigForkFails,
      DrainWild, DrainUnknown

LEMMA InitLookups ==
  ASSUME ConfigInit
  PROVE  FoundByBucket
<1>1. mem.chain = [b \in Buckets |-> <<>>]
  BY DEF ConfigInit, sync_info_mem_store_create
<1>2. ASSUME NEW d \in Dir PROVE ~IsFound(mem, d)
  <2>1. Bucket(d) \in Buckets
    BY DEF Buckets
  <2>2. mem.chain[Bucket(d)] = <<>>
    BY <1>1, <2>1
  <2>3. DOMAIN mem.chain[Bucket(d)] = {}
    BY <2>2
  <2> QED BY <2>3 DEF IsFound, Matches
<1>3. DOMAIN workers = {}
  BY DEF ConfigInit, TableInit
<1> QED BY <1>2, <1>3 DEF FoundByBucket

(* What sync_info_mem_store_find finds in the loop (lnode.c, hash_code in
   sync_info_mem_store.c): the sources of the pairs that were started and whose
   target falls in the same bucket, and nothing else, whatever reports do. *)
THEOREM ConfigLookups == ConfigSpec => []FoundByBucket
<1>1. ConfigInit => FoundByBucket
  BY InitLookups
<1>2. ConfigInv /\ FoundByBucket /\ [ConfigNext]_configVars => FoundByBucket'
  BY StepLookups
<1> QED BY <1>1, <1>2, ConfigInvariant, PTL DEF ConfigSpec
=============================================================================
