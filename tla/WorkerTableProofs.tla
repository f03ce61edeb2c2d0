-------------------------- MODULE WorkerTableProofs --------------------------
(***************************************************************************)
(* TableInv, the invariant behind SlotAccounting, is established by        *)
(* TableInit and kept by everything that happens to the table of workers.  *)
(* The lemmas are about the actions of WorkerTable, so that they serve     *)
(* both loops of fss_manager.                                              *)
(***************************************************************************)
EXTENDS WorkerTable, SequenceTheorems, TLAPS

(* The types the provers need again and again: workers is a function on     *)
(* 1..Len(workers), and a slot in use holds one of its arguments.           *)
LEMMA TableFacts ==
  ASSUME TableTypeOK
  PROVE  /\ Len(workers) \in Nat
         /\ DOMAIN workers = 1..Len(workers)
         /\ \A p \in DOMAIN workers : workers[p] \in Worker
         /\ \A i \in Used : i \in Slots /\ workers_pid[i] \in DOMAIN workers
<1>1. /\ Len(workers) \in Nat
      /\ DOMAIN workers = 1..Len(workers)
      /\ \A p \in DOMAIN workers : workers[p] \in Worker
  BY LenProperties DEF TableTypeOK
<1>2. \A i \in Used : i \in Slots /\ workers_pid[i] \in DOMAIN workers
  <2> SUFFICES ASSUME NEW i \in Used
               PROVE  i \in Slots /\ workers_pid[i] \in DOMAIN workers
    OBVIOUS
  <2>1. num_workers \in 0..WorkerLimit /\ WorkerLimit \in Nat
    BY WorkerLimitAssumption DEF TableTypeOK
  <2>2. i \in Slots
    BY <2>1 DEF Used, Slots
  <2>3. workers_pid[i] \in 0..Len(workers) /\ workers_pid[i] # 0
    BY <2>2 DEF TableTypeOK
  <2> QED BY <1>1, <2>2, <2>3
<1> QED BY <1>1, <1>2

(* One worker changes in fields that no slot depends on. *)
LEMMA UpdateWorker ==
  ASSUME TableTypeOK, NEW p \in DOMAIN workers, NEW w \in Worker
  PROVE  LET ws == [workers EXCEPT ![p] = w]
         IN /\ ws \in Seq(Worker)
            /\ Len(ws) = Len(workers)
            /\ DOMAIN ws = DOMAIN workers
            /\ ws[p] = w
            /\ \A q \in DOMAIN workers : q # p => ws[q] = workers[q]
<1>1. workers \in Seq(Worker) /\ p \in 1..Len(workers)
  BY TableFacts DEF TableTypeOK
<1> QED BY <1>1, ExceptSeq, LenProperties

(* The workers are those there were, and nobody's job changes. *)
SameJobs ==
  /\ DOMAIN workers' = DOMAIN workers
  /\ \A q \in DOMAIN workers : workers'[q].job = workers[q].job

(* The table starts empty. *)
LEMMA TableInitInv ==
  ASSUME TableInit
  PROVE  TableInv
<1>1. TableTypeOK
  <2>1. workers \in Seq(Worker) /\ Len(workers) = 0
    BY EmptySeq DEF TableInit
  <2>2. buffers \in [Slots -> Seq(Token)]
    BY EmptySeq DEF TableInit
  <2> QED BY <2>1, <2>2, WorkerLimitAssumption DEF TableInit, TableTypeOK, Slots, Used
<1>2. SlotAccounting
  BY DEF TableInit, SlotAccounting, Used
<1>3. NoEndIsKept /\ ReadIsWritten /\ ReadyHasInput
  BY DEF TableInit, NoEndIsKept, HasEnd, ReadIsWritten, ReadyHasInput
<1> QED BY <1>1, <1>2, <1>3 DEF TableInv

(* The invariant is about the table only. *)
LEMMA TableUnchanged ==
  ASSUME TableInv, UNCHANGED tableVars
  PROVE  TableInv'
<1>1. TableTypeOK'
  BY DEF tableVars, TableInv, TableTypeOK, Used, Token
<1>2. SlotAccounting'
  BY DEF tableVars, TableInv, SlotAccounting, Used, Running
<1>3. NoEndIsKept' /\ ReadIsWritten' /\ ReadyHasInput'
  BY DEF tableVars, TableInv, NoEndIsKept, HasEnd, ReadIsWritten, ReadyHasInput
<1> QED BY <1>1, <1>2, <1>3 DEF TableInv

(* What a worker process does keeps the invariant: it only ever adds to what
   it has written. *)
LEMMA WorkerWriteInv ==
  ASSUME TableInv, NEW p \in DOMAIN workers, WorkerWrite(p)
  PROVE  TableInv' /\ SameJobs /\ Running' = Running
<1> USE DEF TableInv
<1>1. PICK n \in Cuts : n > workers[p].wrote /\ workers' = [workers EXCEPT ![p].wrote = n]
  BY DEF WorkerWrite
<1> DEFINE w == [workers[p] EXCEPT !.wrote = n]
<1>2. n \in 0..END_PART /\ workers[p] \in Worker
  BY CutsAssumption, TableFacts DEF PARTS, END_PART
<1>3. /\ w \in Worker /\ w.job = workers[p].job
      /\ w.got = workers[p].got /\ w.nul = workers[p].nul /\ w.wrote = n
  BY <1>2 DEF Worker
<1>4. workers' = [workers EXCEPT ![p] = w]
  BY <1>1
<1> HIDE DEF w
<1>5. /\ workers' \in Seq(Worker)
      /\ Len(workers') = Len(workers)
      /\ DOMAIN workers' = DOMAIN workers
      /\ workers'[p] = w
      /\ \A q \in DOMAIN workers : q # p => workers'[q] = workers[q]
  BY <1>3, <1>4, UpdateWorker
<1>6. UNCHANGED <<num_workers, workers_pid, workers_buffer, buffers, ready>>
  BY DEF WorkerWrite
<1>7. TableTypeOK'
  BY <1>5, <1>6 DEF TableTypeOK, Used, Token
<1>8. SlotAccounting'
  BY <1>3, <1>5, <1>6 DEF SlotAccounting, Used, Running
<1>9. NoEndIsKept'
  BY <1>6 DEF NoEndIsKept, HasEnd
<1>10. ReadIsWritten'
  <2> SUFFICES ASSUME NEW q \in DOMAIN workers
               PROVE  workers'[q].got <= workers'[q].wrote
    BY <1>5 DEF ReadIsWritten
  <2>1. CASE q = p
    BY <2>1, <1>1, <1>2, <1>3, <1>5 DEF ReadIsWritten, Worker, END_PART
  <2>2. CASE q # p
    BY <2>2, <1>5 DEF ReadIsWritten
  <2> QED BY <2>1, <2>2
<1>11. ReadyHasInput'
  <2> SUFFICES ASSUME NEW i \in ready
               PROVE  workers'[workers_pid[i]].got < workers'[workers_pid[i]].wrote
    BY <1>6 DEF ReadyHasInput
  <2>1. workers_pid[i] \in DOMAIN workers
    BY TableFacts DEF TableTypeOK
  <2>2. CASE workers_pid[i] = p
    BY <2>2, <1>1, <1>2, <1>3, <1>5 DEF ReadyHasInput, Worker, END_PART
  <2>3. CASE workers_pid[i] # p
    BY <2>1, <2>3, <1>5 DEF ReadyHasInput
  <2> QED BY <2>2, <2>3
<1>12. SameJobs /\ Running' = Running
  BY <1>3, <1>5, <1>6 DEF SameJobs, Running, Used
<1> QED BY <1>7, <1>8, <1>9, <1>10, <1>11, <1>12

LEMMA WorkerDiesInv ==
  ASSUME TableInv, NEW p \in DOMAIN workers, WorkerDies(p)
  PROVE  TableInv' /\ SameJobs /\ Running' = Running
<1> USE DEF TableInv
<1> DEFINE w == [workers[p] EXCEPT !.alive = FALSE]
<1>1. workers[p] \in Worker
  BY TableFacts
<1>2. /\ w \in Worker /\ w.job = workers[p].job
      /\ w.got = workers[p].got /\ w.nul = workers[p].nul /\ w.wrote = workers[p].wrote
  BY <1>1 DEF Worker
<1>3. workers' = [workers EXCEPT ![p] = w]
  BY DEF WorkerDies
<1> HIDE DEF w
<1>4. /\ workers' \in Seq(Worker)
      /\ Len(workers') = Len(workers)
      /\ DOMAIN workers' = DOMAIN workers
      /\ workers'[p] = w
      /\ \A q \in DOMAIN workers : q # p => workers'[q] = workers[q]
  BY <1>2, <1>3, UpdateWorker
<1>5. UNCHANGED <<num_workers, workers_pid, workers_buffer, buffers, ready>>
  BY DEF WorkerDies
<1>6. TableTypeOK'
  BY <1>4, <1>5 DEF TableTypeOK, Used, Token
<1>7. SlotAccounting'
  BY <1>2, <1>4, <1>5 DEF SlotAccounting, Used, Running
<1>8. NoEndIsKept'
  BY <1>5 DEF NoEndIsKept, HasEnd
<1>9. ReadIsWritten'
  BY <1>2, <1>4 DEF ReadIsWritten
<1>10. ReadyHasInput'
  BY <1>2, <1>4, <1>5, TableFacts DEF ReadyHasInput, TableTypeOK
<1>11. SameJobs /\ Running' = Running
  BY <1>2, <1>4, <1>5 DEF SameJobs, Running, Used
<1> QED BY <1>6, <1>7, <1>8, <1>9, <1>10, <1>11

(* A new worker gets the next free slot, and nothing of it has been read. *)
LEMMA AddWorkerInv ==
  ASSUME TableInv, NEW job \in Job, num_workers < WorkerLimit, AddWorker(job)
  PROVE  /\ TableInv'
         /\ Len(workers') = Len(workers) + 1
         /\ \A q \in DOMAIN workers : workers'[q] = workers[q]
         /\ workers'[Len(workers) + 1].job = job
         /\ Running' = Running \cup {Len(workers) + 1}
<1> USE DEF TableInv
<1>1. PICK o \in Outcome :
        workers' = Append(workers, [job |-> job, status |-> o.status, nul |-> o.nul,
                                    wrote |-> 0, got |-> 0, alive |-> TRUE])
  BY DEF AddWorker
<1> DEFINE w == [job |-> job, status |-> o.status, nul |-> o.nul,
                 wrote |-> 0, got |-> 0, alive |-> TRUE]
           new == Len(workers) + 1
<1>2. w \in Worker /\ w.job = job /\ w.got = 0 /\ w.wrote = 0
  BY DEF Worker, Outcome, END_PART
<1>3. workers' = Append(workers, w)
  BY <1>1
<1> HIDE DEF w
<1>4. /\ workers' \in Seq(Worker)
      /\ Len(workers') = new
      /\ DOMAIN workers' = 1..new
      /\ workers'[new] = w
      /\ \A q \in DOMAIN workers : workers'[q] = workers[q]
  BY <1>2, <1>3, AppendProperties, TableFacts, LenProperties DEF TableTypeOK
<1>5. /\ workers_pid' = [workers_pid EXCEPT ![num_workers] = new]
      /\ num_workers' = num_workers + 1
      /\ UNCHANGED <<workers_buffer, buffers, ready>>
  BY DEF AddWorker
<1>6. Len(workers) \in Nat /\ DOMAIN workers = 1..Len(workers) /\ num_workers \in Slots
  BY TableFacts, WorkerLimitAssumption DEF TableTypeOK, Slots
<1>7. /\ Used' = Used \cup {num_workers}
      /\ \A i \in Used : i \in Slots /\ i # num_workers /\ workers_pid'[i] = workers_pid[i]
      /\ workers_pid'[num_workers] = new
  <2>1. num_workers \in 0..WorkerLimit - 1 /\ WorkerLimit \in Nat
    BY <1>6, WorkerLimitAssumption DEF Slots
  <2>2. Used' = Used \cup {num_workers}
    BY <1>5, <2>1 DEF Used
  <2>3. \A i \in Used : i \in Slots /\ i # num_workers
    BY <2>1 DEF Used, Slots
  <2>4. workers_pid \in [Slots -> 0..Len(workers)]
    BY DEF TableTypeOK
  <2> QED BY <1>5, <1>6, <2>2, <2>3, <2>4
<1>8. TableTypeOK'
  <2>1. num_workers' \in 0..WorkerLimit
    BY <1>5, <1>6, WorkerLimitAssumption DEF Slots
  <2>2. workers_pid' \in [Slots -> 0..Len(workers')]
    BY <1>4, <1>5, <1>6 DEF TableTypeOK
  <2>3. \A i \in Used' : workers_pid'[i] # 0
    BY <1>6, <1>7 DEF TableTypeOK
  <2>4. ready' \subseteq Used'
    BY <1>5, <1>7 DEF TableTypeOK
  <2>5. buffers' \in [Slots -> Seq(Token')]
    <3>1. Token \subseteq Token'
      BY <1>4, <1>6 DEF Token
    <3>2. \A b \in Slots : buffers[b] \in Seq(Token')
      BY <3>1, SeqMonotonic DEF TableTypeOK
    <3> QED BY <3>2, <1>5 DEF TableTypeOK
  <2> QED BY <1>4, <1>5, <2>1, <2>2, <2>3, <2>4, <2>5 DEF TableTypeOK
<1>9. \A i \in Used : workers_pid[i] \in DOMAIN workers /\ workers_pid[i] # new
  BY <1>6, TableFacts
<1>10. SlotAccounting'
  <2>1. \A i, j \in Used' : workers_pid'[i] = workers_pid'[j] => i = j
    BY <1>7, <1>9 DEF SlotAccounting
  <2>2. Running' = Running \cup {new}
    BY <1>7 DEF Running
  <2>3. \A p \in DOMAIN workers' :
          IF p \in Running'
          THEN workers'[p].got = END_PART => workers'[p].nul
          ELSE workers'[p].got = END_PART
    BY <2>2, <1>2, <1>4, <1>6 DEF SlotAccounting, END_PART
  <2> QED BY <2>1, <2>3 DEF SlotAccounting
<1>11. NoEndIsKept'
  BY <1>5 DEF NoEndIsKept, HasEnd
<1>12. ReadIsWritten'
  BY <1>2, <1>4, <1>6 DEF ReadIsWritten
<1>13. ReadyHasInput'
  BY <1>4, <1>5, <1>7, <1>9 DEF ReadyHasInput, TableTypeOK
<1>14. Running' = Running \cup {new}
  BY <1>7 DEF Running
<1> QED BY <1>2, <1>4, <1>8, <1>10, <1>11, <1>12, <1>13, <1>14

(* poll() finds in the slots in use what has not been read. *)
LEMMA PollWorkersInv ==
  ASSUME TableInv, PollWorkers,
         UNCHANGED <<workers, num_workers, workers_pid, workers_buffer, buffers>>
  PROVE  TableInv'
<1>1. TableTypeOK'
  BY DEF TableInv, TableTypeOK, PollWorkers, Used, Token
<1>2. SlotAccounting' /\ NoEndIsKept' /\ ReadIsWritten'
  BY DEF TableInv, SlotAccounting, Used, Running, NoEndIsKept, HasEnd, ReadIsWritten
<1>3. ReadyHasInput'
  BY DEF PollWorkers, ReadyHasInput
<1> QED BY <1>1, <1>2, <1>3 DEF TableInv

-----------------------------------------------------------------------------
(* A read of a pipe.                                                       *)

(* A function on 1..m is a sequence. *)
LEMMA FunctionIsSeq ==
  ASSUME NEW S, NEW m \in Nat, NEW f \in [1..m -> S]
  PROVE  f \in Seq(S) /\ Len(f) = m
<1>1. f \in Seq(S)
  BY SeqDef
<1>2. DOMAIN f = 1..m /\ DOMAIN f = 1..Len(f) /\ Len(f) \in Nat
  BY <1>1, LenProperties
<1>3. CASE m < Len(f)
  <2>1. Len(f) \in 1..Len(f) /\ Len(f) \notin 1..m
    BY <1>2, <1>3
  <2> QED BY <2>1, <1>2
<1>4. CASE Len(f) < m
  <2>1. m \in 1..m /\ m \notin 1..Len(f)
    BY <1>2, <1>4
  <2> QED BY <2>1, <1>2
<1> QED BY <1>1, <1>2, <1>3, <1>4

(* A text ends a report if one of the two texts it is made of does. *)
LEMMA HasEndOfConcat ==
  ASSUME NEW S, NEW s \in Seq(S), NEW t \in Seq(S)
  PROVE  /\ s \o t \in Seq(S)
         /\ HasEnd(s \o t) <=> HasEnd(s) \/ HasEnd(t)
<1>1. /\ s \o t \in Seq(S)
      /\ Len(s \o t) = Len(s) + Len(t)
      /\ \A k \in 1..Len(s) + Len(t) :
           (s \o t)[k] = IF k <= Len(s) THEN s[k] ELSE t[k - Len(s)]
  BY ConcatProperties
<1>2. /\ Len(s) \in Nat /\ DOMAIN s = 1..Len(s)
      /\ Len(t) \in Nat /\ DOMAIN t = 1..Len(t)
      /\ DOMAIN (s \o t) = 1..Len(s) + Len(t)
  BY <1>1, LenProperties
<1>3. ASSUME HasEnd(s \o t) PROVE HasEnd(s) \/ HasEnd(t)
  <2>1. PICK k \in 1..Len(s) + Len(t) : (s \o t)[k].part = END_PART
    BY <1>2, <1>3 DEF HasEnd
  <2>2. CASE k <= Len(s)
    BY <2>1, <2>2, <1>1, <1>2 DEF HasEnd
  <2>3. CASE ~(k <= Len(s))
    <3>1. k - Len(s) \in 1..Len(t)
      BY <2>3, <1>2
    <3> QED BY <3>1, <2>1, <2>3, <1>1, <1>2 DEF HasEnd
  <2> QED BY <2>2, <2>3
<1>4. ASSUME HasEnd(s) PROVE HasEnd(s \o t)
  <2>1. PICK k \in 1..Len(s) : s[k].part = END_PART
    BY <1>2, <1>4 DEF HasEnd
  <2>2. k \in 1..Len(s) + Len(t) /\ k <= Len(s)
    BY <1>2
  <2> QED BY <2>1, <2>2, <1>1, <1>2 DEF HasEnd
<1>5. ASSUME HasEnd(t) PROVE HasEnd(s \o t)
  <2>1. PICK k \in 1..Len(t) : t[k].part = END_PART
    BY <1>2, <1>5 DEF HasEnd
  <2>2. /\ Len(s) + k \in 1..Len(s) + Len(t)
        /\ ~(Len(s) + k <= Len(s)) /\ (Len(s) + k) - Len(s) = k
    BY <1>2
  <2> QED BY <2>1, <2>2, <1>1, <1>2 DEF HasEnd
<1> QED BY <1>1, <1>3, <1>4, <1>5

(* What a read puts behind the text of a slot's buffer is a run of parts of
   the slot's own worker, and the buffer had no end of a report in it: so the
   text ends a report only if that worker has written all of its report, and
   without an end in it the worker's own end is not written or lost. *)
LEMMA ReadFacts ==
  ASSUME TableInv, NEW i \in ready
  PROVE  /\ Contents(i) \in Seq(Token)
         /\ HasEnd(Contents(i)) => workers[workers_pid[i]].wrote = END_PART
         /\ ~HasEnd(Contents(i)) =>
              (workers[workers_pid[i]].wrote = END_PART => workers[workers_pid[i]].nul)
<1> DEFINE p == workers_pid[i]
           w == workers[p]
           n == Kept(w) - w.got
           chunk == [k \in 1..n |-> [by |-> p, part |-> w.got + k]]
           old == buffers[workers_buffer[i]]
<1>1. i \in Slots /\ p \in DOMAIN workers /\ p \in Nat \ {0} /\ w \in Worker
  BY TableFacts DEF TableInv, TableTypeOK
<1>2. /\ w.got \in 0..6 /\ w.wrote \in 0..6
      /\ w.got < w.wrote /\ w.nul \in BOOLEAN
  BY <1>1 DEF Worker, TableInv, ReadyHasInput, END_PART
<1>3. /\ Kept(w) \in 1..6 /\ w.got < Kept(w)
      /\ Kept(w) = 6 => w.wrote = 6
      /\ w.wrote = 6 => Kept(w) = 6 \/ w.nul
  <2>1. CASE w.nul /\ w.got < DETAILS_PART /\ DETAILS_PART < w.wrote
    BY <2>1, <1>2 DEF Kept, DETAILS_PART
  <2>2. CASE ~(w.nul /\ w.got < DETAILS_PART /\ DETAILS_PART < w.wrote)
    BY <2>2, <1>2 DEF Kept, DETAILS_PART
  <2> QED BY <2>1, <2>2
<1>4. n \in 1..6
  BY <1>2, <1>3
<1>5. chunk \in [1..n -> Token]
  <2>1. \A k \in 1..n : w.got + k \in PARTS
    BY <1>2, <1>3 DEF PARTS
  <2> QED BY <2>1, <1>1 DEF Token
<1>6. chunk \in Seq(Token)
  <2> HIDE DEF chunk, n
  <2> QED BY <1>4, <1>5, FunctionIsSeq
<1>7. HasEnd(chunk) <=> Kept(w) = 6
  <2>1. HasEnd(chunk) <=> \E k \in 1..n : w.got + k = 6
    BY DEF HasEnd, END_PART
  <2> QED BY <2>1, <1>2, <1>3
<1>8. old \in Seq(Token) /\ ~HasEnd(old)
  BY <1>1 DEF TableInv, TableTypeOK, NoEndIsKept
<1>9. Contents(i) = old \o chunk
  BY DEF Contents
<1> HIDE DEF chunk, old
<1> QED BY <1>3, <1>6, <1>7, <1>8, <1>9, HasEndOfConcat DEF END_PART

(* The worker whose pipe was read has nothing left to read, the others are
   as they were. *)
LEMMA MarkReadFacts ==
  ASSUME TableInv, NEW i \in ready, MarkRead(i)
  PROVE  /\ workers' \in Seq(Worker)
         /\ Len(workers') = Len(workers)
         /\ DOMAIN workers' = DOMAIN workers
         /\ workers'[workers_pid[i]].got = workers[workers_pid[i]].wrote
         /\ workers'[workers_pid[i]].wrote = workers[workers_pid[i]].wrote
         /\ workers'[workers_pid[i]].nul = workers[workers_pid[i]].nul
         /\ \A q \in DOMAIN workers : q # workers_pid[i] => workers'[q] = workers[q]
         /\ SameJobs
<1> DEFINE p == workers_pid[i]
           w == [workers[p] EXCEPT !.got = workers[p].wrote]
<1>1. p \in DOMAIN workers /\ workers[p] \in Worker
  BY TableFacts DEF TableInv, TableTypeOK
<1>2. /\ w \in Worker /\ w.job = workers[p].job
      /\ w.got = workers[p].wrote /\ w.wrote = workers[p].wrote /\ w.nul = workers[p].nul
  BY <1>1 DEF Worker
<1>3. workers' = [workers EXCEPT ![p] = w]
  BY DEF MarkRead
<1> HIDE DEF w
<1>4. /\ workers' \in Seq(Worker)
      /\ Len(workers') = Len(workers)
      /\ DOMAIN workers' = DOMAIN workers
      /\ workers'[p] = w
      /\ \A q \in DOMAIN workers : q # p => workers'[q] = workers[q]
  BY <1>1, <1>2, <1>3, UpdateWorker DEF TableInv
<1>5. SameJobs
  BY <1>1, <1>2, <1>4 DEF SameJobs
<1> QED BY <1>2, <1>4, <1>5

(* A chunk that does not end a report is kept in the slot's buffer. *)
LEMMA KeepTextInv ==
  ASSUME TableInv, NEW i \in ready, ~HasEnd(Contents(i)), MarkRead(i), KeepText(i)
  PROVE  TableInv'
<1> USE DEF TableInv
<1> DEFINE p == workers_pid[i]
<1>1. /\ workers' \in Seq(Worker)
      /\ Len(workers') = Len(workers)
      /\ DOMAIN workers' = DOMAIN workers
      /\ workers'[p].got = workers[p].wrote
      /\ workers'[p].wrote = workers[p].wrote
      /\ workers'[p].nul = workers[p].nul
      /\ \A q \in DOMAIN workers : q # p => workers'[q] = workers[q]
  BY MarkReadFacts
<1>2. /\ buffers' = [buffers EXCEPT ![workers_buffer[i]] = Contents(i)]
      /\ ready' = ready \ {i}
      /\ UNCHANGED <<num_workers, workers_pid, workers_buffer>>
  BY DEF KeepText
<1>3. /\ Contents(i) \in Seq(Token)
      /\ workers[p].wrote = END_PART => workers[p].nul
  BY ReadFacts
<1>4. \A j \in Used : workers_pid[j] \in DOMAIN workers
  BY TableFacts
<1>5. i \in Used /\ p \in DOMAIN workers /\ p \in Running /\ workers[p] \in Worker
  BY <1>4, TableFacts DEF TableTypeOK, Running
<1>6. TableTypeOK'
  BY <1>1, <1>2, <1>3 DEF TableTypeOK, Used, Token
<1>7. SlotAccounting'
  <2>1. Used' = Used /\ Running' = Running
    BY <1>2 DEF Used, Running
  <2>2. \A q \in DOMAIN workers : q # p =>
          IF q \in Running'
          THEN workers'[q].got = END_PART => workers'[q].nul
          ELSE workers'[q].got = END_PART
    BY <1>1, <2>1 DEF SlotAccounting
  <2>3. workers'[p].got = END_PART => workers'[p].nul
    BY <1>1, <1>3
  <2> QED BY <1>1, <1>2, <1>5, <2>1, <2>2, <2>3 DEF SlotAccounting
<1>8. NoEndIsKept'
  BY <1>2 DEF NoEndIsKept, HasEnd, TableTypeOK
<1>9. ReadIsWritten'
  BY <1>1, <1>5 DEF ReadIsWritten, Worker, END_PART
<1>10. ReadyHasInput'
  <2> SUFFICES ASSUME NEW j \in ready, j # i
               PROVE  workers'[workers_pid[j]].got < workers'[workers_pid[j]].wrote
    BY <1>2 DEF ReadyHasInput
  <2>1. j \in Used /\ workers_pid[j] # p /\ workers_pid[j] \in DOMAIN workers
    BY <1>4, <1>5 DEF TableTypeOK, SlotAccounting
  <2> QED BY <2>1, <1>1 DEF ReadyHasInput
<1> QED BY <1>6, <1>7, <1>8, <1>9, <1>10

(* A worker whose report is complete leaves its slot to the worker of the
   last slot in use. *)
LEMMA RetireSlotInv ==
  ASSUME TableInv, NEW i \in ready, HasEnd(Contents(i)), MarkRead(i), RetireSlot(i)
  PROVE  /\ TableInv'
         /\ Running' = Running \ {workers_pid[i]}
<1> USE DEF TableInv
<1> DEFINE p == workers_pid[i]
           last == num_workers - 1
<1>1. /\ workers' \in Seq(Worker)
      /\ Len(workers') = Len(workers)
      /\ DOMAIN workers' = DOMAIN workers
      /\ workers'[p].got = workers[p].wrote
      /\ workers'[p].wrote = workers[p].wrote
      /\ \A q \in DOMAIN workers : q # p => workers'[q] = workers[q]
  BY MarkReadFacts
<1>2. /\ workers_pid' = [workers_pid EXCEPT ![i] = workers_pid[last], ![last] = p]
      /\ workers_buffer' = [workers_buffer EXCEPT ![i] = workers_buffer[last],
                                                  ![num_workers] = workers_buffer[i]]
      /\ buffers' = [buffers EXCEPT ![workers_buffer[i]] = <<>>]
      /\ num_workers' = last
      /\ ready' = {j \in ready : i < j /\ j < last}
  BY DEF RetireSlot
<1>3. workers[p].wrote = END_PART
  BY ReadFacts
<1>4. \A j \in Used : j \in Slots /\ workers_pid[j] \in DOMAIN workers
  BY TableFacts
<1>5. i \in Used /\ p \in DOMAIN workers /\ workers[p] \in Worker
  BY <1>4, TableFacts DEF TableTypeOK
<1>6. /\ num_workers \in 1..WorkerLimit /\ WorkerLimit \in Nat
      /\ i \in 0..last /\ last \in Used /\ last \in Slots /\ i \in Slots
      /\ Used' = 0..last - 1
      /\ Used = Used' \cup {last}
  <2>1. num_workers \in 0..WorkerLimit /\ WorkerLimit \in Nat
    BY WorkerLimitAssumption DEF TableTypeOK
  <2>2. i \in 0..num_workers - 1
    BY <1>5 DEF Used
  <2> QED BY <1>2, <2>1, <2>2 DEF Used, Slots
<1>7. /\ \A j \in Slots : j # i /\ j # last => workers_pid'[j] = workers_pid[j]
      /\ i # last => workers_pid'[i] = workers_pid[last]
      /\ workers_pid'[last] = p
  BY <1>2, <1>6 DEF TableTypeOK
<1>8. TableTypeOK'
  <2>1. num_workers' \in 0..WorkerLimit
    BY <1>2, <1>6
  <2>2. workers_pid' \in [Slots -> 0..Len(workers')]
    BY <1>1, <1>2, <1>6 DEF TableTypeOK
  <2>3. /\ workers_buffer' \in [0..WorkerLimit -> 0..WorkerLimit]
        /\ \A j \in Slots : workers_buffer'[j] \in Slots
    <3>1. /\ workers_buffer[i] \in Slots /\ workers_buffer[last] \in Slots
          /\ \A j \in Slots : workers_buffer[j] \in Slots
      BY <1>6 DEF TableTypeOK
    <3>2. Slots \subseteq 0..WorkerLimit
      BY <1>6 DEF Slots
    <3>3. /\ workers_buffer' \in [0..WorkerLimit -> 0..WorkerLimit]
          /\ \A j \in 0..WorkerLimit :
               workers_buffer'[j] \in {workers_buffer[i], workers_buffer[last], workers_buffer[j]}
      BY <1>2, <3>1, <3>2 DEF TableTypeOK
    <3> QED BY <3>1, <3>2, <3>3
  <2>4. buffers' \in [Slots -> Seq(Token')]
    BY <1>1, <1>2, EmptySeq DEF TableTypeOK, Token
  <2>5. ready' \subseteq Used'
    <3> SUFFICES ASSUME NEW j \in ready, i < j, j < last
                 PROVE  j \in 0..last - 1
      BY <1>2, <1>6
    <3>1. j \in 0..num_workers - 1
      BY DEF TableTypeOK, Used
    <3> QED BY <3>1, <1>6
  <2>6. \A j \in Used' : workers_pid'[j] # 0
    BY <1>4, <1>6, <1>7 DEF TableTypeOK
  <2> QED BY <1>1, <2>1, <2>2, <2>3, <2>4, <2>5, <2>6 DEF TableTypeOK
<1>9. Running' = Running \ {p}
  <2>1. \A j \in Used' : workers_pid'[j] \in Running /\ workers_pid'[j] # p
    <3> SUFFICES ASSUME NEW j \in Used'
                 PROVE  workers_pid'[j] \in Running /\ workers_pid'[j] # p
      OBVIOUS
    <3>1. j \in Used /\ j # last /\ j \in Slots
      BY <1>4, <1>6
    <3>2. CASE j = i
      BY <3>1, <3>2, <1>5, <1>6, <1>7 DEF SlotAccounting, Running
    <3>3. CASE j # i
      BY <3>1, <3>3, <1>5, <1>7 DEF SlotAccounting, Running
    <3> QED BY <3>2, <3>3
  <2>2. \A q \in Running \ {p} : \E j \in Used' : workers_pid'[j] = q
    <3> SUFFICES ASSUME NEW j \in Used, workers_pid[j] # p
                 PROVE  \E k \in Used' : workers_pid'[k] = workers_pid[j]
      BY DEF Running
    <3>1. j # i /\ j \in Slots
      BY <1>4
    <3>2. CASE j = last
      <4>1. i \in Used'
        BY <3>1, <3>2, <1>5, <1>6
      <4> QED BY <4>1, <3>1, <3>2, <1>7
    <3>3. CASE j # last
      BY <3>1, <3>3, <1>6, <1>7
    <3> QED BY <3>2, <3>3
  <2> QED BY <2>1, <2>2 DEF Running
<1>10. SlotAccounting'
  <2>1. \A j, k \in Used' : workers_pid'[j] = workers_pid'[k] => j = k
    <3> SUFFICES ASSUME NEW j \in Used', NEW k \in Used', workers_pid'[j] = workers_pid'[k]
                 PROVE  j = k
      OBVIOUS
    <3>1. j \in Used /\ j # last /\ j \in Slots /\ k \in Used /\ k # last /\ k \in Slots
      BY <1>4, <1>6
    <3> QED BY <3>1, <1>6, <1>7 DEF SlotAccounting
  <2>2. \A q \in DOMAIN workers : q # p =>
          IF q \in Running'
          THEN workers'[q].got = END_PART => workers'[q].nul
          ELSE workers'[q].got = END_PART
    BY <1>1, <1>9 DEF SlotAccounting
  <2>3. p \notin Running' /\ workers'[p].got = END_PART
    BY <1>1, <1>3, <1>9
  <2> QED BY <1>1, <2>1, <2>2, <2>3 DEF SlotAccounting
<1>11. NoEndIsKept'
  BY <1>2 DEF NoEndIsKept, HasEnd, TableTypeOK
<1>12. ReadIsWritten'
  BY <1>1, <1>5 DEF ReadIsWritten, Worker, END_PART
<1>13. ReadyHasInput'
  <2> SUFFICES ASSUME NEW j \in ready, i < j, j < last
               PROVE  workers'[workers_pid'[j]].got < workers'[workers_pid'[j]].wrote
    BY <1>2 DEF ReadyHasInput
  <2>1. j \in Used /\ j # i /\ j # last
    BY <1>6 DEF TableTypeOK, Used
  <2>2. workers_pid'[j] = workers_pid[j] /\ workers_pid[j] # p /\ workers_pid[j] \in DOMAIN workers
    BY <2>1, <1>4, <1>5, <1>7 DEF SlotAccounting
  <2> QED BY <2>2, <1>1 DEF ReadyHasInput
<1> QED BY <1>8, <1>9, <1>10, <1>11, <1>12, <1>13
=============================================================================
