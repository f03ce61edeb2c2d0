-------------------------- MODULE ConfigReportProofs --------------------------
(***************************************************************************)
(* What the manager concludes from reports in the loop over the config     *)
(* file while no two slots have read into one buffer, for any number of    *)
(* slots, any faults, any cuts of the reports and any names: the texts are *)
(* put together from the pieces of one worker, so the status of a          *)
(* directory is its own worker's, is_in_workers says who runs, and the     *)
(* process ends for the reasons EndsWhileApart names only.  Once a buffer  *)
(* is shared none of this holds: see config_shared_buffer.                 *)
(***************************************************************************)
EXTENDS ConfigReports, ConfigPhaseProofs

-----------------------------------------------------------------------------
(* The texts in the buffers.                                               *)

(* The text of a report of which parts up to got have been read.  A NUL may
   hide what follows the counts, nothing before them. *)
Begins(text, got) ==
  /\ got <= DETAILS_PART => Len(text) = got
  /\ got > DETAILS_PART => Len(text) >= DETAILS_PART
  /\ \A k \in DOMAIN text :
       IF k <= STATUS_PART THEN text[k].part = k ELSE text[k].part > STATUS_PART

ReportOf(text, p, got) == (\A k \in DOMAIN text : text[k].by = p) /\ Begins(text, got)

(* The buffer of slot i holds what has been read of its worker's report. *)
Whole(i) ==
  ReportOf(buffers[workers_buffer[i]], workers_pid[i], workers[workers_pid[i]].got)

(* So does every slot's, each its own, and the other buffers are empty. *)
ReportInv ==
  /\ BuffersApart
  /\ \A i \in Used : Whole(i)
  /\ \A b \in Slots : (\A i \in Used : workers_buffer[i] # b) => buffers[b] = <<>>

(* The slots in use and what they refer to. *)
LEMMA UsedFacts ==
  ASSUME TableInv, NEW i \in Used
  PROVE  /\ i \in Slots /\ i \in Nat /\ num_workers \in Nat
         /\ workers_pid[i] \in DOMAIN workers /\ workers[workers_pid[i]] \in Worker
         /\ workers_buffer[i] \in Slots /\ buffers[workers_buffer[i]] \in Seq(Token)
<1>1. i \in Slots /\ workers_pid[i] \in DOMAIN workers /\ workers[workers_pid[i]] \in Worker
  BY TableFacts DEF TableInv
<1>2. i \in Nat /\ num_workers \in Nat
  BY DEF Used, TableInv, TableTypeOK
<1>3. workers_buffer[i] \in Slots
  BY <1>1 DEF TableInv, TableTypeOK
<1>4. buffers[workers_buffer[i]] \in Seq(Token)
  BY <1>3 DEF TableInv, TableTypeOK
<1> QED BY <1>1, <1>2, <1>3, <1>4

(* A read continues the text of the slot's worker. *)
LEMMA ReadContinues ==
  ASSUME TableInv, ReportInv, NEW i \in ready
  PROVE  ReportOf(Contents(i), workers_pid[i], workers[workers_pid[i]].wrote)
<1> DEFINE p == workers_pid[i]
           w == workers[p]
           n == Kept(w) - w.got
           chunk == [k \in 1..n |-> [by |-> p, part |-> w.got + k]]
           old == buffers[workers_buffer[i]]
           text == Contents(i)
<1>1. i \in Used /\ p \in DOMAIN workers /\ w \in Worker /\ old \in Seq(Token)
  BY UsedFacts DEF TableInv, TableTypeOK
<1>2. ReportOf(old, p, w.got)
  BY <1>1 DEF ReportInv, Whole
<1>3. w.got \in 0..6 /\ w.wrote \in 0..6 /\ w.got < w.wrote /\ w.nul \in BOOLEAN
  BY <1>1 DEF Worker, TableInv, ReadyHasInput, END_PART
<1>4. /\ Kept(w) \in 1..6 /\ w.got < Kept(w)
      /\ (w.wrote <= 4 \/ w.got >= 4) => Kept(w) = w.wrote
      /\ (w.wrote > 4 /\ w.got < 4) => Kept(w) >= 4
  <2>1. CASE w.nul /\ w.got < DETAILS_PART /\ DETAILS_PART < w.wrote
    BY <2>1, <1>3 DEF Kept, DETAILS_PART
  <2>2. CASE ~(w.nul /\ w.got < DETAILS_PART /\ DETAILS_PART < w.wrote)
    BY <2>2, <1>3 DEF Kept, DETAILS_PART
  <2> QED BY <2>1, <2>2
<1>5. n \in 1..6
  BY <1>3, <1>4
<1>6. p \in Nat /\ w.got \in Nat
  BY <1>1, <1>3, TableFacts DEF TableInv
<1>7. chunk \in [1..n -> [by : Nat, part : Nat]]
  BY <1>6
<1>8. /\ DOMAIN chunk = 1..n
      /\ \A k \in 1..n : chunk[k].by = p /\ chunk[k].part = w.got + k
  OBVIOUS
<1>9. text = old \o chunk
  BY DEF Contents
<1> HIDE DEF chunk, text, n, old, w, p
<1>10. chunk \in Seq([by : Nat, part : Nat]) /\ Len(chunk) = n
  <2>1. n \in Nat
    BY <1>5
  <2> QED BY <2>1, <1>7, FunctionIsSeq
<1>11. old \in Seq([by : Nat, part : Nat])
  <2>1. Token \subseteq [by : Nat, part : Nat]
    BY TableFacts DEF Token, TableInv, PARTS
  <2> QED BY <1>1, <2>1, SeqMonotonic
<1>12. /\ text \in Seq([by : Nat, part : Nat]) /\ Len(text) = Len(old) + n
       /\ \A k \in 1..Len(old) + n :
            text[k] = IF k <= Len(old) THEN old[k] ELSE chunk[k - Len(old)]
  <2>1. /\ old \o chunk \in Seq([by : Nat, part : Nat])
        /\ Len(old \o chunk) = Len(old) + Len(chunk)
        /\ \A k \in 1..Len(old) + Len(chunk) :
             (old \o chunk)[k] = IF k <= Len(old) THEN old[k] ELSE chunk[k - Len(old)]
    BY <1>10, <1>11, ConcatProperties
  <2> QED BY <2>1, <1>9, <1>10
<1>13. /\ DOMAIN text = 1..Len(old) + n /\ DOMAIN old = 1..Len(old) /\ Len(old) \in Nat
  BY <1>11, <1>12, LenProperties
<1>14. /\ w.got <= 4 => Len(old) = w.got
       /\ w.got > 4 => Len(old) >= 4
       /\ \A k \in 1..Len(old) :
            /\ old[k].by = p
            /\ IF k <= 3 THEN old[k].part = k ELSE old[k].part > 3
  BY <1>2, <1>13 DEF ReportOf, Begins, DETAILS_PART, STATUS_PART
<1>15. /\ w.wrote <= 4 => Len(text) = w.wrote
       /\ w.wrote > 4 => Len(text) >= 4
  <2>1. Len(text) = Len(old) + Kept(w) - w.got /\ Len(old) \in Nat
    BY <1>3, <1>4, <1>12, <1>13 DEF n
  <2>2. w.got \in 0..6 /\ w.wrote \in 0..6 /\ w.got < w.wrote /\ Kept(w) \in 1..6
    BY <1>3, <1>4
  <2>3. ASSUME w.wrote <= 4 PROVE Len(text) = w.wrote
    <3>1. Kept(w) = w.wrote /\ Len(old) = w.got
      BY <2>2, <2>3, <1>4, <1>14
    <3> QED BY <3>1, <2>1, <2>2
  <2>4. ASSUME w.wrote > 4 PROVE Len(text) >= 4
    <3>1. CASE w.got < 4
      <4>1. Kept(w) >= 4 /\ Len(old) = w.got
        BY <3>1, <2>2, <2>4, <1>4, <1>14
      <4> QED BY <4>1, <2>1, <2>2
    <3>2. CASE w.got >= 4
      <4>1. Len(old) >= 4 /\ Kept(w) > w.got
        BY <3>2, <2>1, <2>2, <1>4, <1>14
      <4> QED BY <4>1, <2>1, <2>2
    <3> QED BY <3>1, <3>2, <2>2
  <2> QED BY <2>3, <2>4
<1>16. ASSUME NEW k \in 1..Len(old) + n
       PROVE  text[k].by = p /\ IF k <= 3 THEN text[k].part = k ELSE text[k].part > 3
  <2>1. CASE k <= Len(old)
    BY <2>1, <1>12, <1>13, <1>14
  <2>2. CASE ~(k <= Len(old))
    <3>1. k - Len(old) \in 1..n
      BY <2>2, <1>5, <1>13
    <3>2. text[k].by = p /\ text[k].part = w.got + (k - Len(old))
      BY <3>1, <2>2, <1>8, <1>12
    <3>3. CASE w.got <= 4
      BY <3>1, <3>2, <3>3, <1>3, <1>13, <1>14
    <3>4. CASE w.got > 4
      <4>1. k > 4 /\ w.got + (k - Len(old)) > 3
        BY <2>2, <3>1, <3>4, <1>3, <1>13, <1>14
      <4> QED BY <3>2, <4>1
    <3> QED BY <3>3, <3>4, <1>3
  <2> QED BY <2>1, <2>2, <1>13
<1> QED
  BY <1>13, <1>15, <1>16 DEF ReportOf, Begins, DETAILS_PART, STATUS_PART, text, p, w

(* A report that is complete is read for what its worker wrote. *)
LEMMA ReportIsOwn ==
  ASSUME TableInv, ReportInv, NEW i \in ready, HasEnd(Contents(i))
  PROVE  LET p == workers_pid[i]
         IN /\ StatusWriters(Contents(i)) = {p}
            /\ Sources(Contents(i)) = {workers[p].job.src}
            /\ Operations(Contents(i)) = {workers[p].job.op}
            /\ ~MayCrash(Contents(i))
<1> DEFINE p == workers_pid[i]
           text == Contents(i)
<1>1. workers[p].wrote = END_PART
  BY ReadFacts
<1>2. ReportOf(text, p, workers[p].wrote)
  BY ReadContinues
<1>3. text \in Seq(Token)
  BY ReadFacts
<1> HIDE DEF text
<1>4. /\ DOMAIN text = 1..Len(text) /\ Len(text) \in Nat /\ Len(text) >= 4
      /\ \A k \in DOMAIN text :
           text[k].by = p /\ IF k <= 3 THEN text[k].part = k ELSE text[k].part > 3
  BY <1>1, <1>2, <1>3, LenProperties
  DEF ReportOf, Begins, DETAILS_PART, STATUS_PART, END_PART
<1>5. ASSUME NEW part \in 1..3
      PROVE  FieldAt(text, part) = {part} /\ WriterOf(text, part) = {p}
  <2>1. \A k \in DOMAIN text : text[k].part = part => k = part
    BY <1>4
  <2>2. part \in DOMAIN text /\ text[part].part = part /\ text[part].by = p
    BY <1>4
  <2>3. ~InErrors(text, part)
    <3>1. \A j \in 1..part - 1 : j \in DOMAIN text /\ j <= 3
      BY <1>4
    <3> QED BY <3>1, <1>4 DEF InErrors, ERRORS_PART
  <2>4. FieldAt(text, part) = {part}
    BY <2>1, <2>2, <2>3 DEF FieldAt
  <2>5. {k \in FieldAt(text, part) : \A j \in FieldAt(text, part) : j <= k} = {part}
    BY <2>4
  <2>6. WriterOf(text, part) = {text[part].by}
    BY <2>5 DEF WriterOf
  <2> QED BY <2>2, <2>4, <2>6
<1>6. /\ ~Missing(text, 1) /\ ~Missing(text, 2) /\ ~Missing(text, 3)
      /\ WriterOf(text, 1) = {p} /\ WriterOf(text, 2) = {p} /\ WriterOf(text, 3) = {p}
  BY <1>5 DEF Missing
<1>7. StatusWriters(text) = {p}
  BY <1>6 DEF StatusWriters, STATUS_PART
<1>8. Sources(text) = {workers[p].job.src}
  BY <1>6 DEF Sources, SOURCE_PART
<1>9. Operations(text) = {workers[p].job.op}
  BY <1>6 DEF Operations, OPERATION_PART
<1>10. ~MayCrash(text)
  BY <1>6 DEF MayCrash, SOURCE_PART, OPERATION_PART, STATUS_PART
<1> QED BY <1>7, <1>8, <1>9, <1>10 DEF text

(* Steps that read no pipe and start no worker. *)
LEMMA QuietReport ==
  ASSUME TableInv, ReportInv,
         UNCHANGED <<num_workers, workers_pid, workers_buffer, buffers>>,
         \A p \in DOMAIN workers : workers'[p].got = workers[p].got
  PROVE  ReportInv'
<1>1. \A i \in Used : workers_pid[i] \in DOMAIN workers
  BY UsedFacts
<1>2. Used' = Used
  BY DEF Used
<1>3. \A i \in Used' : Whole(i)'
  BY <1>1, <1>2 DEF ReportInv, Whole, ReportOf
<1> QED BY <1>2, <1>3 DEF ReportInv, BuffersApart

LEMMA WorkerStepReport ==
  ASSUME TableInv, ReportInv, WorkerStep
  PROVE  ReportInv'
<1>1. PICK p \in DOMAIN workers : WorkerWrite(p) \/ WorkerDies(p)
  BY DEF WorkerStep
<1>2. \A q \in DOMAIN workers : workers[q] \in Worker
  BY TableFacts DEF TableInv
<1>3. CASE WorkerWrite(p)
  <2>1. PICK n \in Cuts : workers' = [workers EXCEPT ![p].wrote = n]
    BY <1>3 DEF WorkerWrite
  <2>2. \A q \in DOMAIN workers : workers'[q].got = workers[q].got
    BY <2>1, <1>2 DEF Worker
  <2> QED BY <2>2, <1>3, QuietReport DEF WorkerWrite
<1>4. CASE WorkerDies(p)
  <2>1. workers' = [workers EXCEPT ![p].alive = FALSE]
    BY <1>4 DEF WorkerDies
  <2>2. \A q \in DOMAIN workers : workers'[q].got = workers[q].got
    BY <2>1, <1>2 DEF Worker
  <2> QED BY <2>2, <1>4, QuietReport DEF WorkerDies
<1> QED BY <1>1, <1>3, <1>4

LEMMA DrainChunkReport ==
  ASSUME TableInv, ReportInv, NEW i \in ready, DrainChunk(i)
  PROVE  ReportInv'
<1>1. /\ workers'[workers_pid[i]].got = workers[workers_pid[i]].wrote
      /\ \A q \in DOMAIN workers : q # workers_pid[i] => workers'[q] = workers[q]
  BY MarkReadFacts DEF DrainChunk
<1>2. /\ buffers' = [buffers EXCEPT ![workers_buffer[i]] = Contents(i)]
      /\ UNCHANGED <<num_workers, workers_pid, workers_buffer>>
  BY DEF DrainChunk, KeepText
<1>3. Used' = Used /\ i \in Used
  BY <1>2 DEF Used, TableInv, TableTypeOK
<1>4. ReportOf(Contents(i), workers_pid[i], workers[workers_pid[i]].wrote)
  BY ReadContinues
<1>5. ASSUME NEW j \in Used PROVE Whole(j)'
  <2>1. CASE j = i
    <3>1. buffers'[workers_buffer[i]] = Contents(i)
      BY <1>2, <1>3, UsedFacts DEF TableInv, TableTypeOK
    <3> QED BY <2>1, <3>1, <1>1, <1>2, <1>4 DEF Whole
  <2>2. CASE j # i
    <3>1. workers_buffer[j] # workers_buffer[i] /\ workers_pid[j] # workers_pid[i]
      BY <2>2, <1>3 DEF ReportInv, BuffersApart, TableInv, SlotAccounting
    <3>2. buffers'[workers_buffer[j]] = buffers[workers_buffer[j]]
      BY <3>1, <1>2, UsedFacts DEF TableInv, TableTypeOK
    <3>3. workers'[workers_pid[j]] = workers[workers_pid[j]]
      BY <3>1, <1>1, UsedFacts
    <3> QED BY <3>2, <3>3, <1>2 DEF ReportInv, Whole
  <2> QED BY <2>1, <2>2
<1>6. ASSUME NEW b \in Slots, \A j \in Used : workers_buffer[j] # b PROVE buffers'[b] = <<>>
  <2>1. buffers[b] = <<>> /\ b # workers_buffer[i]
    BY <1>3, <1>6 DEF ReportInv
  <2> QED BY <2>1, <1>2 DEF TableInv, TableTypeOK
<1>7. BuffersApart'
  BY <1>2, <1>3 DEF ReportInv, BuffersApart
<1> QED BY <1>2, <1>3, <1>5, <1>6, <1>7 DEF ReportInv

(* The slot of a complete report: its buffer is emptied, and the last slot
   brings its worker and its buffer along. *)
LEMMA DrainReportReport ==
  ASSUME TableInv, ReportInv, NEW i \in ready, DrainReport(i, Operation)
  PROVE  ReportInv'
<1> DEFINE last == num_workers - 1
           bi == workers_buffer[i]
<1>1. \A q \in DOMAIN workers : q # workers_pid[i] => workers'[q] = workers[q]
  BY MarkReadFacts DEF DrainReport
<1>2. /\ workers_pid' = [workers_pid EXCEPT ![i] = workers_pid[last], ![last] = workers_pid[i]]
      /\ workers_buffer' = [workers_buffer EXCEPT ![i] = workers_buffer[last],
                                                  ![num_workers] = bi]
      /\ buffers' = [buffers EXCEPT ![bi] = <<>>]
      /\ num_workers' = last
  BY DEF DrainReport, RetireSlot
<1>3. /\ i \in Used /\ i \in Nat /\ num_workers \in 1..WorkerLimit /\ i < num_workers
      /\ WorkerLimit \in Nat
  BY WorkerLimitAssumption DEF TableInv, TableTypeOK, Used
<1>4. /\ last \in Used /\ Used' = Used \ {last} /\ i <= last /\ last \in Nat
      /\ \A j \in Used : j \in Slots /\ j \in 0..WorkerLimit /\ j # num_workers
      /\ num_workers \in 0..WorkerLimit
  BY <1>2, <1>3 DEF Used, Slots
<1>5. /\ workers_pid \in [Slots -> 0..Len(workers)]
      /\ workers_buffer \in [0..WorkerLimit -> 0..WorkerLimit]
      /\ buffers \in [Slots -> Seq(Token)] /\ bi \in Slots
  BY <1>3, UsedFacts DEF TableInv, TableTypeOK
<1> HIDE DEF last, bi
<1>6. ASSUME NEW j \in Used'
      PROVE  /\ j \in Used /\ j # last
             /\ j # i => workers_pid'[j] = workers_pid[j] /\ workers_buffer'[j] = workers_buffer[j]
             /\ j = i => /\ workers_pid'[j] = workers_pid[last]
                         /\ workers_buffer'[j] = workers_buffer[last]
  BY <1>2, <1>3, <1>4, <1>5
<1>7. ASSUME NEW j \in Used, j # i
      PROVE  /\ workers_buffer[j] # bi /\ buffers'[workers_buffer[j]] = buffers[workers_buffer[j]]
             /\ workers'[workers_pid[j]] = workers[workers_pid[j]]
  <2>1. workers_buffer[j] # bi /\ workers_pid[j] # workers_pid[i]
    BY <1>3, <1>7 DEF ReportInv, BuffersApart, TableInv, SlotAccounting, bi
  <2>2. workers_buffer[j] \in Slots /\ workers_pid[j] \in DOMAIN workers
    BY UsedFacts
  <2> QED BY <2>1, <2>2, <1>1, <1>2, <1>5
<1>8. ASSUME NEW j \in Used' PROVE Whole(j)'
  <2>1. CASE j # i
    BY <2>1, <1>6, <1>7 DEF ReportInv, Whole
  <2>2. CASE j = i
    <3>1. last # i /\ last \in Used
      BY <2>2, <1>4, <1>6
    <3>2. Whole(last)
      BY <3>1 DEF ReportInv
    <3> QED BY <2>2, <3>1, <3>2, <1>6, <1>7 DEF Whole
  <2> QED BY <2>1, <2>2
<1>9. ASSUME NEW b \in Slots, \A j \in Used' : workers_buffer'[j] # b PROVE buffers'[b] = <<>>
  <2>1. CASE b = bi
    BY <2>1, <1>2, <1>5
  <2>2. CASE b # bi
    <3>1. ASSUME NEW j \in Used PROVE workers_buffer[j] # b
      <4>1. CASE j = i
        BY <4>1, <2>2 DEF bi
      <4>2. CASE j # i /\ j # last
        BY <4>2, <1>4, <1>6, <1>9
      <4>3. CASE j # i /\ j = last
        <5>1. i \in Used'
          BY <4>3, <1>3, <1>4
        <5> QED BY <4>3, <5>1, <1>6, <1>9
      <4> QED BY <4>1, <4>2, <4>3
    <3>2. buffers[b] = <<>>
      BY <3>1 DEF ReportInv
    <3> QED BY <3>2, <2>2, <1>2, <1>5
  <2> QED BY <2>1, <2>2
<1>10. ASSUME NEW j \in Used', NEW k \in Used', workers_buffer'[j] = workers_buffer'[k]
       PROVE  j = k
  <2>1. \A m, n \in Used : workers_buffer[m] = workers_buffer[n] => m = n
    BY DEF ReportInv, BuffersApart
  <2>2. CASE j # i /\ k # i
    BY <2>1, <2>2, <1>6, <1>10
  <2>3. CASE j = i /\ k # i
    BY <2>1, <2>3, <1>4, <1>6, <1>10
  <2>4. CASE j # i /\ k = i
    BY <2>1, <2>4, <1>4, <1>6, <1>10
  <2> QED BY <2>2, <2>3, <2>4
<1> QED BY <1>8, <1>9, <1>10 DEF ReportInv, BuffersApart

(* A new worker in a slot whose buffer no other slot has: the buffer is empty. *)
LEMMA AddWorkerReport ==
  ASSUME TableInv, ReportInv, BuffersApart', NEW job \in Job, HasRoom, AddWorker(job)
  PROVE  ReportInv'
<1> DEFINE new == Len(workers) + 1
           w == workers'[new]
<1>1. /\ workers_pid' = [workers_pid EXCEPT ![num_workers] = new]
      /\ num_workers' = num_workers + 1
      /\ UNCHANGED <<workers_buffer, buffers>>
  BY DEF AddWorker
<1>2. \A q \in DOMAIN workers : workers'[q] = workers[q]
  BY AddWorkerInv DEF HasRoom
<1>3. w.got = 0
  <2>1. PICK o \in Outcome :
          workers' = Append(workers, [job |-> job, status |-> o.status, nul |-> o.nul,
                                      wrote |-> 0, got |-> 0, alive |-> TRUE])
    BY DEF AddWorker
  <2>2. workers \in Seq(Worker)
    BY DEF TableInv, TableTypeOK
  <2>3. [job |-> job, status |-> o.status, nul |-> o.nul,
         wrote |-> 0, got |-> 0, alive |-> TRUE] \in Worker
    BY DEF Worker, Outcome, END_PART
  <2>4. w = [job |-> job, status |-> o.status, nul |-> o.nul,
             wrote |-> 0, got |-> 0, alive |-> TRUE]
    BY <2>1, <2>2, <2>3, AppendProperties
  <2> QED BY <2>4
<1>4. /\ num_workers \in Slots /\ num_workers \in Nat
      /\ Used' = Used \cup {num_workers}
      /\ \A j \in Used : j # num_workers /\ j \in Slots
  <2>1. num_workers \in 0..WorkerLimit - 1 /\ WorkerLimit \in Nat
    BY WorkerLimitAssumption DEF HasRoom, TableInv, TableTypeOK
  <2> QED BY <2>1, <1>1 DEF Used, Slots
<1>5. workers_pid \in [Slots -> 0..Len(workers)]
  BY DEF TableInv, TableTypeOK
<1> HIDE DEF new, w
<1>6. workers_pid'[num_workers] = new /\ \A j \in Used : workers_pid'[j] = workers_pid[j]
  BY <1>1, <1>4, <1>5
<1>7. \A j \in Used : workers_buffer[j] # workers_buffer[num_workers]
  BY <1>1, <1>4 DEF BuffersApart
<1>8. workers_buffer[num_workers] \in Slots
  BY <1>4 DEF TableInv, TableTypeOK
<1>9. buffers[workers_buffer[num_workers]] = <<>>
  BY <1>7, <1>8 DEF ReportInv
<1>10. ReportOf(<<>>, new, 0)
  BY EmptySeq DEF ReportOf, Begins, DETAILS_PART
<1>11. ASSUME NEW j \in Slots, j = num_workers PROVE Whole(j)'
  BY <1>1, <1>3, <1>6, <1>9, <1>10, <1>11 DEF Whole, w
<1>12. ASSUME NEW j \in Used PROVE Whole(j)'
  <2>1. workers_pid[j] \in DOMAIN workers
    BY UsedFacts
  <2> QED BY <2>1, <1>1, <1>2, <1>6 DEF ReportInv, Whole
<1>13. ASSUME NEW j \in Used' PROVE Whole(j)'
  <2>1. CASE j \in Used
    BY <2>1, <1>12
  <2>2. CASE j = num_workers
    BY <2>2, <1>4, <1>11
  <2> QED BY <2>1, <2>2, <1>4
<1>14. \A b \in Slots : (\A j \in Used' : workers_buffer'[j] # b) => buffers'[b] = <<>>
  BY <1>1, <1>4 DEF ReportInv
<1> QED BY <1>13, <1>14 DEF ReportInv

LEMMA ReportStep ==
  ASSUME ConfigInv, ReportInv, BuffersApart', [ConfigNext]_configVars
  PROVE  ReportInv'
<1> USE DEF ConfigInv
<1>1. CASE TakeQueued \/ TakeConfig
  <2>1. \E job \in Job : HasRoom /\ AddWorker(job)
    BY <1>1, TakeJob DEF TakeQueued, TakeConfig, StartPair, ConfigTypeOK
  <2> QED BY <2>1, AddWorkerReport
<1>2. ASSUME NEW i \in ready, DrainReport(i, Operation) PROVE ReportInv'
  BY <1>2, DrainReportReport
<1>3. ASSUME NEW i \in ready, DrainChunk(i) PROVE ReportInv'
  BY <1>3, DrainChunkReport
<1>4. CASE WorkerStep
  BY <1>4, WorkerStepReport
<1>5. ASSUME NEW how, Halt(how) PROVE ReportInv'
  BY <1>5, QuietReport DEF Halt, tableVars
<1>6. CASE ConfigPoll \/ ConfigLeave \/ DrainDone \/ QueueConfig \/ ReadNothing \/ UNCHANGED configVars
  <2>1. UNCHANGED <<workers, num_workers, workers_pid, workers_buffer, buffers>>
    BY <1>6 DEF ConfigPoll, ConfigLeave, DrainDone, QueueConfig, ReadNothing, configVars, tableVars
  <2> QED BY <2>1, QuietReport
<1> QED
  BY <1>1, <1>2, <1>3, <1>4, <1>5, <1>6
  DEF ConfigNext, ConfigManager, ConfigDrain, ConfigOver, ConfigForkFails,
      DrainWild, DrainUnknown

-----------------------------------------------------------------------------
(* Whose status an entry holds.                                            *)

StatusInv ==
  \A info \in Entries(mem) :
    info.status # 0 =>
      info.status \in DOMAIN workers /\ workers[info.status].job.src = info.source

(* The entry a report is for, and what becomes of it. *)
LEMMA ReportWrites ==
  ASSUME ConfigInv, ReportInv, NEW i \in ready, DrainReport(i, Operation)
  PROVE  LET p == workers_pid[i]
             src == workers[p].job.src
             b == Bucket(src)
             n == Position(mem, src)
         IN /\ p \in DOMAIN workers /\ src \in Dir
            /\ b \in Buckets /\ n \in DOMAIN mem.chain[b] /\ mem.chain[b][n].source = src
            /\ \E info : /\ info.status = p /\ info.source = src /\ ~info.is_in_workers
                         /\ \A c \in Buckets :
                              /\ DOMAIN mem'.chain[c] = DOMAIN mem.chain[c]
                              /\ \A k \in DOMAIN mem.chain[c] :
                                   mem'.chain[c][k] =
                                     IF c = b /\ k = n THEN info ELSE mem.chain[c][k]
            /\ \A d : OnePlace(mem, d) => OnePlace(mem', d)
            /\ SameJobs
<1> DEFINE p == workers_pid[i]
           src == workers[p].job.src
<1>1. /\ HasEnd(Contents(i)) /\ MarkRead(i)
      /\ \E d \in Sources(Contents(i)), op \in Operations(Contents(i)),
           q \in StatusWriters(Contents(i)) :
        /\ IsFound(mem, d)
        /\ mem' = LET info == sync_info_mem_store_find(mem, d)
                  IN Overwrite(mem, d,
                       [info EXCEPT !.status = q,
                                    !.is_in_workers = @ /\ op \notin Operation])
  BY DEF DrainReport
<1>2. /\ StatusWriters(Contents(i)) = {p} /\ Sources(Contents(i)) = {src}
      /\ Operations(Contents(i)) = {workers[p].job.op}
  BY <1>1, ReportIsOwn DEF ConfigInv
<1>3. p \in DOMAIN workers /\ src \in Dir /\ workers[p].job.op \in Operation
  <2>1. workers[p] \in Worker /\ p \in DOMAIN workers
    BY UsedFacts DEF ConfigInv, TableInv, TableTypeOK
  <2> QED BY <2>1 DEF Worker, Job
<1> DEFINE old == sync_info_mem_store_find(mem, src)
           info == [old EXCEPT !.status = p,
                               !.is_in_workers = @ /\ workers[p].job.op \notin Operation]
<1>4. IsFound(mem, src) /\ mem' = Overwrite(mem, src, info)
  BY <1>1, <1>2
<1>5. mem \in Store
  BY DEF ConfigInv, ConfigTypeOK
<1>6. old \in DirInfo /\ old.source = src
  BY <1>3, <1>4, <1>5, PositionFacts
<1>7. p \in Nat
  BY <1>3, TableFacts DEF ConfigInv, TableInv
<1>8. info \in DirInfo /\ info.source = src /\ info.status = p
  BY <1>6, <1>7 DEF DirInfo
<1>9. ~info.is_in_workers
  BY <1>3, <1>6 DEF DirInfo
<1> HIDE DEF info, old, p, src
<1>10. /\ Bucket(src) \in Buckets /\ Position(mem, src) \in DOMAIN mem.chain[Bucket(src)]
       /\ mem.chain[Bucket(src)][Position(mem, src)].source = src
       /\ \A c \in Buckets :
            /\ DOMAIN mem'.chain[c] = DOMAIN mem.chain[c]
            /\ \A k \in DOMAIN mem.chain[c] :
                 mem'.chain[c][k] =
                   IF c = Bucket(src) /\ k = Position(mem, src) THEN info ELSE mem.chain[c][k]
       /\ \A d : OnePlace(mem, d) => OnePlace(mem', d)
  BY <1>3, <1>4, <1>5, <1>8, OverwritePlaces
<1>11. SameJobs
  BY <1>1, MarkReadFacts DEF ConfigInv
<1> QED BY <1>3, <1>8, <1>9, <1>10, <1>11 DEF p, src

(* A new pair's entry, in the store and before its first report. *)
LEMMA StartPairEntries ==
  ASSUME ConfigInv, NEW job \in Job, HasRoom, StartPair(job)
  PROVE  LET info == NewInfo(job.src, job.tgt, TRUE)
         IN /\ Entries(mem') = Entries(mem) \cup {info}
            /\ \A d : (/\ OnePlace(mem, d)
                       /\ d = job.src => \A e \in Entries(mem) : e.source # d)
                      => OnePlace(mem', d)
            /\ info.status = 0 /\ info.source = job.src /\ info.is_in_workers
            /\ DOMAIN workers' = 1..Len(workers) + 1
            /\ DOMAIN workers = 1..Len(workers) /\ Len(workers) \in Nat
            /\ \A q \in DOMAIN workers : workers'[q] = workers[q]
            /\ workers'[Len(workers) + 1].job = job
            /\ Running' = Running \cup {Len(workers) + 1}
<1> DEFINE info == NewInfo(job.src, job.tgt, TRUE)
<1>1. mem \in Store /\ mem' = sync_info_mem_store_add(mem, info)
  BY DEF StartPair, ConfigInv, ConfigTypeOK
<1>2. info \in DirInfo /\ info.status = 0 /\ info.source = job.src /\ info.is_in_workers
  BY DEF NewInfo, DirInfo, Job
<1> HIDE DEF info
<1>3. Entries(mem') = Entries(mem) \cup {info}
  BY <1>1, <1>2, AddEntries
<1>4. ASSUME NEW d, OnePlace(mem, d), d = job.src => \A e \in Entries(mem) : e.source # d
      PROVE  OnePlace(mem', d)
  BY <1>1, <1>2, <1>4, AddOnce
<1>5. /\ TableInv'
      /\ Len(workers') = Len(workers) + 1
      /\ \A q \in DOMAIN workers : workers'[q] = workers[q]
      /\ workers'[Len(workers) + 1].job = job
      /\ Running' = Running \cup {Len(workers) + 1}
  BY AddWorkerInv DEF ConfigInv, HasRoom, StartPair
<1>6. Len(workers) \in Nat /\ DOMAIN workers = 1..Len(workers)
  BY TableFacts DEF ConfigInv, TableInv
<1>7. DOMAIN workers' = 1..Len(workers) + 1
  BY <1>5, TableFacts DEF TableInv, TableTypeOK
<1> QED BY <1>2, <1>3, <1>4, <1>5, <1>6, <1>7 DEF info

LEMMA StatusQuiet ==
  ASSUME StatusInv, SameJobs, UNCHANGED mem
  PROVE  StatusInv'
BY DEF StatusInv, SameJobs

LEMMA TakeStatus ==
  ASSUME ConfigInv, StatusInv, NEW job \in Job, HasRoom, StartPair(job)
  PROVE  StatusInv'
<1>1. PICK info :
           /\ Entries(mem') = Entries(mem) \cup {info} /\ info.status = 0
           /\ DOMAIN workers' = 1..Len(workers) + 1
           /\ DOMAIN workers = 1..Len(workers) /\ Len(workers) \in Nat
           /\ \A q \in DOMAIN workers : workers'[q] = workers[q]
  BY StartPairEntries
<1>2. DOMAIN workers \subseteq DOMAIN workers'
  BY <1>1
<1> QED BY <1>1, <1>2 DEF StatusInv

LEMMA DrainReportStatus ==
  ASSUME ConfigInv, ReportInv, StatusInv, NEW i \in ready,
         DrainReport(i, Operation)
  PROVE  StatusInv'
<1> DEFINE p == workers_pid[i]
           src == workers[p].job.src
           b == Bucket(src)
           n == Position(mem, src)
<1>1. p \in DOMAIN workers /\ SameJobs
  BY ReportWrites
<1>2. \E info : /\ info.status = p /\ info.source = src
                /\ \A c \in Buckets :
                     /\ DOMAIN mem'.chain[c] = DOMAIN mem.chain[c]
                     /\ \A k \in DOMAIN mem.chain[c] :
                          mem'.chain[c][k] = IF c = b /\ k = n THEN info ELSE mem.chain[c][k]
  BY ReportWrites
<1> HIDE DEF p, src, b, n
<1>3. PICK info : /\ info.status = p /\ info.source = src
                  /\ \A c \in Buckets :
                       /\ DOMAIN mem'.chain[c] = DOMAIN mem.chain[c]
                       /\ \A k \in DOMAIN mem.chain[c] :
                            mem'.chain[c][k] = IF c = b /\ k = n THEN info ELSE mem.chain[c][k]
  BY <1>2
<1>4. Entries(mem') \subseteq Entries(mem) \cup {info}
  BY <1>3 DEF Entries
<1>5. info.status \in DOMAIN workers /\ workers[info.status].job.src = info.source
  BY <1>1, <1>3 DEF src
<1> QED BY <1>1, <1>4, <1>5 DEF StatusInv, SameJobs

LEMMA StatusStep ==
  ASSUME ConfigInv, ReportInv, StatusInv, [ConfigNext]_configVars
  PROVE  StatusInv'
<1>1. CASE TakeQueued \/ TakeConfig
  <2>1. \E job \in Job : HasRoom /\ StartPair(job)
    BY <1>1, TakeJob DEF TakeQueued, TakeConfig, ConfigInv, ConfigTypeOK
  <2> QED BY <2>1, TakeStatus
<1>2. ASSUME NEW i \in ready, DrainReport(i, Operation) PROVE StatusInv'
  BY <1>2, DrainReportStatus
<1>3. ASSUME NEW i \in ready, DrainChunk(i) PROVE StatusInv'
  BY <1>3, MarkReadFacts, StatusQuiet DEF ConfigInv, DrainChunk, storeVars
<1>4. CASE WorkerStep
  BY <1>4, WorkerStepInv, StatusQuiet DEF WorkerStep, storeVars
<1>5. ASSUME NEW how, Halt(how) PROVE StatusInv'
  BY <1>5, StatusQuiet DEF Halt, tableVars, storeVars, SameJobs
<1>6. CASE ConfigPoll \/ ConfigLeave \/ DrainDone \/ QueueConfig \/ ReadNothing \/ UNCHANGED configVars
  <2>1. UNCHANGED <<workers, mem>>
    BY <1>6 DEF ConfigPoll, ConfigLeave, DrainDone, QueueConfig, ReadNothing, configVars,
                tableVars, storeVars
  <2> QED BY <2>1, StatusQuiet DEF SameJobs
<1> QED
  BY <1>1, <1>2, <1>3, <1>4, <1>5, <1>6
  DEF ConfigNext, ConfigManager, ConfigDrain, ConfigOver, ConfigForkFails,
      DrainWild, DrainUnknown

-----------------------------------------------------------------------------
(* Who is in workers.                                                      *)

(* What FlagWhileApart says, and what makes it inductive: an entry is of a
   worker's directory, and a directory of one worker has one entry. *)
FlagAgrees ==
  \A info \in Entries(mem), p \in DOMAIN workers :
    OnlyWorkerOf(p, info.source) => (info.is_in_workers <=> p \in Running)

EntryInv ==
  /\ \A info \in Entries(mem) : \E p \in DOMAIN workers : workers[p].job.src = info.source
  /\ \A p \in DOMAIN workers : \A d : OnlyWorkerOf(p, d) => OnePlace(mem, d)
  /\ FlagAgrees

LEMMA EntryQuiet ==
  ASSUME ConfigInv, EntryInv, SameJobs, UNCHANGED mem, Running' = Running
  PROVE  EntryInv'
BY DEF EntryInv, FlagAgrees, OnlyWorkerOf, SameJobs

LEMMA TakeEntry ==
  ASSUME ConfigInv, EntryInv, NEW job \in Job, HasRoom, StartPair(job)
  PROVE  EntryInv'
<1> DEFINE new == Len(workers) + 1
<1>1. PICK info :
           /\ Entries(mem') = Entries(mem) \cup {info}
           /\ \A d : (/\ OnePlace(mem, d)
                      /\ d = job.src => \A e \in Entries(mem) : e.source # d)
                     => OnePlace(mem', d)
           /\ info.source = job.src /\ info.is_in_workers
           /\ DOMAIN workers' = 1..Len(workers) + 1
           /\ DOMAIN workers = 1..Len(workers) /\ Len(workers) \in Nat
           /\ \A q \in DOMAIN workers : workers'[q] = workers[q]
           /\ workers'[Len(workers) + 1].job = job
           /\ Running' = Running \cup {Len(workers) + 1}
  BY StartPairEntries
<1>2. /\ DOMAIN workers' = DOMAIN workers \cup {new} /\ new \notin DOMAIN workers
      /\ workers'[new].job = job /\ Running' = Running \cup {new}
  BY <1>1
<1> HIDE DEF new
<1>3. \A e \in Entries(mem') : \E p \in DOMAIN workers' : workers'[p].job.src = e.source
  BY <1>1, <1>2 DEF EntryInv
<1>4. ASSUME NEW p \in DOMAIN workers', NEW d, OnlyWorkerOf(p, d)'
      PROVE  /\ d = job.src => p = new /\ \A e \in Entries(mem) : e.source # d
             /\ d # job.src => p \in DOMAIN workers /\ p # new /\ OnlyWorkerOf(p, d)
  <2>1. \A q \in DOMAIN workers' : workers'[q].job.src = d <=> q = p
    BY <1>4 DEF OnlyWorkerOf
  <2>2. CASE d = job.src
    <3>1. p = new
      BY <2>1, <2>2, <1>2
    <3>2. \A q \in DOMAIN workers : workers[q].job.src # d
      BY <2>1, <3>1, <1>1, <1>2
    <3> QED BY <2>2, <3>1, <3>2 DEF EntryInv
  <2>3. CASE d # job.src
    BY <2>1, <2>3, <1>1, <1>2 DEF OnlyWorkerOf
  <2> QED BY <2>2, <2>3
<1>5. ASSUME NEW p \in DOMAIN workers', NEW d, OnlyWorkerOf(p, d)'
      PROVE  OnePlace(mem', d)
  <2>1. CASE d = job.src
    <3>1. \A e \in Entries(mem) : e.source # d
      BY <2>1, <1>4, <1>5
    <3>2. OnePlace(mem, d)
      BY <3>1 DEF OnePlace, Entries
    <3> QED BY <3>1, <3>2, <1>1
  <2>2. CASE d # job.src
    BY <2>2, <1>1, <1>4, <1>5 DEF EntryInv
  <2> QED BY <2>1, <2>2
<1>6. ASSUME NEW e \in Entries(mem'), NEW p \in DOMAIN workers', OnlyWorkerOf(p, e.source)'
      PROVE  e.is_in_workers <=> p \in Running'
  <2>0. OnlyWorkerOf(p, e.source)'
    BY <1>6
  <2>1. CASE e.source = job.src
    <3>1. p = new /\ e \notin Entries(mem)
      BY <2>1, <1>4, <1>6
    <3> QED BY <3>1, <1>1, <1>2
  <2>2. CASE e.source # job.src
    <3>1. p \in DOMAIN workers /\ p # new /\ OnlyWorkerOf(p, e.source)
      BY <2>2, <1>4, <1>6
    <3>2. e \in Entries(mem)
      BY <2>2, <1>1
    <3> QED BY <3>1, <3>2, <1>2 DEF EntryInv, FlagAgrees
  <2> QED BY <2>1, <2>2
<1>7. FlagAgrees'
  BY <1>6 DEF FlagAgrees
<1> QED BY <1>3, <1>5, <1>7 DEF EntryInv

LEMMA DrainReportEntry ==
  ASSUME ConfigInv, ReportInv, EntryInv, NEW i \in ready, DrainReport(i, Operation)
  PROVE  EntryInv'
<1> DEFINE r == workers_pid[i]
           src == workers[r].job.src
           b == Bucket(src)
           n == Position(mem, src)
<1>1. /\ r \in DOMAIN workers /\ SameJobs
      /\ b \in Buckets /\ n \in DOMAIN mem.chain[b] /\ mem.chain[b][n].source = src
      /\ \A d : OnePlace(mem, d) => OnePlace(mem', d)
  BY ReportWrites
<1>2. \E info : /\ info.source = src /\ ~info.is_in_workers
                /\ \A c \in Buckets :
                     /\ DOMAIN mem'.chain[c] = DOMAIN mem.chain[c]
                     /\ \A k \in DOMAIN mem.chain[c] :
                          mem'.chain[c][k] = IF c = b /\ k = n THEN info ELSE mem.chain[c][k]
  BY ReportWrites
<1>3. Running' = Running \ {r}
  BY DrainReportInv
<1> HIDE DEF r, src, b, n
<1>4. PICK info : /\ info.source = src /\ ~info.is_in_workers
                  /\ \A c \in Buckets :
                       /\ DOMAIN mem'.chain[c] = DOMAIN mem.chain[c]
                       /\ \A k \in DOMAIN mem.chain[c] :
                            mem'.chain[c][k] = IF c = b /\ k = n THEN info ELSE mem.chain[c][k]
  BY <1>2
<1>5. \A p \in DOMAIN workers : \A d : OnlyWorkerOf(p, d)' <=> OnlyWorkerOf(p, d)
  BY <1>1 DEF SameJobs, OnlyWorkerOf
<1>6. DOMAIN workers' = DOMAIN workers
  BY <1>1 DEF SameJobs
<1>7. \A p \in DOMAIN workers : \A d : OnlyWorkerOf(p, d)' => OnePlace(mem', d)
  BY <1>1, <1>5 DEF EntryInv
<1>8. ASSUME NEW c \in Buckets, NEW k \in DOMAIN mem.chain[c], NEW p \in DOMAIN workers,
             OnlyWorkerOf(p, mem'.chain[c][k].source)
      PROVE  mem'.chain[c][k].is_in_workers <=> p \in Running'
  <2>1. CASE c = b /\ k = n
    <3>1. mem'.chain[c][k] = info
      BY <2>1, <1>4
    <3>2. p = r
      BY <3>1, <1>1, <1>4, <1>8 DEF OnlyWorkerOf, src
    <3> QED BY <3>1, <3>2, <1>3, <1>4
  <2>2. CASE ~(c = b /\ k = n)
    <3> DEFINE e == mem.chain[c][k]
    <3>1. mem'.chain[c][k] = e /\ e \in Entries(mem)
      BY <2>2, <1>4 DEF Entries
    <3>2. OnlyWorkerOf(p, e.source)
      BY <3>1, <1>8
    <3>3. e.source # src
      BY <2>2, <3>2, <1>1 DEF EntryInv, OnePlace
    <3> HIDE DEF e
    <3>4. p # r
      BY <3>2, <3>3, <1>1 DEF OnlyWorkerOf, src
    <3> QED BY <3>1, <3>2, <3>4, <1>3 DEF EntryInv, FlagAgrees
  <2> QED BY <2>1, <2>2
<1>9. FlagAgrees'
  <2> SUFFICES ASSUME NEW e \in Entries(mem'), NEW p \in DOMAIN workers,
                      OnlyWorkerOf(p, e.source)
               PROVE  e.is_in_workers <=> p \in Running'
    BY <1>5, <1>6 DEF FlagAgrees
  <2>1. PICK c \in Buckets : \E k \in DOMAIN mem.chain[c] : e = mem'.chain[c][k]
    BY <1>4 DEF Entries
  <2> QED BY <2>1, <1>8
<1>10. \A e \in Entries(mem') : e = info \/ e \in Entries(mem)
  BY <1>4 DEF Entries
<1>11. \A e \in Entries(mem') : \E q \in DOMAIN workers' : workers'[q].job.src = e.source
  BY <1>1, <1>4, <1>10 DEF EntryInv, SameJobs, src
<1> QED BY <1>6, <1>7, <1>9, <1>11 DEF EntryInv

LEMMA EntryStep ==
  ASSUME ConfigInv, ReportInv, EntryInv, [ConfigNext]_configVars
  PROVE  EntryInv'
<1>1. CASE TakeQueued \/ TakeConfig
  <2>1. \E job \in Job : HasRoom /\ StartPair(job)
    BY <1>1, TakeJob DEF TakeQueued, TakeConfig, ConfigInv, ConfigTypeOK
  <2> QED BY <2>1, TakeEntry
<1>2. ASSUME NEW i \in ready, DrainReport(i, Operation) PROVE EntryInv'
  BY <1>2, DrainReportEntry
<1>3. ASSUME NEW i \in ready, DrainChunk(i) PROVE EntryInv'
  <2>1. SameJobs /\ UNCHANGED mem
    BY <1>3, MarkReadFacts DEF ConfigInv, DrainChunk, storeVars
  <2>2. Running' = Running
    BY <1>3 DEF DrainChunk, KeepText, Running, Used
  <2> QED BY <2>1, <2>2, EntryQuiet
<1>4. CASE WorkerStep
  BY <1>4, WorkerStepInv, EntryQuiet DEF WorkerStep, storeVars
<1>5. ASSUME UNCHANGED <<workers, num_workers, workers_pid, mem>> PROVE EntryInv'
  BY <1>5, QuietTable, EntryQuiet DEF SameJobs
<1>6. ASSUME NEW how, Halt(how) PROVE EntryInv'
  BY <1>5, <1>6 DEF Halt, tableVars, storeVars
<1>7. CASE ConfigPoll \/ ConfigLeave \/ DrainDone \/ QueueConfig \/ ReadNothing \/ UNCHANGED configVars
  BY <1>5, <1>7
  DEF ConfigPoll, ConfigLeave, DrainDone, QueueConfig, ReadNothing, configVars, tableVars,
      storeVars
<1> QED
  BY <1>1, <1>2, <1>3, <1>4, <1>6, <1>7
  DEF ConfigNext, ConfigManager, ConfigDrain, ConfigOver, ConfigForkFails,
      DrainWild, DrainUnknown

-----------------------------------------------------------------------------
(* How the loop ends.                                                      *)

EndsInv ==
  /\ phase = "crashed" => Overloaded(mem)
  /\ phase = "exited" /\ pc = "drain" => \E p \in Running : ~IsFound(mem, workers[p].job.src)

LEMMA EndsStep ==
  ASSUME ConfigInv, ReportInv, EndsInv, [ConfigNext]_configVars
  PROVE  EndsInv'
<1>1. ASSUME phase' \notin {"crashed", "exited"} PROVE EndsInv'
  BY <1>1 DEF EndsInv
<1>2. CASE phase = "config" /\ (TakeQueued \/ TakeConfig)
  <2>1. phase' = "crashed" => Overloaded(mem')
    BY <1>2 DEF TakeQueued, TakeConfig, StartPair
  <2>2. phase' # "exited"
    BY <1>2 DEF TakeQueued, TakeConfig, StartPair
  <2> QED BY <2>1, <2>2 DEF EndsInv
<1>3. ASSUME NEW i \in ready PROVE ~DrainWild(i)
  BY ReportIsOwn DEF DrainWild, ConfigInv
<1>4. ASSUME NEW i \in ready, DrainUnknown(i) PROVE EndsInv'
  <2>1. /\ ~IsFound(mem, workers[workers_pid[i]].job.src)
        /\ phase' = "exited" /\ UNCHANGED <<mem, workers, num_workers, workers_pid>>
    BY <1>4, ReportIsOwn DEF DrainUnknown, Halt, ConfigInv, storeVars, tableVars
  <2>2. workers_pid[i] \in Running /\ Running' = Running
    BY <2>1 DEF Running, Used, ConfigInv, TableInv, TableTypeOK
  <2> QED BY <2>1, <2>2 DEF EndsInv
<1>5. CASE ConfigForkFails
  <2>1. phase' = "exited" /\ pc' = "take"
    BY <1>5 DEF ConfigForkFails, Halt
  <2> QED BY <2>1 DEF EndsInv
<1>6. ASSUME NEW i \in ready, phase = "config", DrainChunk(i) \/ DrainReport(i, Operation)
      PROVE  EndsInv'
  BY <1>1, <1>6 DEF DrainChunk, DrainReport
<1>7. CASE WorkerStep
  BY <1>1, <1>7 DEF WorkerStep
<1>8. CASE phase = "config" /\ (ConfigPoll \/ ConfigLeave \/ DrainDone \/ QueueConfig \/ ReadNothing)
  BY <1>1, <1>8 DEF ConfigPoll, ConfigLeave, DrainDone, QueueConfig, ReadNothing
<1>9. CASE UNCHANGED configVars
  <2>1. UNCHANGED <<phase, pc, mem, workers, num_workers, workers_pid>>
    BY <1>9 DEF configVars, storeVars, tableVars
  <2>2. Running' = Running
    BY <2>1, QuietTable
  <2> QED BY <2>1, <2>2 DEF EndsInv
<1> QED
  BY <1>2, <1>3, <1>4, <1>5, <1>6, <1>7, <1>8, <1>9
  DEF ConfigNext, ConfigManager, ConfigDrain, ConfigOver

-----------------------------------------------------------------------------
(* The invariant and the theorems.                                         *)

ApartInv == ReportInv /\ StatusInv /\ EntryInv /\ EndsInv
ReportsInv == ConfigInv /\ (apart => ApartInv)

LEMMA ReportsInitInv ==
  ASSUME ReportsInit
  PROVE  ReportsInv
<1>1. ConfigInit /\ ConfigInv
  BY InitInv DEF ReportsInit
<1>2. Used = {} /\ DOMAIN workers = {}
  BY <1>1 DEF ConfigInit, TableInit, Used
<1>3. ReportInv
  BY <1>1, <1>2 DEF ConfigInit, TableInit, ReportInv, BuffersApart
<1>4. Entries(mem) = {}
  <2>1. \A b \in Buckets : mem.chain[b] = <<>>
    BY <1>1 DEF ConfigInit, sync_info_mem_store_create
  <2>2. \A b \in Buckets : DOMAIN mem.chain[b] = {}
    BY <2>1
  <2> QED BY <2>2 DEF Entries
<1>5. StatusInv /\ EntryInv
  BY <1>2, <1>4 DEF StatusInv, EntryInv, FlagAgrees
<1>6. EndsInv
  BY <1>1 DEF ConfigInit, EndsInv
<1> QED BY <1>1, <1>3, <1>5, <1>6 DEF ReportsInv, ApartInv

LEMMA ReportsStepInv ==
  ASSUME ReportsInv, [ReportsNext]_reportsVars
  PROVE  ReportsInv'
<1>1. ConfigInv /\ [ConfigNext]_configVars
  BY DEF ReportsInv, ReportsNext, reportsVars
<1>2. ConfigInv'
  BY <1>1, StepInv
<1>3. ASSUME apart' PROVE ApartInv'
  <2>1. apart
    BY <1>3 DEF ReportsNext, reportsVars
  <2>2. ApartInv
    BY <2>1 DEF ReportsInv
  <2>3. BuffersApart'
    <3>1. CASE ReportsNext
      BY <1>3, <3>1 DEF ReportsNext
    <3>2. CASE UNCHANGED reportsVars
      BY <2>2, <3>2 DEF ApartInv, ReportInv, BuffersApart, Used, reportsVars, configVars, tableVars
    <3> QED BY <3>1, <3>2
  <2> QED
    BY <1>1, <2>2, <2>3, ReportStep, StatusStep, EntryStep, EndsStep DEF ApartInv
<1> QED BY <1>2, <1>3 DEF ReportsInv

(* In every reachable state in which no two slots have read into one buffer,
   every buffer holds what has been read of its slot's report and nothing else
   (fss_manager.c:143-189), and the properties below hold. *)
THEOREM ReportsInvariant == ReportsSpec => []ReportsInv
<1>1. ReportsInit => ReportsInv
  BY ReportsInitInv
<1>2. ReportsInv /\ [ReportsNext]_reportsVars => ReportsInv'
  BY ReportsStepInv
<1> QED BY <1>1, <1>2, PTL DEF ReportsSpec

(* While the buffers are apart the status kept for a directory is that of a
   worker which synchronised this directory, in however many pieces, over
   however many pipes at a time, the report came. *)
THEOREM ReportsOwn == ReportsSpec => []OwnWhileApart
<1>1. ReportsInv => OwnWhileApart
  BY DEF ReportsInv, ApartInv, StatusInv, OwnWhileApart, StatusIsOwn
<1> QED BY <1>1, ReportsInvariant, PTL

(* While the buffers are apart is_in_workers says whether the only worker of a
   directory is in the table (fss_manager.c:166-168, 246-255). *)
THEOREM ReportsFlag == ReportsSpec => []FlagWhileApart
<1>1. ReportsInv => FlagWhileApart
  BY DEF ReportsInv, ApartInv, EntryInv, FlagAgrees, FlagWhileApart
<1> QED BY <1>1, ReportsInvariant, PTL

(* While the buffers are apart the loop over the config file crashes of a full
   store only and exits over a report only if a running worker's directory is
   not found, whatever workers die and NUL bytes come. *)
THEOREM ReportsEnds == ReportsSpec => []EndsWhileApart
<1>1. ReportsInv => EndsWhileApart
  BY DEF ReportsInv, ApartInv, EndsInv, EndsWhileApart
<1> QED BY <1>1, ReportsInvariant, PTL
=============================================================================
