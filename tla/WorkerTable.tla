----------------------------- MODULE WorkerTable ----------------------------
(***************************************************************************)
(* The worker processes that fss_manager forks, their pipes, and the table *)
(* in which it follows them: workers_pid[], fds_array[] and                *)
(* workers_buffer[], of which the first num_workers slots are in use.      *)
(* Both loops of main() share this table.                                  *)
(*                                                                         *)
(* The pid and the read end of the pipe of a worker always move together,  *)
(* so a slot of workers_pid holds the worker itself.  The buffer of a slot *)
(* does not move with them: workers_buffer holds, per slot, WHICH buffer   *)
(* is read into.                                                           *)
(*                                                                         *)
(* A worker is the number of its fork.  Its report is six writes (PARTS)   *)
(* of which the manager may see any number at a time.                      *)
(***************************************************************************)
EXTENDS FssTypes, Integers, Sequences

CONSTANTS
  WorkerLimit,  \* the -n argument: slots of the table
  Status,       \* the STATUS strings a worker may end with
  Faults,       \* the faults that may happen, of FaultKinds
  Cuts          \* after which parts a pipe may be seen: a bound on interleaving

SOURCE_PART    == 1   \* EXEC_REPORT_START, SOURCE DIR and TARGET DIR
OPERATION_PART == 2
STATUS_PART    == 3
DETAILS_PART   == 4   \* the counts, where a NUL may slip in
ERRORS_PART    == 5   \* one line per error, none after SUCCESS
END_PART       == 6   \* EXEC_REPORT_END
PARTS          == 1..6

FaultKinds == {"fork",    \* fork() fails
               "die",     \* a worker ends without its report: execl fails, exit(-1)
               "garble",  \* the report carries NUL bytes, see Outcome
               "wild"}    \* an uninitialised next pointer is not NULL

ASSUME WorkerLimitAssumption == WorkerLimit \in Nat \ {0}
ASSUME FaultsAssumption == Faults \subseteq FaultKinds
ASSUME CutsAssumption == Cuts \subseteq PARTS /\ END_PART \in Cuts
ASSUME StatusAssumption == Status \subseteq {"SUCCESS", "PARTIAL", "ERROR"}

(***************************************************************************)
(* How a worker ends.  write(1, number_to_string(num_buffer, n),           *)
(* strlen(num_buffer)) may take the length of num_buffer before it is      *)
(* filled: then bytes after the digits, the NUL first, are written too.    *)
(* No number is written that way by a worker that copied and deleted       *)
(* nothing, which is what ERROR means.                                     *)
(***************************************************************************)
Outcome ==
  {o \in [status : Status, nul : BOOLEAN] :
     o.nul => "garble" \in Faults /\ o.status # "ERROR"}

Worker == [job : Job, status : Status, nul : BOOLEAN,
           wrote : 0..END_PART,  \* parts written to the pipe
           got : 0..END_PART,    \* parts the manager has read
           alive : BOOLEAN]

VARIABLES
  workers,         \* every worker forked, in fork order
  num_workers,     \* num_of_current_workers
  workers_pid,     \* slot -> worker (0 before the first)
  workers_buffer,  \* slot -> buffer, with the cell past the end of the array
  buffers,         \* buffer -> its contents
  ready            \* slots poll() found readable and the loop has yet to visit

(* A piece of a report, as it lies in a buffer: which part, of which worker. *)
Token == [by : DOMAIN workers, part : PARTS]

tableVars == <<workers, num_workers, workers_pid, workers_buffer, buffers, ready>>

Slots == 0..WorkerLimit - 1
Used == 0..num_workers - 1
Running == {workers_pid[i] : i \in Used}

TableInit ==
  /\ workers = <<>>
  /\ num_workers = 0
  /\ workers_pid = [i \in Slots |-> 0]
  /\ workers_buffer = [i \in 0..WorkerLimit |-> i]
  /\ buffers = [b \in Slots |-> <<>>]
  /\ ready = {}

-----------------------------------------------------------------------------
(* The worker processes.                                                   *)

(* A running worker writes more of its report. *)
WorkerWrite(p) ==
  /\ workers[p].alive
  /\ \E n \in Cuts :
       /\ n > workers[p].wrote
       /\ workers' = [workers EXCEPT ![p].wrote = n]
  /\ UNCHANGED <<num_workers, workers_pid, workers_buffer, buffers, ready>>

(* A worker ends before its report is complete. *)
WorkerDies(p) ==
  /\ "die" \in Faults
  /\ workers[p].alive
  /\ workers[p].wrote < END_PART
  /\ workers' = [workers EXCEPT ![p].alive = FALSE]
  /\ UNCHANGED <<num_workers, workers_pid, workers_buffer, buffers, ready>>

-----------------------------------------------------------------------------
(* The manager's side.                                                     *)

(* fork, execl and the bookkeeping of the parent: the next free slot. *)
AddWorker(job) ==
  /\ \E o \in Outcome :
       workers' = Append(workers, [job |-> job, status |-> o.status, nul |-> o.nul,
                                   wrote |-> 0, got |-> 0, alive |-> TRUE])
  /\ workers_pid' = [workers_pid EXCEPT ![num_workers] = Len(workers) + 1]
  /\ num_workers' = num_workers + 1
  /\ UNCHANGED <<workers_buffer, buffers, ready>>

(* Mutant of PollWorkers: the last slot in use is not polled. *)
PollWorkersButLast ==
  ready' = {i \in Used \ {num_workers - 1} :
              workers[workers_pid[i]].got < workers[workers_pid[i]].wrote}

(* poll(fds_array, num_of_current_workers, 0): the slots with POLLIN. *)
PollWorkers ==
  ready' = {i \in Used : workers[workers_pid[i]].got < workers[workers_pid[i]].wrote}

NextReady(i) == i \in ready /\ \A j \in ready : i <= j

(***************************************************************************)
(* read() and strcat(): what slot i's buffer holds after the read.  strcat *)
(* stops at a NUL, so what came in the same read after it is lost.         *)
(***************************************************************************)
Kept(w) ==
  IF w.nul /\ w.got < DETAILS_PART /\ DETAILS_PART < w.wrote
  THEN DETAILS_PART ELSE w.wrote

(* Mutant of Contents: strcpy for strcat, the pieces are not joined. *)
ContentsUnjoined(i) ==
  LET p == workers_pid[i]
      w == workers[p]
  IN [k \in 1..Kept(w) - w.got |-> [by |-> p, part |-> w.got + k]]

Contents(i) ==
  LET p == workers_pid[i]
      w == workers[p]
  IN buffers[workers_buffer[i]] \o
       [k \in 1..Kept(w) - w.got |-> [by |-> p, part |-> w.got + k]]

(* is_substring(workers_buffer[i], "EXEC_REPORT_END") *)
HasEnd(text) == \E k \in DOMAIN text : text[k].part = END_PART

MarkRead(i) ==
  workers' = [workers EXCEPT ![workers_pid[i]].got = workers[workers_pid[i]].wrote]

(***************************************************************************)
(* extract_workers_output.  Later fields overwrite earlier ones, and from  *)
(* an ERRORS field on every line up to EXEC_REPORT_END is counted as an    *)
(* error.  A field that is missing leaves its variable as it was: stale    *)
(* (any value) or never set (a crash).                                     *)
(***************************************************************************)
InErrors(text, k) ==
  \E j \in 1..k - 1 :
    text[j].part = ERRORS_PART /\ workers[text[j].by].status # "SUCCESS"

FieldAt(text, part) ==
  {k \in DOMAIN text : text[k].part = part /\ ~InErrors(text, k)}

Missing(text, part) == FieldAt(text, part) = {}

(* The worker whose field is read, of the fields of that name in the text. *)
WriterOf(text, part) ==
  {text[k].by : k \in {i \in FieldAt(text, part) : \A j \in FieldAt(text, part) : j <= i}}

(* Whose STATUS, which OPERATION and which SOURCE DIR are taken from the text. *)
StatusWriters(text) ==
  IF Missing(text, STATUS_PART) THEN DOMAIN workers ELSE WriterOf(text, STATUS_PART)

Operations(text) ==
  IF Missing(text, OPERATION_PART) THEN Operation
  ELSE {workers[p].job.op : p \in WriterOf(text, OPERATION_PART)}

Sources(text) ==
  IF Missing(text, SOURCE_PART) THEN Dir
  ELSE {workers[p].job.src : p \in WriterOf(text, SOURCE_PART)}

MayCrash(text) ==
  \E part \in {SOURCE_PART, OPERATION_PART, STATUS_PART} : Missing(text, part)

(* Mutant of RetireSlot: the last slot in use is not moved into the hole. *)
RetireSlotInPlace(i) ==
  /\ buffers' = [buffers EXCEPT ![workers_buffer[i]] = <<>>]
  /\ num_workers' = num_workers - 1
  /\ ready' = {j \in ready : i < j /\ j < num_workers - 1}
  /\ UNCHANGED <<workers_pid, workers_buffer>>

(* Mutant of RetireSlot: the text of the report stays in the buffer. *)
RetireSlotUncleared(i) ==
  LET last == num_workers - 1
  IN /\ workers_pid' = [workers_pid EXCEPT ![i] = workers_pid[last],
                                           ![last] = workers_pid[i]]
     /\ workers_buffer' = [workers_buffer EXCEPT ![i] = workers_buffer[last],
                                                 ![num_workers] = workers_buffer[i]]
     /\ num_workers' = last
     /\ buffers' = [buffers EXCEPT ![workers_buffer[i]] = Contents(i)]
     /\ ready' = {j \in ready : i < j /\ j < last}

(***************************************************************************)
(* The slot of a finished worker is emptied and the last one in use is     *)
(* moved into it.  The three swaps are not alike: the one of               *)
(* workers_buffer writes one cell too far.                                 *)
(***************************************************************************)
RetireSlot(i) ==
  LET last == num_workers - 1
  IN /\ workers_pid' = [workers_pid EXCEPT ![i] = workers_pid[last],
                                           ![last] = workers_pid[i]]
     /\ workers_buffer' = [workers_buffer EXCEPT ![i] = workers_buffer[last],
                                                 ![num_workers] = workers_buffer[i]]
     /\ buffers' = [buffers EXCEPT ![workers_buffer[i]] = <<>>]
     /\ num_workers' = last
     /\ ready' = {j \in ready : i < j /\ j < last}

(* The worker of slot i has more to say: its text is kept for later. *)
KeepText(i) ==
  /\ buffers' = [buffers EXCEPT ![workers_buffer[i]] = Contents(i)]
  /\ ready' = ready \ {i}
  /\ UNCHANGED <<num_workers, workers_pid, workers_buffer>>

-----------------------------------------------------------------------------
TableTypeOK ==
  /\ workers \in Seq(Worker)
  /\ num_workers \in 0..WorkerLimit
  /\ workers_pid \in [Slots -> 0..Len(workers)]
  /\ workers_buffer \in [0..WorkerLimit -> 0..WorkerLimit]
  /\ \A i \in Slots : workers_buffer[i] \in Slots
  /\ buffers \in [Slots -> Seq(Token)]
  /\ ready \subseteq Used
  /\ \A i \in Used : workers_pid[i] # 0

(***************************************************************************)
(* The table follows every worker once.  The slots in use hold different   *)
(* workers; a worker that is in no slot has been read to the end of its    *)
(* report; and a worker that is still in a slot has not, unless the end of *)
(* its report was lost behind a NUL.  This is what the swap of workers_pid *)
(* and fds_array with the last slot, in the middle of the loop over the    *)
(* slots, has to keep true.                                                *)
(***************************************************************************)
SlotAccounting ==
  /\ \A i, j \in Used : workers_pid[i] = workers_pid[j] => i = j
  /\ \A p \in DOMAIN workers :
       IF p \in Running
       THEN workers[p].got = END_PART => workers[p].nul
       ELSE workers[p].got = END_PART

(***************************************************************************)
(* What makes SlotAccounting inductive: no buffer holds the end of a       *)
(* report between two reads, nobody has read more than was written, and a  *)
(* slot that waits for its visit has something to read.                    *)
(***************************************************************************)
NoEndIsKept == \A b \in Slots : ~HasEnd(buffers[b])
ReadIsWritten == \A p \in DOMAIN workers : workers[p].got <= workers[p].wrote
ReadyHasInput ==
  \A i \in ready : workers[workers_pid[i]].got < workers[workers_pid[i]].wrote

TableInv ==
  /\ TableTypeOK
  /\ SlotAccounting
  /\ NoEndIsKept
  /\ ReadIsWritten
  /\ ReadyHasInput
=============================================================================
