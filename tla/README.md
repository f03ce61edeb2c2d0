# A TLA+ development of the File Sync System

This directory models `fss_manager`, the process that keeps pairs of directories
in sync, its worker processes and what they do to files, the console, the
signals and fifos between them, and the kernel's inotify queue. TLC checks the
models on small instances; TLAPS proves for every value of the constants that
the invariants and refinements which hold on those instances are theorems of
the specifications. Liveness is left to TLC.

Line numbers refer to `src/src/fss_manager.c` unless a file is named.

## 1. The system

| Part | State | Operations | Talks to |
|---|---|---|---|
| `fss_manager`, loop over the config file (99-277) | the open file, `workers_queue`, `mem`, `inotify_map`, the worker table | poll and read the worker pipes, take a job from the queue or the file, fork, watch, record, push | workers (pipes), inotify |
| `fss_manager`, loop that serves (279-573) | the same, `shutdown_flag`, the fifos | poll and read the pipes, then one of: pop the queue, read inotify, read a command (add, status, sync, cancel, shutdown); fork or push | workers, inotify, console (fifos) |
| worker table | `workers_pid[]`, `fds_array[]`, `workers_buffer[]`, `num_of_current_workers` | take the next slot; empty a slot by exchanging it with the last one in use | both loops |
| `sync_info_mem_store.c`, `lnode.c` | hash table with chains of `dir_info` | create, add (rehash), find; remove and destroy are unused | both loops |
| `hash_table.c`, `list_node.c` | watch descriptor -> directory | create, insert, find, find_key; the rest is unused | both loops |
| `queue.c` | linked list of action strings | push, pop, is_empty | both loops |
| `worker_process.c` | the files of one pair | FULL, ADDED, MODIFIED, DELETED, then a report and SIGCHLD | manager (pipe, signal), other workers (files) |
| SIGCHLD handler (577-581) | - | `wait()` | workers |
| `fss_console.c` | the words of one command | read stdin, write `fss_in`, copy `fss_out` | manager |
| `fss_script.sh` | - | list or purge from a log | the manager's log |

What is hard about it:

* **Interleaving.** The manager never blocks while it serves: it polls with
  timeout 0 and reads whatever part of a report has arrived. A report is up to
  twenty `write` calls, and reports of several workers arrive side by side.
* **A table edited while it is scanned.** A slot is emptied by exchanging it
  with the last one in the middle of the loop over the slots, with the
  `revents` of the poll before the loop.
* **Keys.** A report is attributed by the name it carries, through a table
  that adds by target and finds by source; events are attributed by a
  descriptor through a map from which nothing is removed.
* **Priorities.** Queue before events before commands, one per iteration.
* **Failure.** `fork` or `execl` fails, a worker exits without a report,
  uninitialised memory is read.
* **Batches.** One read may return several events, or several commands.
* **Files under several hands.** Workers of one pair run side by side, each
  from system call to system call, and users change the source in between.
* **Waiting.** The handler waits for a child while nobody reads pipes; both
  programs wait in `open` of two fifos; the console waits for the end of a
  fifo that workers have inherited.

What makes each part correct:

* worker table: every worker is followed once, until its whole report is read;
  a report is put together from the pieces of one worker;
* store and map: what is looked up is found, under its own name;
* config loop: every pair is started once, in order, within `worker_limit`,
  and the loop ends;
* serve loop: every request is acted upon in order; an active directory is
  watched and a cancelled one is not; one FULL sync per directory at a time;
  shutdown completes, and not before the workers have been heard;
* workers: when no worker is left the target equals the source, and the events
  that workers themselves cause come to an end;
* queue: what is pushed is popped, in order, and no freed node is used;
* handler, console: every wait ends, no line a user has typed is lost, and a
  shutdown ends both programs.

## 2. The modules

| Module | Models | |
|---|---|---|
| `FssTypes` | names, operations and jobs (the argv of a worker) | |
| `WorkerPool` | abstract specification: jobs in line, at most `WorkerLimit` running, launched in order, each at most once for every time it came; `Lossy` says if a job in line may be forgotten, the closed pool gets no new jobs | |
| `MemStore` | `sync_info_mem_store.c`, `lnode.c`: operators on the table of `dir_info` | extends `FssTypes` |
| `WatchMap` | `hash_table.c`, `list_node.c`: operators on `inotify_map` | |
| `WorkerTable` | the workers, their pipes, the three arrays, the parser of reports | extends `FssTypes` |
| `ConfigPhase` | the loop over the config file; actions on watches and reports that both loops share | extends the three above, instantiates `WorkerPool` |
| `ConfigReports` | how far reports can be trusted: the history variable `apart` and what holds while it is TRUE | extends `ConfigPhase` |
| `FssManager` | the whole life of the manager, with console and file events | extends `ConfigPhase`, instantiates `WorkerPool` |
| `WorkerSync` | the four operations of `worker_process.c` on the files of one pair, with users, events and the manager's part in short | |
| `ChildReaper` | workers as children: pipes of a limited size, their two SIGCHLD, the handler | |
| `Session` | `fss_console` and the manager's fifos from `mkfifo` to shutdown | extends `ChildReaper` |
| `TaskQueue` | `queue.c`: linked list on a heap that hands cells out again | instantiates `Fifo` |
| `Fifo` | abstract specification of the queue | |
| `MC...` | instances for TLC | |
| `WorkerTableProofs`, `MemStoreProofs` | lemmas on the operations of the table of workers and of the store | extend `WorkerTable`, `MemStore` |
| `ConfigPhaseProofs`, `ConfigReportProofs`, `FssManagerProofs` | theorems on the loop over the config file, on its reports (`ConfigReports`), and on both loops | the last two extend the first, which extends the two above |
| `WorkerSyncProofs`, `SessionProofs`, `TaskQueueProofs` | theorems on the files, the console and the queue | extend the module they are named after |

`FssManager` and `Session` both contain the loop that serves. The first has all
of its data and an abstract console that never waits; the second keeps of it
what the console can tell (a command is answered, a worker started, the rest of
a read lost) and has the waiting, the signals and the fifos in full. Their
product is out of TLC's reach and no property of either needs the other.
`WorkerSync` takes from the manager which worker is started when.

How the state corresponds to the code:

* `workers` is the history of forks; a worker is its number in it. `wrote` is
  how many of the six groups of writes of its report (`PARTS`) have reached
  the pipe, `got` how many the manager has read. The pid and the pipe of a
  slot always move together (173-179), so `workers_pid[i]` stands for both.
* `workers_buffer[i]` says *which* buffer slot `i` reads into and `buffers[b]`
  what is in it, as a sequence of parts with the worker that wrote each. The
  array has one cell more than slots, because the code writes there.
* `Kept` is `strcat` on text with a NUL in it, and `InErrors`, `FieldAt`,
  `WriterOf` are `extract_workers_output`: later fields overwrite earlier
  ones, and everything after an `ERRORS` line counts as an error. A field that
  is missing leaves an uninitialised variable: any value, or a crash.
* `mem.chain[b]` is a chain of the store and `hash_code` is the *length* of a
  name, which is what the C function returns. Status strings are represented
  by the number of the worker that reported them.
* `watch` and `next_wd` are the kernel's side of inotify, `events` its queue;
  `inotify_map` is the manager's. A directory that is watched already gets
  its old descriptor again, as `inotify_add_watch` does.
* `phase` is the part of `main` that runs; `pc` says which of the three kinds
  of steps of an iteration is next: the poll ("poll"), one read of one pipe
  ("drain"), or the one thing the iteration then does ("take"). Workers,
  console and users run between these steps. Within a step, what other
  processes do cannot be told apart from doing it before or after, except by
  the one `read` it contains.
* What ends the process is an action of its own: `exit(-1)` sets `phase` to
  "exited"; a NULL or wild pointer, a failed assertion and the rehash that
  does not return set it to "crashed".

* `WorkerSync`: `src` and `tgt` are the contents of the two directories. A
  worker's `stage` is the system call it will make next, `todo` what `readdir`
  has returned and it has not treated yet, `held` what its open source
  descriptor gives, `linked` whether its open target still has a name: unlink
  does not stop those who have a file open. A copy is one step: a change that
  falls between two reads of a longer file raises an event after it, so that
  file is copied again. `locked` and `sealed` are the files whose mode denies
  reading and writing. Users create, write and delete files, which the watch
  reports (`Seen`), and rename and chmod them, which it does not (`Unseen`: the
  mask at 232 is IN_CREATE | IN_DELETE | IN_MODIFY). ADDED's first `open` needs
  write permission (`worker_process.c:126-129`); of a sealed file, or if the
  call fails for another reason (`CallFails`), nothing is copied. `stale` is a
  history variable, see below.
* `ConfigReports`: `apart` is a history variable, TRUE until two slots in use
  have one buffer. The third swap (180-182) can bring that about.
* `ChildReaper`: `child[c]` goes "unborn", "running", "leaving" (after `kill`),
  "zombie", "reaped"; `sigchld` is one bit because standard signals coalesce.
* `Session`: a fifo is known by its inode, since `open` finds whatever the
  name stands for at that moment. `buffered` is what `scanf` has read and not
  used, which `poll` does not see. `holders` are the workers that inherited
  the write end of `fss_out`.
* `TaskQueue`: `next` and `action` are the memory of all cells, freed or not;
  `order` is a history variable for the nodes in the order of the pushes.

`Faults` chooses what may go wrong: "fork" (fork fails), "die" (a worker ends
without a complete report), "garble" (the bytes after the digits of a number,
the NUL first, are written too: `worker_process.c:203` leaves the order of
`strlen` and `number_to_string` open), "wild" (the `next` pointer that
`list_node_create` does not set is not NULL).

Outside `src/`, modelled from how the code uses it: the kernel's event queue
(`FileChanges`, `RemoveWatch`'s IN_IGNORED) and whoever changes files
(`Users`).

## 3. What is checked

Every run lists its properties in its `.cfg`. *Holds* means that TLC explored
the whole instance without an error; *violated* runs show a place where a
document or comment of the repository says something the code does not do.

| Run | Shows | Bounds |
|---|---|---|
| `config_pool` | holds: types; the table follows every worker once (`TableInv`); a directory is found exactly when it shares a bucket with a target it was started with (`FoundByBucket`); the loop is a lossless closed pool (`ConfigIsPool`) | up to 4 pairs, three sources in one bucket, a target in another one, one source that does not exist, 2 slots, reports seen whole or after STATUS, faults fork, die, garble |
| `config_reports` | holds: while buffers are apart, a status is of its own directory (`OwnWhileApart`), `is_in_workers` follows the only worker of a directory (`FlagWhileApart`), and the loop ends only over a full store or a worker whose entry is not found (`EndsWhileApart`); if every worker is heard, the loop ends (`ConfigLoopEnds`), buffers apart or not | up to 4 pairs, 2 slots, reports cut in the source, in the details and at the end, a target in another bucket, a store that overloads at its fourth entry, faults die, garble |
| `manager_commands` | holds: descriptors are known, active directories are watched, jobs are launched in order, commands leave the fifo, a shutdown that is read completes and not before all is quiet | 3 commands out of 5 about one directory, 2 file events, 1 slot, no fault |
| `manager_faults` | holds: slot accounting and the lossy pool over both loops, up to each of the ends TLC reaches here: the store that overloads (`AddOverloads`), a failing `fork`, a report whose directory is not found, cancel of a directory that is not found or over a wild `next`, an event lost to the assertion | 2 directories, one with a target in another bucket, 2 slots, a store that overloads at its third entry, 2 commands, 1 event, faults fork, die, wild |
| `worker_sync` | holds: types (a worker that copies has a source open); when all is quiet the target is the source, with named exceptions (`QuietMeansMirrored`); it becomes quiet (`Settles`) | 2 files, 2 workers at a time, 2 changes between any system calls (create, write, delete, move, chmod), 1 sync; calls on one file may fail and its mode deny anything; `opendir` may fail |
| `session` | holds: types, with the bound on the worker table; both fifos are of one run; no command of a paced user is lost; the handler, the `open` calls and the last read return; typed lines are read; shutdown ends both programs | 2 workers, pipes that a report just fills, scripts of 3 lines, fifos of an earlier run there or not |
| `task_queue` | holds: the list is whole; it is a fifo | 3 cells, 2 actions |
| `config_shared_buffer` | violated: "Every pipe will have it's own buffer" (112) | 3 pairs, 2 slots |
| `config_long_target` | violated: "We take source_dir as a key" (`sync_info_mem_store.h:3`) | targets with longer names |
| `manager_lost_job` | violated: queued requests are saved for later (`README.md:60`) | 2 commands, 1 event, 1 slot |
| `manager_recancel` | violated: cancel ends the syncing (`README.md:40`) | 3 commands |
| `sync_added` | violated: ADDED copies the content from the source (`worker_process.c:111`); a file the user has deleted comes back, created by `O_CREAT` | 2 edits, 1 worker |

Why the bounds are enough. Two slots are the least with which slots can be
exchanged and buffers shared, and three jobs the least with which a slot is
used again while the other is busy. The swap acts on two slots whatever the
limit is, and the proofs of section 4 cover every limit for both loops.
Four pairs are the least that leave one in the file while another one waits in
the queue of a manager with two slots.
Three pairs in one bucket are the least that tell a chain that grows after its
head from one that loses its rest. cancel, add, cancel is the shortest history
in which a stale descriptor matters, so three commands. `EventsPerRead` is 3,
what certainly fits in 1024 bytes with names of 255 bytes. In `worker_sync` two
workers and two files are the least with which a FULL worker meets another one
in the middle of its list; two changes are the least with which a deletion can
overtake a copy or a mode change under a worker, and the proofs cover any
number. In `session` two children are the least with which one
signal can stand for two exits, and reports of two writes that just fill a pipe
are the tightest that `ReportFits` allows.

`Cuts` bounds after which parts of a report the manager may look: cutting
after STATUS separates the fields the properties are about from the end;
`config_reports` cuts before the operation, before the errors and at the end, so that
two reports are interleaved in three pieces each. `MaxCommands` and `MaxEvents` bound the
console and the users.

What a run with a weaker instance would hide is worth knowing:

* `StatusIsOwn` holds only as long as buffers are apart: the third swap can make
  two slots share one (`config_shared_buffer`). `OwnWhileApart` says how far it
  can be relied on: in `config_reports` TLC reaches states with both buffers
  filled, a slot used by its second worker, a crash, an exit over a report and
  the second loop, all with `apart` still TRUE.
* `ConfigLoopEnds` has as hypothesis that every worker is heard (`Heard`: none
  dies early, no NUL hides the end of a report), and `ShutdownCompletes` is
  checked without faults: otherwise a slot is never freed and neither holds. A
  dead worker leaves only POLLHUP, which line 298 does not look at, so
  "shutdown: Shuts down fss_manager and terminates" (`README.md:42`) is not
  what happens then.
* The `sync` command does not set `is_in_workers` (483), so two FULL workers of
  one source may run in spite of the comment at 474; and of several events
  that one read returns only the first is acted upon, in spite of the comment
  at 372. Both are in the models, `WorkerSync` included, where they make files
  `stale`. `FlagWhileApart` is about the workers of the config file; the flag
  says nothing of a worker that sync has started.
* `QuietMeansMirrored` excepts the files in `stale` and `locked`. `stale` holds
  those changed before the watch was set (the FULL worker is forked first,
  214 and 232), those of lost events, those moved or whose mode was changed,
  which the watch does not report (232), those given to a worker while another
  one was at them, those a failing call made a worker skip, and those ADDED may
  not write to (`worker_process.c:126-129`). A later worker that suits the file
  and has it to itself, with no event about it left, clears it. `locked` holds
  files whose mode denies reading, among them those that ADDED created again
  without a mode (`worker_process.c:126`). So the property does not rule these
  losses out; it says that there are no others and that a later worker makes
  them good.
* `NothingIsLost` and `SessionEnds` are about a user who types a line after
  the answer to the last one (`paced`). Otherwise two commands can come with
  one read of `fss_in`, the second is lost, and if that is shutdown both
  programs wait for ever.
* `LinesAreRead` is about a terminal (`tty`), which gives `read` one line at a
  time. Lines that come together from a pipe stay in `scanf`'s buffer until
  more input comes.
* `ConsoleIsServed` is about a console whose `open` found the new `fss_in`. One
  that was started too early waits at a fifo that has no name any more; this
  is why `session` does not check deadlock.
* `SessionEnds` does not say that no zombie is left: with coalesced signals one
  `wait` may stand for several exits, until a later signal.
* `CommandsAreTaken` says that commands leave `fss_in`, not that each is
  obeyed: `TakeCommand` empties the fifo and uses the first line only (405-411).
* `StartedIsFound` is false of pairs whose names fall in two buckets
  (`config_long_target`); `FoundByBucket` says exactly when a lookup succeeds.

**Fairness.** `WF(Manager)`: the loops poll with timeout 0 and never sleep, and
the fifos are open once "serve" is reached; the wait for the console between
the loops (269, 273) is not modelled, so serving starts as soon as it may.
`WF(WorkerProgress)`: copying and deleting files ends, so a worker that lives
goes on writing its report. Nothing is assumed of the console, of the users, or
of the faults. `CommandsAreTaken` and `ShutdownCompletes` also rest on
`MaxEvents`: events go before commands, and an endless stream of them would be
served for ever.

`WorkerSync` has `WF(Manager)` for the same reason, and `WF(WorkerSteps(w))`:
system calls on files return. `Settles` needs `MaxEdits`: users who never stop
keep workers busy. In `Session` each program goes on when it can and calls of
`open` that meet return; the user owes nothing. That the manager's polling
loops of the other models are never held up for good is what `HandlerReturns`
shows: it rests on `ReportFits`, that a worker's whole report fits in a pipe
(a few KB against 64), because the handler may wait for a worker while nobody
reads that worker's pipe. With a `ReportSize` above `PipeSize` it fails.

Deadlock is checked in every run but `session`: a process that has ended
stutters (`Over`, `ConfigOver`, `Rest`), and everything else must have a step.

## 4. What is proved

Every invariant and both refinements that a passing run checks are theorems,
for every set of names, file contents, worker limit, capacity, faults, cuts,
commands and bounds that satisfy the assumptions the modules name. Every
invariant below was checked by TLC before it was proved.

| Theorem | of | states |
|---|---|---|
| `ConfigTypes`, `ConfigSlots`, `ConfigTable` | `ConfigSpec` | `ConfigTypeOK`, `SlotAccounting`, `TableInv` |
| `ConfigImplementsPool` | `ConfigSpec` | `ConfigIsPool` |
| `ConfigLookups` | `ConfigSpec` | `FoundByBucket` |
| `ReportsInvariant` | `ReportsSpec` | `ConfigInv /\ (apart => ApartInv)` |
| `ReportsOwn`, `ReportsFlag`, `ReportsEnds` | `ReportsSpec` | `OwnWhileApart`, `FlagWhileApart`, `EndsWhileApart` |
| `ManagerTypes`, `ManagerSlots` | `FssManager!Spec` | `TypeOK`, `SlotAccounting` |
| `ManagerKnowsDescriptors`, `ManagerWatchesActive` | `FssManager!Spec` | `DescriptorsKnown`, `ActiveIsWatched` |
| `ManagerDoneIsQuiet` | `FssManager!Spec` | `DoneIsQuiet` |
| `ManagerImplementsLossyPool` | `FssManager!Spec` | `ManagerIsLossyPool` |
| `SyncTypes`, `SyncInvariant`, `SyncMirrors` | `WorkerSync!Spec` | `TypeOK`, `ShapeInv /\ SyncInv`, `QuietMeansMirrored` |
| `SessionTypes`, `SessionConnectedIsWhole`, `SessionNothingIsLost` | `Session!Spec` | `TypeOK`, `ConnectedIsWhole`, `NothingIsLost` |
| `ListStaysWhole`, `QueueImplementsFifo` | `TaskQueue!Spec` | `ListInv`, `QueueIsFifo` |

**The loop over the config file.** `SlotAccounting` alone is not inductive: a
slot may be retired only because its report is complete, which needs that no
buffer holds an `EXEC_REPORT_END` from earlier (`NoEndIsKept`), that nobody has
read more than was written (`ReadIsWritten`), and that a slot the poll found
readable still is when its turn comes (`ReadyHasInput`), although slots were
exchanged in between. Their conjunction with the types is `TableInv`, which
`config_pool` checks too; with the types of the loop's own variables it is
`ConfigInv`, the invariant of `ConfigInvariant`. `WorkerTableProofs` shows what
each operation of the table does to it, `MemStoreProofs` what adding and
overwriting do to the store, and `ConfigPhaseProofs` has one lemma per action.

The types are not a formality here: that `workers_buffer[i]` names an
allocated buffer for every slot in use, although the third swap writes to a
cell that may lie beyond the array, is part of them.

`ConfigImplementsPool` maps the line of `WorkerPool` to `queue \o unread`:
reading a pair that finds no slot only moves the boundary between the two.
`RunningIsSmall` gives the bound on running workers from the slots in use.

Reading the file is the only source of jobs, so the pool is closed: the line
with the launched jobs before it is always the file.

`ConfigLookups` needs no hypothesis on names: `StartPair` makes findable what
`FoundByBucket` says (`AddIsFound`: what `sync_info_mem_store_add` refuses is
there already), and overwriting an entry moves none.

**While buffers are apart.** What a report says can be trusted only while no
two slots share a buffer, and with two slots or more they may. The theorems of
`ConfigReportProofs` hold for any number of slots, up to the step in which this
happens; the invariant is therefore guarded by `apart`. `ReportInv` says that
the buffer of a slot in use holds exactly what has been read of the report of
the slot's worker, and a buffer of no slot in use is empty: a NUL may hide what
follows the counts, never the names and the status. With it the parser finds
the worker's own fields, and a status in the store was reported by a worker of
its directory (`StatusInv`). For `is_in_workers` more is needed: an entry is
made with a worker, and a directory that had one worker only has at most one
entry (`EntryInv`). `EndsInv` follows the exits: a report that is read in full
lacks no field, and the directory it names is its worker's, so the loop can
only be ended by an entry that is in another bucket. Workers that die and NUL
bytes in reports are covered.

**Both loops.** `ManagerInv` is `ConfigInv` and the types of what the console
and the kernel share with the manager. The lemmas of the config loop are about
the actions both loops use, so only what the second loop adds is proved again.

`DescriptorsKnown` is inductive by itself: a descriptor is inserted in the step
that obtains it. `ActiveIsWatched` needs it, because cancel removes the watch
of the descriptor that `find_key` returns for a *name*: that this is no other
directory's watch is what `DescriptorsKnown` says. Their conjunction is
`WatchInv`.

`DoneIsQuiet` is inductive relative to `ManagerInv`: only the exit of the serve
loop sets "done", with an empty queue and no slot in use, and then
`SlotAccounting` says that every worker ever forked has been heard to its end.

For the lossy pool the line is again `queue \o unread`. In the second loop it
must be the queue alone, since a new job goes to the end of the queue or, with
nobody in it, to a worker: nothing of the file is unread by then (`FileIsRead`,
theorem `ManagerReadsItsFile`). The pop that drops its job (`manager_lost_job`)
is the pool's step that forgets.

**Files.** `QuietMeansMirrored` speaks of the end, and the invariant behind it
of the way there. For a file that is not stale `FileInv` says: at most one
worker is at it; if it can be read and no event about it waits, then either no
worker is at it and the target equals the source, or that worker is `OnWay`,
in a state from which its own remaining system calls make them equal.
`LastTells` connects the queue with the disk: of a file that is not stale the
last event says `DELETE` exactly if the file is gone, so that the worker the manager starts for
it is the right one. `ShapeInv` ties a worker's list and stage to its operation.
The lemmas follow the actors: `WorkerProgress` for the system calls of a
worker, `ChangeKeeps` for every change of the source, the truncation by an
ADDED worker included, `StartKeeps` for the worker a new event starts. Any
number of files, workers and edits is covered.

**The session.** `ConnectedIsWhole` becomes inductive with what each end of the
fifos knows about the other at each point of its program (`FifoInv`).
`NothingIsLost` rests on a count: the commands and answers in flight, wherever
they are, are at most the lines the user has not seen answered, and those are
at most one for a user who is `paced` (`LineInv`). `ChildInv` bounds the table
of workers by `WorkerLimit`.

**The queue.** `ListInv` is inductive as it stands once the history `order`
names the nodes: a push links a cell that is not in `order`, so no pointer of
the list changes but that of the last node; a pop frees the only node that
leaves `order`. Under it `Line` maps a push to `Append` and a pop to `Tail`.
`ConfigPhase` and `FssManager` use the queue as a sequence, and this is what
entitles them to.

**Assumptions.** On constants the modules assume only what their meaning asks
for: limits, capacities and bounds are numbers, the limit and the capacity not
0; faults, cuts and statuses are of the known kinds; files of the config hold
pairs; a directory has files (`FileAssumption`); texts differ from the words
that stand for "no file" or for a descriptor (`TextAssumption`). Of
`ReportFits` the proofs use that the size of a report is a number; that it fits
in a pipe matters to liveness only. No theorem has a hypothesis besides these.

**Only model-checked.** All liveness: `ConfigLoopEnds`, `CommandsAreTaken`,
`ShutdownCompletes`, `Settles`, `HandlerReturns`, `ConsoleIsServed`,
`LinesAreRead`, `SessionEnds`. Liveness under fairness and `ENABLED` are out of
the prover's reach. The violation runs are counterexamples and need no proof.

## 5. What is not modelled

* The lengths of buffers: `strcat` beyond 1024 bytes (151, 305), the
  terminator behind a full read (150, 304, 407), `error_buffer`.
* Descriptors: read ends of pipes, and those of files in ADDED, are never
  closed; no behaviour of a few workers reaches the limit.
* `malloc` that fails, which ends the process that called it.
* A file that takes several reads to copy, subdirectories, links.
* Functions nobody calls: `queue_destroy` (whose last `free` is given the
  address of the caller's variable), remove and destroy of both tables, rehash
  of `hash_table.c`. The rehash of the store (`sync_info_mem_store.c:90-118`)
  is modelled as what it does to its caller: from 174 entries on the prime it
  chooses is the capacity it has, and it does not come back.
* Text written to `fss_out` and the logs, time stamps and error counts; an
  answer counts as one message.
* A console that ends without shutdown (SIGPIPE and POLLHUP at the manager), a
  manager that ends before its console, commands typed over several lines.
* Arguments of the programs and `fopen`: straight-line checks without state.
* `fss_script.sh`, text filters over a finished log, and the Makefile.
* IN_Q_OVERFLOW of inotify. `WorkerSync` merges an event with an equal last
  one, as the kernel does; `FssManager` does not.
* Descriptors from 107 on, where buckets of `inotify_map` start to be shared
  with the one of the key -1.
* Commands that are not well formed: the console sends none (`Complain`).

* In `WorkerSync`, a rename within the source directory is a move of each of the
  two names, and a mode changes only for the files in `Fragile`.
* Deletion of a watched directory itself.

Hazards that the models contain but no property rules out, because the code
does not avoid them: a NUL that hides the end of a report, a worker that dies
without one, events and commands dropped behind the first one of a read, a
change before the watch is set or outside its mask, an ADDED worker that may
not write to its source, two workers in one directory, lines `scanf` has read
ahead. The properties that come near them have them as exception or are stated
of runs without them, and say so.

## 6. What is left

1. `OwnWhileApart` and `EndsWhileApart` for the loop that serves, where `sync`
   may start a second worker of a directory and cancel and shutdown come in.
2. The safety halves behind other liveness properties: a measure that every
   step of `WorkerSync` lowers once the users have stopped (`Settles`), and that
   a worker can always write its report without the manager (`ReportFits`,
   `HandlerReturns`).
