--------------------------- MODULE WorkerSyncProofs ---------------------------
(***************************************************************************)
(* Theorems about the files of a directory pair, for any files, contents,  *)
(* number of workers, size of a read and number of changes: types, and     *)
(* that all files that are not in doubt and can be read are mirrored at    *)
(* rest.                                                                   *)
(***************************************************************************)
EXTENDS WorkerSync, SequenceTheorems, TLAPS

LEMMA ContentFacts ==
  /\ NoFile \notin Content /\ "live" \notin Content /\ "closed" \notin Content
  /\ Empty \in Content /\ Text \subseteq Content
BY TextAssumption DEF Content, NoFile, Empty

-----------------------------------------------------------------------------
(* Types.                                                                  *)

LEMMA NewWorkerType ==
  ASSUME NEW op \in {"FULL", "ADDED", "MODIFIED", "DELETED"},
         NEW files \in SUBSET File, files # {}
  PROVE  /\ NewWorker(op, files) \in Worker
         /\ NewWorker(op, files).op = op
         /\ NewWorker(op, files).files = files
         /\ NewWorker(op, files).todo = files
         /\ NewWorker(op, files).held = "closed"
         /\ NewWorker(op, files).stage =
              IF op = "FULL" THEN "scan" ELSE IF op = "ADDED" THEN "truncate"
              ELSE IF op = "MODIFIED" THEN "copy" ELSE "delete"
<1> DEFINE g == CHOOSE f \in files : TRUE
<1>1. g \in File
  OBVIOUS
<1>2. FirstStage(op) = IF op = "FULL" THEN "scan" ELSE IF op = "ADDED" THEN "truncate"
                       ELSE IF op = "MODIFIED" THEN "copy" ELSE "delete"
  BY DEF FirstStage
<1>3. NewWorker(op, files) =
        [op |-> op, stage |-> FirstStage(op), files |-> files, todo |-> files,
         file |-> g, held |-> "closed", linked |-> FALSE]
  BY DEF NewWorker
<1> HIDE DEF g
<1> QED BY <1>1, <1>2, <1>3 DEF Worker, Stage

LEMMA NoWorkerType ==
  /\ NoWorker \in Worker /\ NoWorker.stage = "idle"
  /\ NoWorker.op = "FULL" /\ NoWorker.files = File /\ NoWorker.todo = File
<1> DEFINE k == NewWorker("FULL", File)
<1>1. k \in Worker /\ k.op = "FULL" /\ k.files = File /\ k.todo = File
  BY NewWorkerType, FileAssumption
<1>2. NoWorker = [k EXCEPT !.stage = "idle"]
  BY DEF NoWorker
<1> HIDE DEF k
<1> QED BY <1>1, <1>2 DEF Worker, Stage

(* The kernel's queue keeps its type. *)
LEMMA NotifyType ==
  ASSUME events \in Seq(Change), NEW f \in File, NEW mask \in {"CREATE", "MODIFY", "DELETE"},
         Notify(f, mask)
  PROVE  events' \in Seq(Change)
<1>1. [file |-> f, mask |-> mask] \in Change
  BY DEF Change
<1> QED BY <1>1 DEF Notify

LEMMA InitTypes == Init => TypeOK
<1> SUFFICES ASSUME Init PROVE TypeOK
  OBVIOUS
<1>1. NewWorker("FULL", File) \in Worker /\ NewWorker("FULL", File).stage = "scan"
  BY NewWorkerType, FileAssumption
<1>2. NoWorker \in Worker /\ NoWorker.stage = "idle"
  BY NoWorkerType
<1>3. workers \in [Slot -> Worker] /\ \A w \in Slot : workers[w].stage # "write"
  BY <1>1, <1>2 DEF Init
<1>4. src \in [File -> {NoFile} \cup Content] /\ tgt \in [File -> {NoFile} \cup Content]
  BY ContentFacts DEF Init
<1>5. edits \in 0..MaxEdits /\ syncs \in 0..MaxSyncs
  BY SyncBoundsAssumption DEF Init
<1>6. /\ locked \subseteq File /\ sealed \subseteq File /\ events \in Seq(Change) /\ stale \subseteq File
      /\ watched \in BOOLEAN /\ is_in_workers \in BOOLEAN
  <2>1. locked = {} /\ sealed = {} /\ events = <<>> /\ stale = {} /\ watched = FALSE /\ is_in_workers = TRUE
    BY DEF Init
  <2>2. locked \subseteq File /\ sealed \subseteq File /\ stale \subseteq File /\ watched \in BOOLEAN /\ is_in_workers \in BOOLEAN
    BY <2>1, Zenon
  <2>3. events \in Seq(Change)
    BY <2>1, EmptySeq
  <2> QED BY <2>2, <2>3
<1> QED BY <1>3, <1>4, <1>5, <1>6 DEF TypeOK

(* The changes users make, one by one. *)
UserStep(f) ==
  \/ UserCreates(f) \/ UserDeletes(f) \/ UserChmods(f)
  \/ \E c \in Content : UserWrites(f, c)
  \/ \E c \in Content \cup {NoFile} : UserMoves(f, c)

LEMMA ModeTypes ==
  ASSUME TypeOK, NEW f \in File, PlainMode(f) \/ AnyMode(f)
  PROVE  /\ locked' \subseteq File /\ sealed' \subseteq File
         /\ \A g \in File \ {f} : g \in locked => g \in locked'
BY DEF PlainMode, AnyMode, TypeOK

(* What the users do to a file changes its content, its mode, what those who
   have it open hold, and the queue of events. *)
LEMMA UserFacts ==
  ASSUME TypeOK, NEW f \in File, UserStep(f)
  PROVE  /\ Edit /\ (Unseen(f) \/ \E mask \in {"CREATE", "MODIFY", "DELETE"} : Seen(f, mask))
         /\ PlainMode(f) \/ AnyMode(f) \/ UNCHANGED <<locked, sealed>>
         /\ UNCHANGED workers \/ (src[f] # NoFile /\ KeepOpen(f))
         /\ UNCHANGED src \/ \E c \in Content \cup {NoFile} : src' = [src EXCEPT ![f] = c]
<1>1. CASE UserCreates(f)
  BY <1>1, ContentFacts DEF UserCreates, Seen, UsersMode
<1>2. CASE UserDeletes(f)
  BY <1>2 DEF UserDeletes, Seen
<1>3. CASE UserChmods(f)
  BY <1>3 DEF UserChmods, Unseen
<1>4. ASSUME NEW c \in Content, UserWrites(f, c)
      PROVE  /\ Edit /\ Seen(f, "MODIFY") /\ src' = [src EXCEPT ![f] = c]
             /\ UNCHANGED <<locked, sealed, workers>>
  BY <1>4 DEF UserWrites, Seen
<1>5. ASSUME NEW c \in Content \cup {NoFile}, UserMoves(f, c)
      PROVE  /\ Edit /\ Unseen(f) /\ src' = [src EXCEPT ![f] = c]
             /\ PlainMode(f) \/ AnyMode(f)
             /\ UNCHANGED workers \/ (src[f] # NoFile /\ KeepOpen(f))
  BY <1>5 DEF UserMoves, Unseen, UsersMode
<1> QED BY <1>1, <1>2, <1>3, <1>4, <1>5 DEF UserStep

(* What the users do keeps the types. *)
LEMMA UserTypes == TypeOK /\ Users => TypeOK'
<1> SUFFICES ASSUME TypeOK, NEW f \in File, UserStep(f) PROVE TypeOK'
  BY DEF Users, UserStep
<1>0. /\ Edit /\ (Unseen(f) \/ \E mask \in {"CREATE", "MODIFY", "DELETE"} : Seen(f, mask))
      /\ PlainMode(f) \/ AnyMode(f) \/ UNCHANGED <<locked, sealed>>
      /\ UNCHANGED workers \/ (src[f] # NoFile /\ KeepOpen(f))
      /\ UNCHANGED src \/ \E c \in Content \cup {NoFile} : src' = [src EXCEPT ![f] = c]
  BY UserFacts
<1>1. /\ edits' \in 0..MaxEdits /\ syncs' \in 0..MaxSyncs
      /\ watched' \in BOOLEAN /\ is_in_workers' \in BOOLEAN
      /\ tgt' \in [File -> {NoFile} \cup Content]
  BY <1>0, SyncBoundsAssumption DEF Edit, TypeOK
<1>2. events' \in Seq(Change) /\ stale' \subseteq File
  <2>1. CASE Unseen(f)
    BY <2>1 DEF Unseen, TypeOK
  <2>2. ASSUME NEW mask \in {"CREATE", "MODIFY", "DELETE"}, Seen(f, mask)
        PROVE  events' \in Seq(Change) /\ stale' \subseteq File
    <3>1. events' \in Seq(Change)
      BY <2>2, NotifyType DEF Seen, TypeOK
    <3> QED BY <2>2, <3>1 DEF Seen, TypeOK
  <2> QED BY <1>0, <2>1, <2>2
<1>3. src' \in [File -> {NoFile} \cup Content]
  BY <1>0 DEF TypeOK
<1>4. locked' \subseteq File /\ sealed' \subseteq File
  BY <1>0, ModeTypes DEF TypeOK
<1>5. /\ workers' \in [Slot -> Worker]
      /\ \A w \in Slot : workers'[w].stage = "write" => workers'[w].held # "closed"
  <2>1. CASE src[f] # NoFile /\ KeepOpen(f)
    <3>1. src[f] \in Content
      BY <2>1 DEF TypeOK
    <3> DEFINE gone(w) == IF workers[w].stage \in {"target", "write"} /\ workers[w].file = f
                               /\ workers[w].held = "live"
                          THEN [workers[w] EXCEPT !.held = src[f]] ELSE workers[w]
    <3>2. workers' = [w \in Slot |-> gone(w)]
      BY <2>1 DEF KeepOpen
    <3>3. ASSUME NEW w \in Slot
          PROVE  gone(w) \in Worker /\ (gone(w).stage = "write" => gone(w).held # "closed")
      <4>1. workers[w] \in Worker /\ (workers[w].stage = "write" => workers[w].held # "closed")
        BY DEF TypeOK
      <4> QED BY <3>1, <4>1, ContentFacts DEF Worker
    <3> HIDE DEF gone
    <3> QED BY <3>2, <3>3
  <2>2. CASE UNCHANGED workers
    BY <2>2 DEF TypeOK
  <2> QED BY <1>0, <2>1, <2>2
<1> QED BY <1>1, <1>2, <1>3, <1>4, <1>5 DEF TypeOK

(* A step that puts a record of a worker in the place of the one of slot w. *)
LEMMA OneWorkerTypes ==
  ASSUME TypeOK, NEW w \in Slot, NEW k \in Worker,
         k.stage = "write" => k.held # "closed",
         workers' = [workers EXCEPT ![w] = k]
  PROVE  /\ workers' \in [Slot -> Worker]
         /\ \A x \in Slot : workers'[x].stage = "write" => workers'[x].held # "closed"
BY DEF TypeOK

LEMMA StartTypes ==
  ASSUME TypeOK, NEW w \in Slot, NEW op \in {"FULL", "ADDED", "MODIFIED", "DELETED"},
         NEW files \in SUBSET File, files # {}, Start(w, op, files)
  PROVE  /\ workers' \in [Slot -> Worker]
         /\ \A x \in Slot : workers'[x].stage = "write" => workers'[x].held # "closed"
<1>1. NewWorker(op, files) \in Worker /\ NewWorker(op, files).stage # "write"
  BY NewWorkerType
<1> QED BY <1>1, OneWorkerTypes DEF Start

LEMMA ManagerTypes == TypeOK /\ (Manager \/ SyncCommand) => TypeOK'
<1> SUFFICES ASSUME TypeOK, Manager \/ SyncCommand PROVE TypeOK'
  OBVIOUS
<1>1. CASE AddWatch
  BY <1>1 DEF AddWatch, TypeOK
<1>2. CASE TakeEvents
  <2>1. Head(events) \in Change /\ events \in Seq(Change) /\ events # <<>>
    BY <1>2 DEF TakeEvents, TypeOK
  <2>2. \A k \in DOMAIN events : events[k].file \in File
    <3>1. \A k \in DOMAIN events : events[k] \in Change
      BY <2>1
    <3> QED BY <3>1 DEF Change
  <2>3. JobOf(Head(events).mask) \in {"ADDED", "MODIFIED", "DELETED"} /\ Head(events).file \in File
    BY <2>1 DEF Change, JobOf
  <2>4. /\ workers' \in [Slot -> Worker]
        /\ \A x \in Slot : workers'[x].stage = "write" => workers'[x].held # "closed"
    <3>1. CASE UNCHANGED workers
      BY <3>1 DEF TypeOK
    <3>2. CASE \E w \in Slot : Start(w, JobOf(Head(events).mask), {Head(events).file})
      <4>1. PICK w \in Slot : Start(w, JobOf(Head(events).mask), {Head(events).file})
        BY <3>2
      <4> QED BY <4>1, <2>3, StartTypes
    <3> QED BY <1>2, <3>1, <3>2 DEF TakeEvents
  <2>5. stale' \subseteq File
    <3>1. \A op, left : InDoubt(op, {Head(events).file}, left) \subseteq File
      BY <2>3 DEF InDoubt, TypeOK
    <3>2. \A first : {events[k].file : k \in {i \in {k \in DOMAIN events : k <= EventsPerRead} :
                                                i >= first}} \subseteq File
      BY <2>2
    <3>3. stale \subseteq File
      BY DEF TypeOK
    <3> QED BY <1>2, <3>1, <3>2, <3>3 DEF TakeEvents
  <2>6. events' \in Seq(Change)
    <3>1. events' = SubSeq(events, EventsPerRead + 1, Len(events))
      BY <1>2 DEF TakeEvents
    <3> QED BY <2>1, <3>1, SyncEventsAssumption, SubSeqProperties
  <2> QED BY <1>2, <2>4, <2>5, <2>6 DEF TakeEvents, TypeOK
<1>3. CASE SyncCommand
  <2>1. PICK w \in Slot : Start(w, "FULL", File)
    BY <1>3 DEF SyncCommand
  <2>2. /\ workers' \in [Slot -> Worker]
        /\ \A x \in Slot : workers'[x].stage = "write" => workers'[x].held # "closed"
    BY <2>1, FileAssumption, StartTypes
  <2> QED BY <1>3, <2>2, SyncBoundsAssumption DEF SyncCommand, InDoubt, TypeOK
<1>4. ASSUME NEW w \in Slot, Retire(w) PROVE TypeOK'
  <2>1. NoWorker \in Worker /\ NoWorker.stage # "write"
    BY NoWorkerType
  <2>3. /\ workers' \in [Slot -> Worker]
        /\ \A x \in Slot : workers'[x].stage = "write" => workers'[x].held # "closed"
    BY <1>4, <2>1, OneWorkerTypes DEF Retire
  <2> QED BY <1>4, <2>3 DEF Retire, TypeOK
<1> QED BY <1>1, <1>2, <1>3, <1>4 DEF Manager

(* A worker's step keeps the types. *)
LEMMA WorkerStepTypes ==
  ASSUME TypeOK, NEW w \in Slot, WorkerSteps(w)
  PROVE  TypeOK'
<1>0. workers[w] \in Worker /\ workers \in [Slot -> Worker]
  BY DEF TypeOK
<1>1. CASE ScanTarget(w)
  <2> DEFINE k == [workers[w] EXCEPT !.stage = "delete", !.todo = {f \in File : tgt[f] # NoFile}]
  <2>1. k \in Worker /\ k.stage # "write"
    BY <1>0 DEF Worker, Stage
  <2>2. workers' = [workers EXCEPT ![w] = k]
    BY <1>0, <1>1 DEF ScanTarget
  <2> HIDE DEF k
  <2>3. /\ workers' \in [Slot -> Worker]
        /\ \A x \in Slot : workers'[x].stage = "write" => workers'[x].held # "closed"
    BY <2>1, <2>2, OneWorkerTypes
  <2> QED BY <1>1, <2>3 DEF ScanTarget, UnlessSource, TypeOK
<1>2. CASE ScanSource(w)
  <2> DEFINE k == [workers[w] EXCEPT
                     !.stage = IF workers[w].op = "FULL" THEN "copy" ELSE "done",
                     !.todo = IF workers[w].op = "FULL" THEN {f \in File : src[f] # NoFile} ELSE {}]
  <2>1. k \in Worker /\ k.stage # "write"
    BY <1>0 DEF Worker, Stage
  <2>2. workers' = [workers EXCEPT ![w] = k]
    BY <1>0, <1>2 DEF ScanSource
  <2> HIDE DEF k
  <2>3. /\ workers' \in [Slot -> Worker]
        /\ \A x \in Slot : workers'[x].stage = "write" => workers'[x].held # "closed"
    BY <2>1, <2>2, OneWorkerTypes
  <2> QED BY <1>2, <2>3 DEF ScanSource, UnlessSource, TypeOK
<1>3. CASE TruncateSource(w)
  <2>1. PICK s \in {"copy", "done"} : workers' = [workers EXCEPT ![w].stage = s]
    BY <1>3 DEF TruncateSource
  <2>2. [workers[w] EXCEPT !.stage = s] \in Worker /\ [workers[w] EXCEPT !.stage = s].stage # "write"
    BY <1>0 DEF Worker, Stage
  <2>3. workers' = [workers EXCEPT ![w] = [workers[w] EXCEPT !.stage = s]]
    BY <1>0, <2>1
  <2>4. /\ workers' \in [Slot -> Worker]
        /\ \A x \in Slot : workers'[x].stage = "write" => workers'[x].held # "closed"
    BY <2>2, <2>3, OneWorkerTypes
  <2>5. PICK f \in workers[w].todo :
          \/ /\ src' = [src EXCEPT ![f] = Empty]
             /\ Notify(f, "MODIFY") \/ Notify(f, "CREATE")
             /\ AnyMode(f) \/ UNCHANGED <<locked, sealed>>
             /\ UNCHANGED stale
          \/ UNCHANGED <<src, locked, sealed, events>> /\ stale' = stale \cup {f}
    BY <1>3 DEF TruncateSource
  <2>6. f \in File
    BY <1>0 DEF Worker
  <2>7. events' \in Seq(Change)
    BY <2>5, <2>6, NotifyType DEF TypeOK
  <2>8. src' \in [File -> {NoFile} \cup Content] /\ stale' \subseteq File
    BY <2>5, <2>6, ContentFacts DEF TypeOK
  <2>9. locked' \subseteq File /\ sealed' \subseteq File
    BY <2>5, <2>6, ModeTypes DEF TypeOK
  <2> QED BY <1>3, <2>4, <2>7, <2>8, <2>9 DEF TruncateSource, TypeOK
<1>4. CASE OpenTarget(w)
  <2> DEFINE k == [workers[w] EXCEPT !.linked = workers[w].held # "closed",
                     !.stage = IF workers[w].held = "closed" THEN "copy" ELSE "write"]
  <2>1. k \in Worker /\ (k.stage = "write" => k.held # "closed")
    BY <1>0 DEF Worker, Stage
  <2>2. workers' = [workers EXCEPT ![w] = k]
    BY <1>0, <1>4 DEF OpenTarget
  <2> HIDE DEF k
  <2>3. /\ workers' \in [Slot -> Worker]
        /\ \A x \in Slot : workers'[x].stage = "write" => workers'[x].held # "closed"
    BY <2>1, <2>2, OneWorkerTypes
  <2>4. tgt' \in [File -> {NoFile} \cup Content]
    BY <1>4, ContentFacts DEF OpenTarget, TypeOK
  <2> QED BY <1>4, <2>3, <2>4 DEF OpenTarget, UnlessSource, TypeOK
<1>5. CASE CopyText(w)
  <2> DEFINE k == [workers[w] EXCEPT !.stage = "copy", !.held = "closed", !.linked = FALSE]
             f == workers[w].file
             text == IF workers[w].held = "live" THEN src[f] ELSE workers[w].held
  <2>1. k \in Worker /\ k.stage # "write"
    BY <1>0 DEF Worker, Stage
  <2>2. workers' = [workers EXCEPT ![w] = k]
    BY <1>0, <1>5 DEF CopyText
  <2>3. text \in {NoFile} \cup Content
    <3>1. workers[w].held # "closed" /\ f \in File /\ workers[w].held \in Content \cup {"live", "closed"}
      BY <1>0, <1>5 DEF CopyText, TypeOK, Worker
    <3>2. src[f] \in {NoFile} \cup Content
      BY <3>1 DEF TypeOK
    <3> QED BY <3>1, <3>2
  <2>4. tgt' = tgt \/ tgt' = [tgt EXCEPT ![f] = text]
    BY <1>5 DEF CopyText
  <2> HIDE DEF k, f, text
  <2>5. /\ workers' \in [Slot -> Worker]
        /\ \A x \in Slot : workers'[x].stage = "write" => workers'[x].held # "closed"
    BY <2>1, <2>2, OneWorkerTypes
  <2>6. tgt' \in [File -> {NoFile} \cup Content]
    BY <2>3, <2>4 DEF TypeOK
  <2> QED BY <1>5, <2>5, <2>6 DEF CopyText, UnlessSource, TypeOK
<1>6. CASE CallFails(w)
  <2>1. PICK k \in Worker : k.stage # "write" /\ workers' = [workers EXCEPT ![w] = k]
    <3>1. CASE workers' = [workers EXCEPT ![w].stage = "done"]
      <4>1. [workers[w] EXCEPT !.stage = "done"] \in Worker
        BY <1>0 DEF Worker, Stage
      <4>2. [workers[w] EXCEPT !.stage = "done"].stage # "write"
        BY <1>0 DEF Worker
      <4> QED BY <1>0, <3>1, <4>1, <4>2
    <3>2. CASE workers[w].stage = "delete" /\ \E f \in workers[w].todo \cap Fragile :
                 workers' = [workers EXCEPT ![w].todo = @ \ {f}]
      <4>1. PICK f : workers' = [workers EXCEPT ![w] = [workers[w] EXCEPT !.todo = workers[w].todo \ {f}]]
        BY <1>0, <3>2
      <4>2. /\ [workers[w] EXCEPT !.todo = workers[w].todo \ {f}] \in Worker
            /\ [workers[w] EXCEPT !.todo = workers[w].todo \ {f}].stage # "write"
        BY <1>0, <3>2 DEF Worker
      <4> QED BY <4>1, <4>2
    <3>3. CASE workers' = [workers EXCEPT ![w].stage = "copy", ![w].held = "closed", ![w].linked = FALSE]
      <4> DEFINE k == [workers[w] EXCEPT !.stage = "copy", !.held = "closed", !.linked = FALSE]
      <4>1. k \in Worker /\ k.stage # "write"
        BY <1>0 DEF Worker, Stage
      <4>2. workers' = [workers EXCEPT ![w] = k]
        BY <1>0, <3>3
      <4> HIDE DEF k
      <4> QED BY <4>1, <4>2
    <3> QED BY <1>6, <3>1, <3>2, <3>3 DEF CallFails
  <2>2. /\ workers' \in [Slot -> Worker]
        /\ \A x \in Slot : workers'[x].stage = "write" => workers'[x].held # "closed"
    BY <2>1, OneWorkerTypes
  <2>3. stale' \subseteq File
    BY <1>0, <1>6 DEF CallFails, TypeOK, Worker
  <2> QED BY <1>6, <2>2, <2>3 DEF CallFails, TypeOK
<1>7. CASE Report(w)
  <2>1. /\ [workers[w] EXCEPT !.stage = "done"] \in Worker
        /\ [workers[w] EXCEPT !.stage = "done"].stage # "write"
    BY <1>0 DEF Worker, Stage
  <2>2. /\ workers' \in [Slot -> Worker]
        /\ \A x \in Slot : workers'[x].stage = "write" => workers'[x].held # "closed"
    BY <1>7, <2>1, OneWorkerTypes DEF Report
  <2> QED BY <1>7, <2>2 DEF Report, UnlessSource, TypeOK
<1>8. ASSUME NEW f \in File, delete_file(w, f) PROVE TypeOK'
  <2> DEFINE new(x) == IF x = w THEN [workers[w] EXCEPT !.todo = @ \ {f}]
                       ELSE IF workers[x].file = f THEN [workers[x] EXCEPT !.linked = FALSE]
                       ELSE workers[x]
  <2>1. workers' = [x \in Slot |-> new(x)]
    BY <1>8 DEF delete_file
  <2>2. ASSUME NEW x \in Slot
        PROVE  new(x) \in Worker /\ (new(x).stage = "write" => new(x).held # "closed")
    <3>1. workers[x] \in Worker /\ (workers[x].stage = "write" => workers[x].held # "closed")
      BY DEF TypeOK
    <3> QED BY <1>0, <3>1 DEF Worker
  <2> HIDE DEF new
  <2>3. /\ workers' \in [Slot -> Worker]
        /\ \A x \in Slot : workers'[x].stage = "write" => workers'[x].held # "closed"
    BY <2>1, <2>2
  <2> QED BY <1>8, <2>3 DEF delete_file, UnlessSource, TypeOK
<1>9. ASSUME NEW f \in File, OpenSource(w, f) PROVE TypeOK'
  <2> DEFINE k == [workers[w] EXCEPT
                     !.stage = "target", !.todo = @ \ {f}, !.file = f,
                     !.held = IF src[f] = NoFile \/ f \in locked THEN "closed" ELSE "live"]
  <2>1. k \in Worker /\ k.stage # "write"
    BY <1>0 DEF Worker, Stage
  <2>2. workers' = [workers EXCEPT ![w] = k]
    BY <1>0, <1>9 DEF OpenSource
  <2> HIDE DEF k
  <2>3. /\ workers' \in [Slot -> Worker]
        /\ \A x \in Slot : workers'[x].stage = "write" => workers'[x].held # "closed"
    BY <2>1, <2>2, OneWorkerTypes
  <2> QED BY <1>9, <2>3 DEF OpenSource, UnlessSource, TypeOK
<1> QED BY <1>1, <1>2, <1>3, <1>4, <1>5, <1>6, <1>7, <1>8, <1>9 DEF WorkerSteps

LEMMA TypesStep == TypeOK /\ [Next]_vars => TypeOK'
<1> SUFFICES ASSUME TypeOK, [Next]_vars PROVE TypeOK'
  OBVIOUS
<1>1. CASE UNCHANGED vars
  BY <1>1 DEF vars, TypeOK
<1>2. CASE \E w \in Slot : WorkerSteps(w)
  BY <1>2, WorkerStepTypes
<1> QED BY <1>1, <1>2, UserTypes, ManagerTypes DEF Next, Rest

(* The variables of the pair of directories keep their types: among them that
   a worker writes only with a source that it could open, because the
   descriptors are checked before the loop of reads and writes
   (worker_process.c, synchronize_files). *)
THEOREM SyncTypes == Spec => []TypeOK
<1>1. Init => TypeOK
  BY InitTypes
<1> QED BY <1>1, TypesStep, PTL DEF Spec

-----------------------------------------------------------------------------
(***************************************************************************)
(* What makes a quiet pair a mirrored one.  A file is clean if it is not   *)
(* in doubt, it can be read and no event about it waits.  A                *)
(* clean file that no worker is at work on is mirrored, and of one that a  *)
(* worker is at work on there is that worker only, on the way to mirror    *)
(* it.                                                                     *)
(***************************************************************************)
Copying == {"copy", "target", "write"}
Pending(f) == \E k \in DOMAIN events : events[k].file = f
Clean(f) == f \notin stale \cup locked /\ ~Pending(f)
Handles(k, f) == k.stage \in {"target", "write"} /\ k.file = f

(* The worker k will leave file f mirrored: s and t are its contents in the
   source and in the target. *)
OnWay(k, f, s, t) ==
  /\ k.stage = "delete" => f \in k.todo \/ t = NoFile
  /\ k.op = "DELETED" => s = NoFile
  /\ k.op \in {"ADDED", "MODIFIED"} => s # NoFile
  /\ k.stage \in Copying /\ f \in k.todo => s # NoFile
  /\ k.stage \in Copying /\ f \notin k.todo /\ ~Handles(k, f) => t = s
  /\ Handles(k, f) => s # NoFile /\ k.held = "live"
  /\ Handles(k, f) /\ k.stage = "write" => k.linked /\ t = Empty

FileInv(f) ==
  /\ f \notin stale => \A w, x \in Busy(f) : w = x
  /\ Clean(f) /\ Busy(f) = {} => tgt[f] = src[f]
  /\ Clean(f) => \A w \in Busy(f) : OnWay(workers[w], f, src[f], tgt[f])

(* The last event about a file tells whether the file is there, if no other
   change of it has gone unseen. *)
LastTells ==
  \A k \in DOMAIN events :
    /\ events[k].file \notin stale
    /\ \A j \in DOMAIN events : j > k => events[j].file # events[k].file
    => (events[k].mask = "DELETE" <=> src[events[k].file] = NoFile)

(* The files of a worker, and which stages belong to which operation. *)
ShapeOf(k) ==
  /\ k.todo \subseteq k.files
  /\ k.stage \in {"target", "write"} => k.file \in k.files
  /\ k.op = "FULL" => k.files = File
  /\ k.op # "FULL" => \E f \in File : k.files = {f}
  /\ k.stage = "scan" => k.op = "FULL"
  /\ k.stage = "truncate" => k.op = "ADDED" /\ k.todo = k.files
  /\ k.stage = "delete" => k.op \in {"FULL", "DELETED"}
  /\ k.stage \in Copying => k.op # "DELETED"

(* Nothing is reported of a directory before it is watched. *)
Unwatched == ~watched => events = <<>> /\ \A w \in Slot : workers[w].stage # "truncate"

ShapeInv == (\A w \in Slot : ShapeOf(workers[w])) /\ Unwatched

SyncInv == LastTells /\ \A f \in File : FileInv(f)

-----------------------------------------------------------------------------
(* The shape of the workers.                                               *)

LEMMA NewWorkerShape ==
  ASSUME NEW op \in {"FULL", "ADDED", "MODIFIED", "DELETED"},
         NEW files \in SUBSET File, files # {},
         op = "FULL" => files = File, op # "FULL" => \E f \in File : files = {f}
  PROVE  ShapeOf(NewWorker(op, files))
<1> DEFINE k == NewWorker(op, files)
<1>1. /\ k.op = op /\ k.files = files /\ k.todo = files
      /\ k.stage = IF op = "FULL" THEN "scan" ELSE IF op = "ADDED" THEN "truncate"
                   ELSE IF op = "MODIFIED" THEN "copy" ELSE "delete"
  BY NewWorkerType
<1> HIDE DEF k
<1>2. ShapeOf(k)
  BY <1>1 DEF ShapeOf, Copying
<1> QED BY <1>2 DEF k

LEMMA NoWorkerShape == ShapeOf(NoWorker)
BY NoWorkerType DEF ShapeOf, Copying

LEMMA InitShape == Init => ShapeInv
<1> SUFFICES ASSUME Init PROVE ShapeInv
  OBVIOUS
<1> DEFINE k == NewWorker("FULL", File)
<1>1. /\ k \in Worker /\ k.op = "FULL" /\ k.files = File /\ k.todo = File /\ k.stage = "scan"
  BY NewWorkerType, FileAssumption
<1>2. ShapeOf(k)
  BY NewWorkerShape, FileAssumption
<1>3. \A w \in Slot : workers[w] \in {k, NoWorker}
  BY DEF Init
<1> HIDE DEF k
<1>4. ShapeOf(NoWorker) /\ NoWorker.stage = "idle"
  BY NoWorkerShape, NoWorkerType
<1>5. \A w \in Slot : ShapeOf(workers[w]) /\ workers[w].stage # "truncate"
  BY <1>1, <1>2, <1>3, <1>4
<1>6. events = <<>>
  BY DEF Init
<1> QED BY <1>5, <1>6 DEF ShapeInv, Unwatched

(* A step that changes one worker and, but for that one, no shape. *)
LEMMA OneWorkerShape ==
  ASSUME TypeOK, ShapeInv, NEW w \in Slot,
         workers' = [workers EXCEPT ![w] = workers'[w]],
         ShapeOf(workers'[w]), workers'[w].stage # "truncate" \/ watched,
         watched' = watched, watched \/ UNCHANGED events
  PROVE  ShapeInv'
BY DEF TypeOK, ShapeInv, Unwatched, ShapeOf

(* The users change no worker but for what an open file gives. *)
LEMMA UserShape == TypeOK /\ ShapeInv /\ Users => ShapeInv'
<1> SUFFICES ASSUME TypeOK, ShapeInv, NEW f \in File, UserStep(f) PROVE ShapeInv'
  BY DEF Users, UserStep
<1>1. watched' = watched /\ (~watched => events' = events)
  BY UserFacts DEF Edit, Unseen, Seen, Notify
<1>2. ASSUME NEW w \in Slot
      PROVE  \/ workers'[w] = workers[w]
             \/ \E h : workers'[w] = [workers[w] EXCEPT !.held = h]
  BY UserFacts DEF KeepOpen
<1>3. ASSUME NEW w \in Slot
      PROVE  ShapeOf(workers'[w]) /\ workers'[w].stage = workers[w].stage
  <2>1. ShapeOf(workers[w]) /\ workers[w] \in Worker
    BY DEF ShapeInv, TypeOK
  <2>2. ASSUME NEW h, workers'[w] = [workers[w] EXCEPT !.held = h]
        PROVE  ShapeOf(workers'[w]) /\ workers'[w].stage = workers[w].stage
    BY <2>1, <2>2 DEF ShapeOf, Worker
  <2> QED BY <1>2, <2>1, <2>2
<1> QED BY <1>1, <1>3 DEF ShapeInv, Unwatched

LEMMA ManagerShape == TypeOK /\ ShapeInv /\ (Manager \/ SyncCommand) => ShapeInv'
<1> SUFFICES ASSUME TypeOK, ShapeInv, Manager \/ SyncCommand PROVE ShapeInv'
  OBVIOUS
<1>1. CASE AddWatch
  BY <1>1 DEF AddWatch, ShapeInv, Unwatched
<1>2. CASE TakeEvents
  <2>1. watched /\ watched' = watched
    BY <1>2 DEF TakeEvents, ShapeInv, Unwatched
  <2>2. Head(events) \in Change
    BY <1>2 DEF TakeEvents, TypeOK
  <2>3. JobOf(Head(events).mask) \in {"ADDED", "MODIFIED", "DELETED"} /\ Head(events).file \in File
    BY <2>2 DEF Change, JobOf
  <2>4. CASE UNCHANGED workers
    BY <2>1, <2>4 DEF ShapeInv, Unwatched
  <2>5. ASSUME NEW w \in Slot, Start(w, JobOf(Head(events).mask), {Head(events).file})
        PROVE  ShapeInv'
    <3> DEFINE k == NewWorker(JobOf(Head(events).mask), {Head(events).file})
    <3>1. ShapeOf(k)
      BY <2>3, NewWorkerShape
    <3>2. workers' = [workers EXCEPT ![w] = k] /\ workers'[w] = k
      BY <2>5 DEF Start, TypeOK
    <3> HIDE DEF k
    <3> QED BY <2>1, <3>1, <3>2, OneWorkerShape
  <2> QED BY <1>2, <2>4, <2>5 DEF TakeEvents
<1>3. CASE SyncCommand
  <2>1. PICK w \in Slot : Start(w, "FULL", File)
    BY <1>3 DEF SyncCommand
  <2>2. ShapeOf(NewWorker("FULL", File))
    BY NewWorkerShape, FileAssumption
  <2>3. workers' = [workers EXCEPT ![w] = NewWorker("FULL", File)] /\ workers'[w] = NewWorker("FULL", File)
    BY <2>1 DEF Start, TypeOK
  <2> QED BY <1>3, <2>2, <2>3, OneWorkerShape DEF SyncCommand
<1>4. ASSUME NEW w \in Slot, Retire(w) PROVE ShapeInv'
  <2>2. workers' = [workers EXCEPT ![w] = workers'[w]] /\ workers'[w] = NoWorker
    BY <1>4 DEF Retire, TypeOK
  <2>3. ShapeOf(workers'[w]) /\ workers'[w].stage = "idle"
    BY <2>2, NoWorkerShape, NoWorkerType
  <2> QED BY <1>4, <2>2, <2>3, OneWorkerShape DEF Retire
<1> QED BY <1>1, <1>2, <1>3, <1>4 DEF Manager

(* What each step of worker w makes of its own record. *)
LEMMA WorkerStepRecord ==
  ASSUME TypeOK, NEW w \in Slot, WorkerSteps(w)
  PROVE  /\ workers[w] \in Worker
         /\ workers[w].stage \notin {"idle", "done"}
         /\ workers' = [x \in Slot |-> workers'[x]]
         /\ ScanTarget(w) => workers'[w] =
              [workers[w] EXCEPT !.stage = "delete", !.todo = {f \in File : tgt[f] # NoFile}]
         /\ ScanSource(w) => workers'[w] =
              [workers[w] EXCEPT
                 !.stage = IF workers[w].op = "FULL" THEN "copy" ELSE "done",
                 !.todo = IF workers[w].op = "FULL" THEN {f \in File : src[f] # NoFile} ELSE {}]
         /\ OpenTarget(w) => workers'[w] =
              [workers[w] EXCEPT !.linked = workers[w].held # "closed",
                                 !.stage = IF workers[w].held = "closed" THEN "copy" ELSE "write"]
         /\ CopyText(w) => workers'[w] =
              [workers[w] EXCEPT !.stage = "copy", !.held = "closed", !.linked = FALSE]
         /\ Report(w) => workers'[w] = [workers[w] EXCEPT !.stage = "done"]
         /\ \A f \in File : delete_file(w, f) =>
              workers'[w] = [workers[w] EXCEPT !.todo = workers[w].todo \ {f}]
         /\ \A f \in File : OpenSource(w, f) => workers'[w] =
              [workers[w] EXCEPT
                 !.stage = "target", !.todo = workers[w].todo \ {f}, !.file = f,
                 !.held = IF src[f] = NoFile \/ f \in locked THEN "closed" ELSE "live"]
<1>1. workers[w] \in Worker /\ workers \in [Slot -> Worker]
  BY DEF TypeOK
<1>2. workers' = [x \in Slot |-> workers'[x]]
  <2>1. TypeOK'
    BY WorkerStepTypes
  <2> QED BY <2>1 DEF TypeOK
<1>3. workers[w].stage \notin {"idle", "done"}
  <2>1. workers[w].stage \in {"scan", "delete", "truncate", "copy", "target", "write"}
    BY DEF WorkerSteps, ScanTarget, ScanSource, TruncateSource, OpenTarget, CopyText, CallFails,
           Report, delete_file, OpenSource
  <2> QED BY <2>1
<1> QED BY <1>1, <1>2, <1>3 DEF ScanTarget, ScanSource, OpenTarget, CopyText, Report, delete_file, OpenSource

(* A worker's step changes the record of another worker only in that its
   target has lost its name. *)
LEMMA OtherWorkers ==
  ASSUME TypeOK, NEW w \in Slot, WorkerSteps(w), NEW x \in Slot, x # w
  PROVE  \/ workers'[x] = workers[x]
         \/ /\ workers[x].file \in workers[w].todo
            /\ workers'[x] = [workers[x] EXCEPT !.linked = FALSE]
<1>1. workers \in [Slot -> Worker]
  BY DEF TypeOK
<1>2. CASE \E f \in File : delete_file(w, f)
  BY <1>2 DEF delete_file
<1>3. CASE ~\E f \in File : delete_file(w, f)
  BY <1>1, <1>3 DEF WorkerSteps, ScanTarget, ScanSource, TruncateSource, OpenTarget, CopyText,
                    CallFails, Report, OpenSource
<1> QED BY <1>2, <1>3

LEMMA WorkerStepShape ==
  ASSUME TypeOK, ShapeInv, NEW w \in Slot, WorkerSteps(w)
  PROVE  ShapeInv'
<1> DEFINE k == workers[w]
<1>0. /\ k \in Worker /\ ShapeOf(k) /\ workers' = [x \in Slot |-> workers'[x]]
      /\ k.stage \notin {"idle", "done"} /\ workers \in [Slot -> Worker]
  BY WorkerStepRecord DEF ShapeInv, TypeOK
<1>a. watched' = watched /\ (watched \/ UNCHANGED events)
  <2>1. ASSUME TruncateSource(w) PROVE watched /\ watched' = watched
    BY <2>1 DEF TruncateSource, ShapeInv, Unwatched
  <2>2. ASSUME ~TruncateSource(w) PROVE UNCHANGED <<watched, events>>
    BY <2>2 DEF WorkerSteps, ScanTarget, ScanSource, OpenTarget, CopyText, CallFails, Report,
                delete_file, OpenSource, UnlessSource
  <2> QED BY <2>1, <2>2
<1>b. ASSUME ShapeOf(workers'[w]), workers'[w].stage # "truncate" PROVE ShapeInv'
  <2>1. ASSUME NEW x \in Slot, x # w
        PROVE  ShapeOf(workers'[x]) /\ workers'[x].stage = workers[x].stage
    <3>1. workers[x] \in Worker /\ ShapeOf(workers[x])
      BY DEF TypeOK, ShapeInv
    <3>2. workers'[x] = workers[x] \/ workers'[x] = [workers[x] EXCEPT !.linked = FALSE]
      BY <2>1, OtherWorkers
    <3> QED BY <3>1, <3>2 DEF ShapeOf, Worker
  <2>2. \A x \in Slot : ShapeOf(workers'[x])
    BY <1>b, <2>1
  <2>3. Unwatched'
    BY <1>a, <1>b, <2>1 DEF ShapeInv, Unwatched
  <2> QED BY <2>2, <2>3 DEF ShapeInv
<1>1. CASE ScanTarget(w)
  <2>1. k.stage = "scan" /\ workers'[w] = [k EXCEPT !.stage = "delete", !.todo = {f \in File : tgt[f] # NoFile}]
    BY <1>1, WorkerStepRecord DEF ScanTarget
  <2> HIDE DEF k
  <2>2. ShapeOf(workers'[w]) /\ workers'[w].stage # "truncate"
    BY <1>0, <2>1 DEF ShapeOf, Worker, Copying
  <2> QED BY <1>b, <2>2
<1>2. CASE ScanSource(w)
  <2>1. workers'[w] = [k EXCEPT
                 !.stage = IF k.op = "FULL" THEN "copy" ELSE "done",
                 !.todo = IF k.op = "FULL" THEN {f \in File : src[f] # NoFile} ELSE {}]
    BY <1>2, WorkerStepRecord
  <2> HIDE DEF k
  <2>2. ShapeOf(workers'[w]) /\ workers'[w].stage # "truncate"
    BY <1>0, <2>1 DEF ShapeOf, Worker, Copying
  <2> QED BY <1>b, <2>2
<1>3. CASE TruncateSource(w)
  <2>1. k.stage = "truncate" /\ \E s \in {"copy", "done"} : workers'[w] = [k EXCEPT !.stage = s]
    BY <1>0, <1>3 DEF TruncateSource
  <2> HIDE DEF k
  <2>2. ShapeOf(workers'[w]) /\ workers'[w].stage # "truncate"
    BY <1>0, <2>1 DEF ShapeOf, Worker, Copying
  <2> QED BY <1>b, <2>2
<1>4. CASE OpenTarget(w)
  <2>1. k.stage = "target" /\ workers'[w] =
              [k EXCEPT !.linked = k.held # "closed", !.stage = IF k.held = "closed" THEN "copy" ELSE "write"]
    BY <1>4, WorkerStepRecord DEF OpenTarget
  <2> HIDE DEF k
  <2>2. ShapeOf(workers'[w]) /\ workers'[w].stage # "truncate"
    BY <1>0, <2>1 DEF ShapeOf, Worker, Copying
  <2> QED BY <1>b, <2>2
<1>5. CASE CopyText(w)
  <2>1. k.stage = "write" /\ workers'[w] = [k EXCEPT !.stage = "copy", !.held = "closed", !.linked = FALSE]
    BY <1>5, WorkerStepRecord DEF CopyText
  <2> HIDE DEF k
  <2>2. ShapeOf(workers'[w]) /\ workers'[w].stage # "truncate"
    BY <1>0, <2>1 DEF ShapeOf, Worker, Copying
  <2> QED BY <1>b, <2>2
<1>6. CASE CallFails(w)
  <2>1. \/ workers'[w] = [k EXCEPT !.stage = "done"]
        \/ k.stage = "delete" /\ \E f : workers'[w] = [k EXCEPT !.todo = k.todo \ {f}]
        \/ k.stage \in {"target", "write"} /\ workers'[w] = [k EXCEPT !.stage = "copy", !.held = "closed", !.linked = FALSE]
    BY <1>0, <1>6 DEF CallFails
  <2> HIDE DEF k
  <2>2. ShapeOf(workers'[w]) /\ workers'[w].stage # "truncate"
    <3>1. CASE workers'[w] = [k EXCEPT !.stage = "done"]
      BY <1>0, <3>1 DEF ShapeOf, Worker, Copying
    <3>2. ASSUME k.stage = "delete", NEW f, workers'[w] = [k EXCEPT !.todo = k.todo \ {f}]
          PROVE  ShapeOf(workers'[w]) /\ workers'[w].stage # "truncate"
      BY <1>0, <3>2 DEF ShapeOf, Worker, Copying
    <3>3. CASE k.stage \in {"target", "write"} /\ workers'[w] = [k EXCEPT !.stage = "copy", !.held = "closed", !.linked = FALSE]
      BY <1>0, <3>3 DEF ShapeOf, Worker, Copying
    <3> QED BY <2>1, <3>1, <3>2, <3>3
  <2> QED BY <1>b, <2>2
<1>7. CASE Report(w)
  <2>1. workers'[w] = [k EXCEPT !.stage = "done"]
    BY <1>7, WorkerStepRecord
  <2> HIDE DEF k
  <2>2. ShapeOf(workers'[w]) /\ workers'[w].stage # "truncate"
    BY <1>0, <2>1 DEF ShapeOf, Worker, Copying
  <2> QED BY <1>b, <2>2
<1>8. ASSUME NEW f \in File, delete_file(w, f) PROVE ShapeInv'
  <2>1. k.stage = "delete" /\ workers'[w] = [k EXCEPT !.todo = k.todo \ {f}]
    BY <1>8, WorkerStepRecord DEF delete_file
  <2> HIDE DEF k
  <2>2. ShapeOf(workers'[w]) /\ workers'[w].stage # "truncate"
    BY <1>0, <2>1 DEF ShapeOf, Worker, Copying
  <2> QED BY <1>b, <2>2
<1>9. ASSUME NEW f \in File, OpenSource(w, f) PROVE ShapeInv'
  <2>1. /\ k.stage = "copy" /\ f \in k.todo
        /\ workers'[w] = [k EXCEPT
                 !.stage = "target", !.todo = k.todo \ {f}, !.file = f,
                 !.held = IF src[f] = NoFile \/ f \in locked THEN "closed" ELSE "live"]
    BY <1>9, WorkerStepRecord DEF OpenSource
  <2> HIDE DEF k
  <2>2. ShapeOf(workers'[w]) /\ workers'[w].stage # "truncate"
    BY <1>0, <2>1 DEF ShapeOf, Worker, Copying
  <2> QED BY <1>b, <2>2
<1> QED BY <1>1, <1>2, <1>3, <1>4, <1>5, <1>6, <1>7, <1>8, <1>9 DEF WorkerSteps

-----------------------------------------------------------------------------
(* The way to a mirrored file.                                             *)

(* The one worker at work on a clean file takes a step: it stays on its way,
   or it ends and the file is mirrored.  Files of other workers it leaves
   alone. *)
LEMMA WorkerProgress ==
  ASSUME TypeOK, ShapeInv, SyncInv, NEW w \in Slot, WorkerSteps(w),
         UNCHANGED <<src, locked, events>>, stale \subseteq stale',
         workers'[w].files = workers[w].files, workers'[w].stage # "idle",
         \A g \in File : g \notin workers[w].files => tgt'[g] = tgt[g],
         \A g \in File : /\ g \in workers[w].files
                         /\ g \notin stale' \cup locked
                         /\ OnWay(workers[w], g, src[g], tgt[g])
                         => IF workers'[w].stage = "done" THEN tgt'[g] = src[g]
                            ELSE OnWay(workers'[w], g, src[g], tgt'[g])
  PROVE  SyncInv'
<1>1. LastTells'
  BY DEF SyncInv, LastTells
<1>2. ASSUME NEW f \in File PROVE FileInv(f)'
  <2>1. FileInv(f)
    BY DEF SyncInv
  <2>2. workers[w].stage \notin {"idle", "done"}
    BY WorkerStepRecord
  <2>3. w \in Busy(f) <=> f \in workers[w].files
    BY <2>2 DEF Busy
  <2>4. ASSUME NEW x \in Slot, x # w
        PROVE  /\ x \in Busy(f)' <=> x \in Busy(f)
               /\ \/ workers'[x] = workers[x]
                  \/ /\ workers[x].file \in workers[w].files
                     /\ workers'[x] = [workers[x] EXCEPT !.linked = FALSE]
    <3>1. workers[x] \in Worker
      BY DEF TypeOK
    <3>2. workers[w].todo \subseteq workers[w].files
      BY DEF ShapeInv, ShapeOf
    <3>3. \/ workers'[x] = workers[x]
          \/ /\ workers[x].file \in workers[w].files
             /\ workers'[x] = [workers[x] EXCEPT !.linked = FALSE]
      BY <2>4, <3>2, OtherWorkers
    <3>4. workers'[x].stage = workers[x].stage /\ workers'[x].files = workers[x].files
      BY <3>1, <3>3 DEF Worker
    <3> QED BY <3>3, <3>4 DEF Busy
  <2>5. Busy(f) \subseteq Slot /\ Busy(f)' \subseteq Busy(f)
    BY <2>2, <2>3, <2>4 DEF Busy
  <2>6. f \notin stale' => \A y, x \in Busy(f)' : y = x
    BY <2>1, <2>5 DEF FileInv
  <2>7. Clean(f)' => Clean(f) /\ f \notin stale' \cup locked
    BY DEF Clean, Pending
  <2>8. ASSUME Clean(f)', Busy(f)' = {} PROVE tgt'[f] = src'[f]
    <3>1. CASE f \in workers[w].files
      <4>1. OnWay(workers[w], f, src[f], tgt[f])
        BY <2>1, <2>3, <2>7, <2>8, <3>1 DEF FileInv
      <4>2. workers'[w].stage = "done"
        BY <2>8, <3>1 DEF Busy
      <4> QED BY <2>7, <2>8, <3>1, <4>1, <4>2
    <3>2. CASE f \notin workers[w].files
      <4>1. Busy(f) = {}
        BY <2>3, <2>4, <2>5, <2>8, <3>2
      <4> QED BY <2>1, <2>7, <2>8, <3>2, <4>1 DEF FileInv
    <3> QED BY <3>1, <3>2
  <2>9. ASSUME Clean(f)', NEW x \in Busy(f)' PROVE OnWay(workers'[x], f, src'[f], tgt'[f])
    <3>0. x \in Busy(f) /\ x \in Slot /\ OnWay(workers[x], f, src[f], tgt[f])
      BY <2>1, <2>5, <2>7, <2>9 DEF FileInv
    <3>1. CASE x = w
      <4>1. workers'[w].stage # "done" /\ f \in workers[w].files
        BY <2>9, <3>1 DEF Busy
      <4> QED BY <2>7, <2>9, <3>0, <3>1, <4>1
    <3>2. CASE x # w
      <4>1. f \notin workers[w].files
        BY <2>1, <2>3, <2>7, <2>9, <3>0, <3>2 DEF FileInv, Clean
      <4>2. tgt'[f] = tgt[f] /\ src'[f] = src[f]
        BY <4>1
      <4>3. ASSUME workers[x].file \in workers[w].files,
                   workers'[x] = [workers[x] EXCEPT !.linked = FALSE]
            PROVE  OnWay(workers'[x], f, src[f], tgt[f])
        <5>1. workers[x] \in Worker
          BY <3>0 DEF TypeOK
        <5>2. workers[x].file # f
          BY <4>1, <4>3
        <5> QED BY <3>0, <4>3, <5>1, <5>2 DEF OnWay, Handles, Worker
      <4> QED BY <2>4, <3>0, <3>2, <4>2, <4>3
    <3> QED BY <3>1, <3>2
  <2> QED BY <2>6, <2>8, <2>9 DEF FileInv
<1> QED BY <1>1, <1>2 DEF SyncInv

(* The steps of a worker at work on one side or the other; the step that
   truncates the source is a change of the source and comes below. *)
LEMMA WorkerStepSync ==
  ASSUME TypeOK, ShapeInv, SyncInv, NEW w \in Slot, WorkerSteps(w), ~TruncateSource(w)
  PROVE  SyncInv'
<1> DEFINE k == workers[w]
<1>0. k \in Worker /\ ShapeOf(k) /\ k.stage \notin {"idle", "done"} /\ stale \subseteq File
  BY WorkerStepRecord DEF ShapeInv, TypeOK
<1>a. UNCHANGED <<src, locked, events>> /\ stale \subseteq stale'
  BY <1>0 DEF Worker, WorkerSteps, ScanTarget, ScanSource, OpenTarget, CopyText, CallFails, Report,
              delete_file, OpenSource, UnlessSource
<1>1. CASE ScanTarget(w)
  <2>1. /\ k.stage = "scan" /\ tgt' = tgt
        /\ workers'[w] = [k EXCEPT !.stage = "delete", !.todo = {f \in File : tgt[f] # NoFile}]
    BY <1>1, WorkerStepRecord DEF ScanTarget
  <2> HIDE DEF k
  <2>2. workers'[w].files = k.files /\ workers'[w].stage = "delete"
    BY <1>0, <2>1 DEF Worker
  <2>3. ASSUME NEW g \in File PROVE OnWay(workers'[w], g, src[g], tgt[g])
    BY <1>0, <2>1 DEF OnWay, Handles, ShapeOf, Worker, Copying
  <2> QED BY <1>a, <2>1, <2>2, <2>3, WorkerProgress DEF k
<1>2. CASE ScanSource(w)
  <2>1. /\ k.stage = "delete" /\ k.todo = {} /\ tgt' = tgt
        /\ workers'[w] = [k EXCEPT
                 !.stage = IF k.op = "FULL" THEN "copy" ELSE "done",
                 !.todo = IF k.op = "FULL" THEN {f \in File : src[f] # NoFile} ELSE {}]
    BY <1>2, WorkerStepRecord DEF ScanSource
  <2> HIDE DEF k
  <2>2. workers'[w].files = k.files /\ workers'[w].stage # "idle"
    BY <1>0, <2>1 DEF Worker
  <2>3. ASSUME NEW g \in File, OnWay(k, g, src[g], tgt[g])
        PROVE  IF workers'[w].stage = "done" THEN tgt[g] = src[g]
               ELSE OnWay(workers'[w], g, src[g], tgt[g])
    <3>1. tgt[g] = NoFile
      BY <2>1, <2>3 DEF OnWay
    <3>2. CASE k.op = "FULL"
      <4>1. workers'[w] = [k EXCEPT !.stage = "copy", !.todo = {f \in File : src[f] # NoFile}]
        BY <2>1, <3>2
      <4>2. /\ workers'[w].stage = "copy" /\ workers'[w].op = "FULL"
            /\ workers'[w].todo = {f \in File : src[f] # NoFile}
        BY <1>0, <3>2, <4>1 DEF Worker
      <4> QED BY <3>1, <4>2 DEF OnWay, Handles
    <3>3. CASE k.op # "FULL"
      <4>1. k.op = "DELETED" /\ workers'[w].stage = "done"
        BY <1>0, <2>1, <3>3 DEF ShapeOf, Worker
      <4> QED BY <2>3, <3>1, <4>1 DEF OnWay
    <3> QED BY <3>2, <3>3
  <2> QED BY <1>a, <2>1, <2>2, <2>3, WorkerProgress DEF k
<1>3. CASE OpenTarget(w)
  <2>1. /\ k.stage = "target" /\ tgt' = [tgt EXCEPT ![k.file] = Empty]
        /\ workers'[w] = [k EXCEPT !.linked = k.held # "closed",
                            !.stage = IF k.held = "closed" THEN "copy" ELSE "write"]
    BY <1>3, WorkerStepRecord DEF OpenTarget
  <2> HIDE DEF k
  <2>2. /\ workers'[w].files = k.files /\ workers'[w].todo = k.todo /\ workers'[w].op = k.op
        /\ workers'[w].file = k.file /\ workers'[w].held = k.held
        /\ workers'[w].linked = (k.held # "closed")
        /\ workers'[w].stage = IF k.held = "closed" THEN "copy" ELSE "write"
    BY <1>0, <2>1 DEF Worker
  <2>3. k.file \in k.files /\ k.file \in File /\ tgt \in [File -> {NoFile} \cup Content]
    BY <1>0, <2>1 DEF ShapeOf, Worker, TypeOK
  <2>4. \A g \in File : tgt'[g] = IF g = k.file THEN Empty ELSE tgt[g]
    BY <2>1, <2>3
  <2>5. ASSUME NEW g \in File, OnWay(k, g, src[g], tgt[g])
        PROVE  OnWay(workers'[w], g, src[g], tgt'[g])
    <3>1. CASE g = k.file
      <4>1. src[g] # NoFile /\ k.held = "live" /\ k.held # "closed"
        BY <2>1, <2>5, <3>1 DEF OnWay, Handles
      <4>2. workers'[w].stage = "write" /\ workers'[w].linked /\ tgt'[g] = Empty
        BY <2>2, <2>4, <3>1, <4>1
      <4> QED BY <2>1, <2>2, <2>5, <3>1, <4>1, <4>2 DEF OnWay, Handles, Copying
    <3>2. CASE g # k.file
      <4>1. tgt'[g] = tgt[g] /\ workers'[w].stage \in {"copy", "write"}
        BY <2>2, <2>4, <3>2
      <4> QED BY <2>1, <2>2, <2>5, <3>2, <4>1 DEF OnWay, Handles, Copying
    <3> QED BY <3>1, <3>2
  <2>6. \A g \in File : g \notin k.files => tgt'[g] = tgt[g]
    BY <2>3, <2>4
  <2>7. workers'[w].stage \notin {"idle", "done"}
    BY <2>2
  <2> QED BY <1>a, <2>2, <2>5, <2>6, <2>7, WorkerProgress DEF k
<1>4. CASE CopyText(w)
  <2> DEFINE text == IF k.held = "live" THEN src[k.file] ELSE k.held
  <2>1. /\ k.stage = "write"
        /\ tgt' = IF text = Empty \/ ~k.linked THEN tgt ELSE [tgt EXCEPT ![k.file] = text]
        /\ workers'[w] = [k EXCEPT !.stage = "copy", !.held = "closed", !.linked = FALSE]
    BY <1>4, WorkerStepRecord DEF CopyText
  <2> HIDE DEF k
  <2>2. /\ workers'[w].files = k.files /\ workers'[w].todo = k.todo /\ workers'[w].op = k.op
        /\ workers'[w].stage = "copy"
    BY <1>0, <2>1 DEF Worker
  <2>3. k.file \in k.files /\ k.file \in File /\ tgt \in [File -> {NoFile} \cup Content]
    BY <1>0, <2>1 DEF ShapeOf, Worker, TypeOK
  <2>4. \A g \in File : tgt'[g] = IF g = k.file /\ text # Empty /\ k.linked THEN text ELSE tgt[g]
    BY <2>1, <2>3
  <2>5. ASSUME NEW g \in File, OnWay(k, g, src[g], tgt[g])
        PROVE  OnWay(workers'[w], g, src[g], tgt'[g])
    <3>1. CASE g = k.file
      <4>1. k.held = "live" /\ k.linked /\ tgt[g] = Empty
        BY <2>1, <2>5, <3>1 DEF OnWay, Handles
      <4>2. tgt'[g] = src[g]
        BY <2>4, <3>1, <4>1
      <4> QED BY <2>1, <2>2, <2>5, <4>2 DEF OnWay, Handles, Copying
    <3>2. CASE g # k.file
      BY <2>1, <2>2, <2>4, <2>5, <3>2 DEF OnWay, Handles, Copying
    <3> QED BY <3>1, <3>2
  <2>6. \A g \in File : g \notin k.files => tgt'[g] = tgt[g]
    BY <2>3, <2>4
  <2> HIDE DEF text
  <2> QED BY <1>a, <2>2, <2>5, <2>6, WorkerProgress DEF k
<1>5. CASE CallFails(w)
  <2>1. tgt' = tgt
    BY <1>5 DEF CallFails
  <2> DEFINE Goes == /\ workers'[w].files = k.files /\ workers'[w].stage # "idle"
                     /\ \A g \in k.files : g \notin stale' /\ OnWay(k, g, src[g], tgt[g]) =>
                          workers'[w].stage # "done" /\ OnWay(workers'[w], g, src[g], tgt[g])
  <2>2. Goes
    <3>1. CASE k.files \subseteq stale' /\ workers' = [workers EXCEPT ![w].stage = "done"]
      <4>1. workers'[w] = [k EXCEPT !.stage = "done"]
        BY <3>1 DEF TypeOK
      <4> HIDE DEF k
      <4> QED BY <1>0, <3>1, <4>1 DEF Worker
    <3>4. CASE stale' = File /\ workers' = [workers EXCEPT ![w].stage = "done"]
      BY <1>0, <3>1, <3>4 DEF Worker
    <3>5. CASE /\ k.stage = "truncate" /\ stale' = stale \cup k.todo
               /\ workers' = [workers EXCEPT ![w].stage = "done"]
      BY <1>0, <3>1, <3>5 DEF ShapeOf
    <3>2. ASSUME k.stage = "delete", NEW f \in k.todo, stale' = stale \cup {f},
                 workers' = [workers EXCEPT ![w].todo = @ \ {f}]
          PROVE  Goes
      <4>1. workers'[w] = [k EXCEPT !.todo = k.todo \ {f}]
        BY <3>2 DEF TypeOK
      <4> HIDE DEF k
      <4>2. /\ workers'[w].files = k.files /\ workers'[w].todo = k.todo \ {f} /\ workers'[w].op = k.op
            /\ workers'[w].stage = "delete"
        BY <1>0, <3>2, <4>1 DEF Worker
      <4> QED BY <3>2, <4>2 DEF OnWay, Handles, Copying
    <3>3. CASE /\ k.stage \in {"target", "write"}
               /\ workers' = [workers EXCEPT ![w].stage = "copy", ![w].held = "closed", ![w].linked = FALSE]
               /\ stale' = stale \cup {k.file}
      <4>1. workers'[w] = [k EXCEPT !.stage = "copy", !.held = "closed", !.linked = FALSE]
        BY <3>3 DEF TypeOK
      <4> HIDE DEF k
      <4>2. /\ workers'[w].files = k.files /\ workers'[w].todo = k.todo /\ workers'[w].op = k.op
            /\ workers'[w].stage = "copy"
        BY <1>0, <4>1 DEF Worker
      <4> QED BY <3>3, <4>2 DEF OnWay, Handles, Copying
    <3> QED BY <1>5, <3>2, <3>3, <3>4, <3>5 DEF CallFails
  <2> QED BY <1>a, <2>1, <2>2, WorkerProgress
<1>6. CASE Report(w)
  <2>1. /\ k.stage = "copy" /\ k.todo = {} /\ tgt' = tgt
        /\ workers'[w] = [k EXCEPT !.stage = "done"]
    BY <1>6, WorkerStepRecord DEF Report
  <2> HIDE DEF k
  <2>2. workers'[w].files = k.files /\ workers'[w].stage = "done"
    BY <1>0, <2>1 DEF Worker
  <2>3. ASSUME NEW g \in File, OnWay(k, g, src[g], tgt[g]) PROVE tgt[g] = src[g]
    BY <2>1, <2>3 DEF OnWay, Handles, Copying
  <2> QED BY <1>a, <2>1, <2>2, <2>3, WorkerProgress DEF k
<1>7. ASSUME NEW f \in File, delete_file(w, f) PROVE SyncInv'
  <2>1. /\ k.stage = "delete" /\ f \in k.todo /\ tgt' = [tgt EXCEPT ![f] = NoFile]
        /\ workers'[w] = [k EXCEPT !.todo = k.todo \ {f}]
    BY <1>7, WorkerStepRecord DEF delete_file
  <2> HIDE DEF k
  <2>2. /\ workers'[w].files = k.files /\ workers'[w].todo = k.todo \ {f} /\ workers'[w].op = k.op
        /\ workers'[w].stage = "delete" /\ f \in k.files
    BY <1>0, <2>1 DEF Worker, ShapeOf
  <2>3. \A g \in File : tgt'[g] = IF g = f THEN NoFile ELSE tgt[g]
    BY <2>1 DEF TypeOK
  <2>4. ASSUME NEW g \in File, OnWay(k, g, src[g], tgt[g])
        PROVE  OnWay(workers'[w], g, src[g], tgt'[g])
    BY <2>1, <2>2, <2>3, <2>4 DEF OnWay, Handles, Copying
  <2> QED BY <1>a, <2>2, <2>3, <2>4, WorkerProgress DEF k
<1>8. ASSUME NEW f \in File, OpenSource(w, f) PROVE SyncInv'
  <2>1. /\ k.stage = "copy" /\ f \in k.todo /\ tgt' = tgt
        /\ workers'[w] = [k EXCEPT
                 !.stage = "target", !.todo = k.todo \ {f}, !.file = f,
                 !.held = IF src[f] = NoFile \/ f \in locked THEN "closed" ELSE "live"]
    BY <1>8, WorkerStepRecord DEF OpenSource
  <2> HIDE DEF k
  <2>2. /\ workers'[w].files = k.files /\ workers'[w].todo = k.todo \ {f} /\ workers'[w].op = k.op
        /\ workers'[w].stage = "target" /\ workers'[w].file = f
        /\ workers'[w].held = IF src[f] = NoFile \/ f \in locked THEN "closed" ELSE "live"
    BY <1>0, <2>1 DEF Worker
  <2>3. ASSUME NEW g \in File, g \notin locked, OnWay(k, g, src[g], tgt[g])
        PROVE  OnWay(workers'[w], g, src[g], tgt[g])
    BY <2>1, <2>2, <2>3 DEF OnWay, Handles, Copying
  <2> QED BY <1>a, <2>1, <2>2, <2>3, WorkerProgress DEF k
<1> QED BY <1>1, <1>2, <1>3, <1>4, <1>5, <1>6, <1>7, <1>8 DEF WorkerSteps

-----------------------------------------------------------------------------
(* Changes of the source.                                                  *)

(* What is reported of a change: once the directory is watched, an event that
   waits tells of it, and no event is lost. *)
LEMMA NotifyFacts ==
  ASSUME TypeOK, ShapeInv, LastTells, NEW f \in File, NEW c,
         NEW mask \in {"CREATE", "MODIFY", "DELETE"},
         Notify(f, mask), src' = [src EXCEPT ![f] = c], mask = "DELETE" <=> c = NoFile,
         stale \subseteq stale'
  PROVE  /\ LastTells'
         /\ \A g \in File : Pending(g) => Pending(g)'
         /\ watched => Pending(f)'
<1> DEFINE e == [file |-> f, mask |-> mask]
<1>1. events \in Seq(Change) /\ e \in Change /\ e.file = f /\ e.mask = mask
  BY DEF TypeOK, Change
<1>2. \A g \in File : src'[g] = IF g = f THEN c ELSE src[g]
  BY DEF TypeOK
<1>3. \A k \in DOMAIN events : events[k] \in Change /\ events[k].file \in File
  <2>1. \A k \in DOMAIN events : events[k] \in Change
    BY <1>1
  <2> QED BY <2>1 DEF Change
<1>4. events' = IF ~watched \/ (events # <<>> /\ Last(events) = e) THEN events ELSE Append(events, e)
  BY DEF Notify
<1> HIDE DEF e
<1>5. CASE ~watched
  <2>1. events = <<>> /\ events' = <<>>
    BY <1>4, <1>5 DEF ShapeInv, Unwatched
  <2> QED BY <1>5, <2>1 DEF LastTells, Pending
<1>6. CASE watched /\ events # <<>> /\ Last(events) = e
  <2>1. events' = events /\ Len(events) \in DOMAIN events /\ events[Len(events)] = e
    BY <1>1, <1>4, <1>6 DEF Last
  <2>2. ASSUME NEW k \in DOMAIN events, events[k].file \notin stale',
               \A j \in DOMAIN events : j > k => events[j].file # events[k].file
        PROVE  events[k].mask = "DELETE" <=> src'[events[k].file] = NoFile
    <3>1. CASE events[k].file = f
      <4>1. k = Len(events)
        BY <1>1, <2>1, <2>2, <3>1
      <4> QED BY <1>1, <1>2, <2>1, <4>1
    <3>2. CASE events[k].file # f
      BY <1>2, <1>3, <2>2, <3>2 DEF LastTells
    <3> QED BY <3>1, <3>2
  <2> QED BY <1>1, <2>1, <2>2 DEF LastTells, Pending
<1>7. CASE watched /\ ~(events # <<>> /\ Last(events) = e)
  <2> DEFINE n == Len(events)
  <2>1. /\ n \in Nat /\ DOMAIN events = 1..n /\ DOMAIN events' = 1..(n + 1)
        /\ events'[n + 1] = e /\ \A k \in 1..n : events'[k] = events[k]
    BY <1>1, <1>4, <1>7
  <2> HIDE DEF n
  <2>2. ASSUME NEW k \in 1..(n + 1), events'[k].file \notin stale',
               \A j \in 1..(n + 1) : j > k => events'[j].file # events'[k].file
        PROVE  events'[k].mask = "DELETE" <=> src'[events'[k].file] = NoFile
    <3>1. CASE k = n + 1
      BY <1>1, <1>2, <2>1, <3>1
    <3>2. CASE k \in 1..n
      <4>1. events'[k] = events[k] /\ k \in DOMAIN events /\ n + 1 \in 1..(n + 1) /\ n + 1 > k
        BY <2>1, <3>2
      <4>2. events[k].file # f
        BY <1>1, <2>1, <2>2, <4>1
      <4>3. \A j \in 1..n : j > k => events[j].file # events[k].file
        <5> SUFFICES ASSUME NEW j \in 1..n, j > k PROVE events[j].file # events[k].file
          OBVIOUS
        <5>1. j \in 1..(n + 1) /\ events'[j] = events[j]
          BY <2>1
        <5> QED BY <2>2, <4>1, <5>1
      <4>4. events[k].mask = "DELETE" <=> src[events[k].file] = NoFile
        BY <2>1, <2>2, <4>1, <4>3 DEF LastTells
      <4> QED BY <1>2, <1>3, <4>1, <4>2, <4>4
    <3> QED BY <2>1, <3>1, <3>2
  <2>3. LastTells'
    BY <2>1, <2>2 DEF LastTells
  <2>4. Pending(f)'
    <3>1. n + 1 \in DOMAIN events' /\ events'[n + 1].file = f
      BY <1>1, <2>1
    <3> QED BY <3>1 DEF Pending
  <2>5. ASSUME NEW g \in File, Pending(g) PROVE Pending(g)'
    <3>1. PICK k \in 1..n : events[k].file = g
      BY <2>1, <2>5 DEF Pending
    <3>2. k \in DOMAIN events' /\ events'[k].file = g
      BY <2>1, <3>1
    <3> QED BY <3>2 DEF Pending
  <2> QED BY <2>3, <2>4, <2>5
<1> QED BY <1>5, <1>6, <1>7

(* A change of one file: an event about it waits, or it is known to be out of
   date; the others are as they were. *)
LEMMA ChangeKeeps ==
  ASSUME TypeOK, ShapeInv, SyncInv, NEW f \in File, NEW c, src' = [src EXCEPT ![f] = c], UNCHANGED tgt,
         \A g \in File \ {f} : g \in locked => g \in locked',
         stale \subseteq stale', Pending(f)' \/ f \in stale',
         \A g \in File : Pending(g) => Pending(g)',
         \A x \in Slot :
           \/ workers'[x] = workers[x]
           \/ /\ workers[x].file = f
              /\ \E h : workers'[x] = [workers[x] EXCEPT !.held = h]
           \/ /\ workers[x].files = {f}
              /\ workers[x].stage = "truncate"
              /\ workers'[x] = [workers[x] EXCEPT !.stage = "copy"]
  PROVE  \A g \in File : FileInv(g)'
<1> SUFFICES ASSUME NEW g \in File PROVE FileInv(g)'
  OBVIOUS
<1>1. FileInv(g)
  BY DEF SyncInv
<1>2. ASSUME NEW x \in Slot
      PROVE  /\ x \in Busy(g)' <=> x \in Busy(g)
             /\ \/ workers'[x] = workers[x]
                \/ /\ workers[x].file = f
                   /\ \E h : workers'[x] = [workers[x] EXCEPT !.held = h]
                \/ workers[x].files = {f}
  <2>1. workers[x] \in Worker
    BY DEF TypeOK
  <2>2. workers'[x].files = workers[x].files
    BY <2>1 DEF Worker
  <2>3. workers'[x].stage \notin {"idle", "done"} <=> workers[x].stage \notin {"idle", "done"}
    BY <2>1 DEF Worker
  <2> QED BY <2>2, <2>3 DEF Busy
<1>3. Busy(g)' = Busy(g)
  BY <1>2 DEF Busy
<1>4. CASE g = f
  BY <1>1, <1>3, <1>4 DEF FileInv, Clean
<1>5. CASE g # f
  <2>1. src'[g] = src[g] /\ tgt'[g] = tgt[g]
    BY <1>5 DEF TypeOK
  <2>2. Clean(g)' => Clean(g)
    BY <1>5 DEF Clean
  <2>3. ASSUME Clean(g)', NEW x \in Busy(g)' PROVE OnWay(workers'[x], g, src[g], tgt[g])
    <3>1. x \in Slot /\ x \in Busy(g) /\ workers[x] \in Worker /\ OnWay(workers[x], g, src[g], tgt[g])
      BY <1>1, <1>3, <2>2, <2>3 DEF FileInv, Busy, TypeOK
    <3>2. workers[x].files # {f}
      BY <1>5, <3>1 DEF Busy
    <3>3. ASSUME workers[x].file = f, NEW h, workers'[x] = [workers[x] EXCEPT !.held = h]
          PROVE  OnWay(workers'[x], g, src[g], tgt[g])
      BY <1>5, <3>1, <3>3 DEF OnWay, Handles, Worker
    <3> QED BY <1>2, <3>1, <3>2, <3>3
  <2> QED BY <1>1, <1>3, <2>1, <2>2, <2>3 DEF FileInv
<1> QED BY <1>4, <1>5

LEMMA UserSync == TypeOK /\ ShapeInv /\ SyncInv /\ Users => SyncInv'
<1> SUFFICES ASSUME TypeOK, ShapeInv, SyncInv, NEW f \in File, UserStep(f) PROVE SyncInv'
  BY DEF Users, UserStep
<1>0. /\ Edit /\ (Unseen(f) \/ \E mask \in {"CREATE", "MODIFY", "DELETE"} : Seen(f, mask))
      /\ PlainMode(f) \/ AnyMode(f) \/ UNCHANGED <<locked, sealed>>
      /\ UNCHANGED workers \/ (src[f] # NoFile /\ KeepOpen(f))
      /\ UNCHANGED src \/ \E c \in Content \cup {NoFile} : src' = [src EXCEPT ![f] = c]
  BY UserFacts
<1>1. /\ UNCHANGED tgt /\ stale \subseteq stale'
      /\ \A g \in File \ {f} : g \in locked => g \in locked'
  BY <1>0, ModeTypes DEF Edit, Seen, Unseen
<1>2. \A x \in Slot :
        \/ workers'[x] = workers[x]
        \/ /\ workers[x].file = f
           /\ \E h : workers'[x] = [workers[x] EXCEPT !.held = h]
  BY <1>0 DEF KeepOpen
<1>3. ASSUME NEW c, NEW mask \in {"CREATE", "MODIFY", "DELETE"},
             src' = [src EXCEPT ![f] = c], Seen(f, mask), mask = "DELETE" <=> c = NoFile
      PROVE  SyncInv'
  <2>1. Notify(f, mask) /\ (watched \/ f \in stale')
    BY <1>3 DEF Seen
  <2>2. /\ LastTells' /\ (watched => Pending(f)')
        /\ \A g \in File : Pending(g) => Pending(g)'
    BY <1>1, <1>3, <2>1, NotifyFacts DEF SyncInv
  <2>3. \A g \in File : FileInv(g)'
    BY <1>1, <1>2, <1>3, <2>1, <2>2, ChangeKeeps
  <2> QED BY <2>2, <2>3 DEF SyncInv
<1>4. CASE UserCreates(f)
  <2>1. src' = [src EXCEPT ![f] = Empty] /\ Seen(f, "CREATE") /\ Empty # NoFile
    BY <1>4, ContentFacts DEF UserCreates
  <2> QED BY <1>3, <2>1
<1>5. CASE UserDeletes(f)
  <2>1. src' = [src EXCEPT ![f] = NoFile] /\ Seen(f, "DELETE")
    BY <1>5 DEF UserDeletes
  <2> QED BY <1>3, <2>1
<1>6. ASSUME NEW c \in Content, UserWrites(f, c) PROVE SyncInv'
  <2>1. src' = [src EXCEPT ![f] = c] /\ Seen(f, "MODIFY") /\ c # NoFile
    BY <1>6, ContentFacts DEF UserWrites
  <2> QED BY <1>3, <2>1
<1>7. ASSUME NEW c, src' = [src EXCEPT ![f] = c], Unseen(f) PROVE SyncInv'
  <2>1. f \in stale' /\ events' = events
    BY <1>7 DEF Unseen
  <2>2. LastTells'
    <3>1. \A g \in File \ {f} : src'[g] = src[g]
      BY <1>7 DEF TypeOK
    <3>2. \A k \in DOMAIN events : events[k].file \in File
      <4>1. \A k \in DOMAIN events : events[k] \in Change
        BY DEF TypeOK
      <4> QED BY <4>1 DEF Change
    <3> QED BY <1>1, <2>1, <3>1, <3>2 DEF LastTells, SyncInv
  <2>3. \A g \in File : Pending(g) => Pending(g)'
    BY <2>1 DEF Pending
  <2>4. \A g \in File : FileInv(g)'
    BY <1>1, <1>2, <1>7, <2>1, <2>3, ChangeKeeps
  <2> QED BY <2>2, <2>4 DEF SyncInv
<1>8. ASSUME NEW c \in Content \cup {NoFile}, UserMoves(f, c) PROVE SyncInv'
  BY <1>7, <1>8 DEF UserMoves
<1>9. CASE UserChmods(f)
  <2>1. src' = [src EXCEPT ![f] = src[f]]
    BY <1>9 DEF UserChmods, TypeOK
  <2> QED BY <1>7, <1>9, <2>1 DEF UserChmods
<1> QED BY <1>4, <1>5, <1>6, <1>8, <1>9 DEF UserStep

(* ADDED changes the source as a user would, and is told of it. *)
LEMMA TruncateSync ==
  ASSUME TypeOK, ShapeInv, SyncInv, NEW w \in Slot, TruncateSource(w)
  PROVE  SyncInv'
<1>1. /\ workers[w] \in Worker /\ workers[w].stage = "truncate" /\ watched
      /\ UNCHANGED tgt
  BY DEF TruncateSource, TypeOK, ShapeInv, Unwatched
<1>2. PICK f \in workers[w].todo : TruncateSource(w)!2!(f)
  BY DEF TruncateSource
<1>3. workers[w].files = {f} /\ f \in File
  <2>1. workers[w].op = "ADDED" /\ workers[w].todo = workers[w].files
    BY <1>1 DEF ShapeInv, ShapeOf
  <2>2. \E g \in File : workers[w].files = {g}
    BY <2>1 DEF ShapeInv, ShapeOf
  <2> QED BY <1>2, <2>1, <2>2
<1>4. CASE /\ UNCHANGED <<src, locked, events>> /\ stale' = stale \cup {f}
           /\ workers' = [workers EXCEPT ![w].stage = "done"]
  <2>1. workers'[w] = [workers[w] EXCEPT !.stage = "done"]
    BY <1>4 DEF TypeOK
  <2>2. workers'[w].files = workers[w].files /\ workers'[w].stage # "idle"
    BY <1>1, <2>1 DEF Worker
  <2>3. WorkerSteps(w)
    BY DEF WorkerSteps
  <2> QED BY <1>1, <1>3, <1>4, <2>2, <2>3, WorkerProgress
<1>5. CASE /\ src' = [src EXCEPT ![f] = Empty] /\ (Notify(f, "MODIFY") \/ Notify(f, "CREATE"))
           /\ AnyMode(f) \/ UNCHANGED locked
           /\ UNCHANGED stale /\ workers' = [workers EXCEPT ![w].stage = "copy"]
  <2>1. PICK mask \in {"CREATE", "MODIFY"} : Notify(f, mask)
    BY <1>5
  <2>2. Empty # NoFile
    BY ContentFacts
  <2>3. /\ LastTells' /\ Pending(f)' /\ \A g \in File : Pending(g) => Pending(g)'
    BY <1>1, <1>3, <1>5, <2>1, <2>2, NotifyFacts DEF SyncInv
  <2>4. ASSUME NEW x \in Slot
        PROVE  \/ workers'[x] = workers[x]
               \/ /\ workers[x].files = {f}
                  /\ workers[x].stage = "truncate"
                  /\ workers'[x] = [workers[x] EXCEPT !.stage = "copy"]
    BY <1>1, <1>3, <1>5 DEF TypeOK
  <2>5. \A g \in File \ {f} : g \in locked => g \in locked'
    BY <1>3, <1>5, ModeTypes
  <2>6. \A g \in File : FileInv(g)'
    BY <1>1, <1>3, <1>5, <2>3, <2>4, <2>5, ChangeKeeps
  <2> QED BY <2>3, <2>6 DEF SyncInv
<1> QED BY <1>2, <1>4, <1>5 DEF TruncateSource

-----------------------------------------------------------------------------
(* New workers.                                                            *)

(* A new worker of op for files: of those in its care it is the only one or
   they are in doubt, and each it can be on the way to mirror. *)
LEMMA StartKeeps ==
  ASSUME TypeOK, SyncInv, NEW w \in Slot,
         NEW op \in {"FULL", "ADDED", "MODIFIED", "DELETED"},
         NEW files \in SUBSET File, files # {}, Start(w, op, files),
         UNCHANGED <<src, tgt, locked>>, InDoubt(op, files, events') \subseteq stale',
         \A g \in File \ files : g \notin stale' /\ Pending(g) => Pending(g)',
         \A g \in files : g \notin stale' /\ ~Pending(g)' =>
           OnWay(NewWorker(op, files), g, src[g], tgt[g])
  PROVE  \A g \in File : FileInv(g)'
<1> SUFFICES ASSUME NEW g \in File PROVE FileInv(g)'
  OBVIOUS
<1> DEFINE k == NewWorker(op, files)
<1>1. /\ k.files = files /\ k.stage \notin {"idle", "done"}
      /\ workers[w].stage = "idle" /\ workers \in [Slot -> Worker]
  BY NewWorkerType DEF Start, Idle, TypeOK
<1>2. workers' = [workers EXCEPT ![w] = k]
  BY DEF Start
<1> HIDE DEF k
<1>3. FileInv(g)
  BY DEF SyncInv
<1>4. Busy(g)' = IF g \in files THEN Busy(g) \cup {w} ELSE Busy(g)
  BY <1>1, <1>2 DEF Busy
<1>5. w \notin Busy(g)
  BY <1>1 DEF Busy
<1>6. CASE g \in files
  <2>1. g \notin stale' => Busy(g) = {}
    BY <1>6 DEF InDoubt
  <2>2. Clean(g)' => g \notin stale' /\ ~Pending(g)'
    BY DEF Clean
  <2>3. Clean(g)' => OnWay(k, g, src[g], tgt[g])
    BY <1>6, <2>2 DEF k
  <2>4. workers'[w] = k
    BY <1>1, <1>2
  <2> QED BY <1>4, <1>6, <2>1, <2>2, <2>3, <2>4 DEF FileInv
<1>7. CASE g \notin files
  <2>1. g \notin stale' => g \notin stale
    BY <1>7 DEF InDoubt
  <2>2. Clean(g)' => Clean(g)
    BY <1>7, <2>1 DEF Clean
  <2>3. \A x \in Busy(g) : workers'[x] = workers[x]
    BY <1>1, <1>2, <1>5 DEF Busy
  <2> QED BY <1>3, <1>4, <1>7, <2>1, <2>2, <2>3 DEF FileInv
<1> QED BY <1>6, <1>7

(* What is left in the queue after a read. *)
LEMMA TakenEvents ==
  ASSUME TypeOK, events # <<>>, events' = SubSeq(events, EventsPerRead + 1, Len(events))
  PROVE  /\ \A k \in DOMAIN events' : /\ k + EventsPerRead \in DOMAIN events
                                      /\ events'[k] = events[k + EventsPerRead]
         /\ \A k \in DOMAIN events : k > EventsPerRead =>
              k - EventsPerRead \in DOMAIN events' /\ events'[k - EventsPerRead] = events[k]
<1> DEFINE n == Len(events)
           m == EventsPerRead
<1>1. events \in Seq(Change) /\ n \in Nat /\ m \in Nat \ {0} /\ DOMAIN events = 1..n
  BY SyncEventsAssumption DEF TypeOK
<1>2. CASE m >= n
  <2>1. DOMAIN events' = 1..0
    BY <1>1, <1>2
  <2> HIDE DEF n, m
  <2>2. \A k \in DOMAIN events' : FALSE
    BY <2>1
  <2>3. \A k \in DOMAIN events : ~(k > m)
    BY <1>1, <1>2
  <2> QED BY <2>2, <2>3 DEF m
<1>3. CASE m < n
  <2>1. DOMAIN events' = 1..(n - m) /\ \A k \in 1..(n - m) : events'[k] = events[k + m]
    BY <1>1, <1>3
  <2> HIDE DEF n, m
  <2>2. \A k \in 1..(n - m) : k + m \in 1..n
    BY <1>1, <1>3
  <2>3. \A k \in 1..n : k > m => k - m \in 1..(n - m) /\ (k - m) + m = k
    BY <1>1, <1>3
  <2> QED BY <1>1, <2>1, <2>2, <2>3 DEF m
<1> QED BY <1>1, <1>2, <1>3

LEMMA TakeSync ==
  ASSUME TypeOK, ShapeInv, SyncInv, TakeEvents
  PROVE  SyncInv'
<1> DEFINE e == Head(events)
           m == EventsPerRead
           lost(first) == {events[k].file : k \in {i \in {j \in DOMAIN events : j <= m} : i >= first}}
<1>1. /\ events # <<>> /\ events' = SubSeq(events, m + 1, Len(events))
      /\ UNCHANGED <<src, tgt, locked>>
      /\ \/ /\ \E w \in Slot : Start(w, JobOf(e.mask), {e.file})
            /\ stale' = InDoubt(JobOf(e.mask), {e.file}, events') \cup lost(2)
         \/ /\ stale' = stale \cup lost(1)
            /\ UNCHANGED workers
  BY DEF TakeEvents
<1>2. /\ \A k \in DOMAIN events' : k + m \in DOMAIN events /\ events'[k] = events[k + m]
      /\ \A k \in DOMAIN events : k > m => k - m \in DOMAIN events' /\ events'[k - m] = events[k]
  BY <1>1, TakenEvents
<1>3. /\ events \in Seq(Change) /\ DOMAIN events = 1..Len(events) /\ Len(events) \in Nat
      /\ 1 \in DOMAIN events /\ events[1] = e /\ e \in Change /\ m \in Nat \ {0}
      /\ DOMAIN events' = 1..Len(events') /\ Len(events') \in Nat
  <2>1. events \in Seq(Change) /\ events # <<>> /\ TypeOK'
    BY <1>1, ManagerTypes DEF TypeOK, Manager
  <2>2. events' \in Seq(Change)
    BY <2>1 DEF TypeOK
  <2> QED BY <2>1, <2>2, SyncEventsAssumption
<1>4. e.file \in File /\ e.mask \in {"CREATE", "MODIFY", "DELETE"}
  BY <1>3 DEF Change
<1> HIDE DEF e, m, lost
<1>5. LastTells'
  <2> SUFFICES ASSUME NEW k \in DOMAIN events', events'[k].file \notin stale',
                      \A j \in DOMAIN events' : j > k => events'[j].file # events'[k].file
               PROVE  events'[k].mask = "DELETE" <=> src[events'[k].file] = NoFile
    BY <1>1 DEF LastTells
  <2>1. k + m \in DOMAIN events /\ events'[k] = events[k + m]
    BY <1>2
  <2>2. ASSUME NEW j \in DOMAIN events, j > k + m PROVE events[j].file # events[k + m].file
    <3>1. j \in Nat /\ k \in Nat /\ m \in Nat
      BY <1>3
    <3>2. j > m /\ j - m > k
      BY <2>2, <3>1
    <3>3. j - m \in DOMAIN events' /\ events'[j - m] = events[j]
      BY <1>2, <3>2
    <3> QED BY <2>1, <3>2, <3>3
  <2>3. events[k + m].file \notin stale
    BY <1>1, <2>1 DEF InDoubt, Renews
  <2> QED BY <2>1, <2>2, <2>3 DEF LastTells, SyncInv
<1>6. ASSUME NEW g \in File, Pending(g), ~Pending(g)'
      PROVE  /\ g \in lost(1)
             /\ g # e.file => g \in lost(2)
             /\ g \notin stale \cup lost(2) => (e.mask = "DELETE" <=> src[g] = NoFile)
  <2>1. ASSUME NEW k \in DOMAIN events, events[k].file = g PROVE k <= m /\ k >= 1
    <3>1. k \in Nat /\ m \in Nat /\ k >= 1
      BY <1>3
    <3>2. ~(k > m)
      BY <1>2, <1>6, <2>1 DEF Pending
    <3> QED BY <3>1, <3>2
  <2>2. PICK k \in DOMAIN events : events[k].file = g
    BY <1>6 DEF Pending
  <2>3. g \in lost(1)
    BY <2>1, <2>2 DEF lost
  <2>4. ASSUME g \notin lost(2), NEW j \in DOMAIN events, events[j].file = g PROVE j = 1
    <3>1. j <= m /\ j >= 1 /\ j \in Nat
      BY <1>3, <2>1, <2>4
    <3>2. ~(j >= 2)
      BY <2>4, <3>1 DEF lost
    <3> QED BY <3>1, <3>2
  <2>5. g # e.file => g \in lost(2)
    BY <1>3, <2>2, <2>4
  <2>6. ASSUME g \notin stale \cup lost(2) PROVE e.mask = "DELETE" <=> src[g] = NoFile
    <3>1. events[1].file = g
      BY <2>2, <2>4, <2>6
    <3>2. \A j \in DOMAIN events : j > 1 => events[j].file # events[1].file
      BY <2>4, <2>6, <3>1
    <3> QED BY <1>3, <2>6, <3>1, <3>2 DEF LastTells, SyncInv
  <2> QED BY <2>3, <2>5, <2>6
<1>7. ASSUME NEW w \in Slot, Start(w, JobOf(e.mask), {e.file}),
             stale' = InDoubt(JobOf(e.mask), {e.file}, events') \cup lost(2)
      PROVE  \A g \in File : FileInv(g)'
  <2> DEFINE op == JobOf(e.mask)
             k == NewWorker(op, {e.file})
  <2>1. /\ op \in {"ADDED", "MODIFIED", "DELETED"}
        /\ op = "DELETED" <=> e.mask = "DELETE"
    BY <1>4 DEF JobOf
  <2>2. /\ k.op = op /\ k.todo = {e.file} /\ k.files = {e.file}
        /\ k.stage = IF op = "ADDED" THEN "truncate" ELSE IF op = "MODIFIED" THEN "copy" ELSE "delete"
    BY <1>4, <2>1, NewWorkerType
  <2> HIDE DEF k, op
  <2>3. ASSUME NEW g, g = e.file, g \notin stale', ~Pending(g)'
        PROVE  OnWay(k, g, src[g], tgt[g])
    <3>1. Pending(g) /\ g \in File
      BY <1>3, <1>4, <2>3 DEF Pending
    <3>2. g \notin lost(2)
      BY <1>7, <2>3
    <3>3. e.mask = "DELETE" <=> src[g] = NoFile
      <4>1. CASE g \in stale
        BY <1>7, <2>1, <2>3, <4>1 DEF InDoubt, Renews, Suits, op
      <4>2. CASE g \notin stale
        BY <1>6, <2>3, <3>1, <3>2, <4>2
      <4> QED BY <4>1, <4>2
    <3> QED BY <2>1, <2>2, <2>3, <3>3 DEF OnWay, Handles, Copying
  <2>4. \A g \in File \ {e.file} : g \notin stale' /\ Pending(g) => Pending(g)'
    BY <1>6, <1>7
  <2>5. op \in {"FULL", "ADDED", "MODIFIED", "DELETED"} /\ {e.file} \in SUBSET File /\ {e.file} # {}
    BY <1>4, <2>1
  <2>6. Start(w, op, {e.file}) /\ InDoubt(op, {e.file}, events') \subseteq stale'
    BY <1>7 DEF op
  <2>7. \A g \in {e.file} : g \notin stale' /\ ~Pending(g)' =>
          OnWay(NewWorker(op, {e.file}), g, src[g], tgt[g])
    <3> SUFFICES ASSUME NEW g, g = e.file, g \notin stale', ~Pending(g)'
                 PROVE  OnWay(NewWorker(op, {e.file}), g, src[g], tgt[g])
      OBVIOUS
    <3>1. OnWay(k, g, src[g], tgt[g])
      BY <2>3
    <3> QED BY <3>1 DEF k
  <2> QED BY <1>1, <2>4, <2>5, <2>6, <2>7, StartKeeps
<1>8. ASSUME UNCHANGED workers, stale' = stale \cup lost(1), NEW g \in File
      PROVE  FileInv(g)'
  <2>1. FileInv(g) /\ Busy(g)' = Busy(g)
    BY <1>8 DEF SyncInv, Busy
  <2>2. Clean(g)' => Clean(g)
    BY <1>1, <1>6, <1>8 DEF Clean
  <2> QED BY <1>1, <1>8, <2>1, <2>2 DEF FileInv
<1>9. \A g \in File : FileInv(g)'
  BY <1>1, <1>7, <1>8
<1> QED BY <1>5, <1>9 DEF SyncInv

LEMMA ManagerSync ==
  ASSUME TypeOK, ShapeInv, SyncInv, Manager \/ SyncCommand
  PROVE  SyncInv'
<1>1. CASE AddWatch
  BY <1>1 DEF AddWatch, SyncInv, LastTells, FileInv, Clean, Pending, Busy
<1>2. CASE TakeEvents
  BY <1>2, TakeSync
<1>3. CASE SyncCommand
  <2>1. /\ \E w \in Slot : Start(w, "FULL", File)
        /\ UNCHANGED <<src, tgt, locked, events>> /\ stale' = InDoubt("FULL", File, events)
    BY <1>3 DEF SyncCommand
  <2>2. PICK w \in Slot : Start(w, "FULL", File)
    BY <2>1
  <2> DEFINE k == NewWorker("FULL", File)
  <2>3. k.op = "FULL" /\ k.stage = "scan"
    BY NewWorkerType, FileAssumption
  <2> HIDE DEF k
  <2>4. \A g \in File : OnWay(k, g, src[g], tgt[g])
    BY <2>3 DEF OnWay, Handles, Copying
  <2>5. \A g \in File : OnWay(NewWorker("FULL", File), g, src[g], tgt[g])
    BY <2>4 DEF k
  <2>6. \A g \in File : FileInv(g)'
    BY <2>1, <2>2, <2>5, FileAssumption, StartKeeps
  <2>7. LastTells'
    <3>1. \A i \in DOMAIN events : events[i].file \notin stale' => events[i].file \notin stale
      BY <2>1 DEF InDoubt, Renews
    <3> QED BY <2>1, <3>1 DEF SyncInv, LastTells
  <2> QED BY <2>6, <2>7 DEF SyncInv
<1>4. ASSUME NEW w \in Slot, Retire(w) PROVE SyncInv'
  <2>1. /\ workers[w].stage = "done" /\ workers[w] \in Worker /\ workers \in [Slot -> Worker]
        /\ workers' = [workers EXCEPT ![w] = NoWorker]
        /\ UNCHANGED <<src, tgt, locked, events, stale>>
    BY <1>4 DEF Retire, TypeOK
  <2>2. LastTells'
    BY <2>1 DEF SyncInv, LastTells
  <2>3. ASSUME NEW g \in File PROVE FileInv(g)'
    <3>1. workers'[w].stage = "idle" /\ \A x \in Slot \ {w} : workers'[x] = workers[x]
      BY <2>1, NoWorkerType
    <3>2. Busy(g)' = Busy(g) /\ \A x \in Busy(g) : workers'[x] = workers[x]
      BY <2>1, <3>1 DEF Busy
    <3>3. Clean(g)' <=> Clean(g)
      BY <2>1 DEF Clean, Pending
    <3>4. FileInv(g)
      BY DEF SyncInv
    <3> QED BY <2>1, <3>2, <3>3, <3>4 DEF FileInv
  <2> QED BY <2>2, <2>3 DEF SyncInv
<1> QED BY <1>1, <1>2, <1>3, <1>4 DEF Manager

LEMMA InitSync == Init => SyncInv
<1> SUFFICES ASSUME Init PROVE SyncInv
  OBVIOUS
<1> DEFINE k == NewWorker("FULL", File)
<1>1. k.op = "FULL" /\ k.stage = "scan" /\ k.files = File
  BY NewWorkerType, FileAssumption
<1>2. /\ events = <<>> /\ 1 \in Slot /\ workers[1] = k
      /\ \A w \in Slot : w # 1 => workers[w].stage = "idle"
  <2>1. 1 \in Slot
    BY SyncWorkerLimitAssumption DEF Slot
  <2>2. workers = [w \in Slot |-> IF w = 1 THEN k ELSE NoWorker] /\ events = <<>>
    BY DEF Init
  <2> HIDE DEF k
  <2> QED BY <2>1, <2>2, NoWorkerType
<1> HIDE DEF k
<1>3. \A g \in File : Busy(g) = {1} /\ OnWay(workers[1], g, src[g], tgt[g])
  BY <1>1, <1>2 DEF Busy, OnWay, Handles, Copying
<1>4. \A g \in File : FileInv(g)
  BY <1>3 DEF FileInv
<1>5. LastTells
  BY <1>2 DEF LastTells
<1> QED BY <1>4, <1>5 DEF SyncInv

LEMMA SyncStep == TypeOK /\ ShapeInv /\ SyncInv /\ [Next]_vars => ShapeInv' /\ SyncInv'
<1> SUFFICES ASSUME TypeOK, ShapeInv, SyncInv, [Next]_vars PROVE ShapeInv' /\ SyncInv'
  OBVIOUS
<1>1. CASE UNCHANGED vars
  BY <1>1 DEF vars, ShapeInv, Unwatched, SyncInv, LastTells, FileInv, Clean, Pending, Busy
<1>2. CASE Users
  BY <1>2, UserShape, UserSync
<1>3. CASE Manager \/ SyncCommand
  BY <1>3, ManagerShape, ManagerSync
<1>4. ASSUME NEW w \in Slot, WorkerSteps(w) PROVE ShapeInv' /\ SyncInv'
  BY <1>4, WorkerStepShape, WorkerStepSync, TruncateSync
<1> QED BY <1>1, <1>2, <1>3, <1>4 DEF Next, Rest

(***************************************************************************)
(* Whatever the users do between any two system calls of any number of     *)
(* workers: a file whose last change is not in doubt, that can be read and of *)
(* which no event waits is mirrored, or there is exactly one worker at     *)
(* work on it, which will leave it mirrored if nothing else happens.       *)
(***************************************************************************)
THEOREM SyncInvariant == Spec => [](ShapeInv /\ SyncInv)
<1>1. Init => ShapeInv /\ SyncInv
  BY InitShape, InitSync
<1> QED BY <1>1, SyncTypes, SyncStep, PTL DEF Spec

(* When all is quiet, the target is what the source is, but for the files in
   doubt and those that cannot be read: what synchronize_files and delete_file
   promise together (worker_process.c:1-4), and all that they promise. *)
THEOREM SyncMirrors == Spec => []QuietMeansMirrored
<1>1. SyncInv => QuietMeansMirrored
  <2> SUFFICES ASSUME SyncInv, Quiet, NEW f \in File \ (stale \cup locked) PROVE tgt[f] = src[f]
    BY DEF QuietMeansMirrored
  <2>1. FileInv(f)
    BY DEF SyncInv
  <2>2. events = <<>> /\ \A w \in Slot : workers[w].stage = "idle"
    BY DEF Quiet, Idle
  <2>3. Busy(f) = {} /\ Clean(f)
    BY <2>2 DEF Busy, Clean, Pending
  <2> QED BY <2>1, <2>3 DEF FileInv
<1> QED BY <1>1, SyncInvariant, PTL
=============================================================================
