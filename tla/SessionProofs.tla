----------------------------- MODULE SessionProofs -----------------------------
(***************************************************************************)
(* Theorems about a session of fss_console with fss_manager, for any       *)
(* number of workers and slots, any report sizes that fit in a pipe and    *)
(* anything the user may type: types, that the console is connected to one *)
(* manager with both hands, and that no command of a user who waits for    *)
(* the answers is lost.                                                    *)
(***************************************************************************)
EXTENDS Session, SequenceTheorems, FiniteSetTheorems, TLAPS

-----------------------------------------------------------------------------
(* The workers and the handler.                                            *)

(* Nobody has read more of a report than there is. *)
ChildInv == ChildTypeOK /\ \A c \in Child : got[c] <= wrote[c]

LEMMA TableIsFinite ==
  ASSUME NEW S \in SUBSET Child
  PROVE  IsFiniteSet(S) /\ Cardinality(S) \in Nat
<1>1. IsFiniteSet(S)
  BY ChildAssumption, FS_Subset
<1> QED BY <1>1, FS_CardinalityType

(* Slots are only freed. *)
LEMMA TableShrinks ==
  ASSUME ChildInv, InTable' \subseteq InTable
  PROVE  Cardinality(InTable') <= WorkerLimit
<1>1. InTable \in SUBSET Child
  BY DEF InTable
<1>2. Cardinality(InTable') <= Cardinality(InTable)
  BY <1>1, TableIsFinite, FS_Subset
<1>3. /\ Cardinality(InTable) \in Nat /\ Cardinality(InTable') \in Nat
      /\ WorkerLimit \in Nat /\ Cardinality(InTable) <= WorkerLimit
  BY <1>1, TableIsFinite, ChildAssumption DEF ChildInv, ChildTypeOK
<1> QED BY <1>2, <1>3

LEMMA ChildInitInv ==
  ASSUME ChildInit
  PROVE  ChildInv
<1>1. InTable = {}
  BY DEF ChildInit, InTable
<1>2. Cardinality(InTable) = 0
  BY <1>1, FS_EmptySet
<1>3. Cardinality(InTable) <= WorkerLimit
  BY <1>2, ChildAssumption
<1>4. 0 \in 0..ReportSize /\ 0 <= 0
  BY ReportFits
<1>5. /\ child \in [Child -> {"unborn", "running", "leaving", "zombie", "reaped"}]
      /\ wrote \in [Child -> 0..ReportSize] /\ got \in [Child -> 0..ReportSize]
      /\ \A c \in Child : got[c] <= wrote[c]
  BY <1>4 DEF ChildInit
<1>6. sigchld \in BOOLEAN /\ in_handler \in BOOLEAN
  BY DEF ChildInit
<1> QED BY <1>3, <1>5, <1>6 DEF ChildInv, ChildTypeOK

LEMMA ChildUnchanged ==
  ASSUME ChildInv, UNCHANGED childVars
  PROVE  ChildInv'
BY DEF ChildInv, ChildTypeOK, childVars, InTable

LEMMA ForkInv ==
  ASSUME ChildInv, NEW c \in Child, Fork(c)
  PROVE  ChildInv'
<1>1. /\ HasRoom /\ child' = [child EXCEPT ![c] = "running"]
      /\ UNCHANGED <<wrote, got, sigchld, in_handler>>
  BY DEF Fork
<1>2. InTable' \subseteq InTable \cup {c} /\ InTable \in SUBSET Child
  BY <1>1 DEF InTable, ChildInv, ChildTypeOK
<1>3. IsFiniteSet(InTable) /\ Cardinality(InTable) \in Nat
  BY <1>2, TableIsFinite
<1>4. IsFiniteSet(InTable \cup {c}) /\ Cardinality(InTable \cup {c}) <= Cardinality(InTable) + 1
  BY <1>3, FS_AddElement
<1>5. Cardinality(InTable') <= Cardinality(InTable \cup {c})
  BY <1>2, <1>4, FS_Subset
<1>6. Cardinality(InTable') \in Nat /\ Cardinality(InTable \cup {c}) \in Nat
  BY <1>2, <1>4, FS_CardinalityType, FS_Subset
<1>7. Cardinality(InTable) < WorkerLimit /\ WorkerLimit \in Nat
  BY <1>1, ChildAssumption DEF HasRoom
<1>8. Cardinality(InTable') <= WorkerLimit
  BY <1>3, <1>4, <1>5, <1>6, <1>7
<1> QED BY <1>1, <1>8 DEF ChildInv, ChildTypeOK

LEMMA ReadsPipeInv ==
  ASSUME ChildInv, NEW c \in Child, ReadsPipe(c)
  PROVE  ChildInv'
<1>1. /\ got[c] < wrote[c] /\ got' = [got EXCEPT ![c] = wrote[c]]
      /\ UNCHANGED <<child, wrote, sigchld, in_handler>>
  BY DEF ReadsPipe
<1>2. /\ \A d \in Child : got[d] \in Nat /\ wrote[d] \in Nat /\ got[d] <= got'[d]
      /\ got' \in [Child -> 0..ReportSize]
      /\ \A d \in Child : got'[d] <= wrote[d]
  BY <1>1, ReportFits DEF ChildInv, ChildTypeOK
<1>3. InTable' \subseteq InTable
  BY <1>1, <1>2, ReportFits DEF InTable
<1>4. Cardinality(InTable') <= WorkerLimit
  BY <1>3, TableShrinks
<1> QED BY <1>1, <1>2, <1>4 DEF ChildInv, ChildTypeOK

(* A worker process writes, signals its parent or exits; the handler waits. *)
LEMMA RunsInv ==
  ASSUME ChildInv, Handler \/ \E c \in Child : WorkerRuns(c)
  PROVE  ChildInv'
<1>1. ASSUME NEW c \in Child, WritesReport(c) PROVE ChildInv'
  <2>1. /\ wrote[c] < ReportSize /\ wrote' = [wrote EXCEPT ![c] = @ + 1]
        /\ UNCHANGED <<child, got, sigchld, in_handler>>
    BY <1>1 DEF WritesReport
  <2>2. InTable' = InTable
    BY <2>1 DEF InTable
  <2>3. /\ wrote' \in [Child -> 0..ReportSize]
        /\ \A d \in Child : got[d] <= wrote'[d]
    BY <2>1, ReportFits DEF ChildInv, ChildTypeOK
  <2> QED BY <2>1, <2>2, <2>3 DEF ChildInv, ChildTypeOK
<1>2. ASSUME NEW c \in Child, SignalsParent(c) \/ Exits(c) PROVE ChildInv'
  <2>1. /\ \E how \in {"leaving", "zombie"} : child' = [child EXCEPT ![c] = how]
        /\ child[c] # "unborn" /\ sigchld' = TRUE /\ UNCHANGED <<wrote, got, in_handler>>
    BY <1>2 DEF SignalsParent, Exits
  <2>2. InTable' \subseteq InTable
    BY <2>1 DEF InTable, ChildInv, ChildTypeOK
  <2>3. Cardinality(InTable') <= WorkerLimit
    BY <2>2, TableShrinks
  <2> QED BY <2>1, <2>3 DEF ChildInv, ChildTypeOK
<1>3. CASE EntersHandler \/ WaitFails
  <2>1. InTable' = InTable
    BY <1>3 DEF EntersHandler, WaitFails, InTable
  <2> QED BY <1>3, <2>1 DEF EntersHandler, WaitFails, ChildInv, ChildTypeOK
<1>4. CASE WaitReaps
  <2>1. PICK c \in Zombies : child' = [child EXCEPT ![c] = "reaped"]
    BY <1>4 DEF WaitReaps
  <2>2. c \in Child /\ child[c] = "zombie" /\ in_handler' = FALSE
        /\ UNCHANGED <<wrote, got, sigchld>>
    BY <1>4 DEF Zombies, WaitReaps
  <2>3. InTable' \subseteq InTable
    BY <2>1, <2>2 DEF InTable, ChildInv, ChildTypeOK
  <2>4. Cardinality(InTable') <= WorkerLimit
    BY <2>3, TableShrinks
  <2> QED BY <2>1, <2>2, <2>4 DEF ChildInv, ChildTypeOK
<1> QED BY <1>1, <1>2, <1>3, <1>4 DEF Handler, WorkerRuns

(* Every step of the session keeps it. *)
LEMMA ChildStep ==
  ASSUME ChildInv, [Next]_vars
  PROVE  ChildInv'
<1>1. CASE UNCHANGED childVars
  BY <1>1, ChildUnchanged
<1>2. CASE ManagerObeys
  <2>1. StartWorker \/ UNCHANGED childVars
    BY <1>2 DEF ManagerObeys
  <2>2. UNCHANGED childVars \/ \E c \in Child : Fork(c)
    BY <2>1 DEF StartWorker
  <2> QED BY <2>2, ForkInv, ChildUnchanged
<1>3. CASE ConfigForks
  BY <1>3, ForkInv DEF ConfigForks
<1>4. CASE ManagerReads
  BY <1>4, ReadsPipeInv DEF ManagerReads
<1>5. CASE ManagerHandles
  BY <1>5, RunsInv DEF ManagerHandles
<1>6. CASE \E c \in Child : Worker(c)
  BY <1>6, RunsInv DEF Worker
<1>7. CASE \/ \E f \in Fifo : MakeFifo(f) \/ Meet(f) \/ ConsoleOpens(f)
           \/ ConfigEnds \/ ManagerLeaves \/ ConsoleShows \/ ConsoleTakes \/ ConsoleEnds
           \/ UserTypes \/ UNCHANGED vars
  <2>1. UNCHANGED childVars
    BY <1>7 DEF MakeFifo, Meet, ConsoleOpens, ConfigEnds, ManagerLeaves, ConsoleShows,
                ConsoleTakes, ConsoleEnds, UserTypes, vars
  <2> QED BY <2>1, ChildUnchanged
<1> QED BY <1>2, <1>3, <1>4, <1>5, <1>6, <1>7 DEF Next, Manager, Opens, Console

-----------------------------------------------------------------------------
(* The fifos and the open calls.                                           *)

(* Once the manager has made fss_out its name stands for the new fifo, and a
   console that has met the manager at fss_in comes to fss_out after that. *)
FifoInv ==
  /\ path \in [Fifo -> {"none", "stale", "new"}]
  /\ opened \in [Fifo -> {"none", "stale", "new"}]
  /\ mpc \notin {"make fss_in", "make fss_out"} => path["fss_out"] = "new"
  /\ cpc = "open fss_in" => opened["fss_in"] = "none"
  /\ cpc = "open fss_out" /\ opened["fss_in"] = "new" =>
       mpc \notin {"make fss_in", "make fss_out"}
  /\ ConnectedIsWhole

LEMMA FifoUnchanged ==
  ASSUME FifoInv, UNCHANGED <<path, opened, cpc>>,
         mpc' = mpc \/ (mpc # "make fss_in" /\ mpc # "make fss_out"
                        /\ mpc' # "make fss_in" /\ mpc' # "make fss_out")
  PROVE  FifoInv'
BY DEF FifoInv, ConnectedIsWhole

LEMMA MakeFifoInv ==
  ASSUME FifoInv, NEW f \in Fifo, MakeFifo(f)
  PROVE  FifoInv'
<1>1. UNCHANGED <<opened, cpc>>
  BY DEF MakeFifo
<1>2. CASE f = "fss_in"
  <2>1. mpc = "make fss_in" /\ mpc' \in {"make fss_in", "make fss_out"}
        /\ path' \in [Fifo -> {"none", "stale", "new"}]
    BY <1>2 DEF MakeFifo, FifoInv, AfterFifo, Fifo
  <2> QED BY <1>1, <2>1 DEF FifoInv, ConnectedIsWhole
<1>3. CASE f = "fss_out"
  <2>1. mpc = "make fss_out" /\ path' \in [Fifo -> {"none", "stale", "new"}]
        /\ (mpc' # mpc => path'["fss_out"] = "new")
        /\ mpc' \in {"make fss_out", "config"}
    BY <1>3 DEF MakeFifo, FifoInv, AfterFifo, Fifo
  <2> QED BY <1>1, <2>1 DEF FifoInv, ConnectedIsWhole
<1> QED BY <1>2, <1>3 DEF Fifo

LEMMA ConsoleOpensInv ==
  ASSUME FifoInv, NEW f \in Fifo, ConsoleOpens(f)
  PROVE  FifoInv'
<1>1. /\ opened' = [opened EXCEPT ![f] = path[f]] /\ UNCHANGED <<path, mpc>>
      /\ opened' \in [Fifo -> {"none", "stale", "new"}]
  BY DEF ConsoleOpens, FifoInv
<1>2. CASE f = "fss_in"
  <2>1. cpc' \in {"fss_in", "open fss_out"} /\ (cpc' = "open fss_out" => path["fss_in"] = "none")
    BY <1>2 DEF ConsoleOpens, FifoInv
  <2>2. opened'["fss_in"] = path["fss_in"]
    BY <1>1, <1>2 DEF FifoInv, Fifo
  <2> QED BY <1>1, <2>1, <2>2 DEF FifoInv, ConnectedIsWhole
<1>3. CASE f = "fss_out"
  <2>1. cpc = "open fss_out" /\ cpc' \in {"fss_out", "exited"}
    BY <1>3 DEF ConsoleOpens, FifoInv, Fifo
  <2>2. opened'["fss_out"] = path["fss_out"] /\ opened'["fss_in"] = opened["fss_in"]
    BY <1>1, <1>3 DEF FifoInv, Fifo
  <2> QED BY <1>1, <2>1, <2>2 DEF FifoInv, ConnectedIsWhole
<1> QED BY <1>2, <1>3 DEF Fifo

LEMMA MeetInv ==
  ASSUME FifoInv, NEW f \in Fifo, Meet(f)
  PROVE  FifoInv'
<1>1. /\ cpc = f /\ opened[f] = "new" /\ UNCHANGED <<path, opened>>
      /\ mpc \in {"first open", "second open"} /\ mpc' \in {"second open", "serve"}
      /\ cpc' = IF f = "fss_in" THEN "open fss_out" ELSE "loop"
  BY DEF Meet
<1>2. f \in {"fss_in", "fss_out"}
  BY DEF Fifo
<1>3. cpc' \in {"open fss_out", "loop"} /\ (cpc' = "loop" => opened["fss_out"] = "new")
  BY <1>1, <1>2
<1> QED BY <1>1, <1>3 DEF FifoInv, ConnectedIsWhole

LEMMA FifoStep ==
  ASSUME FifoInv, [Next]_vars
  PROVE  FifoInv'
<1>1. CASE \E f \in Fifo : MakeFifo(f)
  BY <1>1, MakeFifoInv
<1>2. CASE \E f \in Fifo : Meet(f)
  BY <1>2, MeetInv
<1>3. CASE \E f \in Fifo : ConsoleOpens(f)
  BY <1>3, ConsoleOpensInv
<1>4. CASE \/ ConfigForks \/ ManagerReads \/ ManagerObeys \/ ManagerHandles
           \/ ConsoleShows \/ UserTypes \/ (\E c \in Child : Worker(c)) \/ UNCHANGED vars
  <2>1. UNCHANGED fifoVars
    BY <1>4 DEF ConfigForks, ManagerReads, ManagerObeys, ManagerHandles, ConsoleShows,
                UserTypes, Worker, vars
  <2> QED BY <2>1, FifoUnchanged DEF fifoVars
<1>5. CASE ConfigEnds \/ ManagerLeaves
  BY <1>5, FifoUnchanged DEF ConfigEnds, ManagerLeaves
<1>6. CASE ConsoleTakes \/ ConsoleEnds
  <2>1. UNCHANGED <<path, opened, mpc>> /\ cpc \in {"loop", "drain"}
        /\ cpc' \in {"loop", "drain", "done"}
    BY <1>6 DEF ConsoleTakes, ConsoleEnds
  <2> QED BY <2>1 DEF FifoInv, ConnectedIsWhole
<1> QED BY <1>1, <1>2, <1>3, <1>4, <1>5, <1>6 DEF Next, Manager, Opens, Console

-----------------------------------------------------------------------------
(* Lines, commands and answers.                                            *)

LinesTyped ==
  /\ script \in Seq(Line) /\ stdin \in Seq(Line) /\ buffered \in Seq(Line)
  /\ fss_in \in Seq(Line) /\ asked \in Seq(Line) /\ obeyed \in Seq(Line)
  /\ fss_out \in [answers : Nat, notices : Nat] /\ unanswered \in Nat

(* A line typed is in the kernel, in scanf's buffer, in fss_in, or in fss_out
   as its answer, until the answer is on the screen; where it is of two lines
   that one read returned together, it is not answered at all. *)
InFlight == Len(stdin) + Len(buffered) + Len(fss_in) + fss_out.answers

(* A user who waits for the answers has one line in flight at most, so fss_in
   never holds two commands. *)
LineInv ==
  /\ LinesTyped
  /\ InFlight <= unanswered
  /\ paced => unanswered <= 1
  /\ NothingIsLost

LEMMA Lengths ==
  ASSUME LinesTyped
  PROVE  /\ Len(stdin) \in Nat /\ Len(buffered) \in Nat /\ Len(fss_in) \in Nat
         /\ fss_out.answers \in Nat /\ fss_out.notices \in Nat /\ unanswered \in Nat
         /\ (stdin # <<>> => Len(stdin) > 0) /\ (fss_in # <<>> => Len(fss_in) > 0)
         /\ (buffered # <<>> => Len(buffered) > 0)
<1>1. Len(stdin) \in Nat /\ (stdin # <<>> => Len(stdin) > 0)
  BY EmptySeq, LenProperties DEF LinesTyped
<1>2. Len(fss_in) \in Nat /\ (fss_in # <<>> => Len(fss_in) > 0)
  BY EmptySeq, LenProperties DEF LinesTyped
<1>3. Len(buffered) \in Nat /\ (buffered # <<>> => Len(buffered) > 0)
  BY EmptySeq, LenProperties DEF LinesTyped
<1> QED BY <1>1, <1>2, <1>3 DEF LinesTyped

LEMMA LineInitInv ==
  ASSUME Init
  PROVE  LineInv
<1>1. script \in Seq(Line)
  BY ScriptsAssumption DEF Init
<1>2. <<>> \in Seq(Line) /\ Len(<<>>) = 0 /\ <<>> \o <<>> = <<>>
  BY EmptySeq, ConcatEmptySeq
<1>3. LinesTyped
  BY <1>1, <1>2 DEF Init, LinesTyped
<1>4. InFlight = 0 /\ unanswered = 0
  <2>1. /\ stdin = <<>> /\ buffered = <<>> /\ fss_in = <<>> /\ unanswered = 0
        /\ fss_out.answers = 0
    BY DEF Init
  <2> QED BY <1>2, <2>1 DEF InFlight
<1>5. obeyed \o fss_in = asked
  BY <1>2 DEF Init
<1> QED BY <1>3, <1>4, <1>5 DEF LineInv, NothingIsLost

LEMMA UserTypesInv ==
  ASSUME LineInv, UserTypes
  PROVE  LineInv'
<1>1. /\ script # <<>> /\ (paced => unanswered = 0)
      /\ script' = Tail(script) /\ stdin' = Append(stdin, Head(script))
      /\ unanswered' = unanswered + 1
      /\ UNCHANGED <<paced, buffered, asked, fss_in, fss_out, obeyed>>
  BY DEF UserTypes, commandVars
<1>2. LinesTyped
  BY DEF LineInv
<1>3. script' \in Seq(Line) /\ Head(script) \in Line
  BY <1>1, <1>2, HeadTailProperties DEF LinesTyped
<1>4. stdin' \in Seq(Line) /\ Len(stdin') = Len(stdin) + 1
  BY <1>1, <1>2, <1>3, AppendProperties DEF LinesTyped
<1>5. LinesTyped'
  BY <1>1, <1>2, <1>3, <1>4 DEF LinesTyped
<1>6. InFlight' <= unanswered'
  BY <1>1, <1>2, <1>4, Lengths DEF InFlight, LineInv
<1>7. paced' => unanswered' <= 1
  BY <1>1
<1>8. NothingIsLost'
  BY <1>1 DEF NothingIsLost, LineInv
<1> QED BY <1>5, <1>6, <1>7, <1>8 DEF LineInv

LEMMA ConsoleShowsInv ==
  ASSUME LineInv, ConsoleShows
  PROVE  LineInv'
<1>1. /\ fss_out' = [answers |-> 0, notices |-> 0]
      /\ unanswered' = unanswered - fss_out.answers
      /\ UNCHANGED <<paced, script, stdin, buffered, asked, fss_in, obeyed>>
  BY DEF ConsoleShows, Screen
<1>2. LinesTyped /\ InFlight <= unanswered
  BY DEF LineInv
<1>3. fss_out.answers <= unanswered
  BY <1>2, Lengths DEF InFlight
<1>4. unanswered' \in Nat /\ unanswered' <= unanswered
  BY <1>1, <1>2, <1>3, Lengths
<1>5. LinesTyped'
  BY <1>1, <1>2, <1>4 DEF LinesTyped
<1>6. fss_out'.answers = 0
  BY <1>1
<1>7. InFlight' <= unanswered'
  BY <1>1, <1>2, <1>6, Lengths DEF InFlight
<1>8. paced' => unanswered' <= 1
  BY <1>1, <1>2, <1>4, Lengths DEF LineInv
<1>9. NothingIsLost'
  BY <1>1 DEF NothingIsLost, LineInv
<1> QED BY <1>5, <1>7, <1>8, <1>9 DEF LineInv

(* However scanf reads, one line leaves the kernel and its buffer. *)
LEMMA ReadLineFacts ==
  ASSUME LinesTyped, stdin # <<>>, ReadLine
  PROVE  /\ Head(ReadAhead) \in Line
         /\ stdin' \in Seq(Line) /\ buffered' \in Seq(Line)
         /\ Len(stdin') + Len(buffered') = Len(stdin) + Len(buffered) - 1
<1>1. stdin \in Seq(Line) /\ buffered \in Seq(Line)
  BY DEF LinesTyped
<1>2. <<>> \in Seq(Line) /\ Len(<<>>) = 0
  BY EmptySeq
<1>3. /\ Head(stdin) \in Line /\ Tail(stdin) \in Seq(Line)
      /\ Len(Tail(stdin)) = Len(stdin) - 1
  BY <1>1, HeadTailProperties
<1>4. CASE buffered # <<>>
  <2>1. /\ Head(buffered) \in Line /\ Tail(buffered) \in Seq(Line)
        /\ Len(Tail(buffered)) = Len(buffered) - 1
    BY <1>1, <1>4, HeadTailProperties
  <2>2. ReadAhead = buffered /\ stdin' = stdin /\ buffered' = Tail(buffered)
    BY <1>4 DEF ReadLine, ReadAhead
  <2> QED BY <1>1, <2>1, <2>2, Lengths
<1>5. CASE buffered = <<>> /\ tty
  <2>1. ReadAhead = <<Head(stdin)>> /\ stdin' = Tail(stdin) /\ buffered' = Tail(<<Head(stdin)>>)
    BY <1>5 DEF ReadLine, ReadAhead
  <2>2. Tail(<<Head(stdin)>>) = <<>> /\ Head(<<Head(stdin)>>) = Head(stdin)
    BY <1>3
  <2> QED BY <1>2, <1>3, <1>5, <2>1, <2>2, Lengths
<1>6. CASE buffered = <<>> /\ ~tty
  <2>1. ReadAhead = stdin /\ stdin' = <<>> /\ buffered' = Tail(stdin)
    BY <1>6 DEF ReadLine, ReadAhead
  <2> QED BY <1>2, <1>3, <1>6, <2>1, Lengths
<1> QED BY <1>4, <1>5, <1>6

LEMMA ConsoleTakesInv ==
  ASSUME LineInv, ConsoleTakes
  PROVE  LineInv'
<1> DEFINE line == Head(ReadAhead)
<1>1. /\ stdin # <<>> /\ ReadLine
      /\ UNCHANGED <<paced, script, fss_out, obeyed>>
      /\ \/ Send(line) /\ UNCHANGED unanswered
         \/ Complain
  BY DEF ConsoleTakes
<1>2. LinesTyped /\ InFlight <= unanswered
  BY DEF LineInv
<1>3. /\ line \in Line
      /\ stdin' \in Seq(Line) /\ buffered' \in Seq(Line)
      /\ Len(stdin') + Len(buffered') = Len(stdin) + Len(buffered) - 1
  BY <1>1, <1>2, ReadLineFacts
<1> HIDE DEF line
<1>4. Len(stdin') \in Nat /\ Len(buffered') \in Nat
  BY <1>3, LenProperties
<1>5. CASE Send(line) /\ UNCHANGED unanswered
  <2>1. fss_in' = Append(fss_in, line) /\ asked' = Append(asked, line)
    BY <1>5 DEF Send
  <2>2. /\ fss_in' \in Seq(Line) /\ Len(fss_in') = Len(fss_in) + 1
        /\ asked' \in Seq(Line)
    BY <1>2, <1>3, <2>1, AppendProperties DEF LinesTyped
  <2>3. LinesTyped'
    BY <1>1, <1>2, <1>3, <1>5, <2>2 DEF LinesTyped
  <2>4. InFlight' <= unanswered'
    BY <1>1, <1>2, <1>3, <1>4, <1>5, <2>2, Lengths DEF InFlight
  <2>5. fss_in' = fss_in \o <<line>> /\ asked' = asked \o <<line>>
    BY <1>2, <1>3, <2>1, AppendIsConcat DEF LinesTyped
  <2>6. (obeyed \o fss_in) \o <<line>> = obeyed \o (fss_in \o <<line>>)
    <3>1. obeyed \in Seq(Line) /\ fss_in \in Seq(Line) /\ <<line>> \in Seq(Line)
      BY <1>2, <1>3 DEF LinesTyped
    <3> QED BY <3>1, ConcatAssociative
  <2>7. NothingIsLost'
    BY <1>1, <2>5, <2>6 DEF LineInv, NothingIsLost
  <2> QED BY <1>1, <1>5, <2>3, <2>4, <2>7 DEF LineInv
<1>6. CASE Complain
  <2>1. unanswered' = unanswered - 1 /\ UNCHANGED <<fss_in, asked>>
    BY <1>6 DEF Complain
  <2>2. unanswered' \in Nat /\ InFlight' <= unanswered'
    BY <1>1, <1>2, <1>3, <1>4, <2>1, Lengths DEF InFlight
  <2>3. LinesTyped'
    BY <1>1, <1>2, <1>3, <2>1, <2>2 DEF LinesTyped
  <2>4. paced' => unanswered' <= 1
    BY <1>1, <1>2, <2>1, Lengths DEF LineInv
  <2>5. NothingIsLost'
    BY <1>1, <2>1 DEF LineInv, NothingIsLost
  <2> QED BY <2>2, <2>3, <2>4, <2>5 DEF LineInv
<1> QED BY <1>1, <1>5, <1>6

LEMMA ManagerObeysInv ==
  ASSUME LineInv, ManagerObeys
  PROVE  LineInv'
<1>1. /\ fss_in # <<>> /\ fss_in' = <<>>
      /\ obeyed' = Append(obeyed, Head(fss_in))
      /\ fss_out' = [fss_out EXCEPT !.answers = @ + 1]
      /\ UNCHANGED <<paced, script, stdin, buffered, unanswered, asked>>
  BY DEF ManagerObeys, lineVars
<1>2. LinesTyped /\ InFlight <= unanswered
  BY DEF LineInv
<1>3. <<>> \in Seq(Line) /\ Len(<<>>) = 0
  BY EmptySeq
<1>4. /\ Head(fss_in) \in Line /\ Tail(fss_in) \in Seq(Line)
      /\ Len(Tail(fss_in)) = Len(fss_in) - 1
  BY <1>1, <1>2, HeadTailProperties DEF LinesTyped
<1>5. obeyed' \in Seq(Line) /\ obeyed' = obeyed \o <<Head(fss_in)>>
  BY <1>1, <1>2, <1>4, AppendProperties, AppendIsConcat DEF LinesTyped
<1>6. /\ fss_out' \in [answers : Nat, notices : Nat]
      /\ fss_out'.answers = fss_out.answers + 1
  <2>1. fss_out \in [answers : Nat, notices : Nat]
    BY <1>2 DEF LinesTyped
  <2> QED BY <1>1, <2>1
<1>7. LinesTyped'
  BY <1>1, <1>2, <1>3, <1>5, <1>6 DEF LinesTyped
<1>8. InFlight' <= unanswered'
  BY <1>1, <1>2, <1>3, <1>6, Lengths DEF InFlight
<1>9. ASSUME paced PROVE obeyed' \o fss_in' = asked'
  <2>1. Len(fss_in) = 1
    <3>1. unanswered <= 1
      BY <1>9 DEF LineInv
    <3>2. Len(fss_in) > 0
      BY <1>1, <1>2, Lengths
    <3>3. Len(stdin) + Len(buffered) + Len(fss_in) + fss_out.answers <= unanswered
      BY <1>2 DEF InFlight
    <3>4. /\ Len(stdin) \in Nat /\ Len(buffered) \in Nat /\ Len(fss_in) \in Nat
          /\ fss_out.answers \in Nat /\ unanswered \in Nat
      BY <1>2, Lengths
    <3>5. Len(fss_in) <= unanswered
      BY <3>3, <3>4
    <3>6. \A n, u \in Nat : n > 0 /\ n <= u /\ u <= 1 => n = 1
      OBVIOUS
    <3> QED BY <3>1, <3>2, <3>4, <3>5, <3>6
  <2>2. fss_in = <<Head(fss_in)>>
    BY <1>2, <2>1 DEF LinesTyped
  <2>3. obeyed' \o <<>> = obeyed'
    BY <1>5, ConcatEmptySeq
  <2> QED BY <1>1, <1>5, <1>9, <2>2, <2>3 DEF LineInv, NothingIsLost
<1> QED BY <1>1, <1>7, <1>8, <1>9 DEF LineInv, NothingIsLost

(* Notices are no answers. *)
LEMMA QuietLines ==
  ASSUME LineInv, UNCHANGED <<paced, lineVars, fss_in, obeyed>>,
         fss_out' = fss_out \/ fss_out' = [fss_out EXCEPT !.notices = @ + 1]
  PROVE  LineInv'
<1>1. LinesTyped
  BY DEF LineInv
<1>2. fss_out' \in [answers : Nat, notices : Nat] /\ fss_out'.answers = fss_out.answers
  BY <1>1 DEF LinesTyped
<1> QED BY <1>1, <1>2 DEF LineInv, LinesTyped, InFlight, NothingIsLost, lineVars

LEMMA LineStep ==
  ASSUME LineInv, [Next]_vars
  PROVE  LineInv'
<1>1. CASE UserTypes
  BY <1>1, UserTypesInv
<1>2. CASE ConsoleShows
  BY <1>2, ConsoleShowsInv
<1>3. CASE ConsoleTakes
  BY <1>3, ConsoleTakesInv
<1>4. CASE ManagerObeys
  BY <1>4, ManagerObeysInv
<1>5. CASE ManagerReads \/ ManagerLeaves
  <2>1. UNCHANGED <<paced, lineVars, fss_in, obeyed>>
        /\ (fss_out' = fss_out \/ fss_out' = [fss_out EXCEPT !.notices = @ + 1])
    BY <1>5 DEF ManagerReads, ManagerLeaves
  <2> QED BY <2>1, QuietLines
<1>6. CASE \/ \E f \in Fifo : MakeFifo(f) \/ Meet(f) \/ ConsoleOpens(f)
           \/ ConfigForks \/ ConfigEnds \/ ManagerHandles \/ ConsoleEnds
           \/ (\E c \in Child : Worker(c)) \/ UNCHANGED vars
  <2>1. UNCHANGED <<paced, lineVars, commandVars>>
    BY <1>6 DEF MakeFifo, Meet, ConsoleOpens, ConfigForks, ConfigEnds, ManagerHandles,
                ConsoleEnds, Worker, vars
  <2> QED BY <2>1, QuietLines DEF commandVars
<1> QED BY <1>1, <1>2, <1>3, <1>4, <1>5, <1>6 DEF Next, Manager, Opens, Console

-----------------------------------------------------------------------------
(* The theorems.                                                           *)

SessionInv == ChildInv /\ FifoInv /\ LineInv /\ holders \in SUBSET Child

LEMMA HoldersStep ==
  ASSUME holders \in SUBSET Child, [Next]_vars
  PROVE  holders' \in SUBSET Child
<1>1. CASE ManagerObeys
  BY <1>1 DEF ManagerObeys, StartWorker
<1>2. CASE ~ManagerObeys
  <2>1. UNCHANGED holders
    BY <1>2 DEF Next, Manager, Opens, Console, MakeFifo, Meet, ConsoleOpens, ConfigForks,
                ConfigEnds, ManagerHandles, ManagerReads, ManagerLeaves, ConsoleShows,
                ConsoleTakes, ConsoleEnds, UserTypes, Worker, vars, commandVars
  <2> QED BY <2>1
<1> QED BY <1>1, <1>2

(* What the proofs below rest on holds in every state of a session. *)
THEOREM SessionInvariant == Spec => []SessionInv
<1>1. Init => SessionInv
  <2>1. ASSUME Init PROVE FifoInv /\ holders \in SUBSET Child
    BY <2>1 DEF Init, FifoInv, ConnectedIsWhole, Fifo
  <2>2. Init => ChildInit
    BY DEF Init
  <2> QED BY <2>1, <2>2, ChildInitInv, LineInitInv DEF SessionInv
<1>2. SessionInv /\ [Next]_vars => SessionInv'
  BY ChildStep, FifoStep, LineStep, HoldersStep DEF SessionInv
<1> QED BY <1>1, <1>2, PTL DEF Spec

(* Every variable of console, manager and workers has its type, and the
   manager never has more than worker_limit workers. *)
THEOREM SessionTypes == Spec => []TypeOK
<1>1. SessionInv => TypeOK
  BY DEF SessionInv, ChildInv, FifoInv, LineInv, LinesTyped, TypeOK
<1> QED BY <1>1, SessionInvariant, PTL

(* A console that has found the fss_in of this manager finds its fss_out,
   too, however their calls of open, unlink and mkfifo fall. *)
THEOREM SessionConnectedIsWhole == Spec => []ConnectedIsWhole
<1>1. SessionInv => ConnectedIsWhole
  BY DEF SessionInv, FifoInv
<1> QED BY <1>1, SessionInvariant, PTL

(* Of a user who waits for each answer no command is lost, although a read of
   fss_in keeps only the first command it returns. *)
THEOREM SessionNothingIsLost == Spec => []NothingIsLost
<1>1. SessionInv => NothingIsLost
  BY DEF SessionInv, LineInv
<1> QED BY <1>1, SessionInvariant, PTL
=============================================================================
