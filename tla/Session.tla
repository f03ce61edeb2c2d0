------------------------------ MODULE Session -------------------------------
(***************************************************************************)
(* A session of fss_console with fss_manager: the fifos that a manager     *)
(* makes at its start, the open calls of both sides, the commands, the     *)
(* answers and the shutdown, with workers that end in between.             *)
(*                                                                         *)
(* A fifo is known by its inode: a name may stand for the fifo an earlier  *)
(* run has left ("stale") or for the one this manager made ("new").  What  *)
(* commands do is in FssManager; here one starts a worker ("work") or is   *)
(* only answered.                                                          *)
(***************************************************************************)
EXTENDS ChildReaper, Sequences

CONSTANT Scripts   \* what the user may type: sequences of lines

Line == {"work", "ask", "shutdown", "wrong"}

ASSUME ScriptsAssumption == Scripts \subseteq Seq(Line)

VARIABLES
  paced,       \* the user types a line only after the answer to the last
  tty,         \* stdin gives one line per read, not all there is
  path,        \* fifo -> the inode its name stands for, or "none"
  opened,      \* fifo -> the inode the console's open has found
  mpc, cpc,    \* where manager and console are
  holders,     \* children that inherited the write end of fss_out
  script,      \* lines the user has yet to type
  stdin,       \* lines in the kernel
  buffered,    \* lines scanf has read ahead
  fss_in,      \* commands in the fifo
  fss_out,     \* how many messages are in the fifo: answers, and other notices
  unanswered,  \* lines typed without an answer on the screen
  asked,       \* history: the commands the console has sent
  obeyed,      \* history: the commands the manager has obeyed
  shutdown_flag

fifoVars == <<path, opened, mpc, cpc>>
lineVars == <<script, stdin, buffered, unanswered, asked>>
commandVars == <<fss_in, fss_out, obeyed, shutdown_flag, holders>>
vars == <<childVars, paced, tty, fifoVars, lineVars, commandVars>>

Fifo == {"fss_in", "fss_out"}

Init ==
  /\ ChildInit
  /\ paced \in BOOLEAN /\ tty \in BOOLEAN
  /\ path \in [Fifo -> {"none", "stale"}]
  /\ opened = [f \in Fifo |-> "none"]
  /\ mpc = "make fss_in"
  /\ cpc = "open fss_in"
  /\ script \in Scripts
  /\ stdin = <<>> /\ buffered = <<>> /\ unanswered = 0 /\ asked = <<>>
  /\ fss_in = <<>> /\ fss_out = [answers |-> 0, notices |-> 0] /\ obeyed = <<>>
  /\ shutdown_flag = FALSE
  /\ holders = {}

-----------------------------------------------------------------------------
(* Start.                                                                  *)

(* Mutant of AfterFifo: fss_out is not made anew. *)
AfterFifoIn(f) == "config"

AfterFifo(f) == IF f = "fss_in" THEN "make fss_out" ELSE "config"

(* mkfifo; a name that exists is unlinked, and mkfifo called again. *)
MakeFifo(f) ==
  /\ mpc = (IF f = "fss_in" THEN "make fss_in" ELSE "make fss_out")
  /\ \/ /\ path[f] = "none"
        /\ path' = [path EXCEPT ![f] = "new"]
        /\ mpc' = AfterFifo(f)
     \/ /\ path[f] = "stale"
        /\ path' = [path EXCEPT ![f] = "none"]
        /\ UNCHANGED mpc
  /\ UNCHANGED <<childVars, paced, tty, opened, cpc, lineVars, commandVars>>

(* Mutant of ManagerOpens: the fifos in the other order. *)
ManagerOpensSwapped(n) == IF n = 1 THEN "fss_out" ELSE "fss_in"

(* The fifo the manager opens first, and second. *)
ManagerOpens(n) == IF n = 1 THEN "fss_in" ELSE "fss_out"

(* The loop over the config file starts workers ... *)
ConfigForks ==
  /\ mpc = "config"
  /\ ~in_handler
  /\ \E c \in Child : Fork(c)
  /\ UNCHANGED <<paced, tty, fifoVars, lineVars, commandVars>>

(* ... and ends when they have been heard. *)
ConfigEnds ==
  /\ mpc = "config"
  /\ ~in_handler
  /\ InTable = {}
  /\ mpc' = "first open"
  /\ UNCHANGED <<childVars, paced, tty, path, opened, cpc, lineVars, commandVars>>

(* The console's open() finds the inode and waits for its other side; -1 is
   looked at only after both calls. *)
ConsoleOpens(f) ==
  /\ cpc = (IF f = "fss_in" THEN "open fss_in" ELSE "open fss_out")
  /\ opened' = [opened EXCEPT ![f] = path[f]]
  /\ cpc' = CASE path[f] # "none" -> f
              [] path[f] = "none" /\ f = "fss_in" -> "open fss_out"
              [] path[f] = "none" /\ f = "fss_out" -> "exited"
  /\ UNCHANGED <<childVars, paced, tty, path, mpc, lineVars, commandVars>>

(* Both sides are in open() of one fifo: both calls return. *)
Meet(f) ==
  /\ cpc = f
  /\ opened[f] = "new"
  /\ ~in_handler
  /\ \/ /\ mpc = "first open" /\ f = ManagerOpens(1)
        /\ mpc' = "second open"
     \/ /\ mpc = "second open" /\ f = ManagerOpens(2)
        /\ mpc' = "serve"
  /\ cpc' = IF f = "fss_in" THEN "open fss_out" ELSE "loop"
  /\ UNCHANGED <<childVars, paced, tty, path, opened, lineVars, commandVars>>

-----------------------------------------------------------------------------
(* The user, and the loop of the console.                                  *)

UserTypes ==
  /\ cpc = "loop"
  /\ script # <<>>
  /\ paced => unanswered = 0
  /\ script' = Tail(script)
  /\ stdin' = Append(stdin, Head(script))
  /\ unanswered' = unanswered + 1
  /\ UNCHANGED <<childVars, paced, tty, fifoVars, buffered, asked, commandVars>>

OutIsEmpty == fss_out.answers + fss_out.notices = 0

(* Mutant of Screen: the notices stay in the fifo. *)
ScreenShort ==
  /\ fss_out' = [fss_out EXCEPT !.answers = 0]
  /\ unanswered' = unanswered - fss_out.answers

(* What fss_out holds is read and printed; the user can tell an answer from
   the notice that a sync is completed. *)
Screen ==
  /\ fss_out' = [answers |-> 0, notices |-> 0]
  /\ unanswered' = unanswered - fss_out.answers

(* poll finds fss_out readable, or the last read loop does. *)
ConsoleShows ==
  /\ \/ cpc = "loop" /\ mpc # "done"
     \/ cpc = "drain"
  /\ ~OutIsEmpty
  /\ Screen
  /\ UNCHANGED <<childVars, paced, tty, fifoVars, script, stdin, buffered, asked,
                 fss_in, obeyed, shutdown_flag, holders>>

(* scanf reads descriptor 0 only when it has nothing left from before. *)
ReadAhead ==
  CASE buffered # <<>> -> buffered
    [] buffered = <<>> /\ tty -> <<Head(stdin)>>
    [] buffered = <<>> /\ ~tty -> stdin

ReadLine ==
  /\ buffered' = Tail(ReadAhead)
  /\ stdin' = CASE buffered # <<>> -> stdin
                [] buffered = <<>> /\ tty -> Tail(stdin)
                [] buffered = <<>> /\ ~tty -> <<>>

Send(line) ==
  /\ fss_in' = Append(fss_in, line)
  /\ asked' = Append(asked, line)

(* Mutant of Complain: the line is sent after all. *)
ComplainAndSend ==
  /\ unanswered' = unanswered - 1
  /\ Send("wrong")

(* "Wrong command given": the user is told so, the manager is not. *)
Complain ==
  /\ unanswered' = unanswered - 1
  /\ UNCHANGED <<fss_in, asked>>

(* poll finds only descriptor 0 readable: one line is read and sent, or
   complained about.  poll knows nothing of the lines scanf holds. *)
ConsoleTakes ==
  /\ cpc = "loop"
  /\ OutIsEmpty
  /\ stdin # <<>>
  /\ ReadLine
  /\ LET line == Head(ReadAhead)
     IN /\ \/ line # "wrong" /\ Send(line) /\ UNCHANGED unanswered
           \/ line = "wrong" /\ Complain
        /\ cpc' = IF line = "shutdown" THEN "drain" ELSE "loop"
  /\ UNCHANGED <<childVars, paced, tty, path, opened, mpc, script, fss_out, obeyed,
                 shutdown_flag, holders>>

(* The last read returns 0: fss_out is empty and nobody holds its write end. *)
ConsoleEnds ==
  /\ cpc = "drain"
  /\ OutIsEmpty
  /\ mpc = "done"
  /\ holders \cap Alive = {}
  /\ cpc' = "done"
  /\ UNCHANGED <<childVars, paced, tty, path, opened, mpc, lineVars, commandVars>>

-----------------------------------------------------------------------------
(* The loop of the manager.                                                *)

(* A pipe is read; the report of a sync is passed on to the console. *)
ManagerReads ==
  /\ mpc \in {"config", "serve"}
  /\ ~in_handler
  /\ \E c \in Child :
       /\ ReadsPipe(c)
       /\ fss_out' = IF mpc = "serve" /\ got'[c] = ReportSize
                     THEN [fss_out EXCEPT !.notices = @ + 1] ELSE fss_out
  /\ UNCHANGED <<paced, tty, fifoVars, lineVars, fss_in, obeyed, shutdown_flag, holders>>

(* A worker of this loop inherits fss_out; without a free slot the job goes
   to the queue, where it is lost. *)
StartWorker ==
  \/ /\ ~HasRoom \/ \A c \in Child : child[c] # "unborn"
     /\ UNCHANGED <<childVars, holders>>
  \/ \E c \in Child :
       /\ Fork(c)
       /\ holders' = holders \cup {c}

(* One read of fss_in: its first command is obeyed and answered, the rest of
   what was read is lost. *)
ManagerObeys ==
  /\ mpc = "serve"
  /\ ~in_handler
  /\ fss_in # <<>>
  /\ fss_in' = <<>>
  /\ obeyed' = Append(obeyed, Head(fss_in))
  /\ fss_out' = [fss_out EXCEPT !.answers = @ + 1]
  /\ shutdown_flag' = (shutdown_flag \/ Head(fss_in) = "shutdown")
  /\ IF Head(fss_in) = "work" THEN StartWorker ELSE UNCHANGED <<childVars, holders>>
  /\ UNCHANGED <<paced, tty, fifoVars, lineVars>>

(* "Manager shutdown complete" is written and the fifos are closed. *)
ManagerLeaves ==
  /\ mpc = "serve"
  /\ ~in_handler
  /\ shutdown_flag
  /\ InTable = {}
  /\ fss_out' = [fss_out EXCEPT !.notices = @ + 1]
  /\ mpc' = "done"
  /\ UNCHANGED <<childVars, paced, tty, path, opened, cpc, lineVars, fss_in, obeyed,
                 shutdown_flag, holders>>

ManagerHandles ==
  /\ mpc # "done"
  /\ Handler
  /\ UNCHANGED <<paced, tty, fifoVars, lineVars, commandVars>>

-----------------------------------------------------------------------------
Manager ==
  \/ \E f \in Fifo : MakeFifo(f)
  \/ ConfigForks \/ ConfigEnds
  \/ ManagerReads \/ ManagerObeys \/ ManagerLeaves
  \/ ManagerHandles

Opens == \E f \in Fifo : Meet(f)

Console == ConsoleShows \/ ConsoleTakes \/ ConsoleEnds \/ \E f \in Fifo : ConsoleOpens(f)

Worker(c) == WorkerRuns(c) /\ UNCHANGED <<paced, tty, fifoVars, lineVars, commandVars>>

Next == Manager \/ Opens \/ Console \/ UserTypes \/ \E c \in Child : Worker(c)

(* Both programs go on when they can, open calls that meet return, and a
   worker writes its report and exits.  The user owes nothing. *)
Fairness ==
  /\ WF_vars(Manager)
  /\ WF_vars(Opens)
  /\ WF_vars(Console)
  /\ \A c \in Child : WF_vars(Worker(c))

Spec == Init /\ [][Next]_vars /\ Fairness

-----------------------------------------------------------------------------
TypeOK ==
  /\ ChildTypeOK
  /\ path \in [Fifo -> {"none", "stale", "new"}]
  /\ opened \in [Fifo -> {"none", "stale", "new"}]
  /\ holders \subseteq Child
  /\ {script, stdin, buffered, fss_in, asked, obeyed} \subseteq Seq(Line)
  /\ fss_out \in [answers : Nat, notices : Nat] /\ unanswered \in Nat

(***************************************************************************)
(* A console that has found the fss_in of this manager finds its fss_out,  *)
(* too: it is never connected to one manager with one hand and to a fifo   *)
(* of an earlier run with the other, however its two open calls fall       *)
(* between the unlink and mkfifo calls of the manager.                     *)
(***************************************************************************)
ConnectedIsWhole ==
  opened["fss_in"] = "new" /\ cpc \notin {"fss_in", "open fss_out"} => opened["fss_out"] = "new"

(* Such a console gets to its loop: no order of the open calls of the two
   programs leaves each waiting for the other. *)
ConsoleIsServed == (cpc = "fss_in" /\ opened["fss_in"] = "new") ~> (cpc = "loop")

(***************************************************************************)
(* The commands of a user who waits for each answer are obeyed, all of     *)
(* them and in their order.  (Of a user who does not wait, those that one  *)
(* read returns after the first are lost.)                                 *)
(***************************************************************************)
NothingIsLost == paced => obeyed \o fss_in = asked

(* The lines a user has typed at a terminal are read, all of them.  (What a
   file or a pipe gives at once, scanf holds back from poll.) *)
LinesAreRead ==
  (tty /\ cpc = "loop" /\ stdin # <<>>) ~> (stdin \o buffered = <<>> \/ cpc # "loop")

(***************************************************************************)
(* After the shutdown of such a user both programs end: the console's last *)
(* read sees the end of the fifo although workers hold it, and the manager *)
(* comes back from every wait() of its handler.                            *)
(***************************************************************************)
SessionEnds == (paced /\ cpc = "drain") ~> (cpc = "done" /\ mpc = "done")
=============================================================================
