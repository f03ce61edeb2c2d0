-------------------------------- MODULE Fifo --------------------------------
(* What queue.c promises: actions leave in the order in which they came,   *)
(* and a pop of an empty queue returns the empty string.                   *)
EXTENDS Sequences

CONSTANTS
  Action,     \* the strings in the queue
  NoAction    \* ""

VARIABLES
  line,       \* the actions, oldest first
  returned    \* what the last pop returned

Push(a) ==
  /\ line' = Append(line, a)
  /\ UNCHANGED returned

Pop ==
  /\ line # <<>>
  /\ line' = Tail(line)
  /\ returned' = Head(line)

PopEmpty ==
  /\ line = <<>>
  /\ returned' = NoAction
  /\ UNCHANGED line

FifoInit == line = <<>> /\ returned = NoAction
FifoNext == Pop \/ PopEmpty \/ \E a \in Action : Push(a)
FifoSpec == FifoInit /\ [][FifoNext]_<<line, returned>>
=============================================================================
