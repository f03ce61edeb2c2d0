----------------------------- MODULE TaskQueue ------------------------------
(***************************************************************************)
(* queue.c: the queue of fss_manager as the linked list it is, with head   *)
(* and tail, on a heap whose cells malloc hands out again once they have   *)
(* been freed.                                                             *)
(*                                                                         *)
(* order is a history variable: the nodes in the order they were pushed.   *)
(* The code has no such thing; ListIsWhole ties it to the pointers.         *)
(***************************************************************************)
EXTENDS Naturals, Sequences

CONSTANTS
  Action,     \* the strings that are pushed
  NoAction,   \* "", what a pop of an empty queue returns
  Cell,       \* the addresses malloc may return
  NULL

ASSUME CellAssumption == NULL \notin Cell
ASSUME ActionAssumption == NoAction \notin Action

VARIABLES
  head, tail,       \* of queue
  action, next,     \* of each cell: its qnode, what is left of one, or garbage
  allocated,        \* the cells malloc has handed out and free has not taken
  returned,         \* what the last pop returned
  order

vars == <<head, tail, action, next, allocated, returned, order>>

(* queue_create, on a heap that holds anything. *)
queue_create ==
  /\ head = NULL
  /\ tail = NULL
  /\ action \in [Cell -> Action]
  /\ next \in [Cell -> Cell \cup {NULL}]
  /\ allocated = {}
  /\ returned = NoAction
  /\ order = <<>>

(* Mutant of LinkLast: malloc's garbage stays in qn->next. *)
LinkLastUnset(qn) == IF tail = NULL THEN next ELSE [next EXCEPT ![tail] = qn]

(* The last node points to the new one, if there is a last node. *)
LinkLast(qn) ==
  IF tail = NULL THEN [next EXCEPT ![qn] = NULL]
  ELSE [next EXCEPT ![qn] = NULL, ![tail] = qn]

queue_push_action(new_action) ==
  \E qn \in Cell \ allocated :
    /\ allocated' = allocated \cup {qn}
    /\ action' = [action EXCEPT ![qn] = new_action]
    /\ next' = LinkLast(qn)
    /\ head' = IF tail = NULL THEN qn ELSE head
    /\ tail' = qn
    /\ order' = Append(order, qn)
    /\ UNCHANGED returned

queue_is_empty == head = NULL

(* Mutant of TailAfterPop: tail keeps the address of the freed node. *)
TailDangles == tail

(* The pop of the last node leaves no tail. *)
TailAfterPop == IF next[head] = NULL THEN NULL ELSE tail

(* queue_pop_action: a queue that is not empty, and one that is. *)
queue_pop_action ==
  \/ /\ ~queue_is_empty
     /\ returned' = action[head]
     /\ head' = next[head]
     /\ tail' = TailAfterPop
     /\ allocated' = allocated \ {head}
     /\ order' = Tail(order)
     /\ UNCHANGED <<action, next>>
  \/ /\ queue_is_empty
     /\ returned' = NoAction
     /\ UNCHANGED <<head, tail, action, next, allocated, order>>

Next == queue_pop_action \/ \E a \in Action : queue_push_action(a)

Spec == queue_create /\ [][Next]_vars

-----------------------------------------------------------------------------
TypeOK ==
  /\ head \in Cell \cup {NULL}
  /\ tail \in Cell \cup {NULL}
  /\ action \in [Cell -> Action]
  /\ next \in [Cell -> Cell \cup {NULL}]
  /\ allocated \subseteq Cell
  /\ returned \in Action \cup {NoAction}
  /\ order \in Seq(Cell)

(***************************************************************************)
(* The list is whole: from head the next pointers lead through every       *)
(* allocated node, each once, to tail, and no pointer that the code        *)
(* follows leads to a freed node, whatever cells malloc hands out again.   *)
(***************************************************************************)
ListIsWhole ==
  /\ \A i \in 1..Len(order) : order[i] \in allocated
  /\ \A c \in allocated : \E i \in 1..Len(order) : order[i] = c
  /\ \A i, j \in 1..Len(order) : order[i] = order[j] => i = j
  /\ \A i \in 1..Len(order) - 1 : next[order[i]] = order[i + 1]
  /\ IF order = <<>>
     THEN head = NULL /\ tail = NULL
     ELSE /\ head = order[1]
          /\ tail = order[Len(order)]
          /\ next[tail] = NULL

ListInv == TypeOK /\ ListIsWhole

(* The linked list is a queue: actions are popped in the order of the pushes,
   each once, and the empty string only from an empty queue. *)
Line == [i \in 1..Len(order) |-> action[order[i]]]

AbstractQueue == INSTANCE Fifo WITH line <- Line

QueueIsFifo == AbstractQueue!FifoSpec
=============================================================================
