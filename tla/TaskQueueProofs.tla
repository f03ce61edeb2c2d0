-------------------------- MODULE TaskQueueProofs ---------------------------
(* The linked list of queue.c is a queue, for any strings and any heap. *)
EXTENDS TaskQueue, SequenceTheorems, TLAPS

LEMMA CreateList == queue_create => ListInv
<1>. SUFFICES ASSUME queue_create PROVE ListInv
  OBVIOUS
<1>1. order = <<>> /\ Len(order) = 0 /\ order \in Seq(Cell)
  BY DEF queue_create
<1>2. TypeOK
  BY <1>1 DEF queue_create, TypeOK
<1>3. ListIsWhole
  BY <1>1 DEF queue_create, ListIsWhole
<1>. QED  BY <1>2, <1>3 DEF ListInv

(* A list is empty exactly if its tail, or its head, is NULL. *)
LEMMA EmptyList ==
  ASSUME ListInv
  PROVE  /\ tail = NULL <=> order = <<>>
         /\ head = NULL <=> order = <<>>
         /\ order # <<>> => Len(order) \in Nat \ {0}
<1>. USE DEF ListInv, TypeOK, ListIsWhole
<1>1. CASE order = <<>>
  BY <1>1
<1>2. CASE order # <<>>
  <2>1. Len(order) \in Nat \ {0}
    BY <1>2, EmptySeq, LenProperties
  <2>2. order[1] \in Cell /\ order[Len(order)] \in Cell
    BY <2>1, ElementOfSeq
  <2>. QED  BY <1>2, <2>1, <2>2, CellAssumption
<1>. QED  BY <1>1, <1>2

LEMMA PushKeepsList ==
  ASSUME ListInv, NEW a \in Action, queue_push_action(a)
  PROVE  ListInv'
<1>1. PICK qn \in Cell \ allocated :
        /\ allocated' = allocated \cup {qn}
        /\ action' = [action EXCEPT ![qn] = a]
        /\ next' = LinkLast(qn)
        /\ head' = (IF tail = NULL THEN qn ELSE head)
        /\ tail' = qn
        /\ order' = Append(order, qn)
        /\ returned' = returned
  BY DEF queue_push_action
<1>2. order \in Seq(Cell) /\ order' \in Seq(Cell)
  BY <1>1, AppendProperties DEF ListInv, TypeOK
<1>. DEFINE n == Len(order)
<1>3. n \in Nat /\ Len(order') = n + 1 /\ order'[n + 1] = qn
  BY <1>1, <1>2, AppendProperties, LenProperties
<1>4. \A i \in 1..n : order'[i] = order[i] /\ order[i] \in Cell /\ order[i] # qn
  BY <1>1, <1>2, <1>3, AppendProperties, ElementOfSeq DEF ListInv, ListIsWhole
<1>5. tail # NULL => n # 0 /\ tail = order[n] /\ tail \in Cell /\ tail # qn
  BY <1>3, <1>4, EmptyList DEF ListInv, ListIsWhole, TypeOK
<1>6. /\ next' \in [Cell -> Cell \cup {NULL}]
      /\ next'[qn] = NULL
      /\ \A c \in Cell \ {qn, tail} : next'[c] = next[c]
      /\ tail # NULL => next'[tail] = qn
  BY <1>1, <1>5 DEF LinkLast, ListInv, TypeOK
<1>7. TypeOK'
  BY <1>1, <1>2, <1>5, <1>6 DEF ListInv, TypeOK
<1>8. ListIsWhole'
  <2>1. \A i \in 1..Len(order') : order'[i] \in allocated'
    BY <1>1, <1>3, <1>4 DEF ListInv, ListIsWhole
  <2>2. \A c \in allocated' : \E i \in 1..Len(order') : order'[i] = c
    <3>. SUFFICES ASSUME NEW c \in allocated'
                  PROVE  \E i \in 1..Len(order') : order'[i] = c
      OBVIOUS
    <3>1. CASE c = qn
      BY <3>1, <1>3
    <3>2. CASE c \in allocated
      <4>1. PICK i \in 1..n : order[i] = c
        BY <3>2 DEF ListInv, ListIsWhole
      <4>. QED  BY <4>1, <1>3, <1>4
    <3>. QED  BY <3>1, <3>2, <1>1
  <2>3. \A i, j \in 1..Len(order') : order'[i] = order'[j] => i = j
    BY <1>3, <1>4 DEF ListInv, ListIsWhole
  <2>4. \A i \in 1..Len(order') - 1 : next'[order'[i]] = order'[i + 1]
    <3>. SUFFICES ASSUME NEW i \in 1..n
                  PROVE  next'[order'[i]] = order'[i + 1]
      BY <1>3
    <3>1. tail # NULL /\ n # 0
      BY <1>3, EmptyList, EmptySeq, <1>2
    <3>2. CASE i = n
      BY <3>1, <3>2, <1>3, <1>4, <1>5, <1>6
    <3>3. CASE i # n
      <4>1. i \in 1..n - 1 /\ i + 1 \in 1..n /\ n \in 1..n
        BY <3>3, <1>3
      <4>2. order[i] # order[n] /\ order[i] # qn /\ order[i] \in Cell
        BY <4>1, <3>3, <1>4 DEF ListInv, ListIsWhole
      <4>3. next'[order[i]] = next[order[i]]
        BY <4>2, <1>5, <1>6, <3>1
      <4>4. next[order[i]] = order[i + 1]
        BY <4>1 DEF ListInv, ListIsWhole
      <4>. QED  BY <4>1, <4>3, <4>4, <1>4
    <3>. QED  BY <3>2, <3>3
  <2>5. order' # <<>> /\ tail' = order'[Len(order')] /\ next'[tail'] = NULL
    BY <1>1, <1>3, <1>6
  <2>6. head' = order'[1]
    <3>1. CASE tail = NULL
      BY <3>1, <1>1, <1>3, EmptyList
    <3>2. CASE tail # NULL
      BY <3>2, <1>1, <1>3, <1>4, <1>5 DEF ListInv, ListIsWhole
    <3>. QED  BY <3>1, <3>2
  <2>. QED  BY <2>1, <2>2, <2>3, <2>4, <2>5, <2>6 DEF ListIsWhole
<1>. QED  BY <1>7, <1>8 DEF ListInv

LEMMA PopKeepsList ==
  ASSUME ListInv, queue_pop_action
  PROVE  ListInv'
<1>1. CASE queue_is_empty
  <2>1. UNCHANGED <<head, tail, action, next, allocated, order>> /\ returned' = NoAction
    BY <1>1 DEF queue_pop_action
  <2>. QED  BY <2>1 DEF ListInv, TypeOK, ListIsWhole
<1>2. CASE ~queue_is_empty
  <2>. DEFINE n == Len(order)
  <2>1. /\ returned' = action[head]
        /\ head' = next[head]
        /\ tail' = TailAfterPop
        /\ allocated' = allocated \ {head}
        /\ order' = Tail(order)
        /\ action' = action /\ next' = next
    BY <1>2 DEF queue_pop_action
  <2>2. order # <<>> /\ n \in Nat \ {0} /\ order \in Seq(Cell)
    BY <1>2, EmptyList DEF queue_is_empty, ListInv, TypeOK
  <2>3. /\ order' \in Seq(Cell)
        /\ Len(order') = n - 1
        /\ \A i \in 1..n - 1 : order'[i] = order[i + 1]
    BY <2>1, <2>2, HeadTailProperties
  <2>4. \A i \in 1..n : order[i] \in Cell
    BY <2>2, ElementOfSeq
  <2>5. head = order[1] /\ head \in Cell /\ tail = order[n] /\ next[order[n]] = NULL
    BY <2>2, <2>4 DEF ListInv, ListIsWhole
  <2>6. CASE n = 1
    <3>1. order' = <<>>
      BY <2>3, <2>6, EmptySeq
    <3>2. head' = NULL /\ tail' = NULL
      BY <2>1, <2>5, <2>6 DEF TailAfterPop
    <3>3. allocated' = {}
      BY <2>1, <2>5, <2>6 DEF ListInv, ListIsWhole
    <3>4. ListIsWhole'
      BY <3>1, <3>2, <3>3 DEF ListIsWhole
    <3>. QED  BY <2>1, <2>3, <2>5, <3>2, <3>3, <3>4 DEF ListInv, TypeOK
  <2>7. CASE n # 1
    <3>1. 1 \in 1..n - 1 /\ n \in 1..n /\ Len(order') # 0
      BY <2>2, <2>3, <2>7
    <3>2. next[head] = order[2] /\ order[2] \in Cell
      BY <3>1, <2>4, <2>5 DEF ListInv, ListIsWhole
    <3>3. head' = order'[1] /\ tail' = order'[Len(order')] /\ next'[tail'] = NULL
      <4>1. next[head] # NULL
        BY <3>2, CellAssumption
      <4>. QED  BY <4>1, <3>1, <3>2, <2>1, <2>2, <2>3, <2>5 DEF TailAfterPop
    <3>4. \A i \in 1..Len(order') : order'[i] \in allocated'
      BY <2>1, <2>2, <2>3, <2>5 DEF ListInv, ListIsWhole
    <3>5. \A c \in allocated' : \E i \in 1..Len(order') : order'[i] = c
      <4>. SUFFICES ASSUME NEW c \in allocated'
                    PROVE  \E i \in 1..Len(order') : order'[i] = c
        OBVIOUS
      <4>1. PICK i \in 1..n : order[i] = c
        BY <2>1 DEF ListInv, ListIsWhole
      <4>2. i # 1
        BY <4>1, <2>1, <2>5
      <4>3. i - 1 \in 1..n - 1 /\ (i - 1) + 1 = i
        BY <4>2, <2>2
      <4>. QED  BY <4>1, <4>3, <2>3
    <3>6. \A i, j \in 1..Len(order') : order'[i] = order'[j] => i = j
      <4>. SUFFICES ASSUME NEW i \in 1..n - 1, NEW j \in 1..n - 1, order'[i] = order'[j]
                    PROVE  i = j
        BY <2>3
      <4>1. i + 1 \in 1..n /\ j + 1 \in 1..n /\ order[i + 1] = order[j + 1]
        BY <2>2, <2>3
      <4>. QED  BY <4>1, <2>2 DEF ListInv, ListIsWhole
    <3>7. \A i \in 1..Len(order') - 1 : next'[order'[i]] = order'[i + 1]
      <4>. SUFFICES ASSUME NEW i \in 1..n - 2
                    PROVE  next'[order'[i]] = order'[i + 1]
        BY <2>2, <2>3
      <4>1. i \in 1..n - 1 /\ i + 1 \in 1..n - 1
        BY <2>2
      <4>2. next[order[i + 1]] = order[(i + 1) + 1]
        BY <4>1 DEF ListInv, ListIsWhole
      <4>. QED  BY <4>1, <4>2, <2>1, <2>3
    <3>8. ListIsWhole'
      BY <3>1, <3>3, <3>4, <3>5, <3>6, <3>7 DEF ListIsWhole
    <3>9. TypeOK'
      BY <2>1, <2>3, <2>5, <3>2 DEF ListInv, TypeOK, TailAfterPop
    <3>. QED  BY <3>8, <3>9 DEF ListInv
  <2>. QED  BY <2>6, <2>7
<1>. QED  BY <1>1, <1>2

(***************************************************************************)
(* In every state of the queue, whatever malloc returns, the list is whole *)
(* and no freed node is reached (queue.c:7-64).                            *)
(***************************************************************************)
THEOREM ListStaysWhole == Spec => []ListInv
<1>1. ListInv /\ [Next]_vars => ListInv'
  <2>. SUFFICES ASSUME ListInv, [Next]_vars PROVE ListInv'
    OBVIOUS
  <2>1. CASE queue_pop_action
    BY <2>1, PopKeepsList
  <2>2. ASSUME NEW a \in Action, queue_push_action(a) PROVE ListInv'
    BY <2>2, PushKeepsList
  <2>3. CASE UNCHANGED vars
    BY <2>3 DEF vars, ListInv, TypeOK, ListIsWhole
  <2>. QED  BY <2>1, <2>2, <2>3 DEF Next
<1>2. Spec => []ListInv
  BY <1>1, CreateList, PTL DEF Spec
<1>. QED  BY <1>2

(* A push is a push of the abstract queue. *)
LEMMA PushIsAppend ==
  ASSUME ListInv, NEW a \in Action, queue_push_action(a)
  PROVE  Line' = Append(Line, a) /\ returned' = returned
<1>1. PICK qn \in Cell \ allocated :
        /\ action' = [action EXCEPT ![qn] = a]
        /\ order' = Append(order, qn)
        /\ returned' = returned
  BY DEF queue_push_action
<1>2. order \in Seq(Cell) /\ Len(order) \in Nat /\ action \in [Cell -> Action]
  BY LenProperties DEF ListInv, TypeOK
<1>3. \A i \in 1..Len(order) : order[i] \in Cell /\ order[i] # qn
  BY <1>1, <1>2, ElementOfSeq DEF ListInv, ListIsWhole
<1>4. /\ Len(order') = Len(order) + 1
      /\ order'[Len(order) + 1] = qn
      /\ \A i \in 1..Len(order) : order'[i] = order[i]
  BY <1>1, <1>2, AppendProperties
<1>5. Line \in Seq(Action) /\ Len(Line) = Len(order)
  BY <1>2, <1>3 DEF Line
<1>6. Line' \in Seq(Action) /\ Len(Line') = Len(order) + 1
  BY <1>1, <1>2, <1>3, <1>4 DEF Line
<1>7. \A i \in 1..Len(order) + 1 : Line'[i] = Append(Line, a)[i]
  <2>1. ASSUME NEW i \in 1..Len(order) PROVE Line'[i] = Append(Line, a)[i]
    <3>1. Append(Line, a)[i] = Line[i] /\ Line[i] = action[order[i]]
      BY <1>2, <1>5, <2>1, AppendProperties DEF Line
    <3>2. Line'[i] = action'[order'[i]] /\ order'[i] = order[i]
      BY <1>2, <1>4, <2>1 DEF Line
    <3>. QED  BY <3>1, <3>2, <1>1, <1>2, <1>3, <2>1
  <2>2. Line'[Len(order) + 1] = a
    BY <1>1, <1>2, <1>4 DEF Line
  <2>3. Append(Line, a)[Len(order) + 1] = a
    BY <1>5, AppendProperties
  <2>4. \A i \in 1..Len(order) + 1 : i \in 1..Len(order) \/ i = Len(order) + 1
    BY <1>2
    <2>. QED  BY <2>1, <2>2, <2>3, <2>4
<1>8. Append(Line, a) \in Seq(Action) /\ Len(Append(Line, a)) = Len(order) + 1
  BY <1>5, AppendProperties
<1>9. Line' = Append(Line, a)
  BY <1>6, <1>7, <1>8, SeqEqual
<1>. QED  BY <1>1, <1>9

(* A pop is a pop of the abstract queue. *)
LEMMA PopIsTail ==
  ASSUME ListInv, queue_pop_action
  PROVE  \/ Line # <<>> /\ Line' = Tail(Line) /\ returned' = Head(Line)
         \/ Line = <<>> /\ returned' = NoAction /\ Line' = Line
<1>1. order \in Seq(Cell) /\ Len(order) \in Nat /\ action \in [Cell -> Action]
  BY LenProperties DEF ListInv, TypeOK
<1>2. \A i \in 1..Len(order) : order[i] \in Cell
  BY <1>1, ElementOfSeq
<1>3. Line \in Seq(Action) /\ Len(Line) = Len(order)
  BY <1>1, <1>2 DEF Line
<1>4. CASE queue_is_empty
  <2>1. order = <<>>
    BY <1>4, EmptyList DEF queue_is_empty
  <2>2. returned' = NoAction /\ order' = order /\ action' = action
    BY <1>4 DEF queue_pop_action
  <2>3. Line' = Line
    BY <2>2 DEF Line
  <2>4. Line = <<>>
    BY <2>1, <1>3, EmptySeq
  <2>. QED  BY <2>2, <2>3, <2>4
<1>5. CASE ~queue_is_empty
  <2>1. order' = Tail(order) /\ returned' = action[head] /\ action' = action
    BY <1>5 DEF queue_pop_action
  <2>2. order # <<>> /\ Len(order) \in Nat \ {0}
    BY <1>5, EmptyList DEF queue_is_empty
  <2>3. head = order[1]
    BY <2>2 DEF ListInv, ListIsWhole
  <2>4. /\ Len(order') = Len(order) - 1
        /\ \A i \in 1..Len(order) - 1 : order'[i] = order[i + 1]
    BY <1>1, <2>1, <2>2, HeadTailProperties
  <2>5. Line # <<>> /\ Head(Line) = Line[1] /\ Line[1] = action[order[1]]
    BY <1>3, <2>2 DEF Line
  <2>6. Tail(Line) = [i \in 1..Len(order) - 1 |-> action[order[i + 1]]]
    BY <1>1, <1>2, <1>3, <2>2 DEF Line
  <2>7. Line' = [i \in 1..Len(order) - 1 |-> action[order[i + 1]]]
    BY <2>1, <2>2, <2>4 DEF Line
  <2>. QED  BY <2>1, <2>3, <2>5, <2>6, <2>7
<1>. QED  BY <1>4, <1>5

(***************************************************************************)
(* queue.c implements a FIFO: what queue_pop_action returns is what        *)
(* queue_push_action was given, in order, each once.                       *)
(***************************************************************************)
THEOREM QueueImplementsFifo == Spec => QueueIsFifo
<1>1. queue_create => AbstractQueue!FifoInit
  <2>. SUFFICES ASSUME queue_create PROVE Line = <<>> /\ returned = NoAction
    BY DEF AbstractQueue!FifoInit
  <2>1. order = <<>> /\ Len(order) = 0
    BY DEF queue_create
  <2>. QED  BY <2>1 DEF Line, queue_create
<1>2. ListInv /\ [Next]_vars => [AbstractQueue!FifoNext]_<<Line, returned>>
  <2>. SUFFICES ASSUME ListInv, [Next]_vars
                PROVE  [AbstractQueue!FifoNext]_<<Line, returned>>
    OBVIOUS
  <2>1. CASE queue_pop_action
    BY <2>1, PopIsTail DEF AbstractQueue!FifoNext, AbstractQueue!Pop, AbstractQueue!PopEmpty
  <2>2. ASSUME NEW a \in Action, queue_push_action(a)
        PROVE  AbstractQueue!FifoNext
    BY <2>2, PushIsAppend DEF AbstractQueue!FifoNext, AbstractQueue!Push
  <2>3. CASE UNCHANGED vars
    BY <2>3 DEF vars, Line
  <2>. QED  BY <2>1, <2>2, <2>3 DEF Next
<1>3. Spec => []ListInv
  BY ListStaysWhole
<1>. QED  BY <1>1, <1>2, <1>3, PTL DEF Spec, QueueIsFifo, AbstractQueue!FifoSpec
=============================================================================
