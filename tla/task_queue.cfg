\* Two different actions in three cells, which are used again and again.
CONSTANTS
  a1 = a1  a2 = a2  c1 = c1  c2 = c2  c3 = c3
  NULL = NULL  NoAction = NoAction
  Action <- Actions
  Cell <- Cells
SPECIFICATION Spec
INVARIANT ListInv
PROPERTY QueueIsFifo
