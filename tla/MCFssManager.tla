---------------------------- MODULE MCFssManager ----------------------------
(* Instances of FssManager for TLC. *)
EXTENDS FssManager

CONSTANTS s1, s2, t1, t2   \* names of directories: sources s1, s2, targets t1, t2

MCDir == {s1, s2, t1, t2}

Pair(s, t) == [src |-> s, tgt |-> t, op |-> "FULL"]

EqualLengths == [d \in MCDir |-> 4]
(* The target t2 is longer than its source s2: with a capacity of 3, 5 and 4 are
   different buckets (7 and 4 would not be). *)
OneLongTarget == [d \in MCDir |-> IF d = t2 THEN 5 ELSE 4]

OnePair == {<<Pair(s1, t1)>>}

Add(s, t) == [cmd |-> "add", src |-> s, tgt |-> t]
Sync(s) == [cmd |-> "sync", src |-> s]
Cancel(s) == [cmd |-> "cancel", src |-> s]
Status_(s) == [cmd |-> "status", src |-> s]
ShutDown == [cmd |-> "shutdown"]

(* One directory, every command that changes something, and shutdown. *)
OneDirectory == {Add(s1, t1), Add(s1, t2), Sync(s1), Cancel(s1), ShutDown}
(* Two directories: the second one is not found again once it is added. *)
TwoDirectories == {Add(s2, t2), Sync(s1), Cancel(s2), Status_(s1)}
=============================================================================
