---------------------------- MODULE MCConfigPhase ----------------------------
(* Instances of ConfigPhase for TLC. *)
EXTENDS ConfigPhase

CONSTANTS s1, s2, s3, t1, t2, t3   \* names of directories: sources s1, s2, s3, targets t1, t2, t3

MCDir == {s1, s2, s3, t1, t2, t3}

Pair(s, t) == [src |-> s, tgt |-> t, op |-> "FULL"]

(* All names have one length and share a bucket of the store ... *)
EqualLengths == [d \in MCDir |-> 4]
(* ... or one target, or every target, is longer than its source. *)
OneLonger == [d \in MCDir |-> IF d = t3 THEN 5 ELSE 4]
LongTargets == [d \in MCDir |-> IF d \in {s1, s2, s3} THEN 4 ELSE 7]

PairedFiles == {<<>>, <<Pair(s1, t1)>>, <<Pair(s1, t1), Pair(s2, t2)>>,
                <<Pair(s1, t1), Pair(s2, t2), Pair(s3, t3)>>}
LongestFile == {<<Pair(s1, t1), Pair(s2, t2), Pair(s3, t3)>>}

(* A pair more than two slots and the queue take, so that file and queue
   compete; and a pair whose target falls in another bucket. *)
MixedFiles == {<<>>, <<Pair(s1, t1), Pair(s2, t3)>>,
               <<Pair(s1, t1), Pair(s2, t2), Pair(s3, t1), Pair(s1, t1)>>}
=============================================================================
