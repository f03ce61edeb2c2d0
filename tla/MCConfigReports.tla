--------------------------- MODULE MCConfigReports ---------------------------
(* Instances of ConfigReports for TLC: the names and pairs of MCConfigPhase. *)
EXTENDS MCConfigPhase, ConfigReports

(* Two directories, a pair whose source is not found, and one pair more than
   the store has room for. *)
ReportFiles == {<<>>, <<Pair(s1, t1), Pair(s2, t2)>>,
                <<Pair(s1, t1), Pair(s2, t3)>>,
                <<Pair(s1, t1), Pair(s2, t2), Pair(s1, t1), Pair(s2, t2)>>}
=============================================================================
