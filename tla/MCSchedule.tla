------------------------------ MODULE MCSchedule ------------------------------
(***************************************************************************)
(* An instance of Schedule for TLC: two sensors with different intervals.  *)
(***************************************************************************)
EXTENDS Schedule

CONSTANTS fast, slow

Intervals == [s \in {fast, slow} |-> IF s = fast THEN 1 ELSE 2]

=============================================================================
