------------------------------ MODULE MCCollector ------------------------------
(***************************************************************************)
(* Instances of Collector for TLC: the sensors and buses of each run.      *)
(***************************************************************************)
EXTENDS CollectorProperties, TLC

CONSTANTS s1, s2, b1, b2

OneSensor == [s \in {s1} |-> b1]
SharedBus == [s \in {s1, s2} |-> b1]
TwoBuses == [s \in {s1, s2} |-> IF s = s1 THEN b1 ELSE b2]

\* A constraint: the hardware cleans up without errors and opens at once.
NoHardwareError == \A b \in Buses : ~workerError[b]

=============================================================================
