----------------------------- MODULE MCSampleStore -----------------------------
(***************************************************************************)
(* An instance of SampleStore for TLC: two sensors, two revisions of the   *)
(* configuration whose drivers declare different fields, and a release in  *)
(* which a driver gains one.                                               *)
(***************************************************************************)
EXTENDS SampleStore

CONSTANTS hall, roof, first, second, old, new

Fields == [r \in {old, new} |-> [f \in {first, second} |->
             IF f = first /\ r = old THEN {"temperature"}
             ELSE {"temperature", "pressure"}]]

\* The sensors are interchangeable.
Symmetry == Permutations({hall, roof})

=============================================================================
