----------------------------- MODULE SampleDelivery -----------------------------
(***************************************************************************)
(* What the collector promises about the samples it admits, said without   *)
(* threads: there is one sequence of admitted samples, the database holds  *)
(* a prefix of it and grows by whole batches in order, admission closes    *)
(* once and for good, and the shutdown is reported complete only when      *)
(* admission is closed and the database holds everything.                  *)
(***************************************************************************)
EXTENDS Naturals, Sequences

CONSTANTS Samples,      \* what may be admitted
          NotYet        \* no report has been made

VARIABLES admitted,     \* every sample admitted so far, in order
          durable,      \* the samples in the database, in order
          open,         \* admission is open
          report        \* NotYet, then whether the shutdown was complete

deliveryVars == <<admitted, durable, open, report>>

Init ==
  /\ admitted = <<>> /\ durable = <<>>
  /\ open = TRUE
  /\ report = NotYet

\* One more sample, whichever it is.
Admit ==
  /\ open
  /\ admitted' \in Seq(Samples)
  /\ Len(admitted') = Len(admitted) + 1
  /\ SubSeq(admitted', 1, Len(admitted)) = admitted
  /\ UNCHANGED <<durable, open, report>>

\* One transaction: the next samples, however many.
Commit ==
  /\ \E n \in Len(durable) + 1 .. Len(admitted) : durable' = SubSeq(admitted, 1, n)
  /\ UNCHANGED <<admitted, open, report>>

CloseAdmission ==
  /\ open
  /\ open' = FALSE
  /\ UNCHANGED <<admitted, durable, report>>

\* Reporting a complete shutdown is a promise; an incomplete one is none.
Report ==
  /\ report = NotYet /\ ~open
  /\ report' \in BOOLEAN
  /\ report' => durable = admitted
  /\ UNCHANGED <<admitted, durable, open>>

Next == Admit \/ Commit \/ CloseAdmission \/ Report

Spec == Init /\ [][Next]_deliveryVars

=============================================================================
