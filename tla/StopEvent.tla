------------------------------ MODULE StopEvent ------------------------------
(***************************************************************************)
(* The threading.Event that Collector creates (collector.py) and hands to  *)
(* every thread.  It is a latch: it starts clear, stop() and the SIGTERM / *)
(* SIGINT handler set it, a failing writer thread sets it, the finally     *)
(* block of run() sets it, and nothing clears it.                          *)
(***************************************************************************)
VARIABLE stop       \* _stop_event.is_set()

StopInit == stop = FALSE

\* Collector.stop(), called by the signal handler or by another thread.
SetStop == stop' = TRUE

=============================================================================
