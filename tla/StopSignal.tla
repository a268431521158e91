------------------------------ MODULE StopSignal ------------------------------
(***************************************************************************)
(* How a request to stop reaches the collector.  StopEvent.tla takes the   *)
(* event for an atomic latch; here it is CPython's threading.Event, whose  *)
(* set() and wait() are Python code under a lock that is not reentrant,    *)
(* and the SIGTERM / SIGINT handler of collector.py is a frame the         *)
(* interpreter pushes on the main thread between any two of its steps.     *)
(*                                                                         *)
(* A frame is a thread or a signal being handled.  pc is where it stands:  *)
(*   check     main: the while condition of run()                          *)
(*   wait      about to take the lock in Event.wait()                      *)
(*   waiting   in Event.wait(), holding the lock                           *)
(*   asleep    in the condition's wait, enrolled and without the lock      *)
(*   woken     notified or timed out, about to take the lock again         *)
(*   returning leaving Event.wait(), holding the lock                      *)
(*   set       about to take the lock in Event.set()                       *)
(*   setting   in Event.set(), holding the lock                            *)
(*   notifying in Event.set(), the flag is up, waiters are being notified  *)
(*   idle      a signal that is not being handled; the caller before       *)
(*             it calls stop()                                             *)
(*   work      a thread in code that does not touch the event              *)
(*   done      the frame is through with the event                         *)
(* The bus workers only call is_set(), which takes no lock.                *)
(***************************************************************************)
EXTENDS Naturals, SequencesExt

CONSTANTS Signals,      \* the signals that may be delivered
          Faulty,       \* the threads of the collector that may raise
          None          \* nobody holds the lock

Main == "main"
Caller == "caller"               \* a thread that calls Collector.stop()
StatusWriter == "status-writer"
DatabaseWriter == "database-writer"

Threads == {Main, Caller, StatusWriter, DatabaseWriter}
Frames == Threads \cup Signals

ASSUME SignalAssumption == Signals \cap Threads = {} /\ None \notin Frames

VARIABLES flag,       \* Event._flag
          holder,     \* the frame that holds the lock of Event._cond, or None
          enrolled,   \* frames in the condition's list of waiters
          pc,
          handling    \* the stack of handler frames on the main thread

signalVars == <<flag, holder, enrolled, pc, handling>>

PCs == {"check", "wait", "waiting", "asleep", "woken", "returning", "set",
        "setting", "notifying", "idle", "work", "done"}

Critical == {"waiting", "returning", "setting", "notifying"}

\* Every variable has its type, and whoever holds the lock is in a critical
\* section of set() or wait(), never asleep or on its way in.
SignalTypeOK ==
  /\ flag \in BOOLEAN
  /\ holder \in Frames \cup {None}
  /\ enrolled \in SUBSET Threads
  /\ pc \in [Frames -> PCs]
  /\ handling \in Seq(Signals)
  /\ holder # None => pc[holder] \in Critical

SignalInit ==
  /\ flag = FALSE /\ holder = None /\ enrolled = {} /\ handling = <<>>
  /\ pc = [f \in Frames |-> IF f = Main THEN "check"
                            ELSE IF f = StatusWriter THEN "wait"
                            ELSE IF f = DatabaseWriter THEN "work"
                            ELSE "idle"]

\* The main thread runs the topmost handler, or its own code if there is none.
Runs(f) ==
  IF f = Main THEN handling = <<>>
  ELSE f \in Signals => handling # <<>> /\ Last(handling) = f

-----------------------------------------------------------------------------
(* threading.Event, in lock-level steps. *)

Acquire(f, from, to) ==
  /\ Runs(f) /\ pc[f] = from
  /\ holder = None
  /\ holder' = f
  /\ pc' = [pc EXCEPT ![f] = to]
  /\ UNCHANGED <<flag, enrolled, handling>>

\* Where a thread goes when wait() has returned TRUE or FALSE: main asks is_set()
\* again, the status writer ends or writes.
AfterWait(f, answer) == IF f = Main THEN "check" ELSE IF answer THEN "done" ELSE "work"

\* Event.wait() when the flag is up.
WaitSeesFlag(f) ==
  /\ Runs(f) /\ pc[f] = "waiting"
  /\ flag
  /\ holder' = None
  /\ pc' = [pc EXCEPT ![f] = AfterWait(f, TRUE)]
  /\ UNCHANGED <<flag, enrolled, handling>>

\* Mutant: the lock is kept while the frame sleeps.
WaitSleepsHolding(f) ==
  /\ Runs(f) /\ pc[f] = "waiting"
  /\ ~flag
  /\ enrolled' = enrolled \cup {f}
  /\ pc' = [pc EXCEPT ![f] = "asleep"]
  /\ UNCHANGED <<flag, holder, handling>>

\* Event.wait() when it is not: Condition.wait() enrols and releases the lock.
WaitSleeps(f) ==
  /\ Runs(f) /\ pc[f] = "waiting"
  /\ ~flag
  /\ enrolled' = enrolled \cup {f}
  /\ holder' = None
  /\ pc' = [pc EXCEPT ![f] = "asleep"]
  /\ UNCHANGED <<flag, handling>>

\* A notification or the timeout.
WaitEnds(f) ==
  /\ Runs(f) /\ pc[f] = "asleep"
  /\ pc' = [pc EXCEPT ![f] = "woken"]
  /\ UNCHANGED <<flag, holder, enrolled, handling>>

\* The lock is held again: a frame that timed out takes itself off the list.  wait()
\* returns whether the notification came first, not the flag: a frame that timed
\* out may have been taken off the list, and the flag set, meanwhile.
WaitReturns(f) ==
  /\ Runs(f) /\ pc[f] = "returning"
  /\ enrolled' = enrolled \ {f}
  /\ holder' = None
  /\ \E notified \in {FALSE, f \notin enrolled} :
       pc' = [pc EXCEPT ![f] = AfterWait(f, notified)]
  /\ UNCHANGED <<flag, handling>>

\* Mutant: the flag goes up and nobody is notified.
SetQuietly(f) ==
  /\ Runs(f) /\ pc[f] = "setting"
  /\ flag' = TRUE
  /\ holder' = None
  /\ pc' = [pc EXCEPT ![f] = "done"]
  /\ UNCHANGED <<enrolled, handling>>

\* Event.set(): the flag goes up ...
SetFlag(f) ==
  /\ Runs(f) /\ pc[f] = "setting"
  /\ flag' = TRUE
  /\ pc' = [pc EXCEPT ![f] = "notifying"]
  /\ UNCHANGED <<holder, enrolled, handling>>

\* ... notify_all() releases the waiters and takes them off the list one by one,
\* the longest enrolled first, which any order includes ...
NotifyOne(f) ==
  /\ Runs(f) /\ pc[f] = "notifying"
  /\ \E waiter \in enrolled : enrolled' = enrolled \ {waiter}
  /\ UNCHANGED <<flag, holder, pc, handling>>

\* ... and the lock is released when nobody is left.
SetReturns(f) ==
  /\ Runs(f) /\ pc[f] = "notifying" /\ enrolled = {}
  /\ holder' = None
  /\ pc' = [pc EXCEPT ![f] = "done"]
  /\ UNCHANGED <<flag, enrolled, handling>>

EventStep(f) ==
  \/ Acquire(f, "wait", "waiting")
  \/ WaitSeesFlag(f) \/ WaitSleeps(f) \/ WaitEnds(f)
  \/ Acquire(f, "woken", "returning") \/ WaitReturns(f)
  \/ Acquire(f, "set", "setting") \/ SetFlag(f) \/ NotifyOne(f) \/ SetReturns(f)

-----------------------------------------------------------------------------
(* Who calls it. *)

Goes(f, from, to) ==
  /\ Runs(f) /\ pc[f] = from
  /\ pc' = [pc EXCEPT ![f] = to]
  /\ UNCHANGED <<flag, holder, enrolled, handling>>

\* Mutant: while True.
MainLoopsForever == Goes(Main, "check", "wait")

\* while not stop_event.is_set(): a pass, then wait(); it does not ask for the
\* lock.  When the flag is up, or on an exception, finally calls set().
MainLoops == ~flag /\ Goes(Main, "check", "wait")
MainLeaves == flag /\ Goes(Main, "check", "set")
MainFails == Main \in Faulty /\ Goes(Main, "check", "set")

\* stop() called by another thread.
CallerStops == Goes(Caller, "idle", "set")

\* StatusWriter.run(): wait(interval), write(), and set() if that raises.
StatusWritten == Goes(StatusWriter, "work", "wait")
StatusWriteFails == StatusWriter \in Faulty /\ Goes(StatusWriter, "work", "set")

\* DatabaseWriter.run() raises and sets the event, or ends without it.
WriterFails == DatabaseWriter \in Faulty /\ Goes(DatabaseWriter, "work", "set")
WriterEnds == flag /\ Goes(DatabaseWriter, "work", "done")

\* A signal arrives and the interpreter runs handle_signal() on the main
\* thread, on top of whatever the thread is doing.
HandlerBegins(g) ==
  /\ pc[g] = "idle"
  /\ handling' = Append(handling, g)
  /\ pc' = [pc EXCEPT ![g] = "set"]
  /\ UNCHANGED <<flag, holder, enrolled>>

\* handle_signal() returns.
HandlerEnds(g) ==
  /\ Runs(g) /\ pc[g] = "done"
  /\ handling' = Front(handling)
  /\ UNCHANGED <<flag, holder, enrolled, pc>>

SignalNext ==
  \/ \E f \in Frames : EventStep(f)
  \/ MainLoops \/ MainLeaves \/ MainFails
  \/ CallerStops \/ StatusWritten \/ StatusWriteFails \/ WriterFails \/ WriterEnds
  \/ \E g \in Signals : HandlerBegins(g) \/ HandlerEnds(g)

\* Every frame that can run does, and a thread that keeps finding the lock
\* free at times gets it at last (the operating system's lock is not starved
\* by threads that hold it for microseconds every 100 ms).  Nobody is obliged
\* to fail, to call stop() or to send a signal.
SignalFairness ==
  /\ \A f \in Frames :
       /\ WF_signalVars(WaitSeesFlag(f) \/ WaitSleeps(f) \/ WaitEnds(f) \/ WaitReturns(f)
                          \/ SetFlag(f) \/ NotifyOne(f) \/ SetReturns(f))
       /\ SF_signalVars(\E p \in {<<"wait", "waiting">>, <<"woken", "returning">>,
                                  <<"set", "setting">>} : Acquire(f, p[1], p[2]))
  /\ WF_signalVars(MainLoops \/ MainLeaves)
  /\ WF_signalVars(StatusWritten)
  /\ WF_signalVars(WriterEnds)
  /\ \A g \in Signals : WF_signalVars(HandlerEnds(g))

SignalSpec == SignalInit /\ [][SignalNext]_signalVars /\ SignalFairness

-----------------------------------------------------------------------------
\* A handler waits for a lock held by a frame that it suspends.
HandlerWaitsForItself ==
  /\ handling # <<>> /\ pc[Last(handling)] = "set"
  /\ holder \in {Main} \cup Signals

\* A thread that still sleeps on an event that is set will be notified: a set()
\* is at it and can go on, unless a handler has interrupted it on main and waits
\* for its lock.  Enrolment and the test of the flag are one critical section, so
\* no set() falls between them, whoever calls it (Event.wait(), Event.set()).
NoLostWakeup ==
  \A f \in enrolled :
    flag /\ pc[f] = "asleep" =>
      \E g \in Frames : /\ holder = g /\ pc[g] = "notifying"
                        /\ Runs(g) \/ HandlerWaitsForItself

\* Somebody asked the collector to stop: stop() was called, a handler began or a
\* thread has failed.
StopRequested ==
  \E f \in Frames \ {Main} : pc[f] \in {"set", "setting", "notifying"}

\* A request to stop, by a signal, by stop() or by a failing thread, takes
\* main to the finally block and through its set(), unless a signal handler
\* interrupts a frame of the main thread that holds the event's lock: that is
\* the only way a request is lost.
StopIsHeeded == StopRequested ~> (pc[Main] = "done" \/ HandlerWaitsForItself)

\* README.md, Shutdown: "On shutdown, collection stops scheduling reads": after
\* SIGTERM, which is how systemd and sensorctl stop ask for it, main leaves its
\* loop.  Violated when the handler runs while main holds the lock of the event.
SignalStopsCollection == \A g \in Signals : (pc[g] = "set") ~> (pc[Main] = "done")

=============================================================================
