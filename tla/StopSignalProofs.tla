--------------------------- MODULE StopSignalProofs ---------------------------
(***************************************************************************)
(* Proofs about StopSignal, for every set of signals and of faulty         *)
(* threads.  Everything rests on one fact about the lock of the event:     *)
(* the frame in a critical section of set() or wait() is the frame that    *)
(* holds the lock, and a handler is never anywhere in wait().  Of the      *)
(* frames of main, the holder is the one that runs, or the one that runs   *)
(* is a handler waiting for it.                                            *)
(***************************************************************************)
EXTENDS StopSignal, SequenceTheorems, TLAPS

\* Who is in a critical section holds the lock.
LockIsHeld == \A f \in Frames : pc[f] \in Critical => holder = f

\* A handler calls set() and nothing else.
HandlersOnlySet ==
  \A g \in Signals : pc[g] \in {"idle", "set", "setting", "notifying", "done"}

\* A frame of the main thread that holds the lock runs, unless a handler on top of
\* it waits for this very lock.
HolderRuns == holder \in {Main} \cup Signals => Runs(holder) \/ HandlerWaitsForItself

\* Who still is to be notified is so by the frame that has set the flag.
NotifierHolds ==
  \A f \in enrolled :
    flag /\ pc[f] = "asleep" => holder \in Frames /\ pc[holder] = "notifying"

SignalInv == SignalTypeOK /\ LockIsHeld /\ HandlersOnlySet /\ HolderRuns /\ NotifierHolds

\* The handler that returns leaves a stack of signals.
LEMMA FrontOfHandlers ==
  ASSUME NEW s \in Seq(Signals), s # <<>>
  PROVE  Front(s) \in Seq(Signals)
<1>1. Len(s) \in Nat /\ Len(s) # 0
  BY EmptySeq
<1>2. Front(s) = [i \in 1 .. Len(s) - 1 |-> s[i]]
  BY DEF Front
<1>3. \A i \in 1 .. Len(s) - 1 : s[i] \in Signals
  BY <1>1
<1> QED BY <1>1, <1>2, <1>3, SeqDef

\* The handler on top of the stack is a signal, and a new one takes its place.
LEMMA TopOfHandlers ==
  ASSUME NEW s \in Seq(Signals)
  PROVE  /\ s # <<>> => Last(s) \in Signals
         /\ \A g \in Signals : Append(s, g) # <<>> /\ Last(Append(s, g)) = g
<1>1. Len(s) \in Nat /\ (s # <<>> => Len(s) # 0)
  BY EmptySeq
<1>2. s # <<>> => s[Len(s)] \in Signals
  BY <1>1, ElementOfSeq
<1>3. \A g \in Signals : Len(Append(s, g)) = Len(s) + 1 /\ Append(s, g)[Len(s) + 1] = g
  BY AppendProperties
<1> QED BY <1>1, <1>2, <1>3, AppendProperties DEF Last

LEMMA SignalInitInv == SignalInit => SignalInv
BY SignalAssumption, EmptySeq
   DEF SignalInit, SignalInv, SignalTypeOK, LockIsHeld, HandlersOnlySet, HolderRuns, NotifierHolds,
       SignalAssumption, Critical, PCs, Frames, Threads, Main, Caller, StatusWriter, DatabaseWriter

\* A step that leaves the stack of handlers alone: the lock is released, taken by a
\* frame that runs, or left with its holder, and then whoever waits for it still does.
LEMMA HolderRunsStays ==
  ASSUME SignalInv, handling' = handling,
         \/ holder' = None
         \/ \E f \in Frames : Runs(f) /\ holder' = f
         \/ holder' = holder /\ \A g \in Signals : pc[g] = "set" => pc'[g] = "set"
  PROVE  HolderRuns'
<1>1. handling \in Seq(Signals) /\ (handling # <<>> => Last(handling) \in Signals)
  BY TopOfHandlers DEF SignalInv, SignalTypeOK
<1>2. CASE holder' = None
  BY <1>2, SignalAssumption DEF HolderRuns, SignalAssumption, Frames, Threads
<1>3. CASE \E f \in Frames : Runs(f) /\ holder' = f
  BY <1>3 DEF HolderRuns, Runs
<1>4. CASE holder' = holder /\ \A g \in Signals : pc[g] = "set" => pc'[g] = "set"
  <2>1. holder' \in {Main} \cup Signals => Runs(holder) \/ HandlerWaitsForItself
    BY <1>4 DEF SignalInv, HolderRuns
  <2>2. CASE Runs(holder)
    BY <1>4, <2>2 DEF HolderRuns, Runs
  <2>3. CASE HandlerWaitsForItself
    BY <1>1, <1>4, <2>3 DEF HolderRuns, HandlerWaitsForItself
  <2>4. CASE holder' \notin {Main} \cup Signals
    BY <2>4 DEF HolderRuns
  <2> QED BY <2>1, <2>2, <2>3, <2>4
<1> QED BY <1>2, <1>3, <1>4

\* The rest of the invariant, which reads handling only for its type.
FrameInv == SignalTypeOK /\ LockIsHeld /\ HandlersOnlySet /\ NotifierHolds

\* A frame that takes the lock enters the one critical section there is.
LEMMA AcquireKeeps ==
  ASSUME SignalInv, NEW f \in Frames,
         NEW from \in {"wait", "woken", "set"}, NEW to \in {"waiting", "returning", "setting"},
         f \in Signals => to = "setting",
         Acquire(f, from, to)
  PROVE  SignalInv'
<1>1. FrameInv'
  BY SignalAssumption
     DEF Acquire, FrameInv, SignalInv, SignalTypeOK, LockIsHeld, HandlersOnlySet, NotifierHolds,
         Critical, PCs, SignalAssumption, Frames
<1>2. HolderRuns'
  BY HolderRunsStays DEF Acquire
<1> QED BY <1>1, <1>2 DEF FrameInv, SignalInv

\* A frame that moves in its own code touches neither the lock nor the event.
LEMMA GoesKeeps ==
  ASSUME SignalInv, NEW f \in Threads, NEW from \in {"check", "idle", "work"},
         NEW to \in {"wait", "set", "done"},
         Goes(f, from, to)
  PROVE  SignalInv'
<1>1. FrameInv'
  BY SignalAssumption
     DEF Goes, FrameInv, SignalInv, SignalTypeOK, LockIsHeld, HandlersOnlySet, NotifierHolds,
         Critical, PCs, SignalAssumption, Frames
<1>2. HolderRuns'
  <2>1. f \notin Signals /\ pc \in [Frames -> PCs]
    BY SignalAssumption DEF SignalAssumption, SignalInv, SignalTypeOK
  <2> QED BY <2>1, HolderRunsStays DEF Goes
<1> QED BY <1>1, <1>2 DEF FrameInv, SignalInv

\* Every step inside Event.wait() and Event.set() keeps the invariant.
LEMMA EventStepKeeps ==
  ASSUME SignalInv, NEW f \in Frames, EventStep(f)
  PROVE  SignalInv'
<1>1. CASE Acquire(f, "wait", "waiting")
  <2>1. f \notin Signals
    BY <1>1 DEF Acquire, SignalInv, HandlersOnlySet
  <2> QED BY <1>1, <2>1, AcquireKeeps
<1>2. CASE Acquire(f, "woken", "returning")
  <2>1. f \notin Signals
    BY <1>2 DEF Acquire, SignalInv, HandlersOnlySet
  <2> QED BY <1>2, <2>1, AcquireKeeps
<1>3. CASE Acquire(f, "set", "setting")
  BY <1>3, AcquireKeeps
<1>4. CASE WaitSeesFlag(f) \/ WaitSleeps(f) \/ WaitEnds(f) \/ WaitReturns(f)
           \/ SetFlag(f) \/ NotifyOne(f) \/ SetReturns(f)
  <2>1. FrameInv'
    <3> USE SignalAssumption
        DEF FrameInv, SignalInv, SignalTypeOK, LockIsHeld, HandlersOnlySet, NotifierHolds, Critical,
            PCs, SignalAssumption, Frames, AfterWait
    <3>1. CASE WaitSeesFlag(f)
      BY <3>1 DEF WaitSeesFlag
    <3>2. CASE WaitSleeps(f)
      BY <3>2 DEF WaitSleeps
    <3>3. CASE WaitEnds(f)
      BY <3>3 DEF WaitEnds
    <3>4. CASE WaitReturns(f)
      BY <3>4 DEF WaitReturns
    <3>5. CASE SetFlag(f)
      BY <3>5 DEF SetFlag
    <3>6. CASE NotifyOne(f)
      BY <3>6 DEF NotifyOne
    <3>7. CASE SetReturns(f)
      BY <3>7 DEF SetReturns
    <3> QED BY <1>4, <3>1, <3>2, <3>3, <3>4, <3>5, <3>6, <3>7
  <2>2. pc \in [Frames -> PCs] /\ pc[f] # "set" /\ handling' = handling
    BY <1>4
       DEF SignalInv, SignalTypeOK, WaitSeesFlag, WaitSleeps, WaitEnds, WaitReturns, SetFlag,
           NotifyOne, SetReturns
  <2>3. \/ holder' = None
        \/ holder' = holder /\ \A g \in Signals : pc[g] = "set" => pc'[g] = "set"
    BY <1>4, <2>2
       DEF WaitSeesFlag, WaitSleeps, WaitEnds, WaitReturns, SetFlag, NotifyOne, SetReturns, Frames
  <2>4. HolderRuns'
    BY <2>2, <2>3, HolderRunsStays
  <2> QED BY <2>1, <2>4 DEF FrameInv, SignalInv
<1> QED BY <1>1, <1>2, <1>3, <1>4 DEF EventStep

LEMMA SignalStep ==
  ASSUME SignalInv, [SignalNext]_signalVars
  PROVE  SignalInv'
<1>1. CASE \E f \in Frames : EventStep(f)
  BY <1>1, EventStepKeeps
<1>2. CASE MainLoops \/ MainLeaves \/ MainFails
  BY <1>2, GoesKeeps DEF MainLoops, MainLeaves, MainFails, Threads
<1>3. CASE CallerStops \/ StatusWritten \/ StatusWriteFails \/ WriterFails \/ WriterEnds
  BY <1>3, GoesKeeps
     DEF CallerStops, StatusWritten, StatusWriteFails, WriterFails, WriterEnds, Threads
<1> USE SignalAssumption
    DEF FrameInv, SignalInv, SignalTypeOK, LockIsHeld, HandlersOnlySet, NotifierHolds, Critical, PCs,
        SignalAssumption, Frames
<1>4. ASSUME NEW g \in Signals, HandlerBegins(g)
      PROVE  SignalInv'
  <2>1. /\ handling' \in Seq(Signals) /\ handling' # <<>> /\ Last(handling') = g
        /\ pc'[g] = "set" /\ holder' = holder
    BY <1>4, AppendProperties, TopOfHandlers DEF HandlerBegins
  <2>2. FrameInv'
    BY <1>4, <2>1 DEF HandlerBegins
  <2>3. HolderRuns'
    BY <2>1 DEF HolderRuns, HandlerWaitsForItself
  <2> QED BY <2>2, <2>3
<1>5. ASSUME NEW g \in Signals, HandlerEnds(g)
      PROVE  SignalInv'
  <2>1. g # Main /\ handling # <<>> /\ Last(handling) = g /\ pc[g] = "done"
    BY <1>5 DEF HandlerEnds, Runs, Threads
  <2>2. handling' \in Seq(Signals)
    BY <1>5, <2>1, FrontOfHandlers DEF HandlerEnds
  <2>3. FrameInv'
    BY <1>5, <2>2 DEF HandlerEnds
  <2>4. holder \notin {Main} \cup Signals
    BY <2>1 DEF HolderRuns, Runs, HandlerWaitsForItself
  <2>5. HolderRuns'
    BY <1>5, <2>4 DEF HandlerEnds, HolderRuns
  <2> QED BY <2>3, <2>5
<1>6. CASE UNCHANGED signalVars
  <2>1. FrameInv'
    BY <1>6 DEF signalVars
  <2>2. HolderRuns'
    BY <1>6, HolderRunsStays DEF signalVars
  <2> QED BY <2>1, <2>2
<1> QED BY <1>1, <1>2, <1>3, <1>4, <1>5, <1>6 DEF SignalNext

THEOREM SignalCorrect == SignalSpec => []SignalInv
<1>1. SignalInit => SignalInv
  BY SignalInitInv
<1>2. SignalInv /\ [SignalNext]_signalVars => SignalInv'
  BY SignalStep
<1> QED BY <1>1, <1>2, PTL DEF SignalSpec

\* Every variable of the event keeps its type, and the lock is held only by a
\* frame in a critical section of threading.Event.
THEOREM SignalTypes == SignalSpec => []SignalTypeOK
BY SignalCorrect, PTL DEF SignalInv

\* A thread that sleeps in wait() on an event that is set is notified by the set()
\* that has the lock, and this set() runs or was interrupted by a handler that waits
\* for it.
THEOREM NoWakeupIsLost == SignalSpec => []NoLostWakeup
<1>1. SignalInv => NoLostWakeup
  <2> SUFFICES ASSUME SignalInv, NEW f \in enrolled, flag, pc[f] = "asleep"
               PROVE  pc[holder] = "notifying" /\ holder \in Frames
                        /\ (Runs(holder) \/ HandlerWaitsForItself)
    BY DEF NoLostWakeup
  <2>1. holder \in Frames /\ pc[holder] = "notifying"
    BY DEF SignalInv, NotifierHolds
  <2>2. holder \notin {Main} \cup Signals => Runs(holder)
    BY DEF Runs
  <2> QED BY <2>1, <2>2 DEF SignalInv, HolderRuns
<1> QED BY <1>1, SignalCorrect, PTL

-----------------------------------------------------------------------------
\* While a handler waits for a lock held below it on the stack, no other frame
\* finds the lock free or is in a critical section, and main does not run.
LEMMA SelfWaitStep ==
  ASSUME SignalInv, HandlerWaitsForItself, [SignalNext]_signalVars
  PROVE  HandlerWaitsForItself'
<1> DEFINE top == Last(handling)
<1>1. handling # <<>> /\ top \in Signals /\ pc[top] = "set" /\ holder \in {Main} \cup Signals
  BY TopOfHandlers DEF HandlerWaitsForItself, SignalInv, SignalTypeOK
<1>2. holder # None /\ holder \in Frames /\ top \notin Threads /\ pc \in [Frames -> PCs]
  BY <1>1, SignalAssumption
     DEF SignalAssumption, SignalInv, SignalTypeOK, Frames, Threads, Main
<1>3. pc[holder] \in Critical /\ holder # top
  BY <1>1, <1>2 DEF SignalInv, SignalTypeOK, Critical
<1>4. ASSUME NEW f \in Frames, Runs(f)
      PROVE  f = top \/ (f \in Threads \ {Main} /\ pc[f] \notin Critical)
  BY <1>1, <1>2, <1>3, <1>4 DEF Runs, SignalInv, LockIsHeld, Frames, Threads, Main
<1>5. ASSUME handling' = handling, holder' = holder, pc'[top] = pc[top]
      PROVE  HandlerWaitsForItself'
  BY <1>1, <1>5 DEF HandlerWaitsForItself
<1>6. ASSUME NEW f \in Frames, EventStep(f)
      PROVE  HandlerWaitsForItself'
  <2>1. WaitEnds(f)
    BY <1>1, <1>2, <1>4, <1>6
       DEF EventStep, Acquire, WaitSeesFlag, WaitSleeps, WaitReturns, SetFlag, NotifyOne, SetReturns,
           WaitEnds, Critical
  <2> QED BY <1>1, <1>2, <1>5, <2>1 DEF WaitEnds
<1>7. ASSUME NEW f \in Threads, NEW from, NEW to, Goes(f, from, to)
      PROVE  HandlerWaitsForItself'
  BY <1>1, <1>2, <1>5, <1>7 DEF Goes, Frames
<1>8. ASSUME NEW g \in Signals, HandlerBegins(g)
      PROVE  HandlerWaitsForItself'
  <2>1. handling' # <<>> /\ Last(handling') = g
    BY <1>8, TopOfHandlers DEF HandlerBegins, SignalInv, SignalTypeOK
  <2>2. pc'[g] = "set" /\ holder' = holder
    BY <1>2, <1>8 DEF HandlerBegins, Frames
  <2> QED BY <1>1, <2>1, <2>2 DEF HandlerWaitsForItself
<1>9. ASSUME NEW g \in Signals, HandlerEnds(g)
      PROVE  FALSE
  <2>1. g \in Frames /\ g \notin Threads
    BY SignalAssumption DEF SignalAssumption, Frames
  <2> QED BY <1>1, <1>4, <1>9, <2>1 DEF HandlerEnds
<1>10. CASE UNCHANGED signalVars
  BY <1>5, <1>10 DEF signalVars
<1>11. ASSUME \/ MainLoops \/ MainLeaves \/ MainFails
              \/ CallerStops \/ StatusWritten \/ StatusWriteFails \/ WriterFails \/ WriterEnds
       PROVE  HandlerWaitsForItself'
  BY <1>7, <1>11
     DEF MainLoops, MainLeaves, MainFails, CallerStops, StatusWritten, StatusWriteFails, WriterFails,
         WriterEnds, Threads
<1> QED BY <1>6, <1>8, <1>9, <1>10, <1>11 DEF SignalNext

\* Such a wait is for ever: the lock is not reentrant and its holder is below
\* the handler on the stack, so no step of any thread or signal ends it.
SelfWaitIsForever == [][HandlerWaitsForItself => HandlerWaitsForItself']_signalVars

\* A handler that waits for a lock held by a frame it suspends waits for ever,
\* whatever signals and threads do next.
THEOREM SelfWaitNeverEnds == SignalSpec => SelfWaitIsForever
<1>1. SignalInv /\ [SignalNext]_signalVars
        => [HandlerWaitsForItself => HandlerWaitsForItself']_signalVars
  BY SelfWaitStep
<1> QED BY <1>1, SignalCorrect, PTL DEF SignalSpec, SelfWaitIsForever

-----------------------------------------------------------------------------
Latch == INSTANCE StopEvent WITH stop <- flag

\* What the rest of the project takes the event for: a latch that starts clear
\* and that a step can only set.
THEOREM EventIsALatch == SignalSpec => Latch!StopInit /\ [][Latch!SetStop]_flag
<1>1. SignalInit => Latch!StopInit
  BY DEF SignalInit, Latch!StopInit
<1>2. [SignalNext]_signalVars => [Latch!SetStop]_flag
  BY DEF SignalNext, signalVars, EventStep, Acquire, WaitSeesFlag, WaitSleeps, WaitEnds, WaitReturns,
         SetFlag, NotifyOne, SetReturns, Goes, MainLoops, MainLeaves, MainFails, CallerStops, StatusWritten,
         StatusWriteFails, WriterFails, WriterEnds, HandlerBegins, HandlerEnds, Latch!SetStop
<1> QED BY <1>1, <1>2, PTL DEF SignalSpec

=============================================================================
