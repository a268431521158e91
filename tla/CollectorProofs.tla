---------------------------- MODULE CollectorProofs ----------------------------
(***************************************************************************)
(* Theorems about Collector, for every set of sensors and buses and every  *)
(* size of the queue and the batch.                                        *)
(***************************************************************************)
EXTENDS CollectorProperties, SequenceTheorems, FiniteSetTheorems, WellFoundedInduction, TLAPS

-----------------------------------------------------------------------------
(* Type correctness. *)

\* What each operation of RuntimeStats keeps.
LEMMA StatsType ==
  ASSUME StatsTypeOK(Threads),
         \/ StatsAccepted
         \/ \E n \in Nat : StatsCommitted(n)
         \/ \E s \in Sensors :
              \/ StatsDispatch(s) \/ StatsSuccess(s)
              \/ StatsFailure(s) \/ StatsDropped(s)
         \/ \E a, e \in SUBSET Threads : StatsShutdown(a, e)
         \/ UNCHANGED statsVars
  PROVE  StatsTypeOK(Threads)'
<1>1. CASE StatsAccepted
  BY <1>1 DEF StatsTypeOK, StatsAccepted, sensorVars
<1>2. CASE \E n \in Nat : StatsCommitted(n)
  BY <1>2 DEF StatsTypeOK, StatsCommitted, sensorVars
<1>3. ASSUME NEW s \in Sensors, StatsDispatch(s)
      PROVE  StatsTypeOK(Threads)'
  BY <1>3 DEF StatsTypeOK, StatsDispatch
<1>4. ASSUME NEW s \in Sensors, StatsSuccess(s)
      PROVE  StatsTypeOK(Threads)'
  BY <1>4 DEF StatsTypeOK, StatsSuccess
<1>5. ASSUME NEW s \in Sensors, StatsFailure(s)
      PROVE  StatsTypeOK(Threads)'
  BY <1>5 DEF StatsTypeOK, StatsFailure
<1>6. ASSUME NEW s \in Sensors, StatsDropped(s)
      PROVE  StatsTypeOK(Threads)'
  BY <1>6 DEF StatsTypeOK, StatsDropped
<1>7. ASSUME NEW a \in SUBSET Threads, NEW e \in SUBSET Threads, StatsShutdown(a, e)
      PROVE  StatsTypeOK(Threads)'
  <2>1. accepted - committed \in Int
    BY DEF StatsTypeOK
  <2>2. shutdown' \in ShutdownRecord(Threads)
    BY <1>7, <2>1 DEF StatsShutdown, ShutdownRecord
  <2> QED BY <1>7, <2>2 DEF StatsTypeOK, StatsShutdown, sensorVars
<1>8. CASE UNCHANGED statsVars
  BY <1>8 DEF StatsTypeOK, statsVars, sensorVars
<1> QED BY <1>1, <1>2, <1>3, <1>4, <1>5, <1>6, <1>7, <1>8

\* A sample that a busy worker submits is a sample of one of its sensors.
LEMMA NextSampleType ==
  ASSUME TypeOK, NEW b \in Buses, wpc[b] \in Busy
  PROVE  /\ NextSample(b) \in Sample
         /\ NextSample(b)[1] \in Sensors
BY DEF TypeOK, WorkerTypeOK, StatsTypeOK, NextSample, Sample

\* The initial state, in which no thread has done anything, is well typed.
THEOREM TypeInit == Init => TypeOK
<1> SUFFICES ASSUME Init PROVE TypeOK
  OBVIOUS
<1>1. StatsTypeOK(Threads)
  BY DEF Init, StatsInit, StatsTypeOK
<1>2. QueueTypeOK
  <2>1. queue \in Seq(Sample)
    BY EmptySeq DEF Init, QueueInit
  <2>2. Len(queue) <= QueueSize
    BY EmptySeq, QueueAssumption DEF Init, QueueInit, QueueAssumption
  <2> QED BY <2>1, <2>2 DEF Init, QueueInit, QueueTypeOK
<1>3. WorkerTypeOK
  BY WorkerAssumption
  DEF Init, WorkerInit, WorkerTypeOK, WorkerPC, Busy, Task, WorkerAssumption
<1>4. WriterTypeOK
  BY EmptySeq DEF Init, WriterInit, WriterTypeOK, WriterPC
<1>5. StatusTypeOK(Threads)
  <2>1. writes \in 0 .. MaxStatusWrites
    BY StatusAssumption DEF Init, StatusInit, StatusAssumption
  <2> QED BY <2>1 DEF Init, StatusInit, StatusTypeOK
<1>6. MainTypeOK
  BY DEF Init, MainInit, MainTypeOK, MainPC
<1> QED BY <1>1, <1>2, <1>3, <1>4, <1>5, <1>6 DEF TypeOK, Init, StopInit

\* Every step of a bus worker keeps the types.
LEMMA WorkerType ==
  ASSUME TypeOK, NEW b \in Buses, Worker(b)
  PROVE  stop' \in BOOLEAN /\ StatsTypeOK(Threads)' /\ QueueTypeOK' /\ WorkerTypeOK'
<1> USE DEF TypeOK
<1>1. CASE OpenTransport(b)
  <2>1. WorkerTypeOK'
    BY <1>1 DEF OpenTransport, WorkerTypeOK, At, Goto, WorkerPC, Busy
  <2>2. QueueTypeOK' /\ stop' \in BOOLEAN
    BY <1>1 DEF OpenTransport, QueueTypeOK, queueVars
  <2> QED BY <1>1, <2>1, <2>2, StatsType DEF OpenTransport
<1>2. CASE CheckLoop(b)
  <2>1. WorkerTypeOK'
    BY <1>2 DEF CheckLoop, WorkerTypeOK, At, Goto, WorkerPC, Busy
  <2>2. QueueTypeOK' /\ stop' \in BOOLEAN
    BY <1>2 DEF CheckLoop, QueueTypeOK, queueVars
  <2> QED BY <1>2, <2>1, <2>2, StatsType DEF CheckLoop
<1>3. CASE GetTask(b)
  <2>1. Head(tasks[b]) \in Task /\ Tail(tasks[b]) \in Seq(Task)
    BY <1>3, HeadTailProperties DEF GetTask, WorkerTypeOK
  <2>2. tasks' \in [Buses -> Seq(Task)]
    BY <1>3, <2>1 DEF GetTask, WorkerTypeOK
  <2>3. attempt' \in [Buses -> 0 .. Retries]
    BY <1>3, WorkerAssumption DEF GetTask, WorkerTypeOK, WorkerAssumption
  <2>4. WorkerTypeOK'
    BY <1>3, <2>1, <2>2, <2>3
    DEF GetTask, WorkerTypeOK, At, Goto, WorkerPC, Busy, Task
  <2>5. QueueTypeOK' /\ stop' \in BOOLEAN
    BY <1>3 DEF GetTask, QueueTypeOK, queueVars
  <2> QED BY <1>3, <2>4, <2>5, StatsType DEF GetTask
<1>4. CASE GetTimesOut(b)
  <2>1. WorkerTypeOK'
    BY <1>4 DEF GetTimesOut, WorkerTypeOK, At, Goto, WorkerPC, Busy
  <2>2. QueueTypeOK' /\ stop' \in BOOLEAN
    BY <1>4 DEF GetTimesOut, QueueTypeOK, queueVars
  <2> QED BY <1>4, <2>1, <2>2, StatsType DEF GetTimesOut
<1>5. CASE Initialize(b)
  <2>1. WorkerTypeOK'
    BY <1>5 DEF Initialize, WorkerTypeOK, At, Goto, WorkerPC, Busy
  <2>2. QueueTypeOK' /\ stop' \in BOOLEAN
    BY <1>5 DEF Initialize, QueueTypeOK, queueVars
  <2> QED BY <1>5, <2>1, <2>2, StatsType DEF Initialize
<1>6. CASE ReadReturns(b)
  <2>1. WorkerTypeOK'
    BY <1>6 DEF ReadReturns, WorkerTypeOK, At, Goto, WorkerPC, Busy
  <2>2. QueueTypeOK' /\ stop' \in BOOLEAN
    BY <1>6 DEF ReadReturns, QueueTypeOK, queueVars
  <2> QED BY <1>6, <2>1, <2>2, StatsType DEF ReadReturns
<1>7. CASE ReadRaises(b)
  <2>1. WorkerTypeOK'
    <3>1. CASE attempt[b] < Retries /\ attempt' = [attempt EXCEPT ![b] = @ + 1]
               /\ UNCHANGED wpc
      <4>1. attempt[b] \in 0 .. Retries /\ attempt[b] + 1 \in 0 .. Retries
        BY <3>1, WorkerAssumption DEF WorkerTypeOK, WorkerAssumption
      <4>2. attempt' \in [Buses -> 0 .. Retries]
        BY <3>1, <4>1 DEF WorkerTypeOK
      <4> QED BY <1>7, <3>1, <4>2 DEF ReadRaises, WorkerTypeOK
    <3>2. CASE Goto(b, "failure") /\ UNCHANGED attempt
      BY <1>7, <3>2 DEF ReadRaises, WorkerTypeOK, At, Goto, WorkerPC, Busy
    <3> QED BY <1>7, <3>1, <3>2 DEF ReadRaises
  <2>2. QueueTypeOK' /\ stop' \in BOOLEAN
    BY <1>7 DEF ReadRaises, QueueTypeOK, queueVars
  <2> QED BY <1>7, <2>1, <2>2, StatsType DEF ReadRaises
<1>8. CASE Submit(b)
  <2>1. wpc[b] \in Busy
    BY <1>8 DEF Submit, At, Busy
  <2>2. NextSample(b) \in Sample /\ NextSample(b)[1] \in Sensors
    BY <2>1, NextSampleType
  <2>3. WorkerTypeOK'
    BY <1>8 DEF Submit, WorkerTypeOK, At, Goto, WorkerPC, Busy
  <2>4. CASE Admit(b, NextSample(b))
    <3>1. queue' \in Seq(Sample) /\ Len(queue') = Len(queue) + 1
      BY <2>2, <2>4, AppendProperties DEF Admit, QueueTypeOK
    <3>2. Len(queue') <= QueueSize
      BY <2>4, <3>1, QueueAssumption, LenProperties
      DEF Admit, Full, QueueTypeOK, QueueAssumption
    <3>3. QueueTypeOK'
      BY <2>4, <3>1, <3>2 DEF Admit, QueueTypeOK
    <3> QED BY <1>8, <2>3, <2>4, <3>3, StatsType DEF Submit, Admit
  <2>5. CASE Refuse(NextSample(b))
    <3>1. QueueTypeOK'
      BY <2>5 DEF Refuse, QueueTypeOK, queueVars
    <3> QED BY <1>8, <2>2, <2>3, <2>5, <3>1, StatsType DEF Submit, Refuse
  <2> QED BY <1>8, <2>4, <2>5 DEF Submit
<1>9. CASE CountSample(b)
  <2>1. WorkerTypeOK'
    BY <1>9 DEF CountSample, WorkerTypeOK, At, Goto, WorkerPC, Busy
  <2>2. QueueTypeOK' /\ stop' \in BOOLEAN
    BY <1>9 DEF CountSample, CountAdmitted, QueueTypeOK
  <2> QED BY <1>9, <2>1, <2>2, StatsType DEF CountSample, CountAdmitted
<1>10. CASE RecordSuccess(b)
  <2>1. current[b] \in Sensors
    BY <1>10 DEF RecordSuccess, WorkerTypeOK, At, Busy
  <2>2. WorkerTypeOK'
    BY <1>10 DEF RecordSuccess, WorkerTypeOK, At, Goto, WorkerPC, Busy
  <2>3. QueueTypeOK' /\ stop' \in BOOLEAN
    BY <1>10 DEF RecordSuccess, QueueTypeOK, queueVars
  <2> QED BY <1>10, <2>1, <2>2, <2>3, StatsType DEF RecordSuccess
<1>11. CASE RecordFailure(b)
  <2>1. current[b] \in Sensors
    BY <1>11 DEF RecordFailure, WorkerTypeOK, At, Busy
  <2>2. WorkerTypeOK'
    BY <1>11 DEF RecordFailure, WorkerTypeOK, At, Goto, WorkerPC, Busy
  <2>3. QueueTypeOK' /\ stop' \in BOOLEAN
    BY <1>11 DEF RecordFailure, QueueTypeOK, queueVars
  <2> QED BY <1>11, <2>1, <2>2, <2>3, StatsType DEF RecordFailure
<1>12. CASE Cleanup(b)
  <2>1. WorkerTypeOK'
    BY <1>12 DEF Cleanup, WorkerTypeOK, At, Goto, WorkerPC, Busy
  <2>2. QueueTypeOK' /\ stop' \in BOOLEAN
    BY <1>12 DEF Cleanup, QueueTypeOK, queueVars
  <2> QED BY <1>12, <2>1, <2>2, StatsType DEF Cleanup
<1> QED BY <1>1, <1>2, <1>3, <1>4, <1>5, <1>6, <1>7, <1>8, <1>9, <1>10, <1>11,
           <1>12 DEF Worker

\* Every step of the database writer keeps the types.
LEMMA WriterType ==
  ASSUME TypeOK, DBWriter
  PROVE  stop' \in BOOLEAN /\ StatsTypeOK(Threads)' /\ QueueTypeOK' /\ WriterTypeOK'
<1> USE DEF TypeOK, WriterTypeOK, WriterPC
<1>1. CASE OpenDatabase
  BY <1>1, StatsType DEF OpenDatabase, QueueTypeOK, queueVars
<1>2. CASE WriterFails
  BY <1>2, StatsType DEF WriterFails, SetStop, QueueTypeOK, queueVars
<1>3. CASE WriterTake
  <2>1. Head(queue) \in Sample /\ Tail(queue) \in Seq(Sample)
    BY <1>3, HeadTailProperties DEF WriterTake, Take, QueueTypeOK
  <2>2. Len(queue') <= QueueSize
    BY <1>3, HeadTailProperties, LenProperties, QueueAssumption
    DEF WriterTake, Take, QueueTypeOK, QueueAssumption
  <2>3. QueueTypeOK'
    BY <1>3, <2>1, <2>2 DEF WriterTake, Take, QueueTypeOK
  <2>4. batch' \in Seq(Sample)
    BY <1>3, <2>1, AppendProperties DEF WriterTake
  <2> QED BY <1>3, <2>3, <2>4, StatsType DEF WriterTake, Take
<1>4. CASE WriterGetTimesOut
  BY <1>4, StatsType DEF WriterGetTimesOut, QueueTypeOK, queueVars
<1>5. CASE WriterReadsClosed
  BY <1>5, StatsType DEF WriterReadsClosed, QueueTypeOK, queueVars
<1>6. CASE WriterReadsEmpty
  <2>1. WriterTypeOK'
    BY <1>6 DEF WriterReadsEmpty, DrainedRead
  <2> QED BY <1>6, <2>1, StatsType DEF WriterReadsEmpty, QueueTypeOK, queueVars
<1>7. CASE CheckFlush
  <2>1. WriterTypeOK'
    BY <1>7 DEF CheckFlush
  <2> QED BY <1>7, <2>1, StatsType DEF CheckFlush, QueueTypeOK, queueVars
<1>8. CASE WriteSamples
  <2>1. stored' \in Seq(Sample)
    BY <1>8, ConcatProperties DEF WriteSamples
  <2> QED BY <1>8, <2>1, StatsType DEF WriteSamples, QueueTypeOK, queueVars
<1>9. CASE CountCommitted
  <2>1. Len(batch) \in Nat
    BY LenProperties
  <2>2. StatsTypeOK(Threads)'
    BY <1>9, <2>1, StatsType DEF CountCommitted
  <2>3. batch' \in Seq(Sample)
    BY <1>9, EmptySeq DEF CountCommitted
  <2> QED BY <1>9, <2>2, <2>3 DEF CountCommitted, AfterFlush, QueueTypeOK, queueVars
<1>10. CASE FlushNothing
  BY <1>10, StatsType DEF FlushNothing, AfterFlush, QueueTypeOK, queueVars
<1>11. CASE CloseDatabase
  BY <1>11, StatsType DEF CloseDatabase, QueueTypeOK, queueVars
<1> QED BY <1>1, <1>2, <1>3, <1>4, <1>5, <1>6, <1>7, <1>8, <1>9, <1>10, <1>11
        DEF DBWriter

\* A snapshot of well-typed counters is a payload of the status file.
LEMMA SnapshotType ==
  ASSUME TypeOK
  PROVE  Snapshot \in Payload(Threads)
<1>1. /\ accepted \in Nat /\ committed \in Nat
      /\ shutdown \in ShutdownRecord(Threads) \cup {None}
      /\ successful \in [Sensors -> Nat] /\ failed \in [Sensors -> Nat]
      /\ dropped \in [Sensors -> Nat]
  BY DEF TypeOK, StatsTypeOK
<1> QED BY <1>1 DEF Snapshot, Payload

\* Every step of the status writer keeps the types.
LEMMA StatusType ==
  ASSUME TypeOK, Status
  PROVE  stop' \in BOOLEAN /\ StatsTypeOK(Threads)' /\ StatusTypeOK(Threads)'
<1> USE DEF TypeOK
<1>1. CASE StatusStops
  BY <1>1, StatsType DEF StatusStops, StatusTypeOK
<1>2. CASE StatusWakes
  <2>1. writes' \in 0 .. MaxStatusWrites
    BY <1>2, StatusAssumption DEF StatusWakes, StatusTypeOK, StatusAssumption
  <2> QED BY <1>2, <2>1, StatsType DEF StatusWakes, StatusTypeOK
<1>3. CASE StatusSnapshot
  BY <1>3, StatsType, SnapshotType DEF StatusSnapshot, StatusTypeOK
<1>4. CASE StatusPublish
  BY <1>4, StatsType DEF StatusPublish, StatusTypeOK
<1>5. CASE StatusFails
  BY <1>5, StatsType DEF StatusFails, SetStop, StatusTypeOK
<1> QED BY <1>1, <1>2, <1>3, <1>4, <1>5 DEF Status

\* The steps of main that touch only its own variables keep the types.
LEMMA RestType ==
  ASSUME TypeOK
  PROVE  /\ UNCHANGED queueVars => QueueTypeOK'
         /\ UNCHANGED workerVars => WorkerTypeOK'
         /\ UNCHANGED writerVars => WriterTypeOK'
         /\ UNCHANGED statusVars => StatusTypeOK(Threads)'
         /\ UNCHANGED mainVars => MainTypeOK'
<1>1. UNCHANGED queueVars => QueueTypeOK'
  BY DEF TypeOK, QueueTypeOK, queueVars
<1>2. UNCHANGED workerVars => WorkerTypeOK'
  BY DEF TypeOK, WorkerTypeOK, workerVars
<1>3. UNCHANGED writerVars => WriterTypeOK'
  BY DEF TypeOK, WriterTypeOK, writerVars
<1>4. UNCHANGED statusVars => StatusTypeOK(Threads)'
  BY DEF TypeOK, StatusTypeOK, statusVars
<1>5. UNCHANGED mainVars => MainTypeOK'
  BY DEF TypeOK, MainTypeOK, mainVars
<1> QED BY <1>1, <1>2, <1>3, <1>4, <1>5

\* Every step of main keeps the types.
LEMMA MainType ==
  ASSUME TypeOK, Main
  PROVE  TypeOK'
<1> USE DEF TypeOK, MainTypeOK, MainPC
<1>1. CASE CheckStop
  BY <1>1, RestType, StatsType DEF CheckStop
<1>2. CASE CheckThreads
  <2>1. MainTypeOK'
    BY <1>2 DEF CheckThreads
  <2> QED BY <1>2, <2>1, RestType, StatsType DEF CheckThreads
<1>3. CASE BeginShutdown
  <2>1. WorkerTypeOK'
    BY <1>3, AppendProperties DEF BeginShutdown, WorkerTypeOK, Task
  <2>2. MainTypeOK'
    BY <1>3 DEF BeginShutdown, Threads
  <2> QED BY <1>3, <2>1, <2>2, RestType, StatsType DEF BeginShutdown, SetStop
<1>4. CASE CloseAdmission
  <2>1. QueueTypeOK'
    BY <1>4 DEF CloseAdmission, Close, QueueTypeOK
  <2> QED BY <1>4, <2>1, RestType, StatsType DEF CloseAdmission, Close
<1>5. CASE JoinWriters
  <2>1. MainTypeOK'
    BY <1>5 DEF JoinWriters, Join, IsAlive
  <2> QED BY <1>5, <2>1, RestType, StatsType DEF JoinWriters
<1>6. CASE RecordShutdown
  <2>1. StatsTypeOK(Threads)'
    BY <1>6, StatsType DEF RecordShutdown
  <2> QED BY <1>6, <2>1, RestType DEF RecordShutdown
<1>7. CASE FinalWrite
  <2>1. StatusTypeOK(Threads)'
    BY <1>7, SnapshotType DEF FinalWrite, StatusTypeOK
  <2> QED BY <1>7, <2>1, RestType, StatsType DEF FinalWrite
<1>8. CASE Exit
  BY <1>8, RestType, StatsType DEF Exit
<1>9. ASSUME NEW s \in Sensors, SkipSensor(s)
      PROVE  TypeOK'
  BY <1>9, RestType, StatsType DEF SkipSensor, Visit
<1>10. ASSUME NEW s \in Sensors, DispatchRead(s)
       PROVE  TypeOK'
  <2>1. WorkerTypeOK'
    BY <1>10, AppendProperties DEF DispatchRead, WorkerTypeOK, Task
  <2>2. MainTypeOK'
    BY <1>10 DEF DispatchRead, Visit
  <2> QED BY <1>10, <2>1, <2>2, RestType, StatsType DEF DispatchRead
<1>11. ASSUME NEW b \in Buses, JoinWorker(b)
       PROVE  TypeOK'
  <2>1. MainTypeOK'
    BY <1>11 DEF JoinWorker, Join, IsAlive
  <2> QED BY <1>11, <2>1, RestType, StatsType DEF JoinWorker
<1>12. ASSUME NEW t \in Threads, AssessAlive(t)
       PROVE  TypeOK'
  <2>1. MainTypeOK'
    BY <1>12 DEF AssessAlive
  <2> QED BY <1>12, <2>1, RestType, StatsType DEF AssessAlive
<1>13. ASSUME NEW t \in Threads, AssessErrors(t)
       PROVE  TypeOK'
  <2>1. MainTypeOK'
    BY <1>13 DEF AssessErrors
  <2> QED BY <1>13, <2>1, RestType, StatsType DEF AssessErrors
<1> QED BY <1>1, <1>2, <1>3, <1>4, <1>5, <1>6, <1>7, <1>8, <1>9, <1>10, <1>11,
           <1>12, <1>13 DEF Main

\* Every step of the collector keeps the types.
LEMMA TypeStep == TypeOK /\ [Next]_vars => TypeOK'
<1> SUFFICES ASSUME TypeOK, [Next]_vars PROVE TypeOK'
  OBVIOUS
<1>1. CASE Main
  BY <1>1, MainType
<1>2. CASE DeadlinePasses
  <2>1. MainTypeOK'
    BY <1>2 DEF DeadlinePasses, TypeOK, MainTypeOK
  <2> QED BY <1>2, <2>1, RestType, StatsType DEF DeadlinePasses, TypeOK
<1>3. CASE RequestStop
  BY <1>3, RestType, StatsType DEF RequestStop, SetStop, TypeOK
<1>4. ASSUME NEW b \in Buses, WorkerStep(b)
      PROVE  TypeOK'
  BY <1>4, WorkerType, RestType DEF WorkerStep, TypeOK
<1>5. CASE WriterStep
  BY <1>5, WriterType, RestType DEF WriterStep, TypeOK
<1>6. CASE StatusStep
  BY <1>6, StatusType, RestType DEF StatusStep, TypeOK
<1>7. CASE UNCHANGED vars
  BY <1>7, RestType, StatsType DEF vars, TypeOK
<1> QED BY <1>1, <1>2, <1>3, <1>4, <1>5, <1>6, <1>7 DEF Next, Exited

\* Every variable keeps a value of its kind in every behaviour, the results
\* queue never exceeds its capacity, and a busy worker has a task in hand.
THEOREM TypeCorrect == Spec => []TypeOK
BY TypeInit, TypeStep, PTL DEF Spec

-----------------------------------------------------------------------------
(* The flow of samples. *)

\* A worker puts a sample, counts it, or leaves the flow alone.
LEMMA WorkerFlow ==
  ASSUME TypeOK, NEW b \in Buses, WorkerStep(b)
  PROVE  /\ UNCHANGED <<writerVars, mainVars, closed, committed, shutdown>>
         /\ \/ /\ Admit(b, NextSample(b)) /\ NextSample(b) \in Sample
            \/ CountAdmitted(b)
            \/ UNCHANGED <<accepted, queue, admission>>
<1>1. CASE Submit(b) /\ Admit(b, NextSample(b))
  BY <1>1, NextSampleType
  DEF WorkerStep, Submit, At, Busy, Admit, statsVars
<1>2. CASE CountSample(b)
  BY <1>2 DEF WorkerStep, CountSample, CountAdmitted, StatsAccepted
<1>3. CASE Submit(b) /\ Refuse(NextSample(b))
  BY <1>3 DEF WorkerStep, Refuse, StatsDropped, queueVars
<1>4. CASE RecordSuccess(b) \/ RecordFailure(b)
  BY <1>4 DEF WorkerStep, RecordSuccess, RecordFailure, StatsSuccess, StatsFailure,
              queueVars
<1>5. CASE OpenTransport(b) \/ CheckLoop(b) \/ GetTask(b) \/ GetTimesOut(b)
  BY <1>5 DEF WorkerStep, OpenTransport, CheckLoop, GetTask, GetTimesOut, queueVars,
              statsVars
<1>6. CASE Initialize(b) \/ ReadReturns(b) \/ ReadRaises(b) \/ Cleanup(b)
  BY <1>6 DEF WorkerStep, Initialize, ReadReturns, ReadRaises, Cleanup, queueVars,
              statsVars
<1> QED BY <1>1, <1>2, <1>3, <1>4, <1>5, <1>6 DEF WorkerStep, Worker, Submit

\* The steps that move a sample, close admission or record the shutdown; every
\* other step leaves the samples and their counters where they are.
LEMMA FlowStep ==
  ASSUME TypeOK, [Next]_vars
  PROVE  \/ \E b \in Buses :
              /\ Admit(b, NextSample(b)) /\ NextSample(b) \in Sample
              /\ UNCHANGED <<dpc, batch, stored>>
         \/ \E b \in Buses : CountAdmitted(b) /\ UNCHANGED <<dpc, batch, stored>>
         \/ WriterTake
         \/ WriteSamples
         \/ CountCommitted
         \/ cpc = "close" /\ Close /\ UNCHANGED <<dpc, batch, stored>>
         \/ /\ cpc = "record" /\ StatsShutdown(aliveSeen, errorsSeen)
            /\ UNCHANGED <<queueVars, dpc, batch, stored>>
         \/ /\ UNCHANGED <<accepted, committed, queueVars, batch, stored, shutdown>>
            /\ dpc = "count" <=> dpc' = "count"
<1>1. CASE \E b \in Buses : WorkerStep(b)
  BY <1>1, WorkerFlow DEF writerVars, queueVars
<1>2. CASE WriterStep /\ ~WriterTake /\ ~WriteSamples /\ ~CountCommitted
  BY <1>2
  DEF WriterStep, DBWriter, OpenDatabase, WriterFails, WriterGetTimesOut,
      WriterReadsClosed, WriterReadsEmpty, CheckFlush, FlushNothing,
      CloseDatabase, AfterFlush, statsVars
<1>3. CASE StatusStep
  <2>1. UNCHANGED statsVars
    BY <1>3 DEF StatusStep, Status, StatusStops, StatusWakes, StatusSnapshot,
                StatusPublish, StatusFails
  <2> QED BY <1>3, <2>1 DEF StatusStep, writerVars, statsVars
<1>4. CASE Main
  <2>1. CASE CloseAdmission
    BY <2>1 DEF CloseAdmission, writerVars
  <2>2. CASE RecordShutdown
    BY <2>2 DEF RecordShutdown, writerVars
  <2>3. CASE CheckStop \/ CheckThreads \/ BeginShutdown \/ JoinWriters \/ FinalWrite
             \/ Exit
    BY <2>3 DEF CheckStop, CheckThreads, BeginShutdown, JoinWriters, FinalWrite,
                Exit, statsVars, writerVars
  <2>4. CASE \E s \in Sensors : SkipSensor(s) \/ DispatchRead(s)
    BY <2>4 DEF SkipSensor, DispatchRead, StatsDispatch, statsVars, writerVars
  <2>5. CASE \/ \E b \in Buses : JoinWorker(b)
             \/ \E t \in Threads : AssessAlive(t) \/ AssessErrors(t)
    BY <2>5 DEF JoinWorker, AssessAlive, AssessErrors, statsVars, writerVars
  <2> QED BY <1>4, <2>1, <2>2, <2>3, <2>4, <2>5 DEF Main
<1>5. CASE DeadlinePasses \/ RequestStop \/ UNCHANGED vars
  BY <1>5 DEF DeadlinePasses, RequestStop, vars, statsVars, writerVars
<1> QED BY <1>1, <1>2, <1>3, <1>4, <1>5 DEF Next, Exited

\* Every step keeps the samples and their counters in balance.
LEMMA ConservationStep ==
  ASSUME TypeOK, SampleConservation, [Next]_vars
  PROVE  SampleConservation'
<1> USE DEF SampleConservation, AcceptedIsHeld, CommittedIsStored, AwaitingCount
<1>1. /\ Len(queue) \in Nat /\ Len(batch) \in Nat /\ Len(stored) \in Nat
      /\ queue \in Seq(Sample) /\ batch \in Seq(Sample) /\ stored \in Seq(Sample)
      /\ accepted \in Nat /\ committed \in Nat
  BY LenProperties DEF TypeOK, StatsTypeOK, QueueTypeOK, WriterTypeOK
<1>2. ASSUME NEW b \in Buses, Admit(b, NextSample(b)), NextSample(b) \in Sample,
             UNCHANGED <<dpc, batch, stored>>
      PROVE  SampleConservation'
  <2>1. Len(queue') = Len(queue) + 1
    BY <1>1, <1>2, AppendProperties DEF Admit
  <2>2. admission = None /\ admission' # None /\ UNCHANGED <<accepted, committed>>
    BY <1>2, QueueAssumption DEF Admit, QueueAssumption, statsVars
  <2> QED BY <1>1, <1>2, <2>1, <2>2
<1>3. ASSUME NEW b \in Buses, CountAdmitted(b), UNCHANGED <<dpc, batch, stored>>
      PROVE  SampleConservation'
  <2>1. /\ admission # None /\ admission' = None
        /\ accepted' = accepted + 1 /\ UNCHANGED <<committed, queue>>
    BY <1>3, QueueAssumption DEF CountAdmitted, StatsAccepted, QueueAssumption
  <2> QED BY <1>1, <1>3, <2>1
<1>4. CASE WriterTake
  <2>1. Head(queue) \in Sample /\ Len(queue') = Len(queue) - 1
    BY <1>1, <1>4, HeadTailProperties DEF WriterTake, Take
  <2>2. Len(batch') = Len(batch) + 1
    BY <1>1, <1>4, <2>1, AppendProperties DEF WriterTake
  <2>3. UNCHANGED <<accepted, committed, admission, stored>>
    BY <1>4 DEF WriterTake, Take, statsVars
  <2>4. dpc # "count" /\ dpc' # "count"
    BY <1>4 DEF WriterTake
  <2>5. committed + Len(batch') + Len(queue') = committed + Len(batch) + Len(queue)
    BY <1>1, <2>1, <2>2
  <2>6. AcceptedIsHeld'
    BY <2>3, <2>5
  <2> QED BY <2>3, <2>4, <2>6
<1>5. CASE WriteSamples
  <2>1. Len(stored') = Len(stored) + Len(batch)
    BY <1>1, <1>5, ConcatProperties DEF WriteSamples
  <2>2. UNCHANGED <<accepted, committed, admission, queue, batch>>
    BY <1>5 DEF WriteSamples, statsVars, queueVars
  <2>3. dpc # "count" /\ dpc' = "count"
    BY <1>5 DEF WriteSamples
  <2> QED BY <1>1, <2>1, <2>2, <2>3
<1>6. CASE CountCommitted
  <2>1. Len(batch') = 0 /\ committed' = committed + Len(batch)
    BY <1>6, EmptySeq DEF CountCommitted, StatsCommitted
  <2>2. UNCHANGED <<accepted, admission, queue, stored>>
    BY <1>6 DEF CountCommitted, StatsCommitted, queueVars
  <2>3. dpc = "count" /\ dpc' # "count"
    BY <1>6 DEF CountCommitted, AfterFlush
  <2> QED BY <1>1, <2>1, <2>2, <2>3
<1>7. CASE Close /\ UNCHANGED <<dpc, batch, stored>>
  BY <1>7 DEF Close, statsVars
<1>8. CASE StatsShutdown(aliveSeen, errorsSeen)
           /\ UNCHANGED <<queueVars, dpc, batch, stored>>
  BY <1>8 DEF StatsShutdown, queueVars
<1>9. CASE /\ UNCHANGED <<accepted, committed, queueVars, batch, stored, shutdown>>
           /\ dpc = "count" <=> dpc' = "count"
  BY <1>9 DEF queueVars
<1> QED BY <1>2, <1>3, <1>4, <1>5, <1>6, <1>7, <1>8, <1>9, FlowStep

\* Nothing has been admitted and nothing is stored at the beginning.
LEMMA ConservationInit == Init => SampleConservation
BY EmptySeq
DEF Init, StatsInit, QueueInit, WriterInit, SampleConservation, AcceptedIsHeld,
    CommittedIsStored, AwaitingCount

\* No sample is lost or duplicated on its way from submit() to the database.
THEOREM NoSampleLost == Spec => []SampleConservation
<1>1. TypeOK /\ SampleConservation /\ [Next]_vars => SampleConservation'
  BY ConservationStep
<1> QED BY <1>1, ConservationInit, TypeCorrect, PTL DEF Spec

-----------------------------------------------------------------------------
(* The shutdown. *)

\* None is not a record, so a recorded shutdown can be told from none.
LEMMA RecordIsRecord ==
  ASSUME TypeOK, StatsShutdown(aliveSeen, errorsSeen)
  PROVE  shutdown' \in ShutdownRecord(Threads)
<1>1. accepted - committed \in Int
  BY DEF TypeOK, StatsTypeOK
<1> QED BY <1>1 DEF StatsShutdown, ShutdownRecord, TypeOK, MainTypeOK

\* The shutdown invariant holds while nothing has been shut down.
LEMMA ShutdownInit == Init => ShutdownInv
BY DEF Init, MainInit, StatsInit, QueueInit, WriterInit, ShutdownInv, AdmissionShut,
       WriterDrains, WriterAssessed, RecordIsFrozen

\* A worker cannot reopen admission or disturb what main has found out.
LEMMA ShutdownWorkerStep ==
  ASSUME TypeOK, ShutdownInv, NEW b \in Buses, WorkerStep(b)
  PROVE  ShutdownInv'
<1> USE DEF ShutdownInv
<1>1. UNCHANGED <<writerVars, mainVars, closed, committed, shutdown>>
  BY WorkerFlow
<1>2. closed => UNCHANGED <<accepted, queue, admission>>
  BY WorkerFlow, QueueAssumption
  DEF AdmissionShut, Admit, CountAdmitted, QueueAssumption
<1>3. AdmissionShut'
  BY <1>1, <1>2 DEF AdmissionShut, mainVars
<1>4. WriterDrains'
  BY <1>1, <1>2 DEF WriterDrains, writerVars
<1>5. WriterAssessed'
  BY <1>1 DEF WriterAssessed, writerVars, mainVars
<1>6. RecordIsFrozen'
  BY <1>1, <1>2 DEF RecordIsFrozen, AdmissionShut, mainVars
<1> QED BY <1>3, <1>4, <1>5, <1>6

\* The writer leaves its loop only when closed and empty, and ends drained.
LEMMA ShutdownWriterStep ==
  ASSUME TypeOK, ShutdownInv, WriterStep
  PROVE  ShutdownInv'
<1> USE DEF ShutdownInv
<1>1. UNCHANGED <<mainVars, closed, admission, accepted, shutdown>>
  BY DEF WriterStep, DBWriter, OpenDatabase, WriterFails, WriterTake, Take,
         WriterGetTimesOut, WriterReadsClosed, WriterReadsEmpty, CheckFlush,
         WriteSamples, CountCommitted, StatsCommitted, FlushNothing, CloseDatabase,
         statsVars, queueVars
<1>2. AdmissionShut'
  BY <1>1 DEF AdmissionShut, mainVars
<1>3. dpc # "dead"
  BY DEF WriterStep, DBWriter, OpenDatabase, WriterFails, WriterTake,
         WriterGetTimesOut, WriterReadsClosed, WriterReadsEmpty, CheckFlush,
         WriteSamples, CountCommitted, FlushNothing, CloseDatabase
<1>4. WriterDrains'
  <2> USE DEF WriterDrains, WriterStep
  <2>1. CASE OpenDatabase \/ CheckFlush \/ CloseDatabase
    BY <2>1 DEF OpenDatabase, CheckFlush, CloseDatabase, queueVars
  <2>2. CASE WriterFails
    BY <2>2 DEF WriterFails, queueVars
  <2>3. CASE WriterTake \/ WriterGetTimesOut
    BY <2>3 DEF WriterTake, Take, WriterGetTimesOut, queueVars
  <2>4. CASE WriterReadsClosed
    BY <2>4 DEF WriterReadsClosed, DrainedRead, queueVars
  <2>5. CASE WriterReadsEmpty
    <3>1. CASE queue = <<>>
      BY <2>5, <3>1 DEF WriterReadsEmpty, DrainedRead, queueVars
    <3>2. CASE queue # <<>>
      <4>1. leaving' = FALSE /\ dpc' = "check" /\ UNCHANGED writerError
        BY <2>5, <3>2 DEF WriterReadsEmpty, DrainedRead
      <4>2. writerError = FALSE
        BY <2>5 DEF WriterReadsEmpty, TypeOK, WriterTypeOK
      <4> QED BY <4>1, <4>2
    <3> QED BY <3>1, <3>2
  <2>6. CASE WriteSamples \/ CountCommitted \/ FlushNothing
    BY <2>6 DEF WriteSamples, CountCommitted, FlushNothing, AfterFlush, queueVars
  <2> QED BY <2>1, <2>2, <2>3, <2>4, <2>5, <2>6 DEF DBWriter
<1>5. WriterAssessed'
  BY <1>1, <1>3 DEF WriterAssessed, WriterDrains, mainVars
<1>6. committed' \in Nat /\ committed' >= committed
  <2>1. CASE CountCommitted
    <3>1. Len(batch) \in Nat /\ committed \in Nat
      BY LenProperties DEF TypeOK, StatsTypeOK, WriterTypeOK
    <3>2. committed' = committed + Len(batch)
      BY <2>1 DEF CountCommitted, StatsCommitted
    <3> QED BY <3>1, <3>2
  <2>2. CASE ~CountCommitted
    <3>1. committed' = committed
      BY <2>2
      DEF WriterStep, DBWriter, OpenDatabase, WriterFails, WriterTake, Take,
          WriterGetTimesOut, WriterReadsClosed, WriterReadsEmpty, CheckFlush,
          WriteSamples, FlushNothing, CloseDatabase, statsVars
    <3> QED BY <3>1 DEF TypeOK, StatsTypeOK
  <2> QED BY <2>1, <2>2
<1>7. RecordIsFrozen'
  <2>1. shutdown # None => shutdown.uncommitted \in Int
    BY DEF TypeOK, StatsTypeOK, ShutdownRecord
  <2>2. shutdown # None => shutdown.uncommitted >= accepted - committed'
    BY <1>6, <2>1 DEF RecordIsFrozen, TypeOK, StatsTypeOK
  <2> QED BY <1>1, <2>2 DEF RecordIsFrozen, mainVars
<1> QED BY <1>2, <1>4, <1>5, <1>7

\* Main closes admission once and assesses the writer before it records.
LEMMA ShutdownMainStep ==
  ASSUME TypeOK, ShutdownInv, Main
  PROVE  ShutdownInv'
<1> USE DEF ShutdownInv
<1>1. CASE \/ CheckStop \/ CheckThreads \/ BeginShutdown \/ FinalWrite \/ Exit
           \/ \E s \in Sensors : SkipSensor(s) \/ DispatchRead(s)
           \/ \E b \in Buses : JoinWorker(b)
  <2>1. /\ UNCHANGED <<queueVars, writerVars, accepted, committed, shutdown,
                       aliveSeen, errorsSeen>>
        /\ \/ cpc' \in {"finally", "round", "loop", "join", "close"}
              /\ cpc \in {"loop", "round", "finally", "join"}
           \/ cpc = "final" /\ cpc' = "exit"
           \/ cpc = "exit" /\ cpc' = "done"
    BY <1>1 DEF CheckStop, CheckThreads, BeginShutdown, FinalWrite, Exit, SkipSensor,
                DispatchRead, StatsDispatch, JoinWorker, statsVars
  <2>2. AdmissionShut' /\ WriterDrains'
    BY <2>1 DEF AdmissionShut, WriterDrains, queueVars, writerVars
  <2>3. WriterAssessed' /\ RecordIsFrozen'
    BY <2>1 DEF WriterAssessed, RecordIsFrozen, writerVars
  <2> QED BY <2>2, <2>3
<1>2. CASE CloseAdmission
  BY <1>2
  DEF CloseAdmission, Close, AdmissionShut, WriterDrains, WriterAssessed,
      RecordIsFrozen, writerVars, statsVars
<1>3. CASE JoinWriters
  <2>1. cpc' = "alive" => "database-writer" \in todo'
    BY <1>3 DEF JoinWriters, Threads
  <2> QED BY <1>3, <2>1
          DEF JoinWriters, AdmissionShut, WriterDrains, WriterAssessed,
              RecordIsFrozen, writerVars, statsVars, queueVars
<1>4. ASSUME NEW t \in Threads, AssessAlive(t)
      PROVE  ShutdownInv'
  <2>1. t # "database-writer" => ("database-writer" \in todo => cpc' = "alive"
                                   /\ "database-writer" \in todo')
    BY <1>4 DEF AssessAlive
  <2>2. t = "database-writer" => "database-writer" \in aliveSeen' \/ dpc = "dead"
    BY <1>4, CollectorAssumption DEF AssessAlive, IsAlive, CollectorAssumption
  <2>3. cpc' = "errors" => "database-writer" \in todo'
    BY <1>4 DEF AssessAlive, Threads
  <2>4. WriterAssessed'
    BY <1>4, <2>1, <2>2, <2>3 DEF AssessAlive, WriterAssessed, writerVars
  <2>5. AdmissionShut' /\ WriterDrains' /\ RecordIsFrozen'
    BY <1>4 DEF AssessAlive, AdmissionShut, WriterDrains, RecordIsFrozen,
                writerVars, statsVars, queueVars
  <2> QED BY <2>4, <2>5
<1>5. ASSUME NEW t \in Threads, AssessErrors(t)
      PROVE  ShutdownInv'
  <2>1. t = "database-writer" => "database-writer" \in errorsSeen' \/ ~writerError
    BY <1>5, CollectorAssumption DEF AssessErrors, HasError, CollectorAssumption
  <2>2. WriterAssessed'
    BY <1>5, <2>1 DEF AssessErrors, WriterAssessed, writerVars
  <2>3. AdmissionShut' /\ WriterDrains' /\ RecordIsFrozen'
    BY <1>5 DEF AssessErrors, AdmissionShut, WriterDrains, RecordIsFrozen,
                writerVars, statsVars, queueVars
  <2> QED BY <2>2, <2>3
<1>6. CASE RecordShutdown
  <2>1. AdmissionShut' /\ WriterDrains' /\ WriterAssessed'
    BY <1>6 DEF RecordShutdown, AdmissionShut, WriterDrains, WriterAssessed,
                writerVars, queueVars, StatsShutdown
  <2>2. /\ shutdown' # None
        /\ shutdown'.complete <=> aliveSeen = {} /\ errorsSeen = {}
        /\ shutdown'.uncommitted = accepted - committed
    <3>1. shutdown' \in ShutdownRecord(Threads)
      BY <1>6, RecordIsRecord DEF RecordShutdown
    <3> QED BY <1>6, <3>1, RecordAssumption
            DEF RecordShutdown, StatsShutdown, RecordAssumption
  <2>3. UNCHANGED <<accepted, committed, aliveSeen, errorsSeen>> /\ cpc' = "final"
    BY <1>6 DEF RecordShutdown, StatsShutdown
  <2>4. accepted - committed \in Int
    BY DEF TypeOK, StatsTypeOK
  <2>5. RecordIsFrozen'
    BY <2>2, <2>3, <2>4 DEF RecordIsFrozen
  <2> QED BY <2>1, <2>5
<1> QED BY <1>1, <1>2, <1>3, <1>4, <1>5, <1>6 DEF Main

\* Every step keeps the shutdown invariant.
LEMMA ShutdownStep ==
  ASSUME TypeOK, ShutdownInv, [Next]_vars
  PROVE  ShutdownInv'
<1> USE DEF ShutdownInv
<1>1. CASE StatusStep
  <2>1. UNCHANGED <<queueVars, writerVars, mainVars, statsVars>>
    BY <1>1 DEF StatusStep, Status, StatusStops, StatusWakes, StatusSnapshot,
                StatusPublish, StatusFails
  <2> QED BY <2>1 DEF AdmissionShut, WriterDrains, WriterAssessed, RecordIsFrozen,
                      queueVars, writerVars, mainVars, statsVars
<1>2. CASE DeadlinePasses
  BY <1>2 DEF DeadlinePasses, AdmissionShut, WriterDrains, WriterAssessed,
              RecordIsFrozen, queueVars, writerVars, statsVars
<1>3. CASE RequestStop \/ UNCHANGED vars
  BY <1>3 DEF RequestStop, vars, AdmissionShut, WriterDrains, WriterAssessed,
              RecordIsFrozen, queueVars, writerVars, mainVars, statsVars
<1> QED BY <1>1, <1>2, <1>3, ShutdownWorkerStep, ShutdownWriterStep,
           ShutdownMainStep DEF Next, Exited

\* The invariant the shutdown theorems rest on.
THEOREM ShutdownCorrect == Spec => [](TypeOK /\ SampleConservation /\ ShutdownInv)
<1>1. TypeOK /\ ShutdownInv /\ [Next]_vars => ShutdownInv'
  BY ShutdownStep
<1> QED BY <1>1, ShutdownInit, TypeCorrect, NoSampleLost, PTL DEF Spec

\* A complete record means that the writer is dead and drained, so that the
\* accounting leaves no accepted sample outside the database.
LEMMA CompleteIsDrained ==
  ASSUME TypeOK, SampleConservation, ShutdownInv
  PROVE  CompleteMeansStored
<1> SUFFICES ASSUME shutdown # None, shutdown.complete
             PROVE  /\ Len(stored) = accepted
                    /\ queue = <<>> /\ batch = <<>> /\ admission = None
  BY DEF CompleteMeansStored
<1>1. cpc \in {"final", "exit", "done"} /\ aliveSeen = {} /\ errorsSeen = {}
  BY DEF ShutdownInv, RecordIsFrozen
<1>2. dpc = "dead" /\ ~writerError
  BY <1>1 DEF ShutdownInv, WriterAssessed
<1>3. queue = <<>> /\ batch = <<>>
  BY <1>2 DEF ShutdownInv, WriterDrains
<1>4. admission = None
  BY <1>1 DEF ShutdownInv, AdmissionShut
<1>5. accepted = committed /\ Len(stored) = committed
  BY <1>2, <1>3, <1>4, EmptySeq
  DEF SampleConservation, AcceptedIsHeld, CommittedIsStored, AwaitingCount, TypeOK,
      StatsTypeOK
<1> QED BY <1>3, <1>4, <1>5

\* A shutdown recorded as complete has stored every accepted sample.
THEOREM CompleteShutdownIsLossless == Spec => []CompleteMeansStored
BY ShutdownCorrect, CompleteIsDrained, PTL

\* The accounting bounds the samples that are not stored by the record.
LEMMA LossIsBounded ==
  ASSUME TypeOK, SampleConservation, ShutdownInv
  PROVE  UncommittedBoundsLoss
<1> SUFFICES ASSUME shutdown # None
             PROVE  accepted - Len(stored) \in 0 .. shutdown.uncommitted
  BY DEF UncommittedBoundsLoss
<1>1. /\ accepted \in Nat /\ committed \in Nat /\ shutdown.uncommitted \in Int
      /\ Len(queue) \in Nat /\ Len(batch) \in Nat /\ Len(stored) \in Nat
  BY LenProperties
  DEF TypeOK, StatsTypeOK, ShutdownRecord, QueueTypeOK, WriterTypeOK
<1>2. admission = None
  BY DEF ShutdownInv, AdmissionShut, RecordIsFrozen
<1>3. accepted = committed + Len(batch) + Len(queue)
  BY <1>1, <1>2 DEF SampleConservation, AcceptedIsHeld, AwaitingCount
<1>4. Len(stored) \in committed .. committed + Len(batch)
  BY <1>1 DEF SampleConservation, CommittedIsStored
<1>5. shutdown.uncommitted >= accepted - committed
  BY DEF ShutdownInv, RecordIsFrozen
<1> QED BY <1>1, <1>3, <1>4, <1>5

\* What the database lacks after the assessment is never more than the record
\* says is uncommitted.
THEOREM ReportedLossIsBound == Spec => []UncommittedBoundsLoss
BY ShutdownCorrect, LossIsBounded, PTL

\* After results.close() nothing is admitted or counted.
THEOREM AdmissionStaysClosed == Spec => NoLateAdmission
<1>1. ASSUME TypeOK, ShutdownInv, [Next]_vars
      PROVE  [closed => /\ accepted' = accepted
                        /\ queue' = queue \/ (queue # <<>> /\ queue' = Tail(queue))]_vars
  <2> SUFFICES ASSUME closed
               PROVE  /\ accepted' = accepted
                      /\ queue' = queue \/ (queue # <<>> /\ queue' = Tail(queue))
    OBVIOUS
  <2>1. admission = None
    BY <1>1 DEF ShutdownInv, AdmissionShut
  <2>2. ASSUME NEW b \in Buses, Admit(b, NextSample(b)) \/ CountAdmitted(b)
        PROVE  FALSE
    BY <2>1, <2>2, QueueAssumption DEF Admit, CountAdmitted, QueueAssumption
  <2>3. CASE WriterTake \/ WriteSamples \/ CountCommitted
    BY <2>3 DEF WriterTake, Take, WriteSamples, CountCommitted, StatsCommitted,
                queueVars, statsVars
  <2>4. CASE Close \/ (StatsShutdown(aliveSeen, errorsSeen) /\ UNCHANGED queueVars)
    BY <2>4 DEF Close, StatsShutdown, queueVars, statsVars
  <2>5. CASE UNCHANGED <<accepted, queueVars>>
    BY <2>5 DEF queueVars
  <2> QED BY <1>1, <2>2, <2>3, <2>4, <2>5, FlowStep
<1> QED BY <1>1, ShutdownCorrect, PTL DEF Spec, NoLateAdmission

-----------------------------------------------------------------------------
(* The tasks. *)

\* Before the finally block, which puts the sentinels.
BeforeShutdown == {"loop", "round", "finally"}

\* The tasks of bus b are pending sensors of that bus, each once and none of them
\* in the worker's hands; the sentinel comes last.
TasksOfBus(b) ==
  /\ \A i \in 1 .. Len(tasks[b]) :
       tasks[b][i] = None => i = Len(tasks[b]) /\ cpc \notin BeforeShutdown
  /\ \A i, j \in 1 .. Len(tasks[b]) : tasks[b][i] = tasks[b][j] => i = j
  /\ \A i \in 1 .. Len(tasks[b]) :
       tasks[b][i] # None =>
         BusOf[tasks[b][i]] = b /\ pending[tasks[b][i]] /\ current[b] # tasks[b][i]
  /\ current[b] # None =>
       wpc[b] \in Busy /\ BusOf[current[b]] = b /\ pending[current[b]]

\* A pending sensor is in its worker's hands or among its tasks.
HasTask(s) ==
  \/ current[BusOf[s]] = s
  \/ \E i \in 1 .. Len(tasks[BusOf[s]]) : tasks[BusOf[s]][i] = s

TaskInv ==
  /\ \A b \in Buses : TasksOfBus(b)
  /\ \A s \in Sensors : pending[s] => HasTask(s)

\* No thread has a task at the beginning.
LEMMA TaskInit == Init => TaskInv
<1> SUFFICES ASSUME Init PROVE TaskInv
  OBVIOUS
<1>1. ASSUME NEW b \in Buses
      PROVE  tasks[b] = <<>> /\ Len(tasks[b]) = 0 /\ current[b] = None
  BY EmptySeq DEF Init, WorkerInit
<1>2. \A s \in Sensors : ~pending[s]
  BY DEF Init, StatsInit
<1> QED BY <1>1, <1>2 DEF TaskInv, TasksOfBus

\* The steps that move a task: the dispatch of a read, the sentinels of the finally
\* block, the get() of a worker and the end of a read.  Every other step leaves the
\* tasks alone and a worker that has one at work on it.
LEMMA TaskMoves ==
  ASSUME TypeOK, [Next]_vars
  PROVE  \/ \E s \in Sensors : DispatchRead(s)
         \/ BeginShutdown
         \/ \E b \in Buses : GetTask(b) /\ UNCHANGED cpc
         \/ \E b \in Buses : (RecordSuccess(b) \/ RecordFailure(b)) /\ UNCHANGED cpc
         \/ /\ UNCHANGED <<tasks, current, pending>>
            /\ \A b \in Buses : wpc[b] \in Busy => wpc'[b] \in Busy
            /\ cpc' \in BeforeShutdown => cpc \in BeforeShutdown
<1>1. CASE \E b \in Buses : WorkerStep(b)
  <2>1. PICK b \in Buses : WorkerStep(b)
    BY <1>1
  <2>2. UNCHANGED cpc /\ Worker(b)
    BY <2>1 DEF WorkerStep, mainVars
  <2>3. CASE OpenTransport(b) \/ CheckLoop(b) \/ GetTimesOut(b) \/ Cleanup(b)
    BY <2>2, <2>3 DEF OpenTransport, CheckLoop, GetTimesOut, Cleanup, At, Goto, Busy, TypeOK,
                      WorkerTypeOK, statsVars, sensorVars
  <2>4. CASE Initialize(b) \/ ReadReturns(b) \/ ReadRaises(b)
    BY <2>2, <2>4 DEF Initialize, ReadReturns, ReadRaises, At, Goto, Busy, TypeOK,
                      WorkerTypeOK, statsVars, sensorVars
  <2>5. CASE Submit(b) \/ CountSample(b)
    BY <2>2, <2>5 DEF Submit, CountSample, Admit, Refuse, CountAdmitted, StatsAccepted,
                      StatsDropped, At, Goto, Busy, TypeOK, WorkerTypeOK, statsVars, sensorVars
  <2> QED BY <2>2, <2>3, <2>4, <2>5 DEF Worker
<1>2. CASE WriterStep
  <2>1. UNCHANGED <<tasks, current, wpc, cpc>>
    BY <1>2 DEF WriterStep, workerVars, mainVars
  <2>2. UNCHANGED pending
    BY <1>2
    DEF WriterStep, DBWriter, OpenDatabase, WriterFails, WriterTake, Take,
        WriterGetTimesOut, WriterReadsClosed, WriterReadsEmpty, CheckFlush, WriteSamples,
        CountCommitted, StatsCommitted, FlushNothing, CloseDatabase, statsVars, sensorVars
  <2> QED BY <2>1, <2>2
<1>3. CASE StatusStep
  BY <1>3 DEF StatusStep, Status, StatusStops, StatusWakes, StatusSnapshot,
              StatusPublish, StatusFails, workerVars, mainVars, statsVars, sensorVars
<1>4. CASE Main
  <2>1. CASE CheckStop \/ CheckThreads \/ JoinWriters \/ FinalWrite \/ Exit
    BY <2>1 DEF CheckStop, CheckThreads, JoinWriters, FinalWrite, Exit, workerVars,
                statsVars, sensorVars, BeforeShutdown
  <2>2. CASE CloseAdmission \/ RecordShutdown
    BY <2>2 DEF CloseAdmission, Close, RecordShutdown, StatsShutdown, workerVars,
                statsVars, sensorVars, BeforeShutdown
  <2>3. CASE \/ \E s \in Sensors : SkipSensor(s)
             \/ \E b \in Buses : JoinWorker(b)
             \/ \E t \in Threads : AssessAlive(t) \/ AssessErrors(t)
    BY <2>3 DEF SkipSensor, JoinWorker, AssessAlive, AssessErrors, workerVars, statsVars,
                sensorVars, BeforeShutdown
  <2> QED BY <1>4, <2>1, <2>2, <2>3 DEF Main
<1>5. CASE DeadlinePasses \/ RequestStop \/ UNCHANGED vars
  BY <1>5 DEF DeadlinePasses, RequestStop, vars, workerVars, mainVars, statsVars, sensorVars
<1> QED BY <1>1, <1>2, <1>3, <1>4, <1>5 DEF Next, Exited

\* dispatch() gives a sensor a task only when it has none (DispatchRead).
LEMMA DispatchTasks ==
  ASSUME TypeOK, TaskInv, NEW s \in Sensors, DispatchRead(s)
  PROVE  TaskInv'
<1> DEFINE d == BusOf[s]
<1>1. /\ d \in Buses /\ s # None
      /\ \A b \in Buses : tasks[b] \in Seq(Task) /\ Len(tasks[b]) \in Nat
  BY WorkerAssumption, StatsAssumption, LenProperties
  DEF WorkerAssumption, StatsAssumption, TypeOK, WorkerTypeOK
<1>2. /\ tasks' = [tasks EXCEPT ![d] = Append(@, s)] /\ ~pending[s]
      /\ pending' = [pending EXCEPT ![s] = TRUE]
      /\ cpc = "round" /\ UNCHANGED <<cpc, wpc, current>>
  BY DEF DispatchRead, StatsDispatch
<1>3. /\ tasks'[d] = Append(tasks[d], s)
      /\ \A b \in Buses : b # d => tasks'[b] = tasks[b]
  BY <1>1, <1>2 DEF TypeOK, WorkerTypeOK
<1>4. pending'[s] /\ \A t \in Sensors : t # s => pending'[t] = pending[t]
  BY <1>2 DEF TypeOK, StatsTypeOK
<1>5. PICK n \in Nat : n = Len(tasks[d])
  BY <1>1
<1>6. /\ Len(tasks'[d]) = n + 1 /\ tasks'[d][n + 1] = s
      /\ \A i \in 1 .. n : tasks'[d][i] = tasks[d][i]
  BY <1>1, <1>3, <1>5, AppendProperties DEF Task
<1>7. \A i \in 1 .. n : tasks[d][i] # s /\ tasks[d][i] # None /\ tasks[d][i] \in Sensors
  <2>1. \A i \in 1 .. n : tasks[d][i] \in Sensors \cup {None}
    BY <1>1, <1>5, ElementOfSeq DEF Task
  <2> QED BY <1>1, <1>2, <1>5, <2>1 DEF TaskInv, TasksOfBus, BeforeShutdown
<1>8. \A b \in Buses : current[b] # s /\ current[b] \in Sensors \cup {None}
  BY <1>1, <1>2 DEF TaskInv, TasksOfBus, TypeOK, WorkerTypeOK
<1> HIDE DEF d
<1>9. TasksOfBus(d)'
  <2>1. \A i \in 1 .. n + 1 : tasks'[d][i] # None
    BY <1>1, <1>6, <1>7
  <2>2. ASSUME NEW i \in 1 .. n + 1, NEW j \in 1 .. n + 1, tasks'[d][i] = tasks'[d][j]
        PROVE  i = j
    <3>1. CASE i = n + 1 \/ j = n + 1
      BY <1>6, <1>7, <2>2, <3>1
    <3>2. CASE i \in 1 .. n /\ j \in 1 .. n
      BY <1>1, <1>5, <1>6, <2>2, <3>2 DEF TaskInv, TasksOfBus
    <3> QED BY <3>1, <3>2
  <2>3. ASSUME NEW i \in 1 .. n + 1
        PROVE  BusOf[tasks'[d][i]] = d /\ pending'[tasks'[d][i]] /\ current'[d] # tasks'[d][i]
    <3>1. CASE i = n + 1
      BY <1>1, <1>2, <1>4, <1>6, <1>8, <3>1 DEF d
    <3>2. CASE i \in 1 .. n
      BY <1>1, <1>2, <1>4, <1>5, <1>6, <1>7, <3>2 DEF TaskInv, TasksOfBus
    <3> QED BY <3>1, <3>2
  <2>4. current'[d] # None =>
          wpc'[d] \in Busy /\ BusOf[current'[d]] = d /\ pending'[current'[d]]
    BY <1>1, <1>2, <1>4, <1>8 DEF TaskInv, TasksOfBus
  <2> QED BY <1>6, <2>1, <2>2, <2>3, <2>4 DEF TasksOfBus
<1>10. ASSUME NEW b \in Buses, b # d
       PROVE  TasksOfBus(b)'
  <2>1. TasksOfBus(b) /\ tasks'[b] = tasks[b]
    BY <1>3, <1>10 DEF TaskInv
  <2>2. \A i \in 1 .. Len(tasks[b]) : tasks[b][i] \in Sensors \cup {None}
    BY <1>1, ElementOfSeq DEF Task
  <2>3. \A t \in Sensors : pending[t] => pending'[t]
    BY <1>4
  <2>4. ASSUME NEW i \in 1 .. Len(tasks[b]), tasks[b][i] # None
        PROVE  BusOf[tasks[b][i]] = b /\ pending'[tasks[b][i]] /\ current[b] # tasks[b][i]
    BY <2>1, <2>2, <2>3, <2>4 DEF TasksOfBus
  <2>5. current[b] # None => wpc[b] \in Busy /\ BusOf[current[b]] = b /\ pending'[current[b]]
    BY <1>8, <2>1, <2>3 DEF TasksOfBus
  <2>6. /\ \A i \in 1 .. Len(tasks[b]) :
             tasks[b][i] = None => i = Len(tasks[b]) /\ cpc \notin BeforeShutdown
        /\ \A i, j \in 1 .. Len(tasks[b]) : tasks[b][i] = tasks[b][j] => i = j
    BY <2>1 DEF TasksOfBus
  <2>7. /\ tasks'[b] = tasks[b] /\ current'[b] = current[b]
        /\ wpc'[b] = wpc[b] /\ cpc' = cpc
    BY <1>2, <2>1
  <2> QED BY <2>4, <2>5, <2>6, <2>7 DEF TasksOfBus
<1>11. ASSUME NEW t \in Sensors, pending'[t]
       PROVE  HasTask(t)'
  <2>1. CASE t = s
    BY <1>5, <1>6, <2>1 DEF HasTask, d
  <2>2. CASE t # s
    <3>1. HasTask(t) /\ BusOf[t] \in Buses
      BY <1>4, <1>11, <2>2, WorkerAssumption DEF TaskInv, WorkerAssumption
    <3>2. CASE BusOf[t] = d
      BY <1>2, <1>5, <1>6, <3>1, <3>2 DEF HasTask
    <3>3. CASE BusOf[t] # d
      BY <1>2, <1>3, <3>1, <3>3 DEF HasTask
    <3> QED BY <3>2, <3>3
  <2> QED BY <2>1, <2>2
<1> QED BY <1>9, <1>10, <1>11 DEF TaskInv

\* The finally block appends the sentinels, once (BeginShutdown).
LEMMA SentinelTasks ==
  ASSUME TypeOK, TaskInv, BeginShutdown
  PROVE  TaskInv'
<1>1. \A b \in Buses : tasks[b] \in Seq(Task) /\ Len(tasks[b]) \in Nat
  BY LenProperties DEF TypeOK, WorkerTypeOK
<1>2. /\ cpc = "finally" /\ cpc' = "join" /\ UNCHANGED <<wpc, current, pending>>
      /\ \A b \in Buses : tasks'[b] = Append(tasks[b], None)
  BY DEF BeginShutdown, statsVars, sensorVars
<1>3. ASSUME NEW b \in Buses
      PROVE  /\ Len(tasks'[b]) = Len(tasks[b]) + 1
             /\ tasks'[b][Len(tasks[b]) + 1] = None
             /\ \A i \in 1 .. Len(tasks[b]) : tasks'[b][i] = tasks[b][i] /\ tasks[b][i] # None
  BY <1>1, <1>2, AppendProperties DEF Task, TaskInv, TasksOfBus, BeforeShutdown
<1>4. ASSUME NEW b \in Buses
      PROVE  TasksOfBus(b)'
  <2>1. PICK n \in Nat : n = Len(tasks[b])
    BY <1>1
  <2>2. TasksOfBus(b)
    BY DEF TaskInv
  <2>3. ASSUME NEW i \in 1 .. n + 1, NEW j \in 1 .. n + 1, tasks'[b][i] = tasks'[b][j]
        PROVE  i = j
    <3>1. CASE i = n + 1 \/ j = n + 1
      BY <1>3, <2>1, <2>3, <3>1
    <3>2. CASE i \in 1 .. n /\ j \in 1 .. n
      BY <1>3, <2>1, <2>2, <2>3, <3>2 DEF TasksOfBus
    <3> QED BY <3>1, <3>2
  <2>4. ASSUME NEW i \in 1 .. n + 1
        PROVE  /\ tasks'[b][i] = None => i = n + 1
               /\ tasks'[b][i] # None =>
                    /\ BusOf[tasks'[b][i]] = b /\ pending[tasks'[b][i]]
                    /\ current[b] # tasks'[b][i]
    <3>1. CASE i = n + 1
      BY <1>3, <2>1, <3>1
    <3>2. CASE i \in 1 .. n
      BY <1>3, <2>1, <2>2, <3>2 DEF TasksOfBus
    <3> QED BY <3>1, <3>2
  <2>5. current[b] # None => wpc[b] \in Busy /\ BusOf[current[b]] = b /\ pending[current[b]]
    BY <2>2 DEF TasksOfBus
  <2>6. Len(tasks'[b]) = n + 1 /\ cpc' \notin BeforeShutdown
    BY <1>2, <1>3, <2>1 DEF BeforeShutdown
  <2> QED BY <1>2, <2>3, <2>4, <2>5, <2>6 DEF TasksOfBus
<1>5. ASSUME NEW s \in Sensors, pending'[s]
      PROVE  HasTask(s)'
  <2>1. HasTask(s) /\ BusOf[s] \in Buses
    BY <1>2, <1>5, WorkerAssumption DEF TaskInv, WorkerAssumption
  <2> QED BY <1>1, <1>2, <1>3, <2>1 DEF HasTask
<1> QED BY <1>4, <1>5 DEF TaskInv

\* get() moves the first task into the worker's hands (GetTask).
LEMMA GetTasks ==
  ASSUME TypeOK, TaskInv, NEW b \in Buses, GetTask(b), UNCHANGED cpc
  PROVE  TaskInv' /\ (wpc'[b] = "cleanup" => tasks'[b] = <<>>)
<1>1. /\ wpc[b] = "get" /\ tasks[b] # <<>>
      /\ tasks' = [tasks EXCEPT ![b] = Tail(@)]
      /\ current' = [current EXCEPT ![b] = Head(tasks[b])]
      /\ wpc' = [wpc EXCEPT ![b] = IF Head(tasks[b]) = None THEN "cleanup" ELSE "init"]
      /\ UNCHANGED pending
  BY DEF GetTask, At, Goto, statsVars, sensorVars
<1>2. \A c \in Buses : tasks[c] \in Seq(Task) /\ Len(tasks[c]) \in Nat
  BY LenProperties DEF TypeOK, WorkerTypeOK
<1>3. /\ tasks'[b] = Tail(tasks[b]) /\ current'[b] = Head(tasks[b])
      /\ wpc'[b] = IF Head(tasks[b]) = None THEN "cleanup" ELSE "init"
      /\ \A c \in Buses : c # b => /\ tasks'[c] = tasks[c] /\ current'[c] = current[c]
                                   /\ wpc'[c] = wpc[c]
  BY <1>1 DEF TypeOK, WorkerTypeOK
<1>4. PICK n \in Nat : n = Len(tasks[b])
  BY <1>2
<1>5. /\ n > 0 /\ Len(tasks'[b]) = n - 1 /\ tasks'[b] \in Seq(Task)
      /\ \A i \in 1 .. n - 1 : tasks'[b][i] = tasks[b][i + 1]
      /\ Head(tasks[b]) = tasks[b][1] /\ tasks[b][1] \in Sensors \cup {None}
  <2>1. n # 0
    BY <1>1, <1>2, <1>4, EmptySeq
  <2>2. 1 \in 1 .. n
    BY <2>1
  <2>3. tasks[b][1] \in Task
    BY <1>2, <1>4, <2>2, ElementOfSeq
  <2>4. /\ Tail(tasks[b]) \in Seq(Task) /\ Len(Tail(tasks[b])) = n - 1
        /\ \A i \in 1 .. n - 1 : Tail(tasks[b])[i] = tasks[b][i + 1]
    BY <1>1, <1>2, <1>4, HeadTailProperties
  <2>5. Head(tasks[b]) = tasks[b][1]
    BY <1>1, <1>2
  <2> QED BY <1>3, <2>1, <2>3, <2>4, <2>5 DEF Task
<1>6. current[b] = None
  BY <1>1 DEF TaskInv, TasksOfBus, Busy
<1>7. TasksOfBus(b)
  BY DEF TaskInv
<1>8. tasks[b][1] = None => n = 1
  <2>1. 1 \in 1 .. n
    BY <1>5
  <2> QED BY <1>4, <1>7, <2>1 DEF TasksOfBus
<1>9. TasksOfBus(b)'
  <2>1. ASSUME NEW i \in 1 .. n - 1, tasks'[b][i] = None
        PROVE  i = n - 1 /\ cpc' \notin BeforeShutdown
    <3>1. i + 1 \in 1 .. n /\ tasks[b][i + 1] = None
      BY <1>5, <2>1
    <3>2. i + 1 = n /\ cpc \notin BeforeShutdown
      BY <1>4, <1>7, <3>1 DEF TasksOfBus
    <3> QED BY <3>2
  <2>2. ASSUME NEW i \in 1 .. n - 1, NEW j \in 1 .. n - 1, tasks'[b][i] = tasks'[b][j]
        PROVE  i = j
    <3>1. i + 1 \in 1 .. n /\ j + 1 \in 1 .. n /\ tasks[b][i + 1] = tasks[b][j + 1]
      BY <1>5, <2>2
    <3>2. i + 1 = j + 1
      BY <1>4, <1>7, <3>1 DEF TasksOfBus
    <3> QED BY <3>2
  <2>3. ASSUME NEW i \in 1 .. n - 1, tasks'[b][i] # None
        PROVE  BusOf[tasks'[b][i]] = b /\ pending'[tasks'[b][i]] /\ current'[b] # tasks'[b][i]
    <3>1. i + 1 \in 1 .. n /\ tasks'[b][i] = tasks[b][i + 1]
      BY <1>5
    <3>2. BusOf[tasks[b][i + 1]] = b /\ pending[tasks[b][i + 1]]
      BY <1>4, <1>7, <2>3, <3>1 DEF TasksOfBus
    <3>3. tasks[b][1] # tasks[b][i + 1]
      BY <1>4, <1>5, <1>7, <3>1 DEF TasksOfBus
    <3> QED BY <1>1, <1>3, <1>5, <3>1, <3>2, <3>3
  <2>4. ASSUME current'[b] # None
        PROVE  wpc'[b] \in Busy /\ BusOf[current'[b]] = b /\ pending'[current'[b]]
    <3>1. 1 \in 1 .. n
      BY <1>5
    <3> QED BY <1>1, <1>3, <1>4, <1>5, <1>7, <2>4, <3>1 DEF TasksOfBus, Busy
  <2> QED BY <1>5, <2>1, <2>2, <2>3, <2>4 DEF TasksOfBus
<1>10. ASSUME NEW c \in Buses, c # b
       PROVE  TasksOfBus(c)'
  BY <1>1, <1>3, <1>10 DEF TaskInv, TasksOfBus
<1>11. ASSUME NEW s \in Sensors, pending'[s]
       PROVE  HasTask(s)'
  <2>1. HasTask(s) /\ BusOf[s] \in Buses
    BY <1>1, <1>11, WorkerAssumption DEF TaskInv, WorkerAssumption
  <2>2. CASE BusOf[s] # b
    BY <1>3, <2>1, <2>2 DEF HasTask
  <2>3. CASE BusOf[s] = b
    <3>1. PICK i \in 1 .. n : tasks[b][i] = s
      BY <1>4, <1>6, <2>1, <2>3, StatsAssumption DEF HasTask, StatsAssumption
    <3>2. CASE i = 1
      BY <1>3, <1>5, <2>3, <3>1, <3>2 DEF HasTask
    <3>3. CASE i # 1
      <4>1. i - 1 \in 1 .. n - 1 /\ tasks'[b][i - 1] = tasks[b][i]
        BY <1>5, <3>3
      <4> QED BY <1>5, <2>3, <3>1, <4>1 DEF HasTask
    <3> QED BY <3>2, <3>3
  <2> QED BY <2>2, <2>3
<1>12. wpc'[b] = "cleanup" => tasks'[b] = <<>>
  BY <1>3, <1>5, <1>8, EmptySeq
<1> QED BY <1>9, <1>10, <1>11, <1>12 DEF TaskInv

\* The end of a read takes the task out of the worker's hands and ends its being
\* pending (RecordSuccess, RecordFailure).
LEMMA SettledTasks ==
  ASSUME TypeOK, TaskInv, NEW b \in Buses, RecordSuccess(b) \/ RecordFailure(b), UNCHANGED cpc
  PROVE  TaskInv'
<1> DEFINE s == current[b]
<1>1. /\ wpc[b] \in {"success", "failure"} /\ UNCHANGED tasks
      /\ current' = [current EXCEPT ![b] = None]
      /\ wpc' = [wpc EXCEPT ![b] = "loop"]
      /\ pending' = [pending EXCEPT ![s] = FALSE]
  BY DEF RecordSuccess, RecordFailure, StatsSuccess, StatsFailure, At, Goto
<1>2. s \in Sensors /\ s # None
  BY <1>1, StatsAssumption DEF TypeOK, WorkerTypeOK, Busy, StatsAssumption
<1>3. /\ current'[b] = None /\ ~pending'[s]
      /\ \A c \in Buses : c # b => current'[c] = current[c] /\ wpc'[c] = wpc[c]
      /\ \A t \in Sensors : t # s => pending'[t] = pending[t]
  BY <1>1, <1>2 DEF TypeOK, WorkerTypeOK, StatsTypeOK
<1>4. BusOf[s] = b
  BY <1>2 DEF TaskInv, TasksOfBus
<1>5. ASSUME NEW c \in Buses, NEW i \in 1 .. Len(tasks[c]), tasks[c][i] # None
      PROVE  /\ tasks[c][i] # s /\ tasks[c][i] \in Sensors
             /\ BusOf[tasks[c][i]] = c /\ pending[tasks[c][i]] /\ current[c] # tasks[c][i]
  <2>1. tasks[c] \in Seq(Task)
    BY DEF TypeOK, WorkerTypeOK
  <2>2. tasks[c][i] \in Sensors
    BY <1>5, <2>1, ElementOfSeq DEF Task
  <2>3. /\ BusOf[tasks[c][i]] = c /\ pending[tasks[c][i]] /\ current[c] # tasks[c][i]
    BY <1>5 DEF TaskInv, TasksOfBus
  <2> QED BY <1>4, <2>2, <2>3
<1> HIDE DEF s
<1>6. ASSUME NEW c \in Buses
      PROVE  TasksOfBus(c)'
  <2>1. ASSUME current'[c] # None
        PROVE  wpc'[c] \in Busy /\ BusOf[current'[c]] = c /\ pending'[current'[c]]
    <3>1. c # b /\ current'[c] = current[c] /\ wpc'[c] = wpc[c]
      BY <1>3, <2>1
    <3>2. wpc[c] \in Busy /\ BusOf[current[c]] = c /\ pending[current[c]]
      BY <2>1, <3>1 DEF TaskInv, TasksOfBus
    <3>3. current[c] \in Sensors /\ current[c] # s
      BY <1>4, <2>1, <3>1, <3>2 DEF TypeOK, WorkerTypeOK
    <3> QED BY <1>3, <3>1, <3>2, <3>3
  <2>2. ASSUME NEW i \in 1 .. Len(tasks[c]), tasks[c][i] # None
        PROVE  BusOf[tasks[c][i]] = c /\ pending'[tasks[c][i]] /\ current'[c] # tasks[c][i]
    BY <1>3, <1>5, <2>2
  <2> QED BY <1>1, <2>1, <2>2 DEF TaskInv, TasksOfBus
<1>7. ASSUME NEW t \in Sensors, pending'[t]
      PROVE  HasTask(t)'
  <2>1. t # s /\ HasTask(t) /\ BusOf[t] \in Buses
    BY <1>3, <1>7, WorkerAssumption DEF TaskInv, WorkerAssumption
  <2> QED BY <1>1, <1>3, <2>1 DEF HasTask, s
<1> QED BY <1>6, <1>7 DEF TaskInv

\* Every step keeps the tasks in order.
LEMMA TaskStep ==
  ASSUME TypeOK, TaskInv, [Next]_vars
  PROVE  TaskInv'
<1>1. ASSUME UNCHANGED <<tasks, current, pending>>,
             \A b \in Buses : wpc[b] \in Busy => wpc'[b] \in Busy,
             cpc' \in BeforeShutdown => cpc \in BeforeShutdown
      PROVE  TaskInv'
  BY <1>1 DEF TaskInv, TasksOfBus, HasTask
<1> QED BY <1>1, TaskMoves, DispatchTasks, SentinelTasks, GetTasks, SettledTasks

\* Tasks, hands and pending flags agree throughout.
THEOREM TasksCorrect == Spec => []TaskInv
<1>1. TypeOK /\ TaskInv /\ [Next]_vars => TaskInv'
  BY TaskStep
<1> QED BY <1>1, TaskInit, TypeCorrect, PTL DEF Spec

\* A sensor is pending exactly while one task of it is queued or in hand: dispatch()
\* schedules no second read, and a settled read leaves none pending.
THEOREM TasksAreOwned == Spec => []TaskOwnership
<1>1. ASSUME TypeOK, TaskInv
      PROVE  TaskOwnership
  <2> SUFFICES ASSUME NEW s \in Sensors
               PROVE  Cardinality({i \in DOMAIN tasks[BusOf[s]] : tasks[BusOf[s]][i] = s})
                        + (IF current[BusOf[s]] = s THEN 1 ELSE 0)
                      = IF pending[s] THEN 1 ELSE 0
    BY DEF TaskOwnership
  <2> DEFINE b == BusOf[s]
             queued == {i \in DOMAIN tasks[b] : tasks[b][i] = s}
  <2>1. b \in Buses /\ s # None /\ TasksOfBus(b)
    BY <1>1, WorkerAssumption, StatsAssumption DEF TaskInv, WorkerAssumption, StatsAssumption
  <2>2. DOMAIN tasks[b] = 1 .. Len(tasks[b])
    BY <1>1, <2>1, LenProperties DEF TypeOK, WorkerTypeOK
  <2>3. CASE \E i \in 1 .. Len(tasks[b]) : tasks[b][i] = s
    <3>1. PICK i \in 1 .. Len(tasks[b]) : tasks[b][i] = s
      BY <2>3
    <3>2. queued = {i}
      BY <2>1, <2>2, <3>1 DEF TasksOfBus
    <3>3. Cardinality(queued) = 1
      BY <3>2, FS_Singleton
    <3>4. pending[s] /\ current[b] # s
      BY <2>1, <3>1 DEF TasksOfBus
    <3> QED BY <3>3, <3>4
  <2>4. CASE ~\E i \in 1 .. Len(tasks[b]) : tasks[b][i] = s
    <3>1. queued = {}
      BY <2>2, <2>4
    <3>2. Cardinality(queued) = 0
      BY <3>1, FS_EmptySet
    <3>3. pending[s] <=> current[b] = s
      BY <1>1, <2>1, <2>4 DEF TaskInv, TasksOfBus, HasTask
    <3> QED BY <3>2, <3>3
  <2> QED BY <2>3, <2>4
<1> QED BY <1>1, TasksCorrect, TypeCorrect, PTL

\* A worker that leaves its loop leaves no task behind: the sentinel is the last of
\* its tasks, and without it the loop goes on until there are none.
THEOREM NoTaskIsLeft == Spec => LeavesNoTaskBehind
<1>1. TypeOK /\ TaskInv /\ [Next]_vars =>
        [\A b \in Buses :
           wpc[b] \in {"loop", "get"} /\ wpc'[b] = "cleanup" => tasks'[b] = <<>>]_vars
  <2> SUFFICES ASSUME TypeOK, TaskInv, Next, NEW b \in Buses,
                      wpc[b] \in {"loop", "get"}, wpc'[b] = "cleanup"
               PROVE  tasks'[b] = <<>>
    OBVIOUS
  <2>1. CASE \E c \in Buses : WorkerStep(c)
    <3>1. PICK c \in Buses : WorkerStep(c)
      BY <2>1
    <3>2. Worker(c) /\ UNCHANGED cpc
      BY <3>1 DEF WorkerStep, mainVars
    <3>3. CASE GetTask(c)
      <4>1. c = b
        BY <3>3 DEF GetTask, Goto, TypeOK, WorkerTypeOK
      <4> QED BY <3>2, <3>3, <4>1, GetTasks
    <3>4. CASE CheckLoop(c)
      BY <3>4 DEF CheckLoop, Continue, Goto, At, TypeOK, WorkerTypeOK
    <3>5. CASE \/ OpenTransport(c) \/ GetTimesOut(c) \/ Cleanup(c) \/ Initialize(c)
               \/ ReadReturns(c) \/ ReadRaises(c)
      BY <3>5 DEF OpenTransport, GetTimesOut, Cleanup, Initialize, ReadReturns, ReadRaises,
                  Goto, At, TypeOK, WorkerTypeOK
    <3>6. CASE Submit(c) \/ CountSample(c) \/ RecordSuccess(c) \/ RecordFailure(c)
      BY <3>6 DEF Submit, CountSample, RecordSuccess, RecordFailure, Goto, At, TypeOK,
                  WorkerTypeOK
    <3> QED BY <3>2, <3>3, <3>4, <3>5, <3>6 DEF Worker
  <2>2. CASE ~\E c \in Buses : WorkerStep(c)
    <3>1. UNCHANGED wpc
      BY <2>2
      DEF Next, WriterStep, StatusStep, Exited, Main, DeadlinePasses, RequestStop, CheckStop,
          CheckThreads, BeginShutdown, CloseAdmission, JoinWriters, RecordShutdown,
          FinalWrite, Exit, SkipSensor, DispatchRead, JoinWorker, AssessAlive, AssessErrors,
          vars, workerVars
    <3> QED BY <3>1
  <2> QED BY <2>1, <2>2
<1> QED BY <1>1, TasksCorrect, TypeCorrect, PTL DEF Spec, LeavesNoTaskBehind

-----------------------------------------------------------------------------
(* The assessment of the threads. *)

\* From the list of live threads on.
Assessed == {"errors", "record", "final", "exit", "done"}

\* What main has found out about every thread: one it does not hold for alive is
\* dead, and one it holds for neither alive nor failed has no error and will have none.
\* An exception in flight comes from a thread's error.  The exit code is made of this.
ThreadsAssessed ==
  /\ cpc = "alive" => \A t \in Threads \ todo : t \in aliveSeen \/ ~IsAlive(t)
  /\ cpc \in Assessed => \A t \in Threads : t \in aliveSeen \/ ~IsAlive(t)
  /\ cpc = "errors" =>
       \A t \in Threads \ todo : t \in aliveSeen \cup errorsSeen \/ ~HasError(t)
  /\ cpc \in Assessed \ {"errors"} =>
       \A t \in Threads : t \in aliveSeen \cup errorsSeen \/ ~HasError(t)
  /\ raised => \E t \in Threads : HasError(t)
  /\ exitCode # None => cpc = "done"
  /\ cpc = "done" =>
       (exitCode = 0 <=> aliveSeen = {} /\ errorsSeen = {} /\ ~writeFailed /\ ~raised)

\* A thread that has ended does nothing more, and no thread loses its error.
LEMMA ThreadsEnd ==
  ASSUME TypeOK, [Next]_vars, NEW t \in Threads
  PROVE  /\ ~IsAlive(t) => ~IsAlive(t)'
         /\ HasError(t) => HasError(t)'
         /\ ~IsAlive(t) /\ HasError(t)' => HasError(t)
<1> DEFINE Steady == UNCHANGED <<wpc, dpc, spc, workerError, writerError, statusError>>
<1>1. CASE Steady
  BY <1>1 DEF IsAlive, HasError
<1>2. CASE \E b \in Buses : WorkerStep(b)
  <2>1. PICK b \in Buses : WorkerStep(b)
    BY <1>2
  <2>2. UNCHANGED <<dpc, spc, writerError, statusError>> /\ Worker(b)
    BY <2>1 DEF WorkerStep, writerVars, statusVars
  <2>3. /\ wpc[b] # "dead"
        /\ \A c \in Buses : c # b => wpc'[c] = wpc[c] /\ workerError'[c] = workerError[c]
        /\ workerError[b] => workerError'[b]
    <3>1. CASE OpenTransport(b) \/ Cleanup(b) \/ CheckLoop(b) \/ GetTask(b) \/ GetTimesOut(b)
      BY <3>1 DEF OpenTransport, Cleanup, CheckLoop, GetTask, GetTimesOut, At, Goto, TypeOK,
                  WorkerTypeOK
    <3>2. CASE Initialize(b) \/ ReadReturns(b) \/ ReadRaises(b) \/ Submit(b)
      BY <3>2 DEF Initialize, ReadReturns, ReadRaises, Submit, At, Goto, TypeOK, WorkerTypeOK
    <3>3. CASE CountSample(b) \/ RecordSuccess(b) \/ RecordFailure(b)
      BY <3>3 DEF CountSample, RecordSuccess, RecordFailure, At, Goto, TypeOK, WorkerTypeOK
    <3> QED BY <2>2, <3>1, <3>2, <3>3 DEF Worker
  <2> QED BY <2>2, <2>3, CollectorAssumption DEF IsAlive, HasError, CollectorAssumption
<1>3. CASE WriterStep
  <2>1. UNCHANGED <<wpc, spc, workerError, statusError>>
    BY <1>3 DEF WriterStep, workerVars, statusVars
  <2>2. dpc # "dead" /\ (writerError => writerError')
    <3>1. dpc # "dead"
      BY <1>3
      DEF WriterStep, DBWriter, OpenDatabase, WriterFails, WriterTake, WriterGetTimesOut,
          WriterReadsClosed, WriterReadsEmpty, CheckFlush, WriteSamples, CountCommitted,
          FlushNothing, CloseDatabase
    <3>2. CASE WriterFails
      BY <3>1, <3>2 DEF WriterFails
    <3>3. CASE ~WriterFails
      <4>1. writerError' = writerError
        BY <1>3, <3>3
        DEF WriterStep, DBWriter, OpenDatabase, WriterTake, WriterGetTimesOut,
            WriterReadsClosed, WriterReadsEmpty, CheckFlush, WriteSamples, CountCommitted,
            FlushNothing, CloseDatabase
      <4> QED BY <3>1, <4>1
    <3> QED BY <3>2, <3>3
  <2> QED BY <2>1, <2>2, CollectorAssumption DEF IsAlive, HasError, CollectorAssumption
<1>4. CASE StatusStep
  <2>1. UNCHANGED <<wpc, dpc, workerError, writerError>>
    BY <1>4 DEF StatusStep, workerVars, writerVars
  <2>2. spc # "dead" /\ (statusError => statusError')
    BY <1>4 DEF StatusStep, Status, StatusStops, StatusWakes, StatusSnapshot, StatusPublish,
                StatusFails
  <2> QED BY <2>1, <2>2, CollectorAssumption DEF IsAlive, HasError, CollectorAssumption
<1>5. CASE Main
  <2>1. Steady
    BY <1>5
    DEF Main, CheckStop, CheckThreads, BeginShutdown, CloseAdmission, JoinWriters,
        RecordShutdown, FinalWrite, Exit, SkipSensor, DispatchRead, JoinWorker, AssessAlive,
        AssessErrors, workerVars, writerVars, statusVars
  <2> QED BY <1>1, <2>1
<1>6. CASE DeadlinePasses \/ RequestStop \/ UNCHANGED vars
  <2>1. Steady
    BY <1>6 DEF DeadlinePasses, RequestStop, vars, workerVars, writerVars, statusVars
  <2> QED BY <1>1, <2>1
<1> QED BY <1>2, <1>3, <1>4, <1>5, <1>6 DEF Next, Exited

\* Nothing has been assessed at the beginning.
LEMMA AssessedInit == Init => ThreadsAssessed
BY RecordAssumption DEF Init, MainInit, ThreadsAssessed, Assessed

\* What main has found out stays true, and it finds out about every thread in turn.
LEMMA AssessedStep ==
  ASSUME TypeOK, ThreadsAssessed, [Next]_vars
  PROVE  ThreadsAssessed'
<1> DEFINE Quiet == UNCHANGED <<todo, aliveSeen, errorsSeen, raised, writeFailed, exitCode>>
<1>1. \A t \in Threads : /\ ~IsAlive(t) => ~IsAlive(t)'
                         /\ HasError(t) => HasError(t)'
                         /\ ~IsAlive(t) /\ HasError(t)' => HasError(t)
  BY ThreadsEnd
<1>2. ASSUME UNCHANGED cpc, Quiet
      PROVE  ThreadsAssessed'
  BY <1>1, <1>2 DEF ThreadsAssessed, Assessed
<1>3. CASE DeadlinePasses \/ RequestStop \/ UNCHANGED vars \/ WriterStep \/ StatusStep
           \/ \E b \in Buses : WorkerStep(b)
  <2>1. UNCHANGED cpc /\ Quiet
    BY <1>3 DEF DeadlinePasses, RequestStop, vars, WriterStep, StatusStep, WorkerStep, mainVars
  <2> QED BY <1>2, <2>1
<1>4. CASE Main
  <2>1. CASE CheckThreads
    <3>1. /\ cpc = "round" /\ cpc' \in {"finally", "loop"}
          /\ UNCHANGED <<todo, aliveSeen, errorsSeen, writeFailed, exitCode>>
          /\ raised' => writerError \/ \E b \in Buses : workerError[b]
      BY <2>1 DEF CheckThreads
    <3>2. raised' => \E t \in Threads : HasError(t)
      BY <3>1, CollectorAssumption DEF HasError, Threads, CollectorAssumption
    <3> QED BY <1>1, <3>1, <3>2 DEF ThreadsAssessed, Assessed
  <2>2. CASE \/ CheckStop \/ BeginShutdown \/ CloseAdmission
             \/ \E s \in Sensors : SkipSensor(s) \/ DispatchRead(s)
             \/ \E b \in Buses : JoinWorker(b)
    <3>1. /\ cpc \in {"loop", "finally", "close", "round", "join"}
          /\ cpc' \in {"loop", "finally", "close", "round", "join", "joinDB"}
          /\ UNCHANGED <<aliveSeen, errorsSeen, raised, writeFailed, exitCode>>
      BY <2>2 DEF CheckStop, BeginShutdown, CloseAdmission, SkipSensor, DispatchRead, JoinWorker
    <3> QED BY <1>1, <3>1 DEF ThreadsAssessed, Assessed
  <2>3. CASE JoinWriters
    <3>1. /\ cpc \in {"joinDB", "joinStatus"} /\ cpc' \in {"joinStatus", "alive"}
          /\ cpc' = "alive" => todo' = Threads
          /\ UNCHANGED <<aliveSeen, errorsSeen, raised, writeFailed, exitCode>>
      BY <2>3 DEF JoinWriters
    <3> QED BY <1>1, <3>1 DEF ThreadsAssessed, Assessed
  <2>4. ASSUME NEW t \in Threads, AssessAlive(t)
        PROVE  ThreadsAssessed'
    <3>1. /\ cpc = "alive" /\ t \in todo
          /\ aliveSeen' = IF IsAlive(t) THEN aliveSeen \cup {t} ELSE aliveSeen
          /\ \/ todo = {t} /\ cpc' = "errors" /\ todo' = Threads
             \/ todo # {t} /\ cpc' = "alive" /\ todo' = todo \ {t}
          /\ UNCHANGED <<errorsSeen, raised, writeFailed, exitCode>>
      BY <2>4 DEF AssessAlive, IsNext
    <3>2. \A u \in Threads \ (todo \ {t}) : u \in aliveSeen' \/ ~IsAlive(u)'
      BY <1>1, <3>1 DEF ThreadsAssessed
    <3> QED BY <1>1, <3>1, <3>2 DEF ThreadsAssessed, Assessed
  <2>5. ASSUME NEW t \in Threads, AssessErrors(t)
        PROVE  ThreadsAssessed'
    <3>1. /\ cpc = "errors" /\ t \in todo
          /\ errorsSeen' = IF HasError(t) THEN errorsSeen \cup {t} ELSE errorsSeen
          /\ todo' = todo \ {t} /\ cpc' = IF todo' = {} THEN "record" ELSE "errors"
          /\ UNCHANGED <<aliveSeen, raised, writeFailed, exitCode>>
      BY <2>5 DEF AssessErrors, IsNext
    <3>2. \A u \in Threads : u \in aliveSeen' \/ ~IsAlive(u)'
      BY <1>1, <3>1 DEF ThreadsAssessed, Assessed
    <3>3. \A u \in Threads \ todo' : u \in aliveSeen' \cup errorsSeen' \/ ~HasError(u)'
      BY <1>1, <3>1 DEF ThreadsAssessed, Assessed
    <3> QED BY <1>1, <3>1, <3>2, <3>3 DEF ThreadsAssessed, Assessed
  <2>6. CASE RecordShutdown
    <3>1. cpc = "record" /\ cpc' = "final" /\ Quiet
      BY <2>6 DEF RecordShutdown
    <3> QED BY <1>1, <3>1 DEF ThreadsAssessed, Assessed
  <2>7. CASE FinalWrite
    <3>1. /\ cpc = "final" /\ cpc' = "exit"
          /\ UNCHANGED <<todo, aliveSeen, errorsSeen, raised, exitCode>>
      BY <2>7 DEF FinalWrite
    <3> QED BY <1>1, <3>1 DEF ThreadsAssessed, Assessed
  <2>8. CASE Exit
    <3>1. /\ cpc = "exit" /\ cpc' = "done"
          /\ UNCHANGED <<todo, aliveSeen, errorsSeen, raised, writeFailed>>
          /\ exitCode' = 0 <=> aliveSeen = {} /\ errorsSeen = {} /\ ~writeFailed /\ ~raised
      BY <2>8 DEF Exit
    <3> QED BY <1>1, <3>1 DEF ThreadsAssessed, Assessed
  <2> QED BY <1>4, <2>1, <2>2, <2>3, <2>4, <2>5, <2>6, <2>7, <2>8 DEF Main
<1> QED BY <1>3, <1>4 DEF Next, Exited

\* The assessment is right from the list of live threads to the exit.
THEOREM AssessmentCorrect == Spec => []ThreadsAssessed
<1>1. TypeOK /\ ThreadsAssessed /\ [Next]_vars => ThreadsAssessed'
  BY AssessedStep
<1> QED BY <1>1, AssessedInit, TypeCorrect, PTL DEF Spec

\* Exit code 0 means that every thread has ended and none of them with an error, the
\* errors that came after the list of live threads was taken included.
THEOREM ExitCodeIsHonest == Spec => []SuccessMeansClean
<1>1. ThreadsAssessed => SuccessMeansClean
  <2> SUFFICES ASSUME ThreadsAssessed, exitCode = 0, NEW t \in Threads
               PROVE  ~IsAlive(t) /\ ~HasError(t)
    BY DEF SuccessMeansClean
  <2>1. cpc = "done" /\ aliveSeen = {} /\ errorsSeen = {}
    BY RecordAssumption DEF ThreadsAssessed, RecordAssumption
  <2> QED BY <2>1 DEF ThreadsAssessed, Assessed
<1> QED BY <1>1, AssessmentCorrect, PTL

-----------------------------------------------------------------------------
(* The status file. *)

\* A published state comes before another: no count is lower and a shutdown record,
\* once there, is the same.
Precedes(a, b) ==
  /\ a.accepted <= b.accepted /\ a.committed <= b.committed
  /\ \A s \in Sensors : /\ a.successful[s] <= b.successful[s]
                         /\ a.failed[s] <= b.failed[s]
                         /\ a.dropped[s] <= b.dropped[s]
  /\ a.shutdown # None => b.shutdown = a.shutdown

\* The file comes before what the status writer is about to publish, and both before
\* the present state.
FileInOrder ==
  /\ payload # None <=> spc = "publish"
  /\ payload # None => Precedes(payload, Snapshot)
  /\ file # None => Precedes(file, Snapshot)
  /\ payload # None /\ file # None => Precedes(file, payload)

\* When main found the status writer dead, main alone writes the record.
LastWrite ==
  /\ writeFailed => cpc \in {"exit", "done"}
  /\ cpc \in {"exit", "done"} /\ "status-writer" \notin aliveSeen /\ ~writeFailed =>
       file # None /\ file.shutdown # None
  /\ (cpc = "final" \/ writeFailed) /\ "status-writer" \notin aliveSeen =>
       file = None \/ file.shutdown = None

FileInv == FileInOrder /\ LastWrite

\* Published states are ordered.
LEMMA PrecedesTransitive ==
  ASSUME NEW a \in Payload(Threads), NEW b \in Payload(Threads), NEW c \in Payload(Threads),
         Precedes(a, b), Precedes(b, c)
  PROVE  Precedes(a, c)
BY DEF Precedes, Payload

\* The counters of the sensors only grow.
LEMMA SensorCountersGrow ==
  ASSUME TypeOK, [Next]_vars
  PROVE  \A s \in Sensors : /\ successful[s] <= successful'[s]
                            /\ failed[s] <= failed'[s]
                            /\ dropped[s] <= dropped'[s]
<1> DEFINE Grow == \A s \in Sensors : /\ successful[s] <= successful'[s]
                                      /\ failed[s] <= failed'[s]
                                      /\ dropped[s] <= dropped'[s]
<1>1. /\ successful \in [Sensors -> Nat] /\ failed \in [Sensors -> Nat]
      /\ dropped \in [Sensors -> Nat]
  BY DEF TypeOK, StatsTypeOK
<1>2. ASSUME NEW x, StatsSuccess(x) \/ StatsFailure(x) \/ StatsDropped(x)
      PROVE  Grow
  BY <1>1, <1>2 DEF StatsSuccess, StatsFailure, StatsDropped
<1>3. UNCHANGED <<successful, failed, dropped>> => Grow
  BY <1>1
<1>4. CASE \E b \in Buses : WorkerStep(b)
  <2>1. PICK b \in Buses : Worker(b)
    BY <1>4 DEF WorkerStep
  <2>2. CASE \/ OpenTransport(b) \/ CheckLoop(b) \/ GetTask(b) \/ GetTimesOut(b)
             \/ Cleanup(b) \/ Initialize(b) \/ ReadReturns(b) \/ ReadRaises(b)
    BY <1>3, <2>2 DEF OpenTransport, CheckLoop, GetTask, GetTimesOut, Cleanup, Initialize,
                      ReadReturns, ReadRaises, statsVars, sensorVars
  <2>3. CASE Submit(b)
    BY <1>2, <1>3, <2>3 DEF Submit, Admit, Refuse, statsVars, sensorVars
  <2>4. CASE CountSample(b)
    BY <1>3, <2>4 DEF CountSample, CountAdmitted, StatsAccepted, sensorVars
  <2>5. CASE RecordSuccess(b) \/ RecordFailure(b)
    BY <1>2, <2>5 DEF RecordSuccess, RecordFailure
  <2> QED BY <2>1, <2>2, <2>3, <2>4, <2>5 DEF Worker
<1>5. CASE WriterStep
  <2>1. UNCHANGED <<successful, failed, dropped>>
    BY <1>5
    DEF WriterStep, DBWriter, OpenDatabase, WriterFails, WriterTake, Take,
        WriterGetTimesOut, WriterReadsClosed, WriterReadsEmpty, CheckFlush, WriteSamples,
        CountCommitted, StatsCommitted, FlushNothing, CloseDatabase, statsVars, sensorVars
  <2> QED BY <1>3, <2>1
<1>6. CASE StatusStep
  BY <1>3, <1>6 DEF StatusStep, Status, StatusStops, StatusWakes, StatusSnapshot,
                    StatusPublish, StatusFails, statsVars, sensorVars
<1>7. CASE Main
  <2>1. UNCHANGED <<successful, failed, dropped>>
    BY <1>7
    DEF Main, CheckStop, CheckThreads, BeginShutdown, CloseAdmission, Close, JoinWriters,
        RecordShutdown, StatsShutdown, FinalWrite, Exit, SkipSensor, DispatchRead,
        StatsDispatch, JoinWorker, AssessAlive, AssessErrors, statsVars, sensorVars
  <2> QED BY <1>3, <2>1
<1>8. CASE DeadlinePasses \/ RequestStop \/ UNCHANGED vars
  BY <1>3, <1>8 DEF DeadlinePasses, RequestStop, vars, statsVars, sensorVars
<1> QED BY <1>4, <1>5, <1>6, <1>7, <1>8 DEF Next, Exited

\* The counters of the samples only grow and the record is made once.
LEMMA SnapshotGrows ==
  ASSUME TypeOK, ShutdownInv, [Next]_vars
  PROVE  /\ accepted \in Nat /\ committed \in Nat
         /\ accepted <= accepted' /\ committed <= committed'
         /\ shutdown # None => shutdown' = shutdown
<1>1. accepted \in Nat /\ committed \in Nat /\ Len(batch) \in Nat
  BY LenProperties DEF TypeOK, StatsTypeOK, WriterTypeOK
<1>2. ASSUME NEW b \in Buses, Admit(b, NextSample(b)) \/ CountAdmitted(b)
      PROVE  /\ accepted <= accepted' /\ committed <= committed' /\ shutdown' = shutdown
  BY <1>1, <1>2 DEF Admit, CountAdmitted, StatsAccepted, statsVars
<1>3. CASE WriterTake \/ WriteSamples \/ Close
  BY <1>1, <1>3 DEF WriterTake, Take, WriteSamples, Close, statsVars
<1>4. CASE CountCommitted
  BY <1>1, <1>4 DEF CountCommitted, StatsCommitted
<1>5. CASE cpc = "record" /\ StatsShutdown(aliveSeen, errorsSeen)
  BY <1>1, <1>5 DEF StatsShutdown, ShutdownInv, RecordIsFrozen
<1>6. CASE UNCHANGED <<accepted, committed, shutdown>>
  BY <1>1, <1>6
<1> QED BY <1>1, <1>2, <1>3, <1>4, <1>5, <1>6, FlowStep

\* No status has been written at the beginning.
LEMMA FileInit == Init => FileInv
BY DEF Init, StatusInit, MainInit, FileInv, FileInOrder, LastWrite

\* The two writers of the file, and the steps that only move the counters.
LEMMA FileMoves ==
  ASSUME [Next]_vars
  PROVE  \/ StatusStep /\ UNCHANGED <<mainVars, statsVars>>
         \/ FinalWrite
         \/ /\ UNCHANGED <<spc, payload, file, writeFailed>>
            /\ \/ UNCHANGED mainVars
               \/ Main /\ ~FinalWrite
               \/ UNCHANGED <<cpc, aliveSeen>>
<1>1. CASE WriterStep \/ \E b \in Buses : WorkerStep(b)
  BY <1>1 DEF WriterStep, WorkerStep, statusVars, mainVars
<1>2. CASE StatusStep
  BY <1>2 DEF StatusStep, Status, StatusStops, StatusWakes, StatusSnapshot, StatusPublish,
              StatusFails
<1>3. CASE Main
  BY <1>3
  DEF Main, CheckStop, CheckThreads, BeginShutdown, CloseAdmission, JoinWriters,
      RecordShutdown, Exit, SkipSensor, DispatchRead, JoinWorker, AssessAlive, AssessErrors,
      statusVars
<1>4. CASE DeadlinePasses \/ RequestStop \/ UNCHANGED vars
  BY <1>4 DEF DeadlinePasses, RequestStop, vars, statusVars, mainVars
<1> QED BY <1>1, <1>2, <1>3, <1>4 DEF Next, Exited

\* Whoever writes the file, writes a state that is no older than the one in it.
LEMMA FileInOrderStep ==
  ASSUME TypeOK, TypeOK', ShutdownInv, FileInv, [Next]_vars
  PROVE  FileInOrder' /\ (file # None => file' # None /\ Precedes(file, file'))
<1>1. /\ payload \in Payload(Threads) \cup {None} /\ file \in Payload(Threads) \cup {None}
      /\ Snapshot \in Payload(Threads) /\ Snapshot # None
      /\ None \notin Payload(Threads)
  <2>1. payload \in Payload(Threads) \cup {None} /\ file \in Payload(Threads) \cup {None}
    BY DEF TypeOK, StatusTypeOK
  <2>2. None \notin Payload(Threads)
    BY RecordAssumption DEF RecordAssumption
  <2> QED BY <2>1, <2>2, SnapshotType
<1>2. Snapshot' \in Payload(Threads)
  <2>1. /\ accepted' \in Nat /\ committed' \in Nat
        /\ shutdown' \in ShutdownRecord(Threads) \cup {None}
        /\ successful' \in [Sensors -> Nat] /\ failed' \in [Sensors -> Nat]
        /\ dropped' \in [Sensors -> Nat]
    BY DEF TypeOK, StatsTypeOK
  <2> QED BY <2>1 DEF Snapshot, Payload
<1>3. Precedes(Snapshot, Snapshot')
  BY SnapshotGrows, SensorCountersGrow DEF Precedes, Snapshot
<1>4. \A a \in Payload(Threads) : Precedes(a, a)
  BY DEF Precedes, Payload
<1>5. \A a \in Payload(Threads) : Precedes(a, Snapshot) => Precedes(a, Snapshot')
  BY <1>1, <1>2, <1>3, PrecedesTransitive
<1>6. CASE StatusStep /\ UNCHANGED <<mainVars, statsVars>>
  <2>1. Snapshot' = Snapshot
    BY <1>6 DEF statsVars, sensorVars, Snapshot
  <2>2. CASE StatusStops \/ StatusWakes
    BY <1>1, <1>4, <2>1, <2>2 DEF StatusStops, StatusWakes, FileInv, FileInOrder
  <2>3. CASE StatusSnapshot
    BY <1>1, <1>4, <2>1, <2>3 DEF StatusSnapshot, FileInv, FileInOrder
  <2>4. CASE StatusPublish
    BY <1>1, <1>4, <2>1, <2>4 DEF StatusPublish, FileInv, FileInOrder
  <2>5. CASE StatusFails
    BY <1>1, <1>4, <2>1, <2>5 DEF StatusFails, FileInv, FileInOrder
  <2> QED BY <1>6, <2>2, <2>3, <2>4, <2>5 DEF StatusStep, Status
<1>7. CASE FinalWrite
  <2>1. Snapshot' = Snapshot
    BY <1>7 DEF FinalWrite, statsVars, sensorVars, Snapshot
  <2>2. UNCHANGED <<spc, payload>>
    BY <1>7 DEF FinalWrite
  <2>3. CASE file' = file
    BY <1>1, <1>4, <2>1, <2>2, <2>3 DEF FileInv, FileInOrder
  <2>4. CASE ~IsAlive("status-writer") /\ file' = Snapshot
    <3>1. payload = None
      BY <2>4, CollectorAssumption DEF IsAlive, FileInv, FileInOrder, CollectorAssumption
    <3> QED BY <1>1, <1>4, <2>1, <2>2, <2>4, <3>1 DEF FileInv, FileInOrder
  <2> QED BY <1>7, <2>3, <2>4 DEF FinalWrite
<1>8. CASE UNCHANGED <<spc, payload, file>>
  BY <1>1, <1>4, <1>5, <1>8 DEF FileInv, FileInOrder
<1> QED BY <1>6, <1>7, <1>8, FileMoves

\* The last write is main's, with the record, or fails and leaves a file without it.
LEMMA LastWriteStep ==
  ASSUME TypeOK, ShutdownInv, ThreadsAssessed, FileInv, [Next]_vars
  PROVE  LastWrite'
<1> USE DEF FileInv
<1>1. cpc \in Assessed => "status-writer" \in aliveSeen \/ spc = "dead"
  BY CollectorAssumption DEF ThreadsAssessed, Threads, IsAlive, CollectorAssumption
<1>2. CASE StatusStep /\ UNCHANGED <<mainVars, statsVars>>
  <2>1. spc # "dead" /\ UNCHANGED <<cpc, aliveSeen, writeFailed>>
    BY <1>2 DEF StatusStep, Status, StatusStops, StatusWakes, StatusSnapshot, StatusPublish,
                StatusFails, mainVars
  <2>2. cpc \in Assessed => "status-writer" \in aliveSeen
    BY <1>1, <2>1
  <2>3. cpc \in {"final", "exit", "done"} => "status-writer" \in aliveSeen
    BY <2>2 DEF Assessed
  <2> QED BY <2>1, <2>3 DEF LastWrite
<1>3. CASE FinalWrite
  <2>1. /\ cpc = "final" /\ cpc' = "exit" /\ ~writeFailed /\ UNCHANGED aliveSeen
        /\ shutdown # None /\ Snapshot.shutdown = shutdown /\ Snapshot # None
    <3>1. cpc = "final" /\ cpc' = "exit" /\ UNCHANGED aliveSeen
      BY <1>3 DEF FinalWrite
    <3>2. ~writeFailed
      BY <3>1 DEF LastWrite
    <3>3. shutdown # None /\ Snapshot.shutdown = shutdown
      BY <3>1 DEF ShutdownInv, RecordIsFrozen, Snapshot
    <3>4. Snapshot # None
      BY SnapshotType, RecordAssumption DEF RecordAssumption
    <3> QED BY <3>1, <3>2, <3>3, <3>4
  <2>2. "status-writer" \notin aliveSeen => ~IsAlive("status-writer")
    BY <1>1, <2>1, CollectorAssumption DEF Assessed, IsAlive, CollectorAssumption
  <2>3. CASE IsAlive("status-writer") /\ UNCHANGED <<file, writeFailed>>
    BY <2>1, <2>2, <2>3 DEF LastWrite
  <2>4. CASE file' = Snapshot /\ UNCHANGED writeFailed
    BY <2>1, <2>4 DEF LastWrite
  <2>5. CASE writeFailed' = TRUE /\ UNCHANGED file
    BY <2>1, <2>5 DEF LastWrite
  <2> QED BY <1>3, <2>3, <2>4, <2>5 DEF FinalWrite
<1>4. CASE UNCHANGED <<cpc, aliveSeen, file, writeFailed>>
  BY <1>4 DEF LastWrite
<1>5. CASE Main /\ ~FinalWrite /\ UNCHANGED <<file, writeFailed>>
  <2>1. CASE RecordShutdown
    <3>1. cpc = "record" /\ cpc' = "final" /\ UNCHANGED aliveSeen
      BY <2>1 DEF RecordShutdown
    <3>2. shutdown = None
      BY <3>1 DEF ShutdownInv, RecordIsFrozen
    <3>3. file = None \/ file.shutdown = None
      BY <3>2 DEF FileInOrder, Precedes, Snapshot
    <3> QED BY <1>5, <3>1, <3>3 DEF LastWrite
  <2>2. CASE Exit
    BY <1>5, <2>2 DEF Exit, LastWrite
  <2>3. CASE ~RecordShutdown /\ ~Exit
    <3>1. cpc \notin {"final", "exit", "done"} /\ cpc' \notin {"final", "exit", "done"}
      BY <1>5, <2>3
      DEF Main, CheckStop, CheckThreads, BeginShutdown, CloseAdmission, JoinWriters,
          SkipSensor, DispatchRead, JoinWorker, AssessAlive, AssessErrors
    <3> QED BY <1>5, <3>1 DEF LastWrite
  <2> QED BY <2>1, <2>2, <2>3
<1> QED BY <1>2, <1>3, <1>4, <1>5, FileMoves DEF mainVars

\* The file is in order and the last write is right throughout.
THEOREM FileCorrect == Spec => []FileInv
<1>1. TypeOK /\ TypeOK' /\ ShutdownInv /\ ThreadsAssessed /\ FileInv /\ [Next]_vars => FileInv'
  BY FileInOrderStep, LastWriteStep DEF FileInv
<1> QED BY <1>1, FileInit, TypeCorrect, ShutdownCorrect, AssessmentCorrect, PTL DEF Spec

\* The status file never goes back in time, although two threads write it.
THEOREM StatusIsMonotone == Spec => StatusNeverRegresses
<1>1. TypeOK /\ TypeOK' /\ ShutdownInv /\ FileInv /\ [Next]_vars =>
        [file # None =>
           /\ file' # None
           /\ file.accepted <= file'.accepted
           /\ file.committed <= file'.committed
           /\ \A s \in Sensors : /\ file.successful[s] <= file'.successful[s]
                                 /\ file.failed[s] <= file'.failed[s]
                                 /\ file.dropped[s] <= file'.dropped[s]
           /\ file.shutdown # None => file'.shutdown = file.shutdown]_vars
  BY FileInOrderStep DEF Precedes
<1> QED BY <1>1, TypeCorrect, ShutdownCorrect, FileCorrect, PTL DEF Spec, StatusNeverRegresses

\* The process succeeds exactly when the file it leaves shows a complete shutdown.
THEOREM FileTellsTheExitCode == Spec => []FileAgreesWithExitCode
<1>1. ASSUME TypeOK, ShutdownInv, ThreadsAssessed, FileInv
      PROVE  FileAgreesWithExitCode
  <2> SUFFICES ASSUME cpc = "done"
               PROVE  exitCode = 0 <=> file # None /\ file.shutdown # None /\ file.shutdown.complete
    BY DEF FileAgreesWithExitCode
  <2>1. exitCode = 0 <=> aliveSeen = {} /\ errorsSeen = {} /\ ~writeFailed /\ ~raised
    BY <1>1 DEF ThreadsAssessed
  <2>2. shutdown # None /\ (shutdown.complete <=> aliveSeen = {} /\ errorsSeen = {})
    BY <1>1 DEF ShutdownInv, RecordIsFrozen
  <2>3. file # None /\ file.shutdown # None => file.shutdown = shutdown
    BY <1>1 DEF FileInv, FileInOrder, Precedes, Snapshot
  <2>4. aliveSeen = {} /\ errorsSeen = {} => ~raised
    BY <1>1 DEF ThreadsAssessed, Assessed
  <2>5. aliveSeen = {} => (~writeFailed <=> file # None /\ file.shutdown # None)
    BY <1>1 DEF FileInv, LastWrite
  <2> QED BY <2>1, <2>2, <2>3, <2>4, <2>5
<1> QED BY <1>1, TypeCorrect, ShutdownCorrect, AssessmentCorrect, FileCorrect, PTL

-----------------------------------------------------------------------------
(* Sums.  SumFunction is a fold over a finite set, a recursive function:   *)
(* induction over the sets it visits says what it computes.                *)

\* A set of natural numbers has a least one.
LEMMA LeastNumber ==
  ASSUME NEW T, T \subseteq Nat, T # {}
  PROVE  \E m \in T : \A k \in T : m <= k
<1> DEFINE R == {ss \in Nat \X Nat : ss[1] < ss[2]}
<1>1. IsWellFoundedOn(R, Nat)
  BY NatLessThanWellFounded DEF OpToRel
<1> HIDE DEF R
<1>2. \E x \in T : \A y \in T : ~ (<<y, x>> \in R)
  BY <1>1, WFMin
<1>3. PICK x \in T : \A y \in T : ~ (<<y, x>> \in R)
  BY <1>2
<1>4. \A y \in T : ~ (y < x)
  BY <1>3 DEF R
<1> QED BY <1>4

\* The element that a fold takes out of a set.
OneOf(s) == CHOOSE x \in s : TRUE

\* Without it the set is smaller.
LEMMA OneOfIsIn ==
  ASSUME NEW s, s # {}, IsFiniteSet(s)
  PROVE  /\ OneOf(s) \in s /\ IsFiniteSet(s \ {OneOf(s)})
         /\ Cardinality(s) \in Nat \ {0}
         /\ Cardinality(s \ {OneOf(s)}) = Cardinality(s) - 1
<1>1. OneOf(s) \in s
  BY DEF OneOf
<1>2. Cardinality(s) \in Nat /\ Cardinality(s) # 0
  BY FS_CardinalityType, FS_EmptySet
<1> QED BY <1>1, <1>2, FS_RemoveElement

\* Induction over the sets that a fold visits: what holds of the empty set and is kept
\* when the element the fold takes out is put back holds of every finite set.
LEMMA FoldInduction ==
  ASSUME NEW S, IsFiniteSet(S), NEW P, {} \in P,
         \A s \in SUBSET S : s # {} /\ s \ {OneOf(s)} \in P => s \in P
  PROVE  SUBSET S \subseteq P
<1> DEFINE Bad == {Cardinality(s) : s \in (SUBSET S) \ P}
<1> SUFFICES ASSUME Bad # {} PROVE FALSE
  OBVIOUS
<1>1. \A s \in SUBSET S : IsFiniteSet(s) /\ Cardinality(s) \in Nat
  BY FS_Subset, FS_CardinalityType
<1>2. PICK s \in (SUBSET S) \ P : \A t \in (SUBSET S) \ P : Cardinality(s) <= Cardinality(t)
  <2>1. Bad \subseteq Nat
    BY <1>1
  <2>2. PICK m \in Bad : \A k \in Bad : m <= k
    BY <2>1, LeastNumber
  <2> QED BY <2>2
<1>3. s # {} /\ OneOf(s) \in s /\ Cardinality(s \ {OneOf(s)}) = Cardinality(s) - 1
  BY <1>1, OneOfIsIn
<1>4. s \ {OneOf(s)} \in SUBSET S /\ s \ {OneOf(s)} \notin P
  BY <1>2, <1>3
<1>5. Cardinality(s) <= Cardinality(s) - 1
  BY <1>2, <1>3, <1>4
<1> QED BY <1>1, <1>5

\* sums is the function SumFunction(fun) defines by recursion.
IsSums(fun, sums) ==
  sums = [s \in SUBSET DOMAIN fun |-> IF s = {} THEN 0 ELSE fun[OneOf(s)] + sums[s \ {OneOf(s)}]]

\* There is one: it is built up to one more element at a time.
LEMMA SumsExist ==
  ASSUME NEW fun, IsFiniteSet(DOMAIN fun)
  PROVE  \E sums : IsSums(fun, sums)
<1> DEFINE S == DOMAIN fun
           Small(n) == {s \in SUBSET S : Cardinality(s) <= n}
           Good(n) == \E g : g = [s \in Small(n) |->
                                    IF s = {} THEN 0 ELSE fun[OneOf(s)] + g[s \ {OneOf(s)}]]
           Bad == {n \in Nat : ~Good(n)}
<1>1. ASSUME NEW s \in SUBSET S
      PROVE  /\ IsFiniteSet(s) /\ Cardinality(s) \in Nat /\ Cardinality(s) <= Cardinality(S)
             /\ s # {} => /\ s \ {OneOf(s)} \in SUBSET S
                          /\ Cardinality(s \ {OneOf(s)}) = Cardinality(s) - 1
  BY FS_Subset, FS_CardinalityType, OneOfIsIn
<1>2. Good(0)
  <2> DEFINE g == [s \in Small(0) |-> 0]
  <2>1. \A s \in Small(0) : s = {}
    <3>1. \A n \in Nat : n <= 0 => n = 0
      OBVIOUS
    <3> QED BY <1>1, <3>1, FS_EmptySet
  <2>2. g = [s \in Small(0) |-> IF s = {} THEN 0 ELSE fun[OneOf(s)] + g[s \ {OneOf(s)}]]
    BY <2>1
  <2> QED BY <2>2
<1>3. ASSUME NEW n \in Nat, n # 0, Good(n - 1)
      PROVE  Good(n)
  <2>1. PICK g : g = [s \in Small(n - 1) |->
                        IF s = {} THEN 0 ELSE fun[OneOf(s)] + g[s \ {OneOf(s)}]]
    BY <1>3
  <2> DEFINE h == [s \in Small(n) |-> IF s = {} THEN 0 ELSE fun[OneOf(s)] + g[s \ {OneOf(s)}]]
  <2>2. ASSUME NEW s \in Small(n), s # {}
        PROVE  h[s \ {OneOf(s)}] = g[s \ {OneOf(s)}]
    <3>1. s \ {OneOf(s)} \in Small(n - 1) /\ s \ {OneOf(s)} \in Small(n)
      BY <1>1, <1>3, <2>2
    <3> HIDE DEF Small
    <3> QED BY <2>1, <3>1
  <2>3. h = [s \in Small(n) |-> IF s = {} THEN 0 ELSE fun[OneOf(s)] + h[s \ {OneOf(s)}]]
    BY <2>2
  <2> HIDE DEF h
  <2> QED BY <2>3
<1>4. \A n \in Nat : Good(n)
  <2> HIDE DEF Good
  <2> SUFFICES ASSUME Bad # {} PROVE FALSE
    OBVIOUS
  <2>1. PICK m \in Bad : \A k \in Bad : m <= k
    BY LeastNumber
  <2>2. m # 0 /\ m - 1 \in Nat /\ m - 1 \notin Bad
    BY <1>2, <2>1
  <2> QED BY <1>3, <2>1, <2>2
<1>5. Small(Cardinality(S)) = SUBSET S /\ Cardinality(S) \in Nat
  BY <1>1
<1>6. Good(Cardinality(S))
  BY <1>4, <1>5
<1> QED BY <1>5, <1>6 DEF IsSums

LEMMA SumIsFold ==
  ASSUME NEW fun, IsFiniteSet(DOMAIN fun)
  PROVE \E sums : IsSums(fun, sums) /\ SumFunction(fun) = sums[DOMAIN fun]
<1> DEFINE h == CHOOSE sums : sums = [s \in SUBSET DOMAIN fun |->
             IF s = {} THEN 0 ELSE fun[CHOOSE x \in s : TRUE] + sums[s \ {CHOOSE x \in s : TRUE}]]
<1>1. SumFunction(fun) = h[DOMAIN fun]
  BY DEF SumFunction, SumFunctionOnSet, FoldFunctionOnSet, MapThenFoldSet
<1>2. IsSums(fun, h)
  BY SumsExist DEF IsSums, OneOf
<1> QED BY <1>1, <1>2

\* The sum of natural numbers is one.
LEMMA SumIsNatural ==
  ASSUME NEW S, IsFiniteSet(S), NEW fun \in [S -> Nat]
  PROVE  SumFunction(fun) \in Nat
<1>1. PICK sums : IsSums(fun, sums) /\ SumFunction(fun) = sums[S]
  BY SumIsFold
<1> DEFINE P == {s \in SUBSET S : sums[s] \in Nat}
<1>2. {} \in P
  BY <1>1 DEF IsSums
<1>3. ASSUME NEW s \in SUBSET S, s # {}, s \ {OneOf(s)} \in P
      PROVE  s \in P
  <2>1. fun[OneOf(s)] \in Nat
    BY <1>3 DEF OneOf
  <2>2. sums[s] = fun[OneOf(s)] + sums[s \ {OneOf(s)}]
    BY <1>1, <1>3 DEF IsSums
  <2> QED BY <1>3, <2>1, <2>2
<1> HIDE DEF P
<1>4. SUBSET S \subseteq P
  BY <1>2, <1>3, FoldInduction
<1> QED BY <1>1, <1>4 DEF P

\* The sum of nothing but zeros is zero.
LEMMA SumOfZeros ==
  ASSUME NEW S, IsFiniteSet(S)
  PROVE  SumFunction([x \in S |-> 0]) = 0
<1> DEFINE fun == [x \in S |-> 0]
<1>1. PICK sums : IsSums(fun, sums) /\ SumFunction(fun) = sums[S]
  BY SumIsFold
<1> DEFINE P == {s \in SUBSET S : sums[s] = 0}
<1>2. {} \in P
  BY <1>1 DEF IsSums
<1>3. ASSUME NEW s \in SUBSET S, s # {}, s \ {OneOf(s)} \in P
      PROVE  s \in P
  <2>1. fun[OneOf(s)] = 0
    BY <1>3 DEF OneOf
  <2>2. sums[s] = fun[OneOf(s)] + sums[s \ {OneOf(s)}]
    BY <1>1, <1>3 DEF IsSums
  <2> QED BY <1>3, <2>1, <2>2
<1> HIDE DEF P
<1>4. SUBSET S \subseteq P
  BY <1>2, <1>3, FoldInduction
<1> QED BY <1>1, <1>4 DEF P

\* One more in one place is one more in the sum.
LEMMA SumOfOneMore ==
  ASSUME NEW S, IsFiniteSet(S), NEW fun \in [S -> Nat], NEW x \in S
  PROVE  SumFunction([fun EXCEPT ![x] = @ + 1]) = SumFunction(fun) + 1
<1> DEFINE more == [fun EXCEPT ![x] = @ + 1]
<1>1. PICK sums : IsSums(fun, sums) /\ SumFunction(fun) = sums[S]
  BY SumIsFold
<1>2. more \in [S -> Nat] /\ \A y \in S : more[y] = IF y = x THEN fun[y] + 1 ELSE fun[y]
  OBVIOUS
<1> HIDE DEF more
<1>3. PICK plus : IsSums(more, plus) /\ SumFunction(more) = plus[S]
  BY <1>2, SumIsFold
<1> DEFINE P == {s \in SUBSET S : /\ sums[s] \in Nat
                                  /\ plus[s] = IF x \in s THEN sums[s] + 1 ELSE sums[s]}
<1>4. {} \in P
  BY <1>1, <1>2, <1>3 DEF IsSums
<1>5. ASSUME NEW s \in SUBSET S, s # {}, s \ {OneOf(s)} \in P
      PROVE  s \in P
  <2>1. OneOf(s) \in s /\ fun[OneOf(s)] \in Nat
    BY <1>5 DEF OneOf
  <2>2. sums[s] = fun[OneOf(s)] + sums[s \ {OneOf(s)}]
    BY <1>1, <1>5 DEF IsSums
  <2>3. plus[s] = more[OneOf(s)] + plus[s \ {OneOf(s)}]
    BY <1>2, <1>3, <1>5 DEF IsSums
  <2>4. CASE OneOf(s) = x
    BY <1>2, <1>5, <2>1, <2>2, <2>3, <2>4
  <2>5. CASE OneOf(s) # x
    BY <1>2, <1>5, <2>1, <2>2, <2>3, <2>5
  <2> QED BY <2>4, <2>5
<1> HIDE DEF P
<1>6. SUBSET S \subseteq P
  BY <1>4, <1>5, FoldInduction
<1> QED BY <1>1, <1>3, <1>6 DEF P, more

-----------------------------------------------------------------------------
(* The account of the reads. *)

Succeeding == {b \in Buses : At(b, "success")}

\* The steps that count a successful read: submit() refuses its sample, submit() has
\* counted it, success() counts the read.  No other step touches these counters or
\* brings a worker to success() or away from it.
LEMMA ReadMoves ==
  ASSUME TypeOK, [Next]_vars
  PROVE  \/ \E b \in Buses :
              /\ At(b, "submit") /\ Goto(b, "success") /\ StatsDropped(current[b])
         \/ \E b \in Buses :
              /\ At(b, "admitted") /\ Goto(b, "success") /\ StatsAccepted
         \/ \E b \in Buses :
              /\ At(b, "success") /\ Goto(b, "loop") /\ StatsSuccess(current[b])
         \/ /\ UNCHANGED <<successful, dropped, accepted>>
            /\ \A b \in Buses : wpc[b] = "success" <=> wpc'[b] = "success"
<1>1. CASE \E b \in Buses : WorkerStep(b)
  <2>1. PICK b \in Buses : Worker(b)
    BY <1>1 DEF WorkerStep
  <2>2. CASE OpenTransport(b) \/ CheckLoop(b) \/ GetTask(b) \/ GetTimesOut(b) \/ Cleanup(b)
    BY <2>2 DEF OpenTransport, CheckLoop, GetTask, GetTimesOut, Cleanup, At, Goto, TypeOK,
                WorkerTypeOK, statsVars, sensorVars
  <2>3. CASE Initialize(b) \/ ReadReturns(b) \/ ReadRaises(b)
    BY <2>3 DEF Initialize, ReadReturns, ReadRaises, At, Goto, TypeOK, WorkerTypeOK,
                statsVars, sensorVars
  <2>4. CASE Submit(b) /\ Admit(b, NextSample(b)) /\ Goto(b, "admitted")
    BY <2>4 DEF Submit, Admit, At, Goto, TypeOK, WorkerTypeOK, statsVars, sensorVars
  <2>5. CASE Submit(b) /\ Refuse(NextSample(b)) /\ Goto(b, "success")
    BY <2>5 DEF Submit, Refuse, NextSample
  <2>6. CASE CountSample(b)
    BY <2>6 DEF CountSample, CountAdmitted
  <2>7. CASE RecordSuccess(b)
    BY <2>7 DEF RecordSuccess
  <2>8. CASE RecordFailure(b)
    BY <2>8 DEF RecordFailure, StatsFailure, At, Goto, TypeOK, WorkerTypeOK
  <2> QED BY <2>1, <2>2, <2>3, <2>4, <2>5, <2>6, <2>7, <2>8 DEF Worker, Submit
<1>2. CASE WriterStep
  <2>1. UNCHANGED wpc
    BY <1>2 DEF WriterStep, workerVars
  <2>2. UNCHANGED <<successful, dropped, accepted>>
    BY <1>2
    DEF WriterStep, DBWriter, OpenDatabase, WriterFails, WriterTake, Take,
        WriterGetTimesOut, WriterReadsClosed, WriterReadsEmpty, CheckFlush, WriteSamples,
        CountCommitted, StatsCommitted, FlushNothing, CloseDatabase, statsVars, sensorVars
  <2> QED BY <2>1, <2>2
<1>3. CASE StatusStep
  BY <1>3 DEF StatusStep, Status, StatusStops, StatusWakes, StatusSnapshot,
              StatusPublish, StatusFails, workerVars, statsVars, sensorVars
<1>4. CASE Main
  <2>1. CASE CheckStop \/ CheckThreads \/ JoinWriters \/ FinalWrite \/ Exit
    BY <2>1 DEF CheckStop, CheckThreads, JoinWriters, FinalWrite, Exit, workerVars,
                statsVars, sensorVars
  <2>2. CASE CloseAdmission \/ RecordShutdown \/ BeginShutdown
    BY <2>2 DEF CloseAdmission, Close, RecordShutdown, StatsShutdown, BeginShutdown,
                workerVars, statsVars, sensorVars
  <2>3. CASE \/ \E s \in Sensors : SkipSensor(s) \/ DispatchRead(s)
             \/ \E b \in Buses : JoinWorker(b)
             \/ \E t \in Threads : AssessAlive(t) \/ AssessErrors(t)
    BY <2>3 DEF SkipSensor, DispatchRead, StatsDispatch, JoinWorker, AssessAlive,
                AssessErrors, workerVars, statsVars, sensorVars
  <2> QED BY <1>4, <2>1, <2>2, <2>3 DEF Main
<1>5. CASE DeadlinePasses \/ RequestStop \/ UNCHANGED vars
  BY <1>5 DEF DeadlinePasses, RequestStop, vars, workerVars, statsVars, sensorVars
<1> QED BY <1>1, <1>2, <1>3, <1>4, <1>5 DEF Next, Exited

LEMMA ReadsStep ==
  ASSUME TypeOK, ReadsAccounted, [Next]_vars
  PROVE  ReadsAccounted'
<1> DEFINE reads == SumFunction(successful)
           drops == SumFunction(dropped)
<1>1. /\ successful \in [Sensors -> Nat] /\ dropped \in [Sensors -> Nat] /\ accepted \in Nat
      /\ wpc \in [Buses -> WorkerPC]
      /\ \A b \in Buses : wpc[b] \in Busy => current[b] \in Sensors
  BY DEF TypeOK, StatsTypeOK, WorkerTypeOK
<1>2. reads \in Nat /\ drops \in Nat
  BY <1>1, FiniteAssumption, SumIsNatural
<1>3. IsFiniteSet(Succeeding) /\ Cardinality(Succeeding) \in Nat
  BY FiniteAssumption, FS_Subset, FS_CardinalityType DEF Succeeding
<1>4. reads + Cardinality(Succeeding) = accepted + drops
  BY DEF ReadsAccounted, Succeeding
<1>5. SUFFICES SumFunction(successful') + Cardinality(Succeeding') = accepted' + SumFunction(dropped')
  BY DEF ReadsAccounted, Succeeding
<1>6. ASSUME NEW b \in Buses, ~At(b, "success"), Goto(b, "success")
      PROVE  Cardinality(Succeeding') = Cardinality(Succeeding) + 1
  <2>1. Succeeding' = Succeeding \cup {b} /\ b \notin Succeeding
    BY <1>1, <1>6 DEF Succeeding, At, Goto
  <2> QED BY <1>3, <2>1, FS_AddElement
<1>7. ASSUME NEW b \in Buses, At(b, "success"), Goto(b, "loop")
      PROVE  Cardinality(Succeeding') = Cardinality(Succeeding) - 1
  <2>1. Succeeding' = Succeeding \ {b} /\ b \in Succeeding
    BY <1>1, <1>7 DEF Succeeding, At, Goto
  <2> QED BY <1>3, <2>1, FS_RemoveElement
<1> HIDE DEF reads, drops
<1>8. ASSUME NEW b \in Buses, At(b, "submit"), Goto(b, "success"), StatsDropped(current[b])
      PROVE  SumFunction(successful') + Cardinality(Succeeding') = accepted' + SumFunction(dropped')
  <2>1. current[b] \in Sensors /\ ~At(b, "success")
    BY <1>1, <1>8 DEF At, Busy
  <2>2. UNCHANGED <<successful, accepted>> /\ dropped' = [dropped EXCEPT ![current[b]] = @ + 1]
    BY <1>8 DEF StatsDropped
  <2>3. SumFunction(dropped') = drops + 1 /\ SumFunction(successful') = reads
    BY <1>1, <2>1, <2>2, FiniteAssumption, SumOfOneMore DEF drops, reads
  <2>4. Cardinality(Succeeding') = Cardinality(Succeeding) + 1
    BY <1>6, <1>8, <2>1
  <2> QED BY <1>1, <1>2, <1>3, <1>4, <2>2, <2>3, <2>4
<1>9. ASSUME NEW b \in Buses, At(b, "admitted"), Goto(b, "success"), StatsAccepted
      PROVE  SumFunction(successful') + Cardinality(Succeeding') = accepted' + SumFunction(dropped')
  <2>1. ~At(b, "success")
    BY <1>9 DEF At
  <2>2. UNCHANGED <<successful, dropped>> /\ accepted' = accepted + 1
    BY <1>9 DEF StatsAccepted, sensorVars
  <2>3. SumFunction(dropped') = drops /\ SumFunction(successful') = reads
    BY <2>2 DEF drops, reads
  <2>4. Cardinality(Succeeding') = Cardinality(Succeeding) + 1
    BY <1>6, <1>9, <2>1
  <2> QED BY <1>1, <1>2, <1>3, <1>4, <2>2, <2>3, <2>4
<1>10. ASSUME NEW b \in Buses, At(b, "success"), Goto(b, "loop"), StatsSuccess(current[b])
       PROVE  SumFunction(successful') + Cardinality(Succeeding') = accepted' + SumFunction(dropped')
  <2>1. current[b] \in Sensors
    BY <1>1, <1>10 DEF At, Busy
  <2>2. UNCHANGED <<dropped, accepted>> /\ successful' = [successful EXCEPT ![current[b]] = @ + 1]
    BY <1>10 DEF StatsSuccess
  <2>3. SumFunction(successful') = reads + 1 /\ SumFunction(dropped') = drops
    BY <1>1, <2>1, <2>2, FiniteAssumption, SumOfOneMore DEF drops, reads
  <2>4. Cardinality(Succeeding') = Cardinality(Succeeding) - 1
    BY <1>7, <1>10
  <2> QED BY <1>1, <1>2, <1>3, <1>4, <2>2, <2>3, <2>4
<1>11. CASE /\ UNCHANGED <<successful, dropped, accepted>>
            /\ \A b \in Buses : wpc[b] = "success" <=> wpc'[b] = "success"
  <2>1. Succeeding' = Succeeding
    BY <1>11 DEF Succeeding, At
  <2> QED BY <1>4, <1>11, <2>1 DEF reads, drops
<1> QED BY <1>8, <1>9, <1>10, <1>11, ReadMoves

LEMMA ReadsInit == Init => ReadsAccounted
<1> SUFFICES ASSUME Init PROVE ReadsAccounted
  OBVIOUS
<1>1. SumFunction(successful) = 0 /\ SumFunction(dropped) = 0 /\ accepted = 0
  BY FiniteAssumption, SumOfZeros DEF Init, StatsInit
<1>2. {b \in Buses : At(b, "success")} = {}
  BY DEF Init, WorkerInit, At
<1>3. Cardinality({}) = 0
  BY FS_EmptySet
<1> QED BY <1>1, <1>2, <1>3 DEF ReadsAccounted

\* Each successful read has given the database one accepted sample, or one is counted
\* as dropped, for any number of sensors and buses (BusWorker.run(),
\* SampleQueue.submit()).
THEOREM ReadsAreAccounted == Spec => []ReadsAccounted
<1>1. Init => TypeOK /\ ReadsAccounted
  BY TypeInit, ReadsInit
<1>2. TypeOK /\ ReadsAccounted /\ [Next]_vars => (TypeOK /\ ReadsAccounted)'
  BY TypeStep, ReadsStep
<1> QED BY <1>1, <1>2, PTL DEF Spec

=============================================================================
