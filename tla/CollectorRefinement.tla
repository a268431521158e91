-------------------------- MODULE CollectorRefinement --------------------------
(***************************************************************************)
(* The collector implements SampleDelivery: read through the mapping of    *)
(* CollectorProperties, each of its steps is a step of the abstract        *)
(* specification or a stuttering one.                                      *)
(***************************************************************************)
EXTENDS CollectorProofs

-----------------------------------------------------------------------------
(* Sequences. *)

\* A sequence is the prefix of its concatenation with another.
LEMMA PrefixOfConcat ==
  ASSUME NEW S, NEW s \in Seq(S), NEW t \in Seq(S)
  PROVE  SubSeq(s \o t, 1, Len(s)) = s
<1>1. /\ Len(s) \in Nat /\ Len(t) \in Nat
      /\ \A i \in 1 .. Len(s) : s[i] \in S
  BY LenProperties, ElementOfSeq
<1>2. \A i \in 1 .. Len(s) : (s \o t)[i] = s[i]
  BY <1>1, ConcatProperties
<1>3. \A i \in 1 .. Len(s) : (s \o t)[i] \in S
  BY <1>1, <1>2
<1> DEFINE p == SubSeq(s \o t, 1, Len(s))
<1>4. /\ p \in Seq(S)
      /\ Len(p) = IF 1 <= Len(s) THEN Len(s) - 1 + 1 ELSE 0
      /\ \A i \in 1 .. Len(s) - 1 + 1 : p[i] = (s \o t)[1 + i - 1]
  BY <1>1, <1>3, SubSeqProperties
<1>5. Len(p) = Len(s)
  BY <1>1, <1>4
<1>6. \A i \in 1 .. Len(s) : p[i] = s[i]
  <2> SUFFICES ASSUME NEW i \in 1 .. Len(s) PROVE p[i] = s[i]
    OBVIOUS
  <2>1. i \in 1 .. Len(s) - 1 + 1 /\ 1 + i - 1 = i
    BY <1>1
  <2> QED BY <1>2, <1>4, <2>1
<1> QED BY <1>4, <1>5, <1>6, SeqEqual

\* Moving the head of one sequence to the end of another keeps their
\* concatenation.
LEMMA HeadAndTail ==
  ASSUME NEW S, NEW s \in Seq(S), s # <<>>
  PROVE  <<Head(s)>> \o Tail(s) = s
<1>1. /\ Head(s) \in S /\ Tail(s) \in Seq(S) /\ Len(Tail(s)) = Len(s) - 1
      /\ \A i \in 1 .. Len(Tail(s)) : Tail(s)[i] = s[i + 1]
  BY HeadTailProperties
<1>2. Len(s) \in Nat \ {0} /\ Head(s) = s[1]
  BY EmptySeq
<1>3. <<Head(s)>> \in Seq(S) /\ Len(<<Head(s)>>) = 1 /\ <<Head(s)>>[1] = Head(s)
  BY <1>1
<1> DEFINE u == <<Head(s)>> \o Tail(s)
<1>4. /\ u \in Seq(S) /\ Len(u) = 1 + Len(Tail(s))
      /\ \A i \in 1 .. 1 + Len(Tail(s)) :
           u[i] = IF i <= 1 THEN <<Head(s)>>[i] ELSE Tail(s)[i - 1]
  BY <1>1, <1>3, ConcatProperties
<1>5. Len(u) = Len(s)
  BY <1>1, <1>2, <1>4
<1>6. ASSUME NEW i \in 1 .. Len(u)
      PROVE  u[i] = s[i]
  <2>1. CASE i = 1
    BY <1>2, <1>3, <1>4, <2>1
  <2>2. CASE i # 1
    <3>1. /\ i \in 1 .. 1 + Len(Tail(s)) /\ ~(i <= 1)
          /\ i - 1 \in 1 .. Len(Tail(s)) /\ (i - 1) + 1 = i
      BY <1>1, <1>2, <1>4, <2>2
    <3> QED BY <1>1, <1>4, <3>1
  <2> QED BY <2>1, <2>2
<1> QED BY <1>4, <1>5, <1>6, SeqEqual

-----------------------------------------------------------------------------
(* The mapping, step by step. *)

\* The part of the batch that is not in the database yet.
Uncounted == IF dpc = "count" THEN <<>> ELSE batch

\* The samples on their way are a sequence of samples.
LEMMA PipelineType ==
  ASSUME TypeOK
  PROVE  /\ queue \in Seq(Sample) /\ batch \in Seq(Sample) /\ stored \in Seq(Sample)
         /\ Uncounted \in Seq(Sample)
         /\ stored \o Uncounted \in Seq(Sample)
         /\ Pipeline = (stored \o Uncounted) \o queue
         /\ Pipeline \in Seq(Sample)
<1>1. queue \in Seq(Sample) /\ batch \in Seq(Sample) /\ stored \in Seq(Sample)
  BY DEF TypeOK, QueueTypeOK, WriterTypeOK
<1>2. Uncounted \in Seq(Sample)
  BY <1>1, EmptySeq DEF Uncounted
<1>3. stored \o Uncounted \in Seq(Sample)
  BY <1>1, <1>2, ConcatProperties
<1>4. Pipeline = (stored \o Uncounted) \o queue
  BY DEF Pipeline, Uncounted
<1> QED BY <1>1, <1>2, <1>3, <1>4, ConcatProperties

\* A put is an Admit of the abstract specification.
LEMMA AdmitMaps ==
  ASSUME TypeOK, NEW b \in Buses, Admit(b, NextSample(b)), NextSample(b) \in Sample,
         UNCHANGED <<dpc, batch, stored>>
  PROVE  Delivery!Admit
<1> DEFINE x == NextSample(b)
           front == stored \o Uncounted
<1>1. /\ queue \in Seq(Sample) /\ front \in Seq(Sample)
      /\ Pipeline = front \o queue /\ Pipeline \in Seq(Sample)
  BY PipelineType
<1>2. <<x>> \in Seq(Sample) /\ Len(<<x>>) = 1
  OBVIOUS
<1>3. queue' = queue \o <<x>>
  BY <1>1, AppendIsConcat DEF Admit
<1>4. Pipeline' = front \o queue'
  BY DEF Pipeline, Uncounted
<1>5. Pipeline' = Pipeline \o <<x>>
  <2> HIDE DEF x, front
  <2>1. (front \o queue) \o <<x>> = front \o (queue \o <<x>>)
    BY <1>1, <1>2, ConcatAssociative
  <2> QED BY <1>1, <1>3, <1>4, <2>1
<1>6. Pipeline' \in Seq(Sample) /\ Len(Pipeline') = Len(Pipeline) + 1
  BY <1>1, <1>2, <1>5, ConcatProperties
<1>7. SubSeq(Pipeline', 1, Len(Pipeline)) = Pipeline
  BY <1>1, <1>2, <1>5, PrefixOfConcat
<1>8. ~closed /\ UNCHANGED <<closed, shutdown>>
  BY DEF Admit, statsVars
<1> QED BY <1>6, <1>7, <1>8 DEF Delivery!Admit

\* Taking a sample into the batch is a stutter.
LEMMA TakeMaps ==
  ASSUME TypeOK, WriterTake
  PROVE  UNCHANGED Pipeline
<1> DEFINE h == Head(queue)
<1>1. /\ queue \in Seq(Sample) /\ batch \in Seq(Sample) /\ stored \in Seq(Sample)
      /\ queue # <<>>
  BY PipelineType DEF WriterTake, Take
<1>2. h \in Sample /\ Tail(queue) \in Seq(Sample) /\ <<h>> \in Seq(Sample)
  BY <1>1, HeadTailProperties
<1>3. batch' = batch \o <<h>> /\ queue' = Tail(queue) /\ stored' = stored
  BY <1>1, <1>2, AppendIsConcat DEF WriterTake, Take
<1>4. Pipeline = (stored \o batch) \o queue
  BY DEF WriterTake, Pipeline
<1>5. Pipeline' = (stored \o (batch \o <<h>>)) \o Tail(queue)
  BY <1>3 DEF WriterTake, Pipeline
<1>6. stored \o (batch \o <<h>>) = (stored \o batch) \o <<h>>
  BY <1>1, <1>2, ConcatAssociative
<1>7. stored \o batch \in Seq(Sample)
  BY <1>1, ConcatProperties
<1>8. ((stored \o batch) \o <<h>>) \o Tail(queue)
        = (stored \o batch) \o (<<h>> \o Tail(queue))
  BY <1>2, <1>7, ConcatAssociative
<1>9. <<h>> \o Tail(queue) = queue
  BY <1>1, HeadAndTail
<1> QED BY <1>4, <1>5, <1>6, <1>8, <1>9

\* A transaction is a Commit.
LEMMA WriteMaps ==
  ASSUME TypeOK, WriteSamples
  PROVE  Delivery!Commit
<1> DEFINE n == Len(stored) + Len(batch)
<1>1. /\ queue \in Seq(Sample) /\ batch \in Seq(Sample) /\ stored \in Seq(Sample)
      /\ stored \o batch \in Seq(Sample) /\ batch # <<>>
  BY PipelineType, ConcatProperties DEF WriteSamples
<1>2. stored' = stored \o batch /\ UNCHANGED <<queue, closed, shutdown>>
  BY DEF WriteSamples, queueVars, statsVars
<1>3. Pipeline = stored' \o queue
  BY <1>2 DEF WriteSamples, Pipeline
<1>4. UNCHANGED Pipeline
  <2>1. Pipeline' = (stored' \o <<>>) \o queue
    BY <1>2 DEF WriteSamples, Pipeline
  <2>2. stored' \o <<>> = stored'
    BY <1>1, <1>2, ConcatEmptySeq
  <2> QED BY <1>3, <2>1, <2>2
<1>5. /\ Len(stored) \in Nat /\ Len(batch) \in Nat \ {0} /\ Len(queue) \in Nat
      /\ Len(stored') = n
      /\ Len(Pipeline) = n + Len(queue)
  BY <1>1, <1>2, <1>3, ConcatProperties, LenProperties, EmptySeq
<1>6. n \in Len(stored) + 1 .. Len(Pipeline)
  BY <1>5
<1>7. SubSeq(Pipeline, 1, n) = stored'
  BY <1>1, <1>2, <1>3, <1>5, PrefixOfConcat
<1> QED BY <1>2, <1>4, <1>6, <1>7 DEF Delivery!Commit

\* Counting the batch and clearing it is a stutter.
LEMMA CountMaps ==
  ASSUME TypeOK, CountCommitted
  PROVE  UNCHANGED <<Pipeline, stored, closed, shutdown>>
BY DEF CountCommitted, StatsCommitted, AfterFlush, Pipeline, queueVars

\* Recording the shutdown is a Report, and a complete one keeps its promise.
LEMMA RecordMaps ==
  ASSUME TypeOK, SampleConservation, ShutdownInv, TypeOK', SampleConservation',
         ShutdownInv', cpc = "record", StatsShutdown(aliveSeen, errorsSeen),
         UNCHANGED <<queueVars, dpc, batch, stored>>
  PROVE  Delivery!Report
<1>1. shutdown = None /\ closed
  BY DEF ShutdownInv, RecordIsFrozen, AdmissionShut
<1>2. shutdown' # None /\ shutdown'.complete \in BOOLEAN
  BY RecordIsRecord, RecordAssumption DEF RecordAssumption, ShutdownRecord
<1>3. UNCHANGED <<Pipeline, stored, closed>>
  BY DEF Pipeline, queueVars
<1>4. shutdown'.complete => stored = Pipeline
  <2> SUFFICES ASSUME shutdown'.complete PROVE stored = Pipeline
    OBVIOUS
  <2>1. CompleteMeansStored'
    BY CompleteIsDrained, PTL
  <2>2. queue = <<>> /\ batch = <<>>
    BY <1>2, <2>1 DEF CompleteMeansStored, queueVars
  <2>3. Pipeline = (stored \o <<>>) \o <<>>
    BY <2>2 DEF Pipeline
  <2> QED BY <2>3, PipelineType, ConcatEmptySeq
<1> QED BY <1>1, <1>2, <1>3, <1>4 DEF Delivery!Report

\* Every step of the collector is a step of the abstract specification or a
\* stutter.
LEMMA StepMaps ==
  ASSUME TypeOK, SampleConservation, ShutdownInv, TypeOK', SampleConservation',
         ShutdownInv', [Next]_vars
  PROVE  [Delivery!Next]_(Delivery!deliveryVars)
<1> USE DEF Delivery!Next, Delivery!deliveryVars
<1>1. ASSUME NEW b \in Buses, Admit(b, NextSample(b)), NextSample(b) \in Sample,
             UNCHANGED <<dpc, batch, stored>>
      PROVE  Delivery!Admit
  BY <1>1, AdmitMaps
<1>2. ASSUME NEW b \in Buses, CountAdmitted(b), UNCHANGED <<dpc, batch, stored>>
      PROVE  UNCHANGED Delivery!deliveryVars
  BY <1>2 DEF CountAdmitted, StatsAccepted, Pipeline
<1>3. CASE WriterTake
  BY <1>3, TakeMaps DEF WriterTake, Take, statsVars
<1>4. CASE WriteSamples
  BY <1>4, WriteMaps
<1>5. CASE CountCommitted
  BY <1>5, CountMaps
<1>6. CASE cpc = "close" /\ Close /\ UNCHANGED <<dpc, batch, stored>>
  <2>1. Delivery!CloseAdmission
    BY <1>6 DEF Delivery!CloseAdmission, Close, Pipeline, statsVars, ShutdownInv,
                AdmissionShut
  <2> QED BY <2>1
<1>7. CASE cpc = "record" /\ StatsShutdown(aliveSeen, errorsSeen)
           /\ UNCHANGED <<queueVars, dpc, batch, stored>>
  BY <1>7, RecordMaps
<1>8. CASE /\ UNCHANGED <<accepted, committed, queueVars, batch, stored, shutdown>>
           /\ dpc = "count" <=> dpc' = "count"
  BY <1>8 DEF Pipeline, queueVars
<1> QED BY <1>1, <1>2, <1>3, <1>4, <1>5, <1>6, <1>7, <1>8, FlowStep

\* The initial states map to initial states.
LEMMA InitMaps == Init => Delivery!Init
<1> SUFFICES ASSUME Init PROVE Delivery!Init
  OBVIOUS
<1>1. stored = <<>> /\ batch = <<>> /\ queue = <<>> /\ dpc = "open"
  BY DEF Init, WriterInit, QueueInit
<1>2. Pipeline = <<>>
  BY <1>1, ConcatEmptySeq, EmptySeq DEF Pipeline
<1> QED BY <1>1, <1>2 DEF Delivery!Init, Init, QueueInit, StatsInit

\* The database receives every admitted sample at most once, in the order of
\* admission and batch by batch, and a shutdown reported as complete leaves
\* none out.
THEOREM CollectorDelivers == Spec => ImplementsDelivery
BY InitMaps, StepMaps, ShutdownCorrect, PTL
DEF Spec, ImplementsDelivery, Delivery!Spec

=============================================================================
