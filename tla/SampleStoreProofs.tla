--------------------------- MODULE SampleStoreProofs ---------------------------
(***************************************************************************)
(* Theorems about SampleStore, for every set of sensors, configurations    *)
(* and releases, any fields the drivers declare, and any number of starts, *)
(* samples and power losses.                                               *)
(*                                                                         *)
(* The main file and the transactions of the log form a chain in which     *)
(* each extends the one before (FileInv); the open connection extends the  *)
(* last of them by the batch it is writing (WorkInv); what the process     *)
(* remembers of its sensors points to their rows (RegisteredInv).          *)
(***************************************************************************)
EXTENDS SampleStore, SequenceTheorems, TLAPS

-----------------------------------------------------------------------------
(* The inductive invariant. *)

FieldSets == {FieldsOf[r][f] : r \in Releases, f \in Fingerprints}

InstanceRow == [sensor : Sensors, fingerprint : Fingerprints, fields : FieldSets, by : Releases]

SampleRow ==
  [instance : Nat,
   read     : [sensor : Sensors, fingerprint : Fingerprints, release : Releases],
   fields   : FieldSets \cup {{}}]

Database == [instances : Seq(InstanceRow), samples : Seq(SampleRow)]

\* The row of a sample refers to the instance it was read with.
Attributed(db, row) ==
  /\ row.instance \in 1 .. Len(db.instances)
  /\ db.instances[row.instance].sensor = row.read.sensor
  /\ db.instances[row.instance].fingerprint = row.read.fingerprint

Whole(row) == row.fields = FieldsOf[row.read.release][row.read.fingerprint]

\* Instances have the fields of the release that registered them.
AsDeclared(row) == row.fields = FieldsOf[row.by][row.fingerprint]

\* The rows of a database fit together, its first n samples are whole.
Sound(db, n) ==
  /\ db \in Database
  /\ \A i \in 1 .. Len(db.instances) : AsDeclared(db.instances[i])
  /\ \A k \in 1 .. Len(db.samples) : Attributed(db, db.samples[k])
  /\ \A k \in 1 .. n : Whole(db.samples[k])

Extends(a, b) == IsPrefix(a.instances, b.instances) /\ IsPrefix(a.samples, b.samples)

\* What a loss of power may leave: the file and the first k transactions.
Durable(k) == IF k = 0 THEN main ELSE wal[k]

FileInv ==
  /\ wal \in Seq(Database)
  /\ \A k \in 0 .. Len(wal) : Sound(Durable(k), Len(Durable(k).samples))
  /\ \A j, k \in 0 .. Len(wal) : j <= k => Extends(Durable(j), Durable(k))
  /\ settled \in Seq(SampleRow) /\ IsPrefix(settled, main.samples)
  /\ powerLosses \in Nat

ProcessInv ==
  /\ mode \in {"off", "register", "registered", "run", "write", "measure"}
  /\ release \in Releases /\ config \in Configurations
  /\ unregistered \subseteq Enabled(config)
  /\ mode \notin {"off", "register"} => unregistered = {}
  /\ batch \in Seq(Enabled(config)) /\ written \in 0 .. Len(batch)
  /\ mode \notin {"write", "measure"} => batch = <<>>
  /\ mode = "measure" => written < Len(batch)

\* The sample whose measurements are still to be inserted.
Unmeasured == IF mode = "measure" THEN 1 ELSE 0

WorkInv ==
  /\ Sound(work, Len(work.samples) - Unmeasured)
  /\ Extends(Committed, work)
  /\ Len(work.samples) = Len(Committed.samples) + written + Unmeasured
  /\ mode = "registered" => work = Committed
  /\ mode = "measure" =>
       work.samples[Len(work.samples)].read =
         [sensor |-> batch[written + 1], fingerprint |-> config[batch[written + 1]],
          release |-> release]

\* What register_sensors() returned for sensor s is a row of its own.
RowIsOwn(s) ==
  LET i == stored[s].instance IN
  /\ i \in 1 .. Len(work.instances)
  /\ work.instances[i].sensor = s /\ work.instances[i].fingerprint = config[s]
  /\ stored[s].fields = work.instances[i].fields

RegisteredInv ==
  /\ DOMAIN stored = Sensors
  /\ mode # "off" => \A s \in Enabled(config) \ unregistered : RowIsOwn(s)

StoreInv == FileInv /\ ProcessInv /\ WorkInv /\ RegisteredInv

-----------------------------------------------------------------------------
(* Prefixes of sequences (IsPrefix of SequencesExt). *)

\* A prefix agrees with the sequence wherever it is defined.
LEMMA PrefixPointwise ==
  ASSUME NEW S, NEW s \in Seq(S), NEW t \in Seq(S)
  PROVE  IsPrefix(s, t) <=> Len(s) <= Len(t) /\ \A i \in 1 .. Len(s) : s[i] = t[i]
  <1> DEFINE p == SubSeq(s, 1, Len(s))
             q == SubSeq(t, 1, Len(s))
  <1>1. Len(s) \in Nat /\ Len(t) \in Nat
    BY LenProperties
  <1>2. p = s
    BY SubSeqFull
  <1>3. ASSUME Len(s) <= Len(t)
        PROVE  /\ q \in Seq(S) /\ Len(q) = Len(s)
               /\ \A i \in 1 .. Len(s) : q[i] = t[i]
    <2>1. \A i \in 1 .. Len(s) : t[i] \in S
      BY <1>1, <1>3, ElementOfSeq
    <2>2. /\ q \in Seq(S)
          /\ Len(q) = IF 1 <= Len(s) THEN Len(s) - 1 + 1 ELSE 0
          /\ \A i \in 1 .. Len(s) - 1 + 1 : q[i] = t[1 + i - 1]
      BY <1>1, <2>1, SubSeqProperties
    <2> QED BY <1>1, <2>2
  <1>4. ASSUME Len(s) <= Len(t), \A i \in 1 .. Len(s) : s[i] = t[i]
        PROVE  s = q
    <2> HIDE DEF q
    <2>1. q \in Seq(S) /\ Len(s) = Len(q) /\ \A i \in 1 .. Len(s) : s[i] = q[i]
      BY <1>3, <1>4
    <2> QED BY <2>1, SeqEqual
  <1> QED BY <1>1, <1>2, <1>3, <1>4 DEF IsPrefix

\* A database extends itself.
LEMMA ExtendsReflexive ==
  ASSUME NEW a \in Database
  PROVE  Extends(a, a)
  <1>1. a.instances \in Seq(InstanceRow) /\ a.samples \in Seq(SampleRow)
    BY DEF Database
  <1>2. Len(a.instances) \in Nat /\ Len(a.samples) \in Nat
    BY <1>1, LenProperties
  <1>3. IsPrefix(a.instances, a.instances)
    BY <1>1, <1>2, PrefixPointwise
  <1>4. IsPrefix(a.samples, a.samples)
    BY <1>1, <1>2, PrefixPointwise
  <1> QED BY <1>3, <1>4 DEF Extends

\* A prefix of a prefix is one.
LEMMA PrefixTransitive ==
  ASSUME NEW S, NEW s \in Seq(S), NEW t \in Seq(S), NEW u \in Seq(S),
         IsPrefix(s, t), IsPrefix(t, u)
  PROVE  IsPrefix(s, u)
  <1>1. Len(s) \in Nat /\ Len(t) \in Nat /\ Len(u) \in Nat
    BY LenProperties
  <1>2. Len(s) <= Len(t) /\ \A i \in 1 .. Len(s) : s[i] = t[i]
    BY PrefixPointwise
  <1>3. Len(t) <= Len(u) /\ \A i \in 1 .. Len(t) : t[i] = u[i]
    BY PrefixPointwise
  <1>4. Len(s) <= Len(u) /\ \A i \in 1 .. Len(s) : s[i] = u[i]
    BY <1>1, <1>2, <1>3
  <1> QED BY <1>4, PrefixPointwise

\* A database extends whatever the one it extends does.
LEMMA ExtendsTransitive ==
  ASSUME NEW a \in Database, NEW b \in Database, NEW c \in Database,
         Extends(a, b), Extends(b, c)
  PROVE  Extends(a, c)
  <1>1. IsPrefix(a.instances, c.instances)
    BY PrefixTransitive DEF Extends, Database
  <1>2. IsPrefix(a.samples, c.samples)
    BY PrefixTransitive DEF Extends, Database
  <1> QED BY <1>1, <1>2 DEF Extends

-----------------------------------------------------------------------------
(* The file and its log. *)

\* What a connection finds is the last of the durable states, and sound.
LEMMA CommittedIsDurable ==
  ASSUME FileInv
  PROVE  /\ Len(wal) \in Nat
         /\ Committed = Durable(Len(wal))
         /\ Committed \in Database
         /\ Sound(Committed, Len(Committed.samples))
         /\ Extends(main, Committed)
  <1>1. Len(wal) \in Nat /\ (wal = <<>> <=> Len(wal) = 0)
    BY LenProperties, EmptySeq DEF FileInv
  <1>2. Committed = Durable(Len(wal))
    BY <1>1 DEF Committed, Durable, Last
  <1>3. Sound(Committed, Len(Committed.samples))
    BY <1>1, <1>2 DEF FileInv
  <1>4. Extends(main, Committed)
    BY <1>1, <1>2 DEF FileInv, Durable
  <1> QED BY <1>1, <1>2, <1>3, <1>4 DEF Sound

\* A commit of a sound database lengthens the chain by it.
LEMMA CommitKeepsFile ==
  ASSUME FileInv, Commit, Sound(work, Len(work.samples)), Extends(Committed, work)
  PROVE  FileInv' /\ Committed' = work
  <1>1. wal' = Append(wal, work) /\ UNCHANGED <<main, work, settled, powerLosses>>
    BY DEF Commit
  <1>2. PICK n \in Nat : n = Len(wal)
    BY CommittedIsDurable
  <1>3. work \in Database /\ wal \in Seq(Database)
    BY DEF Sound, FileInv
  <1>4. /\ wal' \in Seq(Database) /\ Len(wal') = n + 1
        /\ \A i \in 1 .. n : wal'[i] = wal[i]
        /\ wal'[n + 1] = work
    BY <1>1, <1>2, <1>3, AppendProperties
  <1>5. ASSUME NEW k \in 0 .. n
        PROVE  /\ Durable(k)' = Durable(k)
               /\ Sound(Durable(k), Len(Durable(k).samples))
               /\ Extends(Durable(k), work)
    <2>1. Durable(k)' = Durable(k)
      BY <1>1, <1>4 DEF Durable
    <2>2. Sound(Durable(k), Len(Durable(k).samples)) /\ Extends(Durable(k), Committed)
      BY <1>2, CommittedIsDurable DEF FileInv
    <2>3. Extends(Durable(k), work)
      BY <1>3, <2>2, ExtendsTransitive, CommittedIsDurable DEF Sound
    <2> QED BY <2>1, <2>2, <2>3
  <1>6. Durable(n + 1)' = work
    BY <1>4 DEF Durable
  <1>7. ASSUME NEW k \in 0 .. Len(wal')
        PROVE  Sound(Durable(k), Len(Durable(k).samples))'
    <2>1. CASE k = n + 1
      <3>1. Durable(k)' = work
        BY <1>6, <2>1
      <3> QED BY <3>1 DEF Sound, Attributed, Whole, AsDeclared
    <2>2. CASE k \in 0 .. n
      <3>1. Durable(k)' = Durable(k) /\ Sound(Durable(k), Len(Durable(k).samples))
        BY <1>5, <2>2
      <3> QED BY <3>1 DEF Sound, Attributed, Whole, AsDeclared
    <2> QED BY <1>4, <2>1, <2>2
  <1>8. ASSUME NEW j \in 0 .. Len(wal'), NEW k \in 0 .. Len(wal'), j <= k
        PROVE  Extends(Durable(j), Durable(k))'
    <2>1. CASE k = n + 1 /\ j = n + 1
      <3>1. Durable(k)' = work /\ Durable(j)' = work
        BY <1>6, <2>1
      <3> QED BY <1>3, <3>1, ExtendsReflexive DEF Extends
    <2>2. CASE k = n + 1 /\ j \in 0 .. n
      <3>1. Durable(k)' = work /\ Durable(j)' = Durable(j)
        BY <1>5, <1>6, <2>2
      <3> QED BY <1>5, <2>2, <3>1 DEF Extends
    <2>3. CASE k \in 0 .. n /\ j \in 0 .. n
      <3>1. Durable(k)' = Durable(k) /\ Durable(j)' = Durable(j)
        BY <1>5, <2>3
      <3>2. Extends(Durable(j), Durable(k))
        BY <1>2, <1>8, <2>3 DEF FileInv
      <3> QED BY <3>1, <3>2 DEF Extends
    <2> QED BY <1>4, <1>8, <2>1, <2>2, <2>3
  <1>9. FileInv'
    BY <1>1, <1>4, <1>7, <1>8 DEF FileInv
  <1> QED BY <1>4, <1>6, <1>9, CommittedIsDurable DEF Committed, Last

\* A checkpoint folds the chain into the file, which keeps what was settled.
LEMMA CheckpointKeepsFile ==
  ASSUME FileInv, Checkpoint, UNCHANGED powerLosses,
         settled' = settled \/ settled' = Committed.samples
  PROVE  FileInv' /\ Committed' = Committed
  <1>1. main' = Committed /\ wal' = <<>>
    BY DEF Checkpoint
  <1>2. /\ wal' \in Seq(Database) /\ Len(wal') = 0
        /\ Committed \in Database /\ Sound(Committed, Len(Committed.samples))
    BY <1>1, EmptySeq, CommittedIsDurable
  <1>3. ASSUME NEW k \in 0 .. Len(wal')
        PROVE  /\ k = 0 /\ Durable(k)' = Committed
               /\ Sound(Durable(k), Len(Durable(k).samples))'
    <2>1. k = 0 /\ Durable(k)' = Committed
      BY <1>1, <1>2 DEF Durable
    <2> QED BY <1>2, <2>1 DEF Sound, Attributed, Whole, AsDeclared
  <1>4. ASSUME NEW j \in 0 .. Len(wal'), NEW k \in 0 .. Len(wal'), j <= k
        PROVE  Extends(Durable(j), Durable(k))'
    <2>1. Durable(k)' = Committed /\ Durable(j)' = Committed
      BY <1>3
    <2> QED BY <1>2, <2>1, ExtendsReflexive DEF Extends
  <1>5. settled' \in Seq(SampleRow) /\ IsPrefix(settled', main'.samples)
    <2>1. CASE settled' = settled
      <3>1. main \in Database /\ Extends(main, Committed)
        BY <1>2, CommittedIsDurable DEF FileInv, Sound, Durable
      <3>2. IsPrefix(settled, Committed.samples)
        BY <1>2, <3>1, PrefixTransitive DEF FileInv, Extends, Database
      <3> QED BY <1>1, <2>1, <3>2 DEF FileInv
    <2>2. CASE settled' = Committed.samples
      BY <1>1, <1>2, <2>2, ExtendsReflexive DEF Extends, Database
    <2> QED BY <2>1, <2>2
  <1>6. FileInv'
    BY <1>2, <1>3, <1>4, <1>5 DEF FileInv
  <1> QED BY <1>1, <1>6 DEF Committed

\* A loss of power leaves a beginning of the chain.
LEMMA PowerLossKeepsFile ==
  ASSUME FileInv, NEW n \in 0 .. Len(wal), wal' = SubSeq(wal, 1, n),
         powerLosses' = powerLosses + 1, UNCHANGED <<main, settled>>
  PROVE  /\ FileInv' /\ Committed' = Durable(n)
         /\ Extends(Committed', Committed)
  <1>1. Len(wal) \in Nat /\ wal \in Seq(Database)
    BY CommittedIsDurable DEF FileInv
  <1>2. \A i \in 1 .. n : wal[i] \in Database
    BY <1>1, ElementOfSeq
  <1>3. /\ wal' \in Seq(Database) /\ Len(wal') = n
        /\ \A i \in 1 .. n : wal'[i] = wal[i]
    <2>1. /\ wal' \in Seq(Database)
          /\ Len(wal') = IF 1 <= n THEN n - 1 + 1 ELSE 0
          /\ \A i \in 1 .. n - 1 + 1 : wal'[i] = wal[1 + i - 1]
      BY <1>1, <1>2, SubSeqProperties
    <2> QED BY <1>1, <2>1
  <1>4. ASSUME NEW k \in 0 .. n
        PROVE  /\ Durable(k)' = Durable(k)
               /\ Sound(Durable(k), Len(Durable(k).samples))
               /\ k \in 0 .. Len(wal)
    BY <1>1, <1>3 DEF Durable, FileInv
  <1>5. ASSUME NEW k \in 0 .. Len(wal')
        PROVE  Sound(Durable(k), Len(Durable(k).samples))'
    <2>1. Durable(k)' = Durable(k) /\ Sound(Durable(k), Len(Durable(k).samples))
      BY <1>3, <1>4
    <2> QED BY <2>1 DEF Sound, Attributed, Whole, AsDeclared
  <1>6. ASSUME NEW j \in 0 .. Len(wal'), NEW k \in 0 .. Len(wal'), j <= k
        PROVE  Extends(Durable(j), Durable(k))'
    <2>1. Durable(k)' = Durable(k) /\ Durable(j)' = Durable(j)
      BY <1>3, <1>4
    <2>2. Extends(Durable(j), Durable(k))
      BY <1>3, <1>4, <1>6 DEF FileInv
    <2> QED BY <2>1, <2>2 DEF Extends
  <1>7. FileInv'
    BY <1>3, <1>5, <1>6 DEF FileInv
  <1>8. Committed' = Durable(n)
    <2>1. wal' = <<>> <=> n = 0
      BY <1>3, EmptySeq
    <2> QED BY <1>3, <1>4, <2>1 DEF Committed, Durable, Last
  <1>9. Extends(Durable(n), Committed)
    BY <1>1, CommittedIsDurable DEF FileInv
  <1> QED BY <1>7, <1>8, <1>9

\* Everything else leaves the file and the log alone.
LEMMA FileUnchanged ==
  ASSUME FileInv, UNCHANGED fileVars
  PROVE  FileInv' /\ Committed' = Committed
  <1>1. UNCHANGED <<main, wal, settled, powerLosses>>
    BY DEF fileVars
  <1>2. ASSUME NEW k \in 0 .. Len(wal)
        PROVE  Durable(k)' = Durable(k)
    BY <1>1 DEF Durable
  <1>3. ASSUME NEW k \in 0 .. Len(wal')
        PROVE  Sound(Durable(k), Len(Durable(k).samples))'
    <2>1. Durable(k)' = Durable(k) /\ Sound(Durable(k), Len(Durable(k).samples))
      BY <1>1, <1>2 DEF FileInv
    <2> QED BY <2>1 DEF Sound, Attributed, Whole, AsDeclared
  <1>4. ASSUME NEW j \in 0 .. Len(wal'), NEW k \in 0 .. Len(wal'), j <= k
        PROVE  Extends(Durable(j), Durable(k))'
    <2>1. /\ Durable(k)' = Durable(k) /\ Durable(j)' = Durable(j)
          /\ Extends(Durable(j), Durable(k))
      BY <1>1, <1>2, <1>4 DEF FileInv
    <2> QED BY <2>1 DEF Extends
  <1>5. FileInv'
    BY <1>1, <1>3, <1>4 DEF FileInv
  <1> QED BY <1>1, <1>5 DEF Committed

-----------------------------------------------------------------------------
(* What the statements of a transaction do to a sound database. *)

\* INSERT INTO sensor_instance, with its fields (AddInstance).
LEMMA InstanceAdded ==
  ASSUME NEW db, NEW n, Sound(db, n),
         NEW row \in InstanceRow, AsDeclared(row)
  PROVE  LET new == [db EXCEPT !.instances = Append(@, row)]
         IN /\ Sound(new, n) /\ Extends(db, new)
            /\ new.samples = db.samples
            /\ Len(new.instances) = Len(db.instances) + 1
            /\ new.instances[Len(new.instances)] = row
            /\ \A i \in 1 .. Len(db.instances) : new.instances[i] = db.instances[i]
  <1> DEFINE new == [db EXCEPT !.instances = Append(@, row)]
             rows == Append(db.instances, row)
  <1>1. db \in Database /\ db.instances \in Seq(InstanceRow) /\ db.samples \in Seq(SampleRow)
    BY DEF Sound, Database
  <1>2. new.instances = rows /\ new.samples = db.samples
    BY <1>1 DEF Database
  <1>3. /\ rows \in Seq(InstanceRow) /\ Len(rows) = Len(db.instances) + 1
        /\ rows[Len(db.instances) + 1] = row
        /\ \A i \in 1 .. Len(db.instances) : rows[i] = db.instances[i]
        /\ Len(db.instances) \in Nat
    BY <1>1, AppendProperties, LenProperties
  <1>4. new \in Database
    BY <1>1, <1>2, <1>3 DEF Database
  <1> HIDE DEF new, rows
  <1>5. \A i \in 1 .. Len(new.instances) : AsDeclared(new.instances[i])
    BY <1>2, <1>3 DEF Sound
  <1>6. \A k \in 1 .. Len(new.samples) : Attributed(new, new.samples[k])
    BY <1>2, <1>3 DEF Sound, Attributed
  <1>7. Sound(new, n)
    BY <1>2, <1>4, <1>5, <1>6 DEF Sound
  <1>8. IsPrefix(db.instances, new.instances)
    BY <1>1, <1>2, <1>3, PrefixPointwise
  <1>9. IsPrefix(db.samples, new.samples)
    BY <1>1, <1>2, ExtendsReflexive DEF Extends
  <1> QED BY <1>2, <1>3, <1>7, <1>8, <1>9 DEF Extends, new

\* INSERT INTO sample (InsertSample): the measurements are not in yet.
LEMMA SampleAdded ==
  ASSUME NEW db, NEW n \in Int, n <= Len(db.samples), Sound(db, n),
         NEW row \in SampleRow, Attributed(db, row)
  PROVE  LET new == [db EXCEPT !.samples = Append(@, row)]
         IN /\ Sound(new, n) /\ Extends(db, new)
            /\ new.instances = db.instances
            /\ Len(new.samples) = Len(db.samples) + 1
            /\ new.samples[Len(new.samples)] = row
  <1> DEFINE new == [db EXCEPT !.samples = Append(@, row)]
             rows == Append(db.samples, row)
  <1>1. db \in Database /\ db.instances \in Seq(InstanceRow) /\ db.samples \in Seq(SampleRow)
    BY DEF Sound, Database
  <1>2. new.samples = rows /\ new.instances = db.instances
    BY <1>1 DEF Database
  <1>3. /\ rows \in Seq(SampleRow) /\ Len(rows) = Len(db.samples) + 1
        /\ rows[Len(db.samples) + 1] = row
        /\ \A i \in 1 .. Len(db.samples) : rows[i] = db.samples[i]
        /\ Len(db.samples) \in Nat
    BY <1>1, AppendProperties, LenProperties
  <1>4. new \in Database
    BY <1>1, <1>2, <1>3 DEF Database
  <1> HIDE DEF new, rows
  <1>5. ASSUME NEW k \in 1 .. Len(new.samples)
        PROVE  Attributed(new, new.samples[k])
    <2>1. CASE k = Len(db.samples) + 1
      BY <1>2, <1>3, <2>1 DEF Attributed
    <2>2. CASE k \in 1 .. Len(db.samples)
      <3>1. Attributed(db, db.samples[k]) /\ new.samples[k] = db.samples[k]
        BY <1>2, <1>3, <2>2 DEF Sound
      <3> QED BY <1>2, <3>1 DEF Attributed
    <2> QED BY <1>2, <1>3, <2>1, <2>2
  <1>6. \A k \in 1 .. n : Whole(new.samples[k])
    BY <1>2, <1>3 DEF Sound
  <1>7. Sound(new, n)
    BY <1>2, <1>4, <1>5, <1>6 DEF Sound
  <1>8. IsPrefix(db.samples, new.samples)
    BY <1>1, <1>2, <1>3, PrefixPointwise
  <1>9. IsPrefix(db.instances, new.instances)
    BY <1>1, <1>2, ExtendsReflexive DEF Extends
  <1> QED BY <1>2, <1>3, <1>7, <1>8, <1>9 DEF Extends, new

\* INSERT INTO measurement (InsertMeasurements) makes the last sample whole, and
\* touches no sample of a database that this one extends by a sample or more.
LEMMA SampleMeasured ==
  ASSUME NEW db, NEW a \in Database, Extends(a, db),
         Len(a.samples) < Len(db.samples), Sound(db, Len(db.samples) - 1),
         NEW fields \in FieldSets,
         LET row == db.samples[Len(db.samples)]
         IN fields = FieldsOf[row.read.release][row.read.fingerprint]
  PROVE  LET new == [db EXCEPT !.samples[Len(db.samples)].fields = fields]
         IN /\ Sound(new, Len(new.samples)) /\ Extends(a, new)
            /\ Len(new.samples) = Len(db.samples) /\ new.instances = db.instances
  <1> DEFINE last == Len(db.samples)
             new == [db EXCEPT !.samples[last].fields = fields]
             row == [db.samples[last] EXCEPT !.fields = fields]
             rows == [db.samples EXCEPT ![last] = row]
  <1>1. /\ db \in Database /\ db.instances \in Seq(InstanceRow) /\ db.samples \in Seq(SampleRow)
        /\ a.instances \in Seq(InstanceRow) /\ a.samples \in Seq(SampleRow)
    BY DEF Sound, Database
  <1>2. new.samples = rows /\ new.instances = db.instances
    BY <1>1 DEF Database
  <1>3. Len(a.samples) \in Nat /\ last \in Nat
    BY <1>1, LenProperties
  <1>4. last \in 1 .. Len(db.samples)
    BY <1>3
  <1>5. db.samples[last] \in SampleRow
    BY <1>1, <1>4, ElementOfSeq
  <1>6. /\ row \in SampleRow /\ row.fields = fields
        /\ row.instance = db.samples[last].instance /\ row.read = db.samples[last].read
    BY <1>5 DEF SampleRow
  <1> HIDE DEF row
  <1>7. /\ rows \in Seq(SampleRow) /\ Len(rows) = last
        /\ \A j \in 1 .. last : rows[j] = IF j = last THEN row ELSE db.samples[j]
    BY <1>1, <1>4, <1>6, ExceptSeq
  <1>8. new \in Database
    BY <1>1, <1>2, <1>7 DEF Database
  <1> HIDE DEF new, rows
  <1>9. ASSUME NEW k \in 1 .. Len(new.samples)
        PROVE  Attributed(new, new.samples[k])
    <2>1. Attributed(db, db.samples[k])
      BY <1>2, <1>7 DEF Sound
    <2>2. /\ new.samples[k].instance = db.samples[k].instance
          /\ new.samples[k].read = db.samples[k].read
      BY <1>2, <1>6, <1>7
    <2> QED BY <1>2, <2>1, <2>2 DEF Attributed
  <1>10. \A k \in 1 .. Len(new.samples) : Whole(new.samples[k])
    BY <1>2, <1>3, <1>6, <1>7 DEF Sound, Whole
  <1>11. Sound(new, Len(new.samples))
    BY <1>2, <1>8, <1>9, <1>10 DEF Sound
  <1>12. IsPrefix(a.samples, new.samples)
    <2>1. \A i \in 1 .. Len(a.samples) : a.samples[i] = db.samples[i]
      BY <1>1, PrefixPointwise DEF Extends
    <2>2. /\ Len(a.samples) <= Len(new.samples)
          /\ \A i \in 1 .. Len(a.samples) : a.samples[i] = new.samples[i]
      BY <1>2, <1>3, <1>7, <2>1
    <2> QED BY <1>1, <1>2, <1>7, <2>2, PrefixPointwise
  <1> QED BY <1>2, <1>7, <1>11, <1>12 DEF Extends, new

-----------------------------------------------------------------------------
(* The steps of the collector. *)

\* The end of the process leaves what the next connection will find (EndProcess).
LEMMA EndKeepsStore ==
  ASSUME StoreInv, EndProcess, FileInv',
         NEW db, Sound(db, Len(db.samples)), work' = db, Committed' = db
  PROVE  StoreInv'
  <1>1. /\ mode' = "off" /\ config' = NotConfigured /\ unregistered' = {}
        /\ stored' = NotStored /\ batch' = <<>> /\ written' = 0 /\ release' = release
    BY DEF EndProcess
  <1>2. ProcessInv'
    <2>1. config' \in Configurations /\ Enabled(config') = {}
      BY <1>1 DEF Configurations, NotConfigured, Enabled
    <2>2. batch' \in Seq(Enabled(config')) /\ written' \in 0 .. Len(batch')
      BY <1>1, EmptySeq
    <2> QED BY <1>1, <2>1, <2>2 DEF StoreInv, ProcessInv
  <1>3. WorkInv'
    <2>1. db \in Database /\ Len(db.samples) \in Nat
      BY LenProperties DEF Sound, Database
    <2>2. Unmeasured' = 0
      BY <1>1 DEF Unmeasured
    <2>3. Sound(work', Len(work'.samples) - Unmeasured')
      BY <2>1, <2>2
    <2>4. Extends(Committed', work')
      BY <2>1, ExtendsReflexive
    <2> QED BY <1>1, <2>1, <2>2, <2>3, <2>4 DEF WorkInv, Sound, Attributed, Whole, AsDeclared,
                                              Extends
  <1>4. RegisteredInv'
    BY <1>1 DEF RegisteredInv, NotStored
  <1> QED BY <1>2, <1>3, <1>4 DEF StoreInv

\* A start (Start): nothing is registered yet.
LEMMA StartKeepsStore ==
  ASSUME StoreInv, NEW r \in Releases, NEW c \in Configurations, Start(r, c)
  PROVE  StoreInv'
  <1>1. /\ mode = "off" /\ mode' = "register" /\ release' = r /\ config' = c
        /\ unregistered' = Enabled(c)
        /\ UNCHANGED <<fileVars, work, stored, batch, written>>
    BY DEF Start
  <1>2. FileInv' /\ Committed' = Committed
    BY <1>1, FileUnchanged DEF StoreInv
  <1>3. ProcessInv'
    <2>1. batch' = <<>> /\ written' = 0
      BY <1>1, EmptySeq DEF StoreInv, ProcessInv
    <2>2. batch' \in Seq(Enabled(config')) /\ written' \in 0 .. Len(batch')
      BY <2>1, EmptySeq
    <2> QED BY <1>1, <2>1, <2>2 DEF ProcessInv
  <1>4. WorkInv'
    <2>1. Unmeasured' = 0 /\ Unmeasured = 0
      BY <1>1 DEF Unmeasured
    <2> QED BY <1>1, <1>2, <2>1 DEF StoreInv, WorkInv, Sound, Attributed, Whole, AsDeclared,
                                    Extends
  <1>5. RegisteredInv'
    BY <1>1 DEF StoreInv, RegisteredInv
  <1> QED BY <1>2, <1>3, <1>4, <1>5 DEF StoreInv

\* What the row of a sensor that is registered now contains.
LEMMA NewInstanceIsDeclared ==
  ASSUME ProcessInv, NEW s \in Enabled(config)
  PROVE  /\ NewInstance(s) \in InstanceRow /\ AsDeclared(NewInstance(s))
         /\ NewInstance(s).sensor = s /\ NewInstance(s).fingerprint = config[s]
         /\ s \in Sensors /\ config[s] \in Fingerprints
  <1>1. s \in Sensors /\ config[s] \in Fingerprints /\ release \in Releases
    BY DEF ProcessInv, Configurations, Enabled
  <1>2. Declared(s) \in FieldSets
    BY <1>1 DEF Declared, FieldSets
  <1> QED BY <1>1, <1>2 DEF NewInstance, InstanceRow, AsDeclared, Declared

\* A round of register_sensors() (Register): the row that is found or added is the
\* sensor's, and the rows of the others stay where they are.
LEMMA RegisterKeepsStore ==
  ASSUME StoreInv, NEW s \in Sensors, Register(s)
  PROVE  StoreInv'
  <1> DEFINE i == stored'[s].instance
  <1> USE DEF StoreInv
  <1>1. /\ mode = "register" /\ s \in unregistered /\ unregistered' = unregistered \ {s}
        /\ UNCHANGED <<release, config, mode, batch, written>>
        /\ UNCHANGED fileVars
    BY DEF Register, InTransaction, processVars
  <1>2. FileInv' /\ Committed' = Committed
    BY <1>1, FileUnchanged
  <1>3. ProcessInv'
    BY <1>1 DEF ProcessInv
  <1>4. Unmeasured' = 0 /\ Unmeasured = 0
    BY <1>1 DEF Unmeasured
  <1>5. s \in Enabled(config)
    BY <1>1 DEF ProcessInv
  <1>6. /\ Sound(work, Len(work.samples)) /\ work \in Database /\ Extends(Committed, work)
        /\ Len(work.samples) \in Nat /\ Len(work.instances) \in Nat
    <2>1. work \in Database
      BY DEF WorkInv, Sound
    <2>2. Len(work.samples) \in Nat /\ Len(work.instances) \in Nat
      BY <2>1, LenProperties DEF Database
    <2> QED BY <1>4, <2>1, <2>2 DEF WorkInv
  <1>7. stored' = [stored EXCEPT ![s] = [instance |-> i, fields |-> work'.instances[i].fields]]
    BY <1>5 DEF Register, FieldRows, RegisteredInv, Enabled
  <1>8. /\ Sound(work', Len(work'.samples)) /\ Extends(Committed, work')
        /\ work'.samples = work.samples
        /\ Len(work'.instances) \in Nat /\ Len(work.instances) <= Len(work'.instances)
        /\ \A k \in 1 .. Len(work.instances) : work'.instances[k] = work.instances[k]
        /\ i \in 1 .. Len(work'.instances)
        /\ work'.instances[i].sensor = s /\ work'.instances[i].fingerprint = config[s]
    <2>1. CASE InstancesOf(s) # {}
      <3>1. work' = work /\ i \in InstancesOf(s)
        BY <1>5, <2>1 DEF Register, RegisteredInv, Enabled
      <3>2. DOMAIN work.instances = 1 .. Len(work.instances)
        BY <1>6, LenProperties DEF Database
      <3> QED BY <1>6, <3>1, <3>2 DEF InstancesOf
    <2>2. CASE InstancesOf(s) = {}
      <3>1. work' = [work EXCEPT !.instances = Append(@, NewInstance(s))]
        BY <2>2 DEF Register, AddInstance
      <3>2. i = Len(work'.instances)
        BY <1>5, <2>2 DEF Register, RegisteredInv, Enabled
      <3>3. /\ Sound(work', Len(work.samples)) /\ Extends(work, work')
            /\ work'.samples = work.samples
            /\ Len(work'.instances) = Len(work.instances) + 1
            /\ work'.instances[Len(work'.instances)] = NewInstance(s)
            /\ \A k \in 1 .. Len(work.instances) : work'.instances[k] = work.instances[k]
        BY <1>5, <1>6, <3>1, NewInstanceIsDeclared, InstanceAdded
      <3>4. Extends(Committed, work')
        BY <1>6, <3>3, CommittedIsDurable, ExtendsTransitive DEF Sound
      <3> QED BY <1>5, <1>6, <3>2, <3>3, <3>4, NewInstanceIsDeclared
    <2> QED BY <2>1, <2>2
  <1> HIDE DEF i
  <1>9. WorkInv'
    BY <1>1, <1>2, <1>4, <1>6, <1>8 DEF WorkInv, Sound, Attributed, Whole, AsDeclared, Extends
  <1>10. RegisteredInv'
    <2>1. DOMAIN stored' = Sensors
      BY <1>7 DEF RegisteredInv
    <2>2. ASSUME NEW t \in Enabled(config) \ unregistered'
          PROVE  RowIsOwn(t)'
      <3>1. CASE t = s
        BY <1>1, <1>5, <1>7, <1>8, <3>1 DEF RowIsOwn, RegisteredInv, Enabled
      <3>2. CASE t # s
        <4>1. RowIsOwn(t) /\ stored'[t] = stored[t]
          BY <1>1, <1>7, <2>2, <3>2 DEF RegisteredInv, Enabled
        <4> QED BY <1>1, <1>6, <1>8, <4>1 DEF RowIsOwn
      <3> QED BY <3>1, <3>2
    <2> QED BY <1>1, <2>1, <2>2 DEF RegisteredInv
  <1> QED BY <1>2, <1>3, <1>9, <1>10

\* The open connection sees a sound database, which extends what is committed.
LEMMA WorkIsSound ==
  ASSUME StoreInv
  PROVE  /\ work \in Database /\ Committed \in Database
         /\ Len(work.samples) \in Nat /\ Len(work.instances) \in Nat
         /\ Len(Committed.samples) \in Nat
         /\ Extends(Committed, work)
         /\ Sound(Committed, Len(Committed.samples))
         /\ mode # "measure" => Sound(work, Len(work.samples))
  <1>1. work \in Database /\ Extends(Committed, work)
    BY DEF StoreInv, WorkInv, Sound
  <1>2. Committed \in Database /\ Sound(Committed, Len(Committed.samples))
    BY CommittedIsDurable DEF StoreInv
  <1>3. /\ Len(work.samples) \in Nat /\ Len(work.instances) \in Nat
        /\ Len(Committed.samples) \in Nat
    BY <1>1, <1>2, LenProperties DEF Database
  <1>4. ASSUME mode # "measure"
        PROVE  Sound(work, Len(work.samples))
    <2>1. Len(work.samples) - Unmeasured = Len(work.samples)
      BY <1>3, <1>4 DEF Unmeasured
    <2> QED BY <2>1 DEF StoreInv, WorkInv
  <1> QED BY <1>1, <1>2, <1>3, <1>4

\* A step after the registration that adds no instance keeps every row in its place.
LEMMA InstancesKept ==
  ASSUME RegisteredInv, mode # "off", UNCHANGED <<config, unregistered, stored>>,
         work'.instances = work.instances
  PROVE  RegisteredInv'
  <1>1. ASSUME NEW s \in Enabled(config) \ unregistered
        PROVE  RowIsOwn(s)'
    BY DEF RegisteredInv, RowIsOwn
  <1> QED BY <1>1 DEF RegisteredInv

\* The commit of register_sensors() (CommitSensors).
LEMMA CommitSensorsKeepsStore ==
  ASSUME StoreInv, CommitSensors
  PROVE  StoreInv' /\ Committed' = work
  <1>1. /\ mode = "register" /\ unregistered = {} /\ mode' = "registered"
        /\ Commit /\ UNCHANGED <<work, release, config, unregistered, stored, batch, written>>
    BY DEF CommitSensors, Commit, processVars
  <1>2. FileInv' /\ Committed' = work
    BY <1>1, WorkIsSound, CommitKeepsFile DEF StoreInv
  <1>3. ProcessInv'
    BY <1>1 DEF StoreInv, ProcessInv
  <1>4. WorkInv'
    <2>1. Unmeasured' = 0 /\ Unmeasured = 0 /\ written' = 0
      <3>1. batch = <<>>
        BY <1>1 DEF StoreInv, ProcessInv
      <3>2. Len(batch) = 0
        BY <3>1
      <3> QED BY <1>1, <3>2 DEF StoreInv, ProcessInv, Unmeasured
    <2>2. Len(work'.samples) - Unmeasured' = Len(work.samples) /\ work' = work
      BY <1>1, <2>1, WorkIsSound
    <2>3. Sound(work', Len(work'.samples) - Unmeasured')
      BY <1>1, <2>2, WorkIsSound
    <2>4. Extends(Committed', work')
      BY <1>1, <1>2, WorkIsSound, ExtendsReflexive
    <2>5. Len(work'.samples) = Len(Committed'.samples) + written' + Unmeasured'
      BY <1>1, <1>2, <2>1, WorkIsSound
    <2> QED BY <1>1, <1>2, <2>3, <2>4, <2>5 DEF WorkInv, Sound, Attributed, Whole, AsDeclared,
                                               Extends
  <1>5. RegisteredInv'
    BY <1>1, InstancesKept DEF StoreInv
  <1> QED BY <1>2, <1>3, <1>4, <1>5 DEF StoreInv

\* main closes its connection after the commit (CloseRegistration).
LEMMA CloseRegistrationKeepsStore ==
  ASSUME StoreInv, CloseRegistration
  PROVE  StoreInv' /\ Committed' = Committed
  <1>1. /\ mode = "registered" /\ mode' = "run"
        /\ Checkpoint /\ work' = Committed /\ settled' = Committed.samples
        /\ UNCHANGED powerLosses
        /\ UNCHANGED <<release, config, unregistered, stored, batch, written>>
    BY DEF CloseRegistration, CloseConnection, processVars
  <1>2. FileInv' /\ Committed' = Committed
    BY <1>1, CheckpointKeepsFile DEF StoreInv
  <1>3. ProcessInv'
    BY <1>1 DEF StoreInv, ProcessInv
  <1>4. work' = work
    BY <1>1 DEF StoreInv, WorkInv
  <1>5. WorkInv'
    <2>1. Unmeasured' = 0 /\ Unmeasured = 0
      BY <1>1 DEF Unmeasured
    <2> QED BY <1>1, <1>2, <1>4, <2>1 DEF StoreInv, WorkInv, Sound, Attributed, Whole, AsDeclared,
                                          Extends
  <1>6. RegisteredInv'
    BY <1>1, <1>4, InstancesKept DEF StoreInv
  <1> QED BY <1>2, <1>3, <1>5, <1>6 DEF StoreInv

\* A batch is begun (BeginWrite).
LEMMA BeginWriteKeepsStore ==
  ASSUME StoreInv, NEW sensors \in Batches, BeginWrite(sensors)
  PROVE  StoreInv'
  <1>1. /\ mode = "run" /\ mode' = "write" /\ batch' = sensors /\ written' = 0
        /\ UNCHANGED <<release, config, work, unregistered, stored>> /\ UNCHANGED fileVars
    BY DEF BeginWrite, processVars
  <1>2. FileInv' /\ Committed' = Committed
    BY <1>1, FileUnchanged DEF StoreInv
  <1>3. ProcessInv'
    <2>1. sensors \in Seq(Enabled(config)) /\ Len(sensors) \in Nat
      <3>1. PICK n \in 1 .. MaxBatch : sensors \in [1 .. n -> Enabled(config)]
        BY DEF Batches
      <3>2. n \in Nat
        BY StoreAssumption
      <3>3. sensors \in Seq(Enabled(config))
        BY <3>1, <3>2, IsASeq
      <3> QED BY <3>3, LenProperties
    <2> QED BY <1>1, <2>1 DEF StoreInv, ProcessInv
  <1>4. WorkInv'
    <2>1. Unmeasured' = 0 /\ Unmeasured = 0
      BY <1>1 DEF Unmeasured
    <2>2. written = 0
      <3>1. batch = <<>>
        BY <1>1 DEF StoreInv, ProcessInv
      <3>2. Len(batch) = 0
        BY <3>1
      <3> QED BY <3>2 DEF StoreInv, ProcessInv
    <2> QED BY <1>1, <1>2, <2>1, <2>2 DEF StoreInv, WorkInv, Sound, Attributed, Whole, AsDeclared,
                                          Extends
  <1>5. RegisteredInv'
    BY <1>1, InstancesKept DEF StoreInv
  <1> QED BY <1>2, <1>3, <1>4, <1>5 DEF StoreInv

\* The row of a sample goes in (InsertSample): it refers to the instance that was
\* registered for the sensor and the configuration in force.
LEMMA InsertSampleKeepsStore ==
  ASSUME StoreInv, InsertSample
  PROVE  StoreInv'
  <1> DEFINE s == batch[written + 1]
             n == Len(work.samples)
  <1>1. /\ mode = "write" /\ written < Len(batch) /\ mode' = "measure"
        /\ work' = [work EXCEPT !.samples = Append(@, NewSample(s))]
        /\ UNCHANGED <<release, config, unregistered, stored, batch, written>>
        /\ UNCHANGED fileVars
    BY DEF InsertSample, InTransaction, processVars
  <1>2. FileInv' /\ Committed' = Committed
    BY <1>1, FileUnchanged DEF StoreInv
  <1>3. ProcessInv'
    BY <1>1 DEF StoreInv, ProcessInv
  <1>4. s \in Enabled(config) /\ s \in Sensors /\ config[s] \in Fingerprints /\ release \in Releases
    <2>1. written + 1 \in 1 .. Len(batch)
      BY <1>1, LenProperties DEF StoreInv, ProcessInv
    <2>2. s \in Enabled(config)
      BY <2>1, ElementOfSeq DEF StoreInv, ProcessInv
    <2> QED BY <2>2, NewInstanceIsDeclared DEF StoreInv, ProcessInv
  <1>5. RowIsOwn(s)
    BY <1>1, <1>4 DEF StoreInv, RegisteredInv, ProcessInv
  <1> HIDE DEF s
  <1>6. NewSample(s) \in SampleRow
    <2>1. stored[s].instance \in Nat
      BY <1>5, WorkIsSound DEF RowIsOwn
    <2> QED BY <1>4, <2>1 DEF NewSample, SampleRow
  <1>7. Attributed(work, NewSample(s))
    BY <1>5 DEF RowIsOwn, Attributed, NewSample
  <1>8. /\ Sound(work', n) /\ Extends(work, work')
        /\ work'.instances = work.instances
        /\ Len(work'.samples) = n + 1 /\ work'.samples[Len(work'.samples)] = NewSample(s)
    <2>1. Sound(work, n) /\ n \in Int /\ n <= Len(work.samples)
      BY <1>1, WorkIsSound
    <2> QED BY <1>1, <1>6, <1>7, <2>1, SampleAdded
  <1>9. WorkInv'
    <2>1. Unmeasured' = 1 /\ Unmeasured = 0
      BY <1>1 DEF Unmeasured
    <2>2. Len(work'.samples) - Unmeasured' = n
      BY <1>8, <2>1, WorkIsSound
    <2>3. Extends(Committed', work')
      BY <1>2, <1>8, WorkIsSound, ExtendsTransitive DEF Sound
    <2>4. Len(work'.samples) = Len(Committed'.samples) + written' + Unmeasured'
      <3>1. n = Len(Committed.samples) + written
        BY <2>1, WorkIsSound DEF StoreInv, WorkInv, ProcessInv
      <3>2. written \in Int
        BY DEF StoreInv, ProcessInv
      <3> QED BY <1>1, <1>2, <1>8, <2>1, <3>1, <3>2, WorkIsSound
    <2>5. work'.samples[Len(work'.samples)].read =
            [sensor |-> s, fingerprint |-> config[s], release |-> release]
      BY <1>8 DEF NewSample
    <2> QED BY <1>1, <1>8, <2>2, <2>3, <2>4, <2>5 DEF WorkInv, Sound, Attributed, Whole, AsDeclared,
                                                Extends, s
  <1>10. RegisteredInv'
    BY <1>1, <1>8, InstancesKept DEF StoreInv
  <1> QED BY <1>2, <1>3, <1>9, <1>10 DEF StoreInv

\* Its measurements follow (InsertMeasurements): the fields of the driver in force.
LEMMA InsertMeasurementsKeepsStore ==
  ASSUME StoreInv, InsertMeasurements
  PROVE  StoreInv'
  <1> DEFINE s == batch[written + 1]
             n == Len(work.samples)
  <1>1. /\ mode = "measure" /\ mode' = "write" /\ written' = written + 1
        /\ work' = [work EXCEPT !.samples[n].fields = Declared(s)]
        /\ UNCHANGED <<release, config, unregistered, stored, batch>>
        /\ UNCHANGED fileVars
    BY DEF InsertMeasurements, InTransaction, processVars
  <1>2. FileInv' /\ Committed' = Committed
    BY <1>1, FileUnchanged DEF StoreInv
  <1>3. written \in Nat /\ written < Len(batch) /\ Len(batch) \in Nat
    BY <1>1, LenProperties DEF StoreInv, ProcessInv
  <1>4. ProcessInv'
    BY <1>1, <1>3 DEF StoreInv, ProcessInv
  <1>5. s \in Enabled(config) /\ s \in Sensors /\ config[s] \in Fingerprints /\ release \in Releases
    <2>1. written + 1 \in 1 .. Len(batch)
      BY <1>3
    <2>2. s \in Enabled(config)
      BY <2>1, ElementOfSeq DEF StoreInv, ProcessInv
    <2> QED BY <2>2, NewInstanceIsDeclared DEF StoreInv, ProcessInv
  <1>6. Unmeasured' = 0 /\ Unmeasured = 1
    BY <1>1 DEF Unmeasured
  <1>7. n = Len(Committed.samples) + written + 1 /\ n \in Nat /\ Len(Committed.samples) \in Nat
    BY <1>6, WorkIsSound DEF StoreInv, WorkInv
  <1>8. work.samples[n].read =
          [sensor |-> s, fingerprint |-> config[s], release |-> release]
    BY <1>1 DEF StoreInv, WorkInv
  <1>9. Declared(s) \in FieldSets
        /\ Declared(s) = FieldsOf[work.samples[n].read.release][work.samples[n].read.fingerprint]
    BY <1>5, <1>8 DEF Declared, FieldSets
  <1> HIDE DEF s
  <1>10. /\ Sound(work', Len(work'.samples)) /\ Extends(Committed, work')
         /\ Len(work'.samples) = n /\ work'.instances = work.instances
    <2>1. Sound(work, n - 1)
      BY <1>6 DEF StoreInv, WorkInv
    <2>2. Len(Committed.samples) < n
      BY <1>3, <1>7
    <2> QED BY <1>1, <1>9, <2>1, <2>2, WorkIsSound, SampleMeasured
  <1>11. WorkInv'
    <2>1. Len(work'.samples) - Unmeasured' = Len(work'.samples)
      BY <1>6, <1>7, <1>10
    <2>2. Len(work'.samples) = Len(Committed'.samples) + written' + Unmeasured'
      BY <1>1, <1>2, <1>3, <1>6, <1>7, <1>10
    <2> QED BY <1>1, <1>2, <1>10, <2>1, <2>2 DEF WorkInv, Sound, Attributed, Whole, AsDeclared,
                                                Extends
  <1>12. RegisteredInv'
    BY <1>1, <1>10, InstancesKept DEF StoreInv
  <1> QED BY <1>2, <1>4, <1>11, <1>12 DEF StoreInv

\* The transaction of a batch commits (CommitSamples), with one row per sample.
LEMMA CommitSamplesKeepsStore ==
  ASSUME StoreInv, CommitSamples
  PROVE  /\ StoreInv' /\ Committed' = work
         /\ Len(work.samples) = Len(Committed.samples) + Len(batch)
  <1>1. /\ mode = "write" /\ written = Len(batch) /\ mode' = "run"
        /\ batch' = <<>> /\ written' = 0
        /\ Commit /\ UNCHANGED <<work, release, config, unregistered, stored>>
    BY DEF CommitSamples, Commit, processVars
  <1>2. FileInv' /\ Committed' = work
    BY <1>1, WorkIsSound, CommitKeepsFile DEF StoreInv
  <1>3. ProcessInv'
    <2>1. batch' \in Seq(Enabled(config')) /\ written' \in 0 .. Len(batch')
      BY <1>1, EmptySeq
    <2> QED BY <1>1, <2>1 DEF StoreInv, ProcessInv
  <1>4. Unmeasured' = 0 /\ Unmeasured = 0
    BY <1>1 DEF Unmeasured
  <1>5. WorkInv'
    <2>1. Len(work'.samples) - Unmeasured' = Len(work.samples) /\ work' = work
      BY <1>1, <1>4, WorkIsSound
    <2>2. Sound(work', Len(work'.samples) - Unmeasured')
      BY <1>1, <2>1, WorkIsSound
    <2>3. Extends(Committed', work')
      BY <1>1, <1>2, WorkIsSound, ExtendsReflexive
    <2>4. Len(work'.samples) = Len(Committed'.samples) + written' + Unmeasured'
      BY <1>1, <1>2, <1>4, WorkIsSound
    <2> QED BY <1>1, <1>2, <2>2, <2>3, <2>4 DEF WorkInv, Sound, Attributed, Whole, AsDeclared,
                                               Extends
  <1>6. RegisteredInv'
    BY <1>1, InstancesKept DEF StoreInv
  <1>7. Len(work.samples) = Len(Committed.samples) + Len(batch)
    <2>1. Len(batch) \in Nat
      BY LenProperties DEF StoreInv, ProcessInv
    <2>2. Len(work.samples) = Len(Committed.samples) + written + Unmeasured
      BY DEF StoreInv, WorkInv
    <2> QED BY <1>1, <1>4, <2>1, <2>2, WorkIsSound
  <1> QED BY <1>2, <1>3, <1>5, <1>6, <1>7 DEF StoreInv

\* SQLite checkpoints on its own (AutoCheckpoint).
LEMMA AutoCheckpointKeepsStore ==
  ASSUME StoreInv, AutoCheckpoint
  PROVE  StoreInv' /\ Committed' = Committed
  <1>1. /\ mode = "run" /\ Checkpoint
        /\ UNCHANGED <<release, config, work, mode, unregistered, stored, batch, written,
                       settled, powerLosses>>
    BY DEF AutoCheckpoint, processVars
  <1>2. FileInv' /\ Committed' = Committed
    BY <1>1, CheckpointKeepsFile DEF StoreInv
  <1>3. ProcessInv'
    BY <1>1 DEF StoreInv, ProcessInv
  <1>4. WorkInv'
    <2>1. Unmeasured' = Unmeasured
      BY <1>1 DEF Unmeasured
    <2> QED BY <1>1, <1>2, <2>1 DEF StoreInv, WorkInv, Sound, Attributed, Whole, AsDeclared,
                                    Extends
  <1>5. RegisteredInv'
    BY <1>1, InstancesKept DEF StoreInv
  <1> QED BY <1>2, <1>3, <1>4, <1>5 DEF StoreInv

\* The connection is closed and the process ends, in order or on an exception
\* (Stop, FieldIsUnknown): an open transaction is undone.
LEMMA CloseKeepsStore ==
  ASSUME StoreInv, CloseConnection, EndProcess
  PROVE  StoreInv' /\ Committed' = Committed
  <1>1. /\ Checkpoint /\ work' = Committed /\ settled' = Committed.samples
        /\ UNCHANGED powerLosses
    BY DEF CloseConnection
  <1>2. FileInv' /\ Committed' = Committed
    BY <1>1, CheckpointKeepsFile DEF StoreInv
  <1> QED BY <1>1, <1>2, WorkIsSound, EndKeepsStore

\* The process is killed (Kill).
LEMMA KillKeepsStore ==
  ASSUME StoreInv, Kill
  PROVE  StoreInv' /\ Committed' = Committed
  <1>1. work' = Committed /\ EndProcess /\ UNCHANGED fileVars
    BY DEF Kill
  <1>2. FileInv' /\ Committed' = Committed
    BY <1>1, FileUnchanged DEF StoreInv
  <1> QED BY <1>1, <1>2, WorkIsSound, EndKeepsStore

\* The power fails (PowerLoss).
LEMMA PowerLossKeepsStore ==
  ASSUME StoreInv, NEW n \in 0 .. Len(wal), PowerLoss(n)
  PROVE  StoreInv' /\ Extends(Committed', Committed)
  <1>1. /\ wal' = SubSeq(wal, 1, n) /\ work' = Durable(n) /\ EndProcess
        /\ powerLosses' = powerLosses + 1 /\ UNCHANGED <<main, settled>>
    BY DEF PowerLoss, Durable
  <1>2. FileInv' /\ Committed' = Durable(n) /\ Extends(Committed', Committed)
    BY <1>1, PowerLossKeepsFile DEF StoreInv
  <1>3. Sound(Durable(n), Len(Durable(n).samples))
    BY DEF StoreInv, FileInv
  <1> QED BY <1>1, <1>2, <1>3, EndKeepsStore

-----------------------------------------------------------------------------
(* The store's theorems. *)

\* An empty database is sound.
LEMMA StoreStart == StoreInit => StoreInv
  <1> SUFFICES ASSUME StoreInit
               PROVE  StoreInv
    OBVIOUS
  <1> DEFINE empty == [instances |-> <<>>, samples |-> <<>>]
  <1>1. /\ main = empty /\ work = empty /\ Committed = empty
        /\ wal = <<>> /\ Len(wal) = 0 /\ Durable(0) = empty
    BY EmptySeq DEF StoreInit, Committed, Durable
  <1>2. empty \in Database /\ Len(empty.samples) = 0 /\ Len(empty.instances) = 0
    BY EmptySeq DEF Database
  <1>3. Sound(empty, 0) /\ Extends(empty, empty)
    BY <1>2, ExtendsReflexive DEF Sound
  <1> HIDE DEF empty
  <1>4. FileInv
    <2>1. /\ wal \in Seq(Database)
          /\ \A k \in 0 .. Len(wal) : k = 0
      BY <1>1, EmptySeq
    <2>2. \A k \in 0 .. Len(wal) : Sound(Durable(k), Len(Durable(k).samples))
      BY <1>1, <1>2, <1>3, <2>1
    <2>3. \A j, k \in 0 .. Len(wal) : j <= k => Extends(Durable(j), Durable(k))
      BY <1>1, <1>3, <2>1
    <2>4. settled \in Seq(SampleRow) /\ IsPrefix(settled, main.samples) /\ powerLosses \in Nat
      BY <1>1, <1>3, EmptySeq DEF StoreInit, Extends, empty
    <2> QED BY <2>1, <2>2, <2>3, <2>4 DEF FileInv
  <1>5. ProcessInv
    <2>1. config \in Configurations /\ Enabled(config) = {}
      BY DEF StoreInit, Configurations, NotConfigured, Enabled
    <2>2. batch \in Seq(Enabled(config)) /\ written \in 0 .. Len(batch)
      BY EmptySeq DEF StoreInit
    <2> QED BY <2>1, <2>2 DEF StoreInit, ProcessInv
  <1>6. WorkInv
    <2>1. Unmeasured = 0 /\ mode = "off" /\ written = 0
      BY DEF StoreInit, Unmeasured
    <2>2. Len(work.samples) - Unmeasured = 0
      BY <1>1, <1>2, <2>1
    <2> QED BY <1>1, <1>2, <1>3, <2>1, <2>2 DEF WorkInv
  <1>7. RegisteredInv
    BY DEF StoreInit, RegisteredInv, NotStored
  <1> QED BY <1>4, <1>5, <1>6, <1>7 DEF StoreInv

\* Every step of the store keeps the invariant; what a connection finds changes only
\* at the two commits, which add the rows of the transaction, and when the power fails.
LEMMA StoreStep ==
  ASSUME StoreInv, StoreNext
  PROVE  /\ StoreInv'
         /\ \/ Committed' = Committed
            \/ /\ Extends(Committed, Committed')
               /\ Len(Committed'.samples) - Len(Committed.samples) \in {0, Len(batch)}
            \/ powerLosses' = powerLosses + 1 /\ Extends(Committed', Committed)
  <1>1. CASE \E r \in Releases, c \in Configurations : Start(r, c)
    <2>1. PICK r \in Releases, c \in Configurations : Start(r, c)
      BY <1>1
    <2>2. UNCHANGED fileVars
      BY <2>1 DEF Start, fileVars
    <2> QED BY <2>1, <2>2, StartKeepsStore, FileUnchanged DEF StoreInv
  <1>2. CASE \E s \in Sensors : Register(s)
    <2>1. PICK s \in Sensors : Register(s)
      BY <1>2
    <2>2. UNCHANGED fileVars
      BY <2>1 DEF Register, InTransaction
    <2> QED BY <2>1, <2>2, RegisterKeepsStore, FileUnchanged DEF StoreInv
  <1>3. CASE CommitSensors
    <2>1. mode = "register" /\ Unmeasured = 0
      BY <1>3 DEF CommitSensors, Unmeasured
    <2>2. batch = <<>>
      BY <2>1 DEF StoreInv, ProcessInv
    <2>3. Len(batch) = 0
      BY <2>2
    <2>4. written = 0
      BY <2>3 DEF StoreInv, ProcessInv
    <2>5. Len(work.samples) - Len(Committed.samples) = 0
      BY <2>1, <2>4, WorkIsSound DEF StoreInv, WorkInv
    <2> QED BY <1>3, <2>5, CommitSensorsKeepsStore, WorkIsSound
  <1>4. CASE CloseRegistration
    BY <1>4, CloseRegistrationKeepsStore
  <1>5. CASE \E sensors \in Batches : BeginWrite(sensors)
    <2>1. PICK sensors \in Batches : BeginWrite(sensors)
      BY <1>5
    <2>2. UNCHANGED fileVars
      BY <2>1 DEF BeginWrite, fileVars
    <2> QED BY <2>1, <2>2, BeginWriteKeepsStore, FileUnchanged DEF StoreInv
  <1>6. CASE InsertSample
    <2>1. UNCHANGED fileVars
      BY <1>6 DEF InsertSample, InTransaction
    <2> QED BY <1>6, <2>1, InsertSampleKeepsStore, FileUnchanged DEF StoreInv
  <1>7. CASE InsertMeasurements
    <2>1. UNCHANGED fileVars
      BY <1>7 DEF InsertMeasurements, InTransaction
    <2> QED BY <1>7, <2>1, InsertMeasurementsKeepsStore, FileUnchanged DEF StoreInv
  <1>8. CASE FieldIsUnknown
    BY <1>8, CloseKeepsStore DEF FieldIsUnknown
  <1>9. CASE CommitSamples
    <2>1. Len(batch) \in Nat
      BY LenProperties DEF StoreInv, ProcessInv
    <2>2. Len(work.samples) - Len(Committed.samples) = Len(batch)
      BY <1>9, <2>1, CommitSamplesKeepsStore, WorkIsSound
    <2> QED BY <1>9, <2>2, CommitSamplesKeepsStore, WorkIsSound
  <1>10. CASE AutoCheckpoint
    BY <1>10, AutoCheckpointKeepsStore
  <1>11. CASE Stop
    BY <1>11, CloseKeepsStore DEF Stop
  <1>12. CASE Kill
    BY <1>12, KillKeepsStore
  <1>13. CASE \E n \in 0 .. Len(wal) : PowerLoss(n)
    <2>1. PICK n \in 0 .. Len(wal) : PowerLoss(n)
      BY <1>13
    <2>2. powerLosses' = powerLosses + 1
      BY <2>1 DEF PowerLoss
    <2> QED BY <2>1, <2>2, PowerLossKeepsStore
  <1> QED BY <1>1, <1>2, <1>3, <1>4, <1>5, <1>6, <1>7, <1>8, <1>9, <1>10, <1>11, <1>12, <1>13
          DEF StoreNext

\* Nothing changes when no variable does.
LEMMA StoreStutter ==
  ASSUME StoreInv, UNCHANGED storeVars
  PROVE  StoreInv'
  <1>1. /\ UNCHANGED fileVars /\ UNCHANGED <<work, mode, release, config, unregistered, stored>>
        /\ UNCHANGED <<batch, written>>
    BY DEF storeVars, fileVars
  <1>2. FileInv' /\ Committed' = Committed
    BY <1>1, FileUnchanged DEF StoreInv
  <1>3. ProcessInv'
    BY <1>1 DEF StoreInv, ProcessInv
  <1>4. WorkInv'
    <2>1. Unmeasured' = Unmeasured
      BY <1>1 DEF Unmeasured
    <2> QED BY <1>1, <1>2, <2>1 DEF StoreInv, WorkInv, Sound, Attributed, Whole, AsDeclared,
                                    Extends
  <1>5. RegisteredInv'
    BY <1>1 DEF StoreInv, RegisteredInv, RowIsOwn
  <1> QED BY <1>2, <1>3, <1>4, <1>5 DEF StoreInv

\* The file, its log, the open connection and what the process remembers fit together
\* throughout, crashes and power losses included.
THEOREM StoreCorrect == StoreSpec => []StoreInv
  <1>1. StoreInv /\ [StoreNext]_storeVars => StoreInv'
    BY StoreStep, StoreStutter
  <1> QED BY <1>1, StoreStart, PTL DEF StoreSpec

\* Every stored sample belongs to the instance it was read with: register_sensors()
\* tells revisions of a sensor apart, and write_samples() uses the row of the one in force.
THEOREM SamplesAreAttributed == StoreSpec => []SamplesAttributed
  <1>1. StoreInv => SamplesAttributed
    <2> SUFFICES ASSUME StoreInv, NEW n \in DOMAIN Committed.samples
                 PROVE  Attributed(Committed, Committed.samples[n])
      BY DEF SamplesAttributed, Attributed
    <2>1. n \in 1 .. Len(Committed.samples)
      BY WorkIsSound, LenProperties DEF Database
    <2> QED BY <2>1, WorkIsSound DEF Sound
  <1> QED BY <1>1, StoreCorrect, PTL

\* No sample is stored without its measurements, whenever the process or the machine
\* ends: the transaction of write_samples() holds both.
THEOREM SamplesAreWhole == StoreSpec => []SamplesWhole
  <1>1. StoreInv => SamplesWhole
    <2> SUFFICES ASSUME StoreInv, NEW n \in DOMAIN Committed.samples
                 PROVE  Whole(Committed.samples[n])
      BY DEF SamplesWhole, Whole
    <2>1. n \in 1 .. Len(Committed.samples)
      BY WorkIsSound, LenProperties DEF Database
    <2> QED BY <2>1, WorkIsSound DEF Sound
  <1> QED BY <1>1, StoreCorrect, PTL

\* What register_sensors() remembers offers every field that a read returns, unless the
\* instance was registered by a release that declared others.
THEOREM RegisteredSensorsAreStorable == StoreSpec => []RegisteredIsStorable
  <1>1. StoreInv => RegisteredIsStorable
    <2> SUFFICES ASSUME StoreInv, mode # "off", NEW s \in Enabled(config) \ unregistered
                 PROVE  LET row == work.instances[stored[s].instance] IN
                        /\ row.sensor = s /\ row.fingerprint = config[s]
                        /\ \/ Declared(s) \subseteq stored[s].fields
                           \/ FieldsOf[row.by][config[s]] # Declared(s)
      BY DEF RegisteredIsStorable
    <2> DEFINE row == work.instances[stored[s].instance]
    <2>1. RowIsOwn(s)
      BY DEF StoreInv, RegisteredInv
    <2>2. row.fields = FieldsOf[row.by][row.fingerprint]
      BY <2>1 DEF StoreInv, WorkInv, Sound, RowIsOwn, AsDeclared
    <2> QED BY <2>1, <2>2 DEF RowIsOwn
  <1> QED BY <1>1, StoreCorrect, PTL

\* What was in the database when a connection was last closed stays in the file itself.
THEOREM SettledStaysInTheFile == StoreSpec => []SettledIsInTheFile
  <1>1. StoreInv => SettledIsInTheFile
    BY DEF StoreInv, FileInv, SettledIsInTheFile
  <1> QED BY <1>1, StoreCorrect, PTL

\* Nothing recorded is altered, and only a loss of power takes the last rows away: no
\* start, configuration, write, kill or failure does.
THEOREM HistoryGrows == StoreSpec => HistoryOnlyGrows
  <1>1. StoreInv /\ [StoreNext]_storeVars =>
          [LET before == Committed
               after == Committed'
               grows(a, b) == IsPrefix(a.instances, b.instances) /\ IsPrefix(a.samples, b.samples)
           IN grows(before, after) \/ (powerLosses' # powerLosses /\ grows(after, before))]_storeVars
    <2> SUFFICES ASSUME StoreInv, StoreNext
                 PROVE  \/ Extends(Committed, Committed')
                        \/ powerLosses' # powerLosses /\ Extends(Committed', Committed)
      BY DEF Extends
    <2>1. powerLosses \in Nat
      BY DEF StoreInv, FileInv
    <2>2. Extends(Committed, Committed)
      BY WorkIsSound, ExtendsReflexive
    <2> QED BY <2>1, <2>2, StoreStep
  <1> QED BY <1>1, StoreCorrect, PTL DEF StoreSpec, HistoryOnlyGrows

\* The samples of a batch enter the database together or not at all.
THEOREM BatchesAreWritten == StoreSpec => BatchesAreAtomic
  <1>1. StoreInv /\ [StoreNext]_storeVars =>
          [powerLosses' = powerLosses =>
             Len(Committed'.samples) - Len(Committed.samples) \in {0, Len(batch)}]_storeVars
    <2> SUFFICES ASSUME StoreInv, StoreNext, powerLosses' = powerLosses
                 PROVE  Len(Committed'.samples) - Len(Committed.samples) \in {0, Len(batch)}
      OBVIOUS
    <2>1. powerLosses \in Nat
      BY DEF StoreInv, FileInv
    <2>2. Committed' = Committed => Len(Committed'.samples) - Len(Committed.samples) = 0
      BY WorkIsSound
    <2> QED BY <2>1, <2>2, StoreStep
  <1> QED BY <1>1, StoreCorrect, PTL DEF StoreSpec, BatchesAreAtomic

=============================================================================
