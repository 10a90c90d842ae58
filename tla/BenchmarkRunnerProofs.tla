------------------------ MODULE BenchmarkRunnerProofs ------------------------
(***************************************************************************)
(* Proofs about BenchmarkRunner, for every suite, every set of results and *)
(* every order of resumes, reruns and interruptions.  The schedule visits  *)
(* each result file exactly once; the configuration file guards the rows;  *)
(* a published report holds the rows on disk; a run directory implements   *)
(* BenchmarkLedger; and the strategies are compared evenly.                *)
(***************************************************************************)
EXTENDS BenchmarkRunner, Integers, FiniteSetTheorems, TLAPS

-----------------------------------------------------------------------------
(* The schedule.                                                           *)

\* Quotient and remainder.
LEMMA Division ==
    ASSUME NEW a \in Nat, NEW b \in Nat \ {0}
    PROVE  /\ a \div b \in Nat
           /\ a % b \in 0..(b - 1)
           /\ a = b * (a \div b) + (a % b)
OBVIOUS

\* They are what any such decomposition gives.
LEMMA DivisionIsUnique ==
    ASSUME NEW b \in Nat \ {0}, NEW q \in Nat, NEW r \in 0..(b - 1)
    PROVE  (b * q + r) \div b = q /\ (b * q + r) % b = r
OBVIOUS

\* The quotient of a number below a multiple is below the factor.
LEMMA QuotientBelow ==
    ASSUME NEW a \in Nat, NEW b \in Nat \ {0}, NEW q \in Nat, a < b * q
    PROVE  a \div b < q
OBVIOUS

\* Rotated, item by item.
LEMMA RotatedItem ==
    ASSUME NEW k \in 0..(Len(Strategies) - 1), NEW p \in 1..Len(Strategies)
    PROVE  Rotated(k)[p] = IF k + p <= Len(Strategies) THEN Strategies[k + p]
                           ELSE Strategies[k + p - Len(Strategies)]
<1> DEFINE n == Len(Strategies)
           tail == SubSeq(Strategies, k + 1, n)
           head == SubSeq(Strategies, 1, k)
<1>1. n \in Nat \ {0} /\ Strategies \in Seq(STRING)
  BY SuiteAssumption
<1>2. tail \in Seq(STRING) /\ Len(tail) = n - k /\ \A i \in 1..(n - k) : tail[i] = Strategies[k + i]
  BY <1>1
<1>3. head \in Seq(STRING) /\ Len(head) = k /\ \A i \in 1..k : head[i] = Strategies[i]
  BY <1>1
<1> HIDE DEF tail, head
<1>4. CASE k + p <= n
  BY <1>1, <1>2, <1>3, <1>4 DEF Rotated, tail, head
<1>5. CASE k + p > n
  BY <1>1, <1>2, <1>3, <1>5 DEF Rotated, tail, head
<1> QED
  BY <1>1, <1>4, <1>5

\* The indices of the loops over cases and trials, both from 0, the rotation of
\* the strategies and the place in it, at entry o.
CaseOf(o) == ((o - 1) \div Len(Strategies)) \div Trials
TrialOf(o) == ((o - 1) \div Len(Strategies)) % Trials
OffsetOf(o) == (CaseOf(o) + TrialOf(o)) % Len(Strategies)
PlaceOf(o) == (o - 1) % Len(Strategies)

\* The sizes of a suite are positive.
LEMMA Sizes == 
    /\ Len(Cases) \in Nat \ {0}
    /\ Len(Strategies) \in Nat \ {0}
    /\ Trials \in Nat \ {0}
    /\ Planned \in Nat
BY SuiteAssumption DEF Planned

\* The indices of the three nested loops at entry o, and o from them.
LEMMA EntryIndices ==
    ASSUME NEW o \in Ordinals
    PROVE  /\ CaseOf(o) \in 0..(Len(Cases) - 1)
           /\ TrialOf(o) \in 0..(Trials - 1)
           /\ OffsetOf(o) \in 0..(Len(Strategies) - 1)
           /\ PlaceOf(o) \in 0..(Len(Strategies) - 1)
           /\ o = Len(Strategies) * (Trials * CaseOf(o) + TrialOf(o)) + PlaceOf(o) + 1
<1> DEFINE S == Len(Strategies)
           block == (o - 1) \div S
<1>1. S \in Nat \ {0} /\ Len(Cases) \in Nat \ {0} /\ Trials \in Nat \ {0} /\ o \in Nat /\ o - 1 \in Nat
      /\ o - 1 < S * (Trials * Len(Cases))
  <2>1. Len(Cases) * Trials * S = S * (Trials * Len(Cases))
     BY Sizes
  <2> QED BY Sizes, <2>1 DEF Ordinals, Planned
<1>2. Trials * Len(Cases) \in Nat
  BY <1>1
<1> HIDE DEF S
<1>3. block \in Nat /\ block < Trials * Len(Cases) /\ PlaceOf(o) \in 0..(S - 1)
      /\ o - 1 = S * block + PlaceOf(o)
  BY <1>1, <1>2, Division, QuotientBelow DEF PlaceOf, S
<1> HIDE DEF block
<1>4. CaseOf(o) \in Nat /\ CaseOf(o) < Len(Cases) /\ TrialOf(o) \in 0..(Trials - 1)
      /\ block = Trials * CaseOf(o) + TrialOf(o)
  BY <1>1, <1>3, Division, QuotientBelow DEF CaseOf, TrialOf, block, S
<1>5. OffsetOf(o) \in 0..(S - 1)
  <2>1. CaseOf(o) + TrialOf(o) \in Nat
    BY <1>1, <1>4
  <2> QED
    BY <1>1, <2>1, Division DEF OffsetOf, S
<1>6. o = S * (Trials * CaseOf(o) + TrialOf(o)) + PlaceOf(o) + 1
  BY <1>1, <1>3, <1>4
<1>7. CaseOf(o) \in 0..(Len(Cases) - 1)
  BY <1>1, <1>4
<1> QED
  BY <1>3, <1>4, <1>5, <1>6, <1>7 DEF S

\* The file of an entry in terms of the loop indices.
LEMMA PathOfEntry ==
    ASSUME NEW o \in Ordinals
    PROVE  ResultPath(o) = <<Cases[CaseOf(o) + 1], Rotated(OffsetOf(o))[PlaceOf(o) + 1],
                             TrialOf(o) + 1>>
<1>1. CaseOf(o) + (TrialOf(o) + 1) - 1 = CaseOf(o) + TrialOf(o)
  BY EntryIndices
<1>2. schedule[o] = Entry(o)
  BY DEF schedule
<1>3. /\ Entry(o).case = Cases[CaseOf(o) + 1]
      /\ Entry(o).trial = TrialOf(o) + 1
      /\ Entry(o).strategy =
           Rotated((CaseOf(o) + (TrialOf(o) + 1) - 1) % Len(Strategies))[PlaceOf(o) + 1]
  BY DEF Entry, CaseOf, TrialOf, PlaceOf
<1> QED
  BY <1>1, <1>2, <1>3 DEF ResultPath, OffsetOf


\* A rotation of the strategies has each of them exactly once ...
LEMMA RotatedOnce ==
    ASSUME NEW k \in 0..(Len(Strategies) - 1),
           NEW p \in 1..Len(Strategies), NEW q \in 1..Len(Strategies),
           Rotated(k)[p] = Rotated(k)[q]
    PROVE  p = q
<1> DEFINE S == Len(Strategies)
           index(x) == IF k + x <= S THEN k + x ELSE k + x - S
<1>1. S \in Nat
  BY Sizes
<1>2. \A x \in 1..S : index(x) \in 1..S /\ Rotated(k)[x] = Strategies[index(x)]
  BY <1>1, RotatedItem
<1>3. index(p) = index(q)
  <2> HIDE DEF index
  <2>1. index(p) \in 1..S /\ index(q) \in 1..S /\ Strategies[index(p)] = Strategies[index(q)]
    BY <1>2
  <2> QED
    BY <2>1, SuiteAssumption
<1> QED
  BY <1>1, <1>3

\* ... and has them in another place whenever it starts elsewhere.
LEMMA RotatedElsewhere ==
    ASSUME NEW k \in 0..(Len(Strategies) - 1), NEW l \in 0..(Len(Strategies) - 1),
           NEW p \in 1..Len(Strategies), Rotated(k)[p] = Rotated(l)[p]
    PROVE  k = l
<1> DEFINE S == Len(Strategies)
           index(x) == IF x + p <= S THEN x + p ELSE x + p - S
<1>1. S \in Nat
  BY Sizes
<1>2. ASSUME NEW x \in 0..(S - 1)
      PROVE  index(x) \in 1..S /\ Rotated(x)[p] = Strategies[index(x)]
  <2>1. Rotated(x)[p] = IF x + p <= S THEN Strategies[x + p] ELSE Strategies[x + p - S]
    BY RotatedItem
  <2> QED
    BY <1>1, <2>1
<1>3. index(k) = index(l)
  <2> HIDE DEF index
  <2>1. index(k) \in 1..S /\ index(l) \in 1..S /\ Strategies[index(k)] = Strategies[index(l)]
    BY <1>2
  <2> QED
    BY <2>1, SuiteAssumption
<1> QED
  BY <1>1, <1>3

\* Every strategy is somewhere in a rotation.
LEMMA RotatedHas ==
    ASSUME NEW k \in 0..(Len(Strategies) - 1), NEW s \in StrategyIds
    PROVE  \E p \in 1..Len(Strategies) : Rotated(k)[p] = s
<1> DEFINE S == Len(Strategies)
<1>1. PICK j \in 1..S : s = Strategies[j]
  BY DEF StrategyIds
<1> DEFINE p == IF j > k THEN j - k ELSE j - k + S
<1>2. S \in Nat /\ p \in 1..S
  BY Sizes
<1>3. Rotated(k)[p] = s
  <2>1. Rotated(k)[p] = IF k + p <= S THEN Strategies[k + p] ELSE Strategies[k + p - S]
    <3> HIDE DEF p
    <3> QED
      BY <1>2, RotatedItem
  <2>2. IF k + p <= S THEN k + p = j ELSE k + p - S = j
    BY <1>2
  <2> QED
    BY <1>1, <2>1, <2>2
<1> QED
  BY <1>2, <1>3

\* Every strategy is first, second, ... in one of the rotations.
LEMMA RotationWith ==
    ASSUME NEW p \in 1..Len(Strategies), NEW s \in StrategyIds
    PROVE  \E k \in 0..(Len(Strategies) - 1) : Rotated(k)[p] = s
<1> DEFINE S == Len(Strategies)
<1>1. PICK j \in 1..S : s = Strategies[j]
  BY DEF StrategyIds
<1> DEFINE k == IF j >= p THEN j - p ELSE j - p + S
<1>2. S \in Nat /\ k \in 0..(S - 1)
  BY Sizes
<1>3. Rotated(k)[p] = s
  <2>1. Rotated(k)[p] = IF k + p <= S THEN Strategies[k + p] ELSE Strategies[k + p - S]
    <3> HIDE DEF k
    <3> QED
      BY <1>2, RotatedItem
  <2>2. IF k + p <= S THEN k + p = j ELSE k + p - S = j
    BY <1>2
  <2> QED
    BY <1>1, <2>1, <2>2
<1> QED
  BY <1>2, <1>3

\* The entry with given loop indices has these indices.
LEMMA OrdinalAt ==
    ASSUME NEW c \in Nat, NEW t \in 0..(Trials - 1), NEW r \in 0..(Len(Strategies) - 1)
    PROVE  \A o : o = Len(Strategies) * (Trials * c + t) + r + 1 =>
               /\ o \in Nat \ {0}
               /\ CaseOf(o) = c /\ TrialOf(o) = t /\ PlaceOf(o) = r
               /\ (o - 1) \div Len(Strategies) = Trials * c + t
<1> DEFINE S == Len(Strategies)
           block == Trials * c + t
           n == S * block + r
<1>1. S \in Nat \ {0} /\ Trials \in Nat \ {0}
  BY Sizes
<1>2. block \in Nat /\ block \div Trials = c /\ block % Trials = t
  BY <1>1, DivisionIsUnique
<1> HIDE DEF block
<1>3. S * block \in Nat
  BY <1>1, <1>2
<1>4. n \div S = block /\ n % S = r
  BY <1>1, <1>2, DivisionIsUnique
<1> HIDE DEF S
<1>5. n \in Nat /\ (n + 1) - 1 = n /\ n + 1 \in Nat \ {0}
  BY <1>1, <1>3 DEF S
<1> HIDE DEF n
<1>6. CaseOf(n + 1) = c /\ TrialOf(n + 1) = t /\ PlaceOf(n + 1) = r
      /\ ((n + 1) - 1) \div S = block
  BY <1>2, <1>4, <1>5 DEF CaseOf, TrialOf, PlaceOf, S
<1>7. n + 1 = Len(Strategies) * (Trials * c + t) + r + 1
  BY DEF n, S, block
<1> QED
  BY <1>5, <1>6, <1>7 DEF S, block

\* counterbalanced_schedule never repeats an entry: no two entries share a
\* result file, whatever the numbers of cases, trials and strategies.
THEOREM ScheduleNeverRepeats == \A o1, o2 \in Ordinals : ResultPath(o1) = ResultPath(o2) => o1 = o2
<1> SUFFICES ASSUME NEW o1 \in Ordinals, NEW o2 \in Ordinals, ResultPath(o1) = ResultPath(o2)
             PROVE  o1 = o2
  OBVIOUS
<1>1. /\ Cases[CaseOf(o1) + 1] = Cases[CaseOf(o2) + 1]
      /\ Rotated(OffsetOf(o1))[PlaceOf(o1) + 1] = Rotated(OffsetOf(o2))[PlaceOf(o2) + 1]
      /\ TrialOf(o1) + 1 = TrialOf(o2) + 1
  BY PathOfEntry
<1>2. CaseOf(o1) = CaseOf(o2) /\ TrialOf(o1) = TrialOf(o2)
  <2>1. CaseOf(o1) + 1 \in 1..Len(Cases) /\ CaseOf(o2) + 1 \in 1..Len(Cases)
    <3>1. CaseOf(o1) \in 0..(Len(Cases) - 1) /\ CaseOf(o2) \in 0..(Len(Cases) - 1)
      BY EntryIndices
    <3> QED
      BY <3>1, Sizes
  <2>2. CaseOf(o1) + 1 = CaseOf(o2) + 1
    BY <1>1, <2>1, SuiteAssumption
  <2> QED
    BY <1>1, <2>2, EntryIndices, SMTT(30)
<1>3. OffsetOf(o1) = OffsetOf(o2)
  BY <1>2 DEF OffsetOf
<1>4. PlaceOf(o1) = PlaceOf(o2)
  <2>1. /\ OffsetOf(o1) \in 0..(Len(Strategies) - 1)
        /\ PlaceOf(o1) \in 0..(Len(Strategies) - 1) /\ PlaceOf(o2) \in 0..(Len(Strategies) - 1)
    BY EntryIndices
  <2>2. PlaceOf(o1) + 1 \in 1..Len(Strategies) /\ PlaceOf(o2) + 1 \in 1..Len(Strategies)
    BY <2>1, Sizes
  <2>3. PlaceOf(o1) + 1 = PlaceOf(o2) + 1
    BY <1>1, <1>3, <2>1, <2>2, RotatedOnce
  <2> QED
    BY <2>1, <2>3
<1> QED
  BY <1>2, <1>4, EntryIndices

\* It leaves none out: every case is run with every strategy in every trial.
THEOREM ScheduleIsComplete == \A p \in Paths : \E o \in Ordinals : ResultPath(o) = p
<1> DEFINE S == Len(Strategies)
<1> SUFFICES ASSUME NEW p \in Paths PROVE \E o \in Ordinals : ResultPath(o) = p
  OBVIOUS
<1>1. PICK i \in 1..Len(Cases), s \in StrategyIds, u \in 1..Trials : p = <<Cases[i], s, u>>
  BY DEF Paths, CaseIds
<1> DEFINE c == i - 1
           t == u - 1
           k == (c + t) % S
<1>2. S \in Nat \ {0} /\ Len(Cases) \in Nat \ {0} /\ Trials \in Nat \ {0}
      /\ c \in 0..(Len(Cases) - 1) /\ t \in 0..(Trials - 1)
  BY Sizes
<1>3. k \in 0..(S - 1)
  <2>1. c + t \in Nat
    BY <1>2
  <2> QED
    BY <1>2, <2>1, Division
<1>4. PICK q \in 1..S : Rotated(k)[q] = s
  BY <1>3, RotatedHas
<1> DEFINE r == q - 1
           o == S * (Trials * c + t) + r + 1
<1> HIDE DEF S, c, t
<1>5. r \in 0..(S - 1) /\ c \in Nat
  BY <1>2
<1>6. o \in Nat \ {0} /\ CaseOf(o) = c /\ TrialOf(o) = t /\ PlaceOf(o) = r /\ OffsetOf(o) = k
  <2> HIDE DEF r, o, k
  <2>1. o = Len(Strategies) * (Trials * c + t) + r + 1
    BY DEF o, S
  <2>2. o \in Nat \ {0} /\ CaseOf(o) = c /\ TrialOf(o) = t /\ PlaceOf(o) = r
    <3>1. r \in 0..(Len(Strategies) - 1) /\ c \in Nat /\ t \in 0..(Trials - 1)
      BY <1>2, <1>5 DEF S
    <3> QED
      BY <3>1, <2>1, OrdinalAt
  <2> QED
    BY <2>2 DEF OffsetOf, S, k
<1>7. o \in Ordinals
  <2> DEFINE block == Trials * c + t
  <2>1. block \in Nat /\ block + 1 <= Len(Cases) * Trials
    <3>1. Trials * c + Trials <= Len(Cases) * Trials /\ Trials * c \in Nat
      BY <1>2
    <3> QED
      BY <1>2, <3>1
  <2> HIDE DEF block
  <2>2. S * block \in Nat /\ S * (block + 1) <= Len(Cases) * Trials * S
        /\ S * (block + 1) = S * block + S
    BY <1>2, <2>1
  <2> QED
    BY <1>2, <1>5, <1>6, <2>2 DEF Ordinals, Planned, S, block
<1>8. ResultPath(o) = <<Cases[c + 1], Rotated(k)[r + 1], t + 1>>
  <2> HIDE DEF o, r, k
  <2> QED
    BY <1>6, <1>7, PathOfEntry
<1>9. c + 1 = i /\ t + 1 = u /\ r + 1 = q
  BY Sizes DEF c, t
<1> QED
  BY <1>1, <1>4, <1>7, <1>8, <1>9

-----------------------------------------------------------------------------
(* The configuration file guards the rows.                                 *)

\* The steps between _persist_configuration and the end of run().
AtWork == {"open", "loop", "execute", "persist", "record", "report", "close"}

DiskShape ==
    disk = [created |-> disk.created, config |-> disk.config, rows |-> disk.rows,
            state |-> disk.state, report |-> disk.report]

\* What is on disk is whole.
WholeInv ==
    /\ DiskShape
    /\ disk.rows \in [Paths -> Row \union {Absent}]
    /\ disk.config \in [kind : {"config"}, hash : Configs] \union {Absent}

\* Every row was measured under the configuration on file.
RowsInv ==
    \A p \in Paths : disk.rows[p] # Absent =>
        /\ disk.config # Absent
        /\ disk.rows[p].hash = disk.config.hash

\* A process that got past the configuration check agrees with the file, and
\* the row it is about to write agrees with the process.
ProcessInv ==
    /\ pc # "idle" => config \in Configs
    /\ pc = "configure" => disk.config = Absent \/ disk.config.hash = config
    /\ pc \in AtWork => disk.config = [kind |-> "config", hash |-> config]
    /\ pc = "persist" => pending \in Row /\ pending.hash = config

ConfigInv == WholeInv /\ RowsInv /\ ProcessInv

-----------------------------------------------------------------------------

\* The two markers of an unreadable file are no rows and no configurations.
LEMMA MarkersDiffer ==
    /\ Absent \notin Row /\ Torn \notin Row /\ Absent # Torn
    /\ Absent \notin [kind : {"config"}, hash : Configs]
    /\ Torn \notin [kind : {"config"}, hash : Configs]
BY DEF Absent, Torn, Row

\* The row of an executed entry carries the digest of its process.
LEMMA MakeRowHash ==
    ASSUME NEW s \in RowStatus, NEW f \in ProviderFailureKind \union {NoFailure},
           config \in Configs
    PROVE  MakeRow(s, f) \in Row /\ MakeRow(s, f).hash = config
BY DEF MakeRow, Row

\* A step that changes neither file nor moves the process past the check.
LEMMA FilesKept ==
    ASSUME WholeInv, RowsInv, DiskShape', disk'.rows = disk.rows, disk'.config = disk.config
    PROVE  WholeInv' /\ RowsInv'
BY DEF WholeInv, RowsInv

\* A new run directory has no rows and no configuration file.
LEMMA ConfigInit == Init => ConfigInv
<1> SUFFICES ASSUME Init PROVE ConfigInv
  OBVIOUS
<1>1. WholeInv
  BY DEF Init, WholeInv, DiskShape
<1>2. RowsInv
  BY DEF Init, RowsInv
<1>3. ProcessInv
  BY DEF Init, ProcessInv, AtWork
<1> QED
  BY <1>1, <1>2, <1>3 DEF ConfigInv

\* A process that goes leaves the files alone or publishes its state, and keeps
\* nothing of its own.
LEMMA GoneKeeps ==
    ASSUME ConfigInv, Gone, DiskShape', disk'.rows = disk.rows, disk'.config = disk.config
    PROVE  ConfigInv'
<1>1. WholeInv' /\ RowsInv'
  BY FilesKept DEF ConfigInv, WholeInv
<1>2. ProcessInv'
  BY DEF Gone, ProcessInv, AtWork
<1> QED
  BY <1>1, <1>2 DEF ConfigInv

\* The opening of a run: the check, the configuration file, the run state.
LEMMA OpeningStep ==
    ASSUME ConfigInv, Start \/ CheckResumeConfiguration \/ PersistConfiguration \/ OpenRun
    PROVE  ConfigInv'
<1> USE DEF ConfigInv
<1>1. CASE Start
  <2>1. WholeInv' /\ RowsInv'
    BY <1>1, FilesKept DEF Start, WholeInv, DiskShape
  <2>2. ProcessInv'
    BY <1>1 DEF Start, ProcessInv, AtWork
  <2> QED
    BY <2>1, <2>2
<1>2. CASE CheckResumeConfiguration
  <2>1. DiskShape' /\ disk'.rows = disk.rows /\ disk'.config = disk.config
    BY <1>2 DEF CheckResumeConfiguration, WholeInv, DiskShape
  <2>2. CASE Whole(disk.config) /\ disk.config.hash # config
    BY <1>2, <2>1, <2>2, GoneKeeps DEF CheckResumeConfiguration
  <2>3. CASE ~(Whole(disk.config) /\ disk.config.hash # config)
    <3>1. WholeInv' /\ RowsInv'
      BY <2>1, FilesKept
    <3>2. disk.config = Absent \/ disk.config.hash = config
      BY <2>3, MarkersDiffer DEF Whole, WholeInv
    <3>3. ProcessInv'
      BY <1>2, <2>3, <3>2 DEF CheckResumeConfiguration, ProcessInv, AtWork, locals
    <3> QED
      BY <3>1, <3>3
  <2> QED
    BY <2>2, <2>3
<1>3. CASE PersistConfiguration
  <2> DEFINE file == [kind |-> "config", hash |-> config]
  <2>1. file \in [kind : {"config"}, hash : Configs] /\ file.hash = config
    BY <1>3 DEF PersistConfiguration, ProcessInv
  <2>2. disk'.config = file /\ disk'.rows = disk.rows /\ DiskShape'
    BY <1>3 DEF PersistConfiguration, WholeInv, DiskShape
  <2>3. file # Absent
    BY <2>1, MarkersDiffer
  <2>4. disk.config = Absent \/ disk.config.hash = config
    BY <1>3 DEF PersistConfiguration, ProcessInv
  <2>5. WholeInv' /\ RowsInv'
    BY <2>1, <2>2, <2>3, <2>4 DEF WholeInv, RowsInv
  <2>6. ProcessInv'
    BY <1>3, <2>2 DEF PersistConfiguration, ProcessInv, AtWork, locals
  <2> QED
    BY <2>5, <2>6
<1>4. CASE OpenRun
  <2>1. WholeInv' /\ RowsInv'
    BY <1>4, FilesKept DEF OpenRun, WholeInv, DiskShape
  <2>2. ProcessInv'
    BY <1>4 DEF OpenRun, ProcessInv, AtWork, locals, WholeInv, DiskShape
  <2> QED
    BY <2>1, <2>2
<1> QED
  BY <1>1, <1>2, <1>3, <1>4

\* The steps of the loop that only move the process.
LEMMA LoopStep ==
    ASSUME ConfigInv, ResumeRow \/ RecordResult \/ LeaveLoop \/ PersistReport
    PROVE  ConfigInv'
<1> USE DEF ConfigInv
<1>1. DiskShape' /\ disk'.rows = disk.rows /\ disk'.config = disk.config
  BY DEF ResumeRow, RecordResult, LeaveLoop, PersistReport, WholeInv, DiskShape
<1>2. WholeInv' /\ RowsInv'
  BY <1>1, FilesKept
<1>3. CASE ResumeRow /\ Existing = Torn
  BY <1>1, <1>3, GoneKeeps DEF ResumeRow
<1>4. CASE ResumeRow /\ Existing # Torn
  BY <1>1, <1>2, <1>4 DEF ResumeRow, ProcessInv, AtWork
<1>5. CASE RecordResult
  BY <1>1, <1>2, <1>5 DEF RecordResult, ProcessInv, AtWork
<1>6. CASE LeaveLoop \/ PersistReport
  BY <1>1, <1>2, <1>6 DEF LeaveLoop, PersistReport, ProcessInv, AtWork, locals
<1> QED
  BY <1>3, <1>4, <1>5, <1>6

\* A new row is made with the digest of the process.
LEMMA ExecuteStep ==
    ASSUME ConfigInv, ValidateCase \/ ExecuteStrategy
    PROVE  ConfigInv'
<1> USE DEF ConfigInv
<1>1. WholeInv' /\ RowsInv'
  BY FilesKept DEF ValidateCase, ExecuteStrategy, WholeInv, DiskShape
<1>2. config \in Configs /\ config' = config /\ disk' = disk
  BY DEF ValidateCase, ExecuteStrategy, ProcessInv
<1>3. CASE ValidateCase
  <2>1. pc' = "execute" \/ (pc' = "persist" /\ pending' = MakeRow("INVALID_CASE", NoFailure))
    BY <1>3 DEF ValidateCase
  <2>2. MakeRow("INVALID_CASE", NoFailure) \in Row
        /\ MakeRow("INVALID_CASE", NoFailure).hash = config
    BY <1>2, MakeRowHash DEF RowStatus
  <2> QED
    BY <1>1, <1>2, <1>3, <2>1, <2>2 DEF ValidateCase, ProcessInv, AtWork, Row
<1>4. CASE ExecuteStrategy
  <2>1. pending' \in Row /\ pending'.hash = config
    <3>1. CASE pending' = MakeRow("EXECUTION_ERROR", NoFailure)
      BY <1>2, <3>1, MakeRowHash DEF RowStatus
    <3>2. CASE \E r \in Results : pending' = MakeRow(r.status, r.failure)
      <4>1. PICK r \in Results : pending' = MakeRow(r.status, r.failure)
        BY <3>2
      <4>2. r.status \in RowStatus /\ r.failure \in ProviderFailureKind \union {NoFailure}
        BY RunnerAssumption DEF RowStatus
      <4> QED
        BY <1>2, <4>1, <4>2, MakeRowHash
    <3> QED
      BY <1>4, <3>1, <3>2 DEF ExecuteStrategy
  <2> QED
    BY <1>1, <1>2, <1>4, <2>1 DEF ExecuteStrategy, ProcessInv, AtWork
<1> QED
  BY <1>3, <1>4

\* A row is written next to a configuration file with the same digest.
LEMMA PersistStep ==
    ASSUME ConfigInv, PersistCaseResult
    PROVE  ConfigInv'
<1> USE DEF ConfigInv
<1>1. disk'.rows = [disk.rows EXCEPT ![Path] = pending] /\ disk'.config = disk.config
      /\ DiskShape'
  BY DEF PersistCaseResult, WholeInv, DiskShape
<1>2. pending \in Row /\ pending.hash = config
  BY DEF PersistCaseResult, ProcessInv
<1>3. disk.config = [kind |-> "config", hash |-> config] /\ disk.config.hash = config
      /\ config \in Configs
  BY DEF PersistCaseResult, ProcessInv, AtWork
<1>4. disk.config # Absent
  BY <1>3, MarkersDiffer
<1>5. WholeInv'
  BY <1>1, <1>2 DEF WholeInv
<1>6. RowsInv'
  BY <1>1, <1>2, <1>3, <1>4 DEF RowsInv, WholeInv
<1>7. ProcessInv'
  BY <1>1 DEF PersistCaseResult, ProcessInv, AtWork, locals
<1> QED
  BY <1>5, <1>6, <1>7

\* Every step keeps the invariant, when no write is cut short.
LEMMA ConfigNext ==
    ASSUME "torn" \notin Faults, ConfigInv, [Next]_vars
    PROVE  ConfigInv'
<1>1. CASE Start \/ CheckResumeConfiguration \/ PersistConfiguration \/ OpenRun
  BY <1>1, OpeningStep
<1>2. CASE ResumeRow \/ RecordResult \/ LeaveLoop \/ PersistReport
  BY <1>2, LoopStep
<1>3. CASE ValidateCase \/ ExecuteStrategy
  BY <1>3, ExecuteStep
<1>4. CASE PersistCaseResult
  BY <1>4, PersistStep
<1>5. CASE CloseRun \/ Interrupt
  <2>1. Gone /\ DiskShape' /\ disk'.rows = disk.rows /\ disk'.config = disk.config
    BY <1>5 DEF CloseRun, Interrupt, ConfigInv, WholeInv, DiskShape
  <2> QED
    BY <2>1, GoneKeeps
<1>6. CASE UNCHANGED vars
  BY <1>6 DEF vars, locals, ConfigInv, WholeInv, RowsInv, ProcessInv, DiskShape, AtWork
<1> QED
  BY <1>1, <1>2, <1>3, <1>4, <1>5, <1>6 DEF Next, Work

\* However often a benchmark run is resumed, interrupted between two writes or
\* rerun, its configuration file guards its rows.
THEOREM ConfigInvariance ==
    ASSUME "torn" \notin Faults
    PROVE  Spec => []ConfigInv
<1>1. Init => ConfigInv
  BY ConfigInit
<1>2. ConfigInv /\ [Next]_vars => ConfigInv'
  BY ConfigNext
<1> QED
  BY <1>1, <1>2, PTL DEF Spec

\* All the rows of a run were measured under one configuration.
THEOREM ConfigurationIsNeverMixed ==
    ASSUME "torn" \notin Faults
    PROVE  Spec => []NoMixedConfig
<1>1. ConfigInv => NoMixedConfig
  BY DEF ConfigInv, RowsInv, NoMixedConfig, Whole
<1> QED
  BY <1>1, ConfigInvariance, PTL

-----------------------------------------------------------------------------
(* Types.                                                                  *)

\* An entry names a case, a strategy and a trial of the suite.
LEMMA PathInPaths ==
    ASSUME NEW o \in Ordinals
    PROVE  ResultPath(o) \in Paths /\ schedule[o].case \in CaseIds
<1>1. CaseOf(o) + 1 \in 1..Len(Cases) /\ TrialOf(o) + 1 \in 1..Trials
      /\ PlaceOf(o) + 1 \in 1..Len(Strategies) /\ OffsetOf(o) \in 0..(Len(Strategies) - 1)
  <2>1. /\ CaseOf(o) \in 0..(Len(Cases) - 1) /\ TrialOf(o) \in 0..(Trials - 1)
        /\ PlaceOf(o) \in 0..(Len(Strategies) - 1) /\ OffsetOf(o) \in 0..(Len(Strategies) - 1)
    BY EntryIndices
  <2> QED
    BY <2>1, Sizes
<1>2. Cases[CaseOf(o) + 1] \in CaseIds
  BY <1>1 DEF CaseIds
<1>3. Rotated(OffsetOf(o))[PlaceOf(o) + 1] \in StrategyIds
  <2> DEFINE k == OffsetOf(o)
             p == PlaceOf(o) + 1
             n == Len(Strategies)
  <2>1. p \in 1..n /\ k \in 0..(n - 1) /\ n \in Nat
    BY <1>1, Sizes
  <2>2. Rotated(k)[p] = IF k + p <= n THEN Strategies[k + p] ELSE Strategies[k + p - n]
    BY <2>1, RotatedItem
  <2> HIDE DEF k, p
  <2>3. \E i \in 1..n : Rotated(k)[p] = Strategies[i]
    <3>1. CASE k + p <= n
      BY <2>1, <2>2, <3>1
    <3>2. CASE k + p > n
      <4>1. k + p - n \in 1..n
        BY <2>1, <3>2
      <4> QED
        BY <2>1, <2>2, <3>2, <4>1
    <3> QED
      BY <2>1, <3>1, <3>2
  <2> QED
    BY <2>3 DEF StrategyIds, k, p
<1>4. ResultPath(o)[1] = schedule[o].case
  BY DEF ResultPath
<1> QED
  BY <1>1, <1>2, <1>3, <1>4, PathOfEntry DEF Paths

\* The types, with what the steps rely on: a process at work has its digest, a
\* row to write is there, and the ordinal counts the results.
TypeInv ==
    /\ TypeOK
    /\ pc # "idle" => config \in Configs
    /\ pc \in {"persist", "record"} => pending \in Row
    /\ Len(results) = ordinal - 1
    /\ pc \in {"execute", "persist", "record"} => ordinal <= Planned

\* A new run is well typed.
LEMMA TypeInit == Init => TypeInv
<1> SUFFICES ASSUME Init PROVE TypeInv
  OBVIOUS
<1>1. disk \in Disk
  BY DEF Init, Disk, ConfigFile, StateFile, ReportFile
<1>2. validations \in [CaseIds -> {"UNKNOWN", "VALID", "INVALID_CASE"}]
  BY DEF Init, Unvalidated
<1>3. results \in Seq(Row) /\ Len(results) = 0
  BY DEF Init
<1>4. ordinal = 1 /\ ordinal \in 1..(Planned + 1)
  BY Sizes DEF Init
<1>5. pc = "idle" /\ config = NoConfig /\ rerun = FALSE /\ pending = NoRow /\ status = "RUNNING"
  BY DEF Init
<1>6. Len(results) = ordinal - 1
  BY <1>3, <1>4
<1> QED
  BY <1>1, <1>2, <1>3, <1>4, <1>5, <1>6 DEF TypeInv, TypeOK, RunStatus

\* So is a run no process works on.
LEMMA GoneType ==
    ASSUME Gone, disk' \in Disk
    PROVE  TypeInv'
<1>1. validations' \in [CaseIds -> {"UNKNOWN", "VALID", "INVALID_CASE"}]
  BY DEF Gone, Unvalidated
<1>2. results' \in Seq(Row) /\ Len(results') = 0
  BY DEF Gone
<1>3. ordinal' = 1 /\ ordinal' \in 1..(Planned + 1)
  BY Sizes DEF Gone
<1>4. pc' = "idle" /\ config' = NoConfig /\ rerun' = FALSE /\ pending' = NoRow
      /\ status' = "RUNNING"
  BY DEF Gone
<1>5. Len(results') = ordinal' - 1
  BY <1>2, <1>3
<1> QED
  BY <1>1, <1>2, <1>3, <1>4, <1>5 DEF TypeInv, TypeOK, RunStatus

\* Writing the run state keeps the directory well typed.
LEMMA StateType ==
    ASSUME TypeInv, pc # "idle", NEW s \in RunStatus, NEW n \in 0..Planned
    PROVE  [disk EXCEPT !.state = RunState(s, n)] \in Disk
<1>1. RunState(s, n) \in StateFile
  BY DEF RunState, StateFile, TypeInv
<1> QED
  BY <1>1 DEF TypeInv, TypeOK, Disk

\* Every step keeps the types, and the results are counted by the ordinal.
LEMMA TypeNext ==
    ASSUME TypeInv, [Next]_vars
    PROVE  TypeInv'
<1> USE Sizes
<1>1. CASE Start
  <2>1. disk' \in Disk
    BY <1>1 DEF Start, TypeInv, TypeOK, Disk
  <2>2. rerun' \in BOOLEAN /\ config' \in Configs
    BY <1>1, RunnerAssumption DEF Start
  <2> QED
    BY <1>1, <2>1, <2>2 DEF Start, TypeInv, TypeOK
<1>2. CASE CheckResumeConfiguration
  <2>1. disk' \in Disk
    BY <1>2 DEF CheckResumeConfiguration, TypeInv, TypeOK
  <2>2. CASE Gone
    BY <2>1, <2>2, GoneType
  <2>3. CASE pc' = "configure" /\ UNCHANGED locals
    BY <1>2, <2>1, <2>3 DEF CheckResumeConfiguration, TypeInv, TypeOK, locals
  <2> QED
    BY <1>2, <2>2, <2>3 DEF CheckResumeConfiguration
<1>3. CASE PersistConfiguration
  <2>1. disk' \in Disk
    BY <1>3 DEF PersistConfiguration, TypeInv, TypeOK, Disk, ConfigFile
  <2> QED
    BY <1>3, <2>1 DEF PersistConfiguration, TypeInv, TypeOK, locals
<1>4. CASE OpenRun
  <2>1. disk' \in Disk
    BY <1>4, StateType DEF OpenRun, TypeInv, TypeOK
  <2> QED
    BY <1>4, <2>1 DEF OpenRun, TypeInv, TypeOK, locals
<1>5. CASE ResumeRow
  <2>1. CASE Existing = Torn
    BY <1>5, <2>1, GoneType DEF ResumeRow, TypeInv, TypeOK
  <2>2. CASE Existing # Torn
    <3>1. ordinal \in Ordinals
      BY <1>5 DEF ResumeRow, TypeInv, TypeOK, Ordinals
    <3>2. Existing \in Row
      BY <1>5, <2>2, <3>1, PathInPaths DEF ResumeRow, TypeInv, TypeOK, Disk, Existing, Path
    <3>3. disk' \in Disk
      <4>1. disk' = [disk EXCEPT !.state = RunState(status, ordinal)]
        BY <1>5, <2>2 DEF ResumeRow
      <4>2. pc # "idle" /\ status \in RunStatus /\ ordinal \in 0..Planned
        BY <1>5, <3>1 DEF ResumeRow, TypeInv, TypeOK, Ordinals
      <4> QED
        BY <4>1, <4>2, StateType
    <3>4. results' \in Seq(Row) /\ Len(results') = Len(results) + 1
      BY <1>5, <2>2, <3>2, SMTT(30) DEF ResumeRow, TypeInv, TypeOK
    <3>5. ordinal' = ordinal + 1 /\ ordinal' \in 1..(Planned + 1)
      BY <1>5, <2>2, <3>1 DEF ResumeRow, Ordinals
    <3> QED
      BY <1>5, <2>2, <3>1, <3>3, <3>4, <3>5, SMTT(30) DEF ResumeRow, TypeInv, TypeOK
  <2> QED
    BY <2>1, <2>2
<1>6. CASE ValidateCase
  <2> DEFINE case == schedule[ordinal].case
  <2>1. ordinal \in Ordinals /\ config \in Configs
    BY <1>6 DEF ValidateCase, TypeInv, TypeOK, Ordinals
  <2>2. case \in CaseIds
    BY <2>1, PathInPaths
  <2> HIDE DEF case
  <2>3. PICK v \in IF validations[case] = "UNKNOWN" THEN {"VALID", "INVALID_CASE"}
                   ELSE {validations[case]} :
          /\ validations' = [validations EXCEPT ![case] = v]
          /\ IF v = "INVALID_CASE"
             THEN pending' = MakeRow("INVALID_CASE", NoFailure) /\ pc' = "persist"
             ELSE UNCHANGED pending /\ pc' = "execute"
    BY <1>6 DEF ValidateCase, case
  <2>4. v \in {"UNKNOWN", "VALID", "INVALID_CASE"}
    BY <2>2, <2>3 DEF TypeInv, TypeOK
  <2>5. validations' \in [CaseIds -> {"UNKNOWN", "VALID", "INVALID_CASE"}]
    BY <2>2, <2>3, <2>4 DEF TypeInv, TypeOK
  <2>6. MakeRow("INVALID_CASE", NoFailure) \in Row
    BY <2>1, MakeRowHash DEF RowStatus
  <2>7. pending' \in Row \union {NoRow} /\ (pc' = "persist" => pending' \in Row)
        /\ pc' \in {"persist", "execute"}
    BY <2>3, <2>6 DEF TypeInv, TypeOK
  <2> QED
    BY <1>6, <2>1, <2>5, <2>7 DEF ValidateCase, TypeInv, TypeOK, Ordinals
<1>7. CASE ExecuteStrategy
  <2>1. pending' \in Row
    <3>1. config \in Configs
      BY <1>7 DEF ExecuteStrategy, TypeInv
    <3>2. ASSUME NEW r \in Results, pending' = MakeRow(r.status, r.failure)
          PROVE  pending' \in Row
      <4>1. r.status \in RowStatus /\ r.failure \in ProviderFailureKind \union {NoFailure}
        BY RunnerAssumption DEF RowStatus
      <4> QED
        BY <3>1, <3>2, <4>1, MakeRowHash
    <3>3. CASE pending' = MakeRow("EXECUTION_ERROR", NoFailure)
      BY <3>1, <3>3, MakeRowHash DEF RowStatus
    <3> QED
      BY <1>7, <3>2, <3>3 DEF ExecuteStrategy
  <2> QED
    BY <1>7, <2>1 DEF ExecuteStrategy, TypeInv, TypeOK
<1>8. CASE PersistCaseResult
  <2>1. ordinal \in Ordinals /\ pending \in Row
    BY <1>8 DEF PersistCaseResult, TypeInv, TypeOK, Ordinals
  <2>2. Path \in Paths
    BY <2>1, PathInPaths DEF Path
  <2>3. disk' \in Disk
    BY <1>8, <2>1, <2>2 DEF PersistCaseResult, TypeInv, TypeOK, Disk
  <2> QED
    BY <1>8, <2>1, <2>3 DEF PersistCaseResult, TypeInv, TypeOK, locals
<1>9. CASE RecordResult
  <2>1. ordinal \in Ordinals /\ pending \in Row
    BY <1>9 DEF RecordResult, TypeInv, TypeOK, Ordinals
  <2>2. disk' \in Disk
    <3>1. disk' = [disk EXCEPT !.state = RunState(status, ordinal)]
      BY <1>9 DEF RecordResult
    <3>2. pc # "idle" /\ status \in RunStatus /\ ordinal \in 0..Planned
      BY <1>9, <2>1 DEF RecordResult, TypeInv, TypeOK, Ordinals
    <3> QED
      BY <3>1, <3>2, StateType
  <2>3. results' \in Seq(Row) /\ Len(results') = Len(results) + 1
    BY <1>9, <2>1 DEF RecordResult, TypeInv, TypeOK
  <2>4. ordinal' = ordinal + 1 /\ ordinal' \in 1..(Planned + 1)
    BY <1>9, <2>1 DEF RecordResult, Ordinals
  <2>5. pc' \in {"loop", "report"} /\ status' \in RunStatus
    BY <1>9 DEF RecordResult, TypeInv, TypeOK, RunStatus
  <2> QED
    BY <1>9, <2>1, <2>2, <2>3, <2>4, <2>5 DEF RecordResult, TypeInv, TypeOK
<1>10. CASE LeaveLoop
  BY <1>10 DEF LeaveLoop, TypeInv, TypeOK, RunStatus
<1>11. CASE PersistReport
  <2>1. disk' \in Disk
    BY <1>11 DEF PersistReport, TypeInv, TypeOK, Disk, ReportFile
  <2> QED
    BY <1>11, <2>1 DEF PersistReport, TypeInv, TypeOK, locals
<1>12. CASE CloseRun
  <2>1. Len(results) \in 0..Planned /\ status \in RunStatus /\ pc # "idle"
    BY <1>12 DEF CloseRun, TypeInv, TypeOK
  <2>2. disk' \in Disk
    BY <1>12, <2>1, StateType DEF CloseRun
  <2> QED
    BY <1>12, <2>2, GoneType DEF CloseRun
<1>13. CASE Interrupt
  <2>1. CASE UNCHANGED disk
    BY <1>13, <2>1, GoneType DEF Interrupt, TypeInv, TypeOK
  <2>2. CASE TornWrite
    <3>1. pc = "persist" => Path \in Paths
      BY PathInPaths DEF TypeInv, TypeOK, Path, Ordinals
    <3>2. disk' \in Disk
      <4> DEFINE Rows == [disk.rows EXCEPT ![Path] = Torn]
      <4>1. \/ disk' = [disk EXCEPT !.config = Torn]
            \/ pc = "persist" /\ disk' = [disk EXCEPT !.rows = Rows]
            \/ disk' = [disk EXCEPT !.state = Torn]
            \/ disk' = [disk EXCEPT !.report = Torn]
            \/ disk' = disk
        BY <2>2 DEF TornWrite, TypeInv, TypeOK, Disk
      <4>2. pc = "persist" => Rows \in [Paths -> Row \union {Absent, Torn}]
        BY <3>1 DEF TypeInv, TypeOK, Disk
      <4> HIDE DEF Rows
      <4> QED
        BY <4>1, <4>2, SMTT(30) DEF TypeInv, TypeOK, Disk, ConfigFile, StateFile, ReportFile
    <3> QED
      BY <1>13, <3>2, GoneType DEF Interrupt
  <2> QED
    BY <1>13, <2>1, <2>2 DEF Interrupt
<1>14. CASE UNCHANGED vars
  BY <1>14 DEF vars, locals, TypeInv, TypeOK
<1> QED
  BY <1>1, <1>2, <1>3, <1>4, <1>5, <1>6, <1>7, <1>8, <1>9, <1>10, <1>11, <1>12, <1>13, <1>14
     DEF Next, Work

-----------------------------------------------------------------------------
(* The published report.                                                   *)

\* In the loop, and after it.
Looping == {"loop", "execute", "persist", "record"}
Closing == {"report", "close"}

\* The rows in memory are those on disk for the entries before the ordinal.
InOrder == \A o \in 1..Len(results) : results[o] = disk.rows[ResultPath(o)]

\* Where the process is in the loop and what it knows: the run is marked RUNNING
\* from before the first row is written until after the report is, and a row is
\* only replaced if a rerun was asked for.
LoopInv ==
    /\ pc \notin Closing => status = "RUNNING"
    /\ pc \notin Looping \union Closing => ordinal = 1
    /\ pc \in Closing => status \in {"PAUSED_PROVIDER_UNAVAILABLE", "COMPLETED"}
    /\ status = "COMPLETED" => Len(results) = Planned
    /\ pc \in Looping \union Closing => ~IsPublished
    /\ InOrder
    /\ pc \in {"execute", "persist"} => Existing = Absent \/ rerun
    /\ pc = "record" => Existing = pending
    /\ pc = "close" => disk.report = [kind |-> "report", rows |-> results]

ReportInv == TypeInv /\ LoopInv /\ PublishedReportIsOnDisk

\* The run state a process writes before its last one withdraws the report.
LEMMA RunningIsUnpublished ==
    ASSUME disk \in Disk, NEW n, disk' = [disk EXCEPT !.state = RunState("RUNNING", n)]
    PROVE  ~IsPublished' /\ PublishedReportIsOnDisk'
<1>1. disk'.state = RunState("RUNNING", n)
  BY DEF Disk
<1>2. disk'.state.status = "RUNNING"
  BY <1>1 DEF RunState
<1> QED
  BY <1>2 DEF IsPublished, PublishedReportIsOnDisk

\* A new run publishes nothing.
LEMMA ReportInit == Init => LoopInv /\ PublishedReportIsOnDisk
<1> SUFFICES ASSUME Init PROVE LoopInv /\ PublishedReportIsOnDisk
  OBVIOUS
<1>1. ~Whole(disk.state)
  BY DEF Init, Whole
<1>2. InOrder
  BY DEF Init, InOrder
<1> QED
  BY <1>1, <1>2 DEF Init, LoopInv, PublishedReportIsOnDisk, IsPublished, Looping, Closing

\* A process that is gone has nothing in memory.
LEMMA GoneLoop ==
    ASSUME Gone
    PROVE  LoopInv'
<1>1. InOrder'
  BY DEF Gone, InOrder
<1> QED
  BY <1>1 DEF Gone, LoopInv, Looping, Closing

\* A published report stays right while rows, run state and report stay.
LEMMA PublishedKept ==
    ASSUME PublishedReportIsOnDisk, disk'.rows = disk.rows, disk'.report = disk.report,
           disk'.state = disk.state
    PROVE  PublishedReportIsOnDisk' /\ (IsPublished' <=> IsPublished)
BY DEF PublishedReportIsOnDisk, IsPublished

\* Opening a run: the first run state withdraws the report before any row changes.
LEMMA ReportOpening ==
    ASSUME ReportInv, Start \/ CheckResumeConfiguration \/ PersistConfiguration \/ OpenRun
    PROVE  LoopInv' /\ PublishedReportIsOnDisk'
<1> USE DEF ReportInv
<1>0. disk \in Disk
  BY DEF TypeInv, TypeOK
<1>1. CASE Start
  <2>1. disk'.rows = disk.rows /\ disk'.report = disk.report /\ disk'.state = disk.state
    BY <1>0, <1>1 DEF Start, Disk
  <2>2. InOrder'
    BY <1>1, <2>1 DEF Start, InOrder, LoopInv
  <2> QED
    BY <1>1, <2>1, <2>2, PublishedKept DEF Start, LoopInv, Looping, Closing
<1>2. CASE CheckResumeConfiguration
  <2>1. disk' = disk
    BY <1>2 DEF CheckResumeConfiguration
  <2>2. CASE Gone
    BY <2>1, <2>2, GoneLoop, PublishedKept
  <2>3. CASE pc' = "configure" /\ UNCHANGED locals
    BY <1>2, <2>1, <2>3, PublishedKept
       DEF CheckResumeConfiguration, LoopInv, InOrder, Looping, Closing, locals
  <2> QED
    BY <1>2, <2>2, <2>3 DEF CheckResumeConfiguration
<1>3. CASE PersistConfiguration
  <2>1. disk'.rows = disk.rows /\ disk'.report = disk.report /\ disk'.state = disk.state
    BY <1>0, <1>3 DEF PersistConfiguration, Disk
  <2> QED
    BY <1>3, <2>1, PublishedKept
       DEF PersistConfiguration, LoopInv, InOrder, Looping, Closing, locals
<1>4. CASE OpenRun
  <2>1. ~IsPublished' /\ PublishedReportIsOnDisk'
    <3>1. disk' = [disk EXCEPT !.state = RunState("RUNNING", 0)]
      BY <1>4 DEF OpenRun, LoopInv, Closing
    <3> QED
      BY <1>0, <3>1, RunningIsUnpublished
  <2>2. disk'.rows = disk.rows
    BY <1>0, <1>4 DEF OpenRun, Disk
  <2> QED
    BY <1>4, <2>1, <2>2 DEF OpenRun, LoopInv, InOrder, Looping, Closing, locals
<1> QED
  BY <1>1, <1>2, <1>3, <1>4

\* Appending the row at hand keeps memory and disk in step.
LEMMA ReportAppend ==
    ASSUME ReportInv, NEW row \in Row, pc \in Looping, ordinal <= Planned, Existing = row,
           results' = Append(results, row), ordinal' = ordinal + 1,
           disk' = [disk EXCEPT !.state = RunState(status, ordinal)]
    PROVE  InOrder' /\ ~IsPublished' /\ PublishedReportIsOnDisk'
<1> USE DEF ReportInv
<1>0. disk \in Disk /\ results \in Seq(Row) /\ Len(results) = ordinal - 1 /\ ordinal \in Nat
  BY Sizes DEF TypeInv, TypeOK
<1>1. disk' = [disk EXCEPT !.state = RunState("RUNNING", ordinal)]
  BY DEF LoopInv, Looping, Closing
<1>2. ~IsPublished' /\ PublishedReportIsOnDisk'
  BY <1>0, <1>1, RunningIsUnpublished
<1>3. disk'.rows = disk.rows
  BY <1>0, <1>1 DEF Disk
<1>4. ASSUME NEW o \in 1..Len(results')
      PROVE  results'[o] = disk'.rows[ResultPath(o)]
  <2>1. CASE o <= Len(results)
    BY <1>0, <1>3, <2>1 DEF LoopInv, InOrder
  <2>2. CASE o > Len(results)
    <3>1. o = ordinal /\ results'[o] = row
      BY <1>0, <2>2
    <3> QED
      BY <1>3, <3>1 DEF Existing, Path
  <2> QED
    BY <1>0, <2>1, <2>2
<1> QED
  BY <1>2, <1>4 DEF InOrder

\* The end of the loop body, and of the loop.
LEMMA ReportLoop ==
    ASSUME ReportInv, ResumeRow \/ RecordResult \/ LeaveLoop
    PROVE  LoopInv' /\ PublishedReportIsOnDisk'
<1> USE DEF ReportInv
<1>0. disk \in Disk /\ ordinal \in 1..(Planned + 1) /\ Planned \in Nat
  BY Sizes DEF TypeInv, TypeOK
<1>1. CASE ResumeRow /\ Existing = Torn
  BY <1>1, GoneLoop, PublishedKept DEF ResumeRow
<1>2. CASE ResumeRow /\ Existing # Torn
  <2>1. Existing \in Row
    <3>1. Path \in Paths
      BY <1>0, <1>2, PathInPaths DEF ResumeRow, Path, Ordinals
    <3> QED
      BY <1>0, <1>2, <3>1 DEF ResumeRow, Disk, Existing
  <2>2. InOrder' /\ ~IsPublished' /\ PublishedReportIsOnDisk'
    BY <1>2, <2>1, ReportAppend DEF ResumeRow, Looping
  <2> QED
    BY <1>2, <2>2 DEF ResumeRow, LoopInv, Looping, Closing
<1>3. CASE RecordResult
  <2>1. pending \in Row /\ Existing = pending /\ ordinal <= Planned
    BY <1>3 DEF RecordResult, TypeInv, LoopInv
  <2>2. InOrder' /\ ~IsPublished' /\ PublishedReportIsOnDisk'
    BY <1>3, <2>1, ReportAppend DEF RecordResult, Looping
  <2>3. status = "RUNNING"
    BY <1>3 DEF RecordResult, LoopInv, Closing
  <2> QED
    BY <1>3, <2>2, <2>3 DEF RecordResult, LoopInv, Looping, Closing
<1>4. CASE LeaveLoop
  <2>1. Len(results) = Planned
    BY <1>0, <1>4 DEF LeaveLoop, TypeInv
  <2> QED
    BY <1>4, <2>1, PublishedKept DEF LeaveLoop, LoopInv, InOrder, Looping, Closing
<1> QED
  BY <1>1, <1>2, <1>3, <1>4

\* Executing an entry leaves memory and disk alone.
LEMMA ReportExecute ==
    ASSUME ReportInv, ValidateCase \/ ExecuteStrategy
    PROVE  LoopInv' /\ PublishedReportIsOnDisk'
<1> USE DEF ReportInv
<1>1. disk' = disk /\ ordinal' = ordinal /\ results' = results /\ status' = status
      /\ rerun' = rerun /\ pc \in Looping /\ pc' \in {"execute", "persist"}
  BY DEF ValidateCase, ExecuteStrategy, Looping
<1>2. Existing = Absent \/ rerun
  BY DEF ValidateCase, ExecuteStrategy, LoopInv
<1> QED
  BY <1>1, <1>2, PublishedKept DEF LoopInv, InOrder, IsPublished, Existing, Path, Looping, Closing

\* A row is written only while nothing is published, and no other entry shares its
\* file.
LEMMA ReportPersist ==
    ASSUME ReportInv, PersistCaseResult
    PROVE  LoopInv' /\ PublishedReportIsOnDisk'
<1> USE DEF ReportInv
<1>0. disk \in Disk /\ ordinal \in Ordinals /\ Len(results) = ordinal - 1 /\ pc = "persist"
      /\ Planned \in Nat
  BY Sizes DEF TypeInv, TypeOK, PersistCaseResult, Ordinals
<1>1. Path \in Paths
  BY <1>0, PathInPaths DEF Path
<1>2. disk'.rows = [disk.rows EXCEPT ![Path] = pending] /\ disk'.state = disk.state
  BY <1>0 DEF PersistCaseResult, Disk
<1>3. ~IsPublished' /\ PublishedReportIsOnDisk'
  BY <1>0, <1>2 DEF LoopInv, IsPublished, Looping, PublishedReportIsOnDisk
<1>4. InOrder'
  <2> SUFFICES ASSUME NEW o \in 1..Len(results)
               PROVE  results[o] = disk'.rows[ResultPath(o)]
    BY DEF PersistCaseResult, locals, InOrder
  <2>1. o \in Ordinals /\ o # ordinal
    BY <1>0 DEF Ordinals
  <2>2. ResultPath(o) # Path
    BY <1>0, <2>1, ScheduleNeverRepeats DEF Path
  <2>3. ResultPath(o) \in Paths
    BY <2>1, PathInPaths
  <2> QED
    BY <1>0, <1>2, <2>2, <2>3 DEF LoopInv, InOrder, Disk
<1>5. Existing' = pending'
  BY <1>0, <1>1, <1>2 DEF PersistCaseResult, Existing, Path, locals, Disk
<1> QED
  BY <1>3, <1>4, <1>5 DEF PersistCaseResult, LoopInv, Looping, Closing, locals

\* The report holds the rows in memory, and is published with their number.
LEMMA ReportClosing ==
    ASSUME ReportInv, PersistReport \/ CloseRun
    PROVE  LoopInv' /\ PublishedReportIsOnDisk'
<1> USE DEF ReportInv
<1>0. disk \in Disk
  BY DEF TypeInv, TypeOK
<1>1. CASE PersistReport
  <2>1. disk'.report = [kind |-> "report", rows |-> results] /\ disk'.rows = disk.rows
        /\ disk'.state = disk.state
    BY <1>0, <1>1 DEF PersistReport, Disk
  <2>2. ~IsPublished' /\ PublishedReportIsOnDisk'
    BY <1>1, <2>1 DEF PersistReport, LoopInv, IsPublished, Closing, PublishedReportIsOnDisk
  <2> QED
    BY <1>1, <2>1, <2>2 DEF PersistReport, LoopInv, InOrder, Looping, Closing, locals
<1>2. CASE CloseRun
  <2> DEFINE file == [kind |-> "report", rows |-> results]
  <2>1. disk'.report = file /\ disk'.rows = disk.rows
        /\ disk'.state = RunState(status, Len(results))
    BY <1>0, <1>2 DEF CloseRun, LoopInv, Disk
  <2>2. disk'.state.completed = Len(results) /\ file.rows = results
    BY <2>1 DEF RunState
  <2>3. Whole(disk'.report)
    BY <2>1 DEF Whole, Absent, Torn
  <2>4. PublishedReportIsOnDisk'
    BY <2>1, <2>2, <2>3 DEF PublishedReportIsOnDisk, LoopInv, InOrder
  <2> QED
    BY <1>2, <2>4, GoneLoop DEF CloseRun
<1> QED
  BY <1>1, <1>2

\* An interruption leaves the published report as it was or unpublished.
LEMMA ReportInterrupt ==
    ASSUME ReportInv, Interrupt
    PROVE  LoopInv' /\ PublishedReportIsOnDisk'
<1> USE DEF ReportInv
<1>0. disk \in Disk
  BY DEF TypeInv, TypeOK
<1>1. Gone
  BY DEF Interrupt
<1>2. CASE UNCHANGED disk
  BY <1>1, <1>2, GoneLoop, PublishedKept
<1>3. CASE TornWrite
  <2>1. CASE pc \in {"open", "record", "close"} \/ Resuming
    <3>1. disk'.state = Torn
      BY <1>0, <1>3, <2>1 DEF TornWrite, Resuming, Disk
    <3> QED
      BY <1>1, <3>1, GoneLoop DEF PublishedReportIsOnDisk, IsPublished, Whole
  <2>2. CASE pc \in {"persist", "report"}
    <3>1. disk'.state = disk.state
      BY <1>0, <1>3, <2>2 DEF TornWrite, Resuming, Disk
    <3>2. ~IsPublished
      BY <2>2 DEF LoopInv, Looping, Closing
    <3> QED
      BY <1>1, <3>1, <3>2, GoneLoop DEF PublishedReportIsOnDisk, IsPublished
  <2>3. CASE pc \notin {"open", "record", "close", "persist", "report"} /\ ~Resuming
    <3>1. disk'.rows = disk.rows /\ disk'.report = disk.report /\ disk'.state = disk.state
      BY <1>0, <1>3, <2>3 DEF TornWrite, Disk
    <3> QED
      BY <1>1, <3>1, GoneLoop, PublishedKept
  <2> QED
    BY <2>1, <2>2, <2>3
<1> QED
  BY <1>2, <1>3 DEF Interrupt

\* Every step keeps the invariant, whatever write an interruption cuts short.
LEMMA ReportNext ==
    ASSUME ReportInv, [Next]_vars
    PROVE  ReportInv'
<1> USE DEF ReportInv
<1>1. TypeInv'
  BY TypeNext
<1>2. CASE Start \/ CheckResumeConfiguration \/ PersistConfiguration \/ OpenRun
  BY <1>1, <1>2, ReportOpening
<1>3. CASE ResumeRow \/ RecordResult \/ LeaveLoop
  BY <1>1, <1>3, ReportLoop
<1>4. CASE ValidateCase \/ ExecuteStrategy
  BY <1>1, <1>4, ReportExecute
<1>5. CASE PersistCaseResult
  BY <1>1, <1>5, ReportPersist
<1>6. CASE PersistReport \/ CloseRun
  BY <1>1, <1>6, ReportClosing
<1>7. CASE Interrupt
  BY <1>1, <1>7, ReportInterrupt
<1>8. CASE UNCHANGED vars
  BY <1>1, <1>8, PublishedKept
     DEF vars, locals, LoopInv, InOrder, IsPublished, Existing, Path, Looping, Closing
<1> QED
  BY <1>2, <1>3, <1>4, <1>5, <1>6, <1>7, <1>8 DEF Next, Work

\* However processes are interrupted, their writes cut short and their runs
\* resumed or rerun, the rows in memory are those on disk and nothing is
\* published while rows change.
THEOREM ReportInvariance == Spec => []ReportInv
<1>1. Init => ReportInv
  BY TypeInit, ReportInit DEF ReportInv
<1>2. ReportInv /\ [Next]_vars => ReportInv'
  BY ReportNext
<1> QED
  BY <1>1, <1>2, PTL DEF Spec

\* The locals of run() and every file of the run directory have their types.
THEOREM RunnerIsWellTyped == Spec => []TypeOK
<1>1. ReportInv => TypeOK
  BY DEF ReportInv, TypeInv
<1> QED
  BY <1>1, ReportInvariance, PTL

\* What a run published as paused or completed reports is exactly what is on
\* disk for the entries it counts, even if writes are cut short.
THEOREM ReportStaysOnDisk == Spec => []PublishedReportIsOnDisk
<1>1. ReportInv => PublishedReportIsOnDisk
  BY DEF ReportInv
<1> QED
  BY <1>1, ReportInvariance, PTL

-----------------------------------------------------------------------------
(* The ledger.                                                             *)

\* A new run directory is an empty ledger.
LEMMA LedgerInit == Init => Ledger!Init
<1> SUFFICES ASSUME Init PROVE Ledger!Init
  OBVIOUS
<1>1. ~Whole(disk.state) /\ disk.rows = [p \in Paths |-> Absent] /\ pc = "idle"
      /\ status = "RUNNING" /\ rerun = FALSE
  BY DEF Init, Whole
<1>2. SawOutage = FALSE /\ PublishedAs = "NOTHING"
  BY <1>1 DEF SawOutage, PublishedAs, IsPublished
<1> QED
  BY <1>1, <1>2 DEF Ledger!Init

\* What the ledger sees of a process between two steps.
View ==
    /\ pc \notin Closing \union {"record"} => SawOutage = FALSE
    /\ pc = "record" => SawOutage = IsGlobal(pending)
    /\ pc \in Closing => SawOutage = (status = "PAUSED_PROVIDER_UNAVAILABLE")
    /\ pc \in Looping \union Closing => PublishedAs = "NOTHING"

\* The invariant determines that view.
LEMMA LedgerView == ReportInv => View
<1> SUFFICES ASSUME ReportInv PROVE View
  OBVIOUS
<1>1. pc \notin Closing => status = "RUNNING"
  BY DEF ReportInv, LoopInv
<1>2. pc \in Looping \union Closing => ~IsPublished
  BY DEF ReportInv, LoopInv
<1>3. pc \notin Closing \union {"record"} => SawOutage = FALSE
  BY <1>1 DEF SawOutage, IsGlobal
<1>4. pc = "record" => SawOutage = IsGlobal(pending)
  BY <1>1 DEF SawOutage, IsGlobal, Closing
<1>5. pc \in Closing => SawOutage = (status = "PAUSED_PROVIDER_UNAVAILABLE")
  BY DEF SawOutage, IsGlobal, Closing
<1> QED
  BY <1>2, <1>3, <1>4, <1>5 DEF PublishedAs, View

\* What is published is read off the run state alone.
LEMMA SameView ==
    ASSUME disk'.state = disk.state
    PROVE  PublishedAs' = PublishedAs
BY DEF PublishedAs, IsPublished

\* A process that goes on without touching a row is invisible in the ledger.
LEMMA LedgerStutter ==
    ASSUME pc # "idle", pc' # "idle", rerun' = rerun, disk'.rows = disk.rows,
           PublishedAs' = PublishedAs, SawOutage' = SawOutage
    PROVE  UNCHANGED Ledger!vars
BY DEF Ledger!vars

\* A process that goes without publishing anything abandons the run.
LEMMA LedgerAbandon ==
    ASSUME View', pc # "idle", Gone, UNCHANGED disk
    PROVE  Ledger!Abandon
<1>1. pc' = "idle" /\ rerun' = FALSE
  BY DEF Gone
<1>2. SawOutage' = FALSE
  BY <1>1 DEF View, Closing
<1> QED
  BY <1>1, <1>2, SameView DEF Ledger!Abandon, Ledger!End

\* Opening a run begins the work and withdraws what was published.
LEMMA LedgerOpening ==
    ASSUME ReportInv, View, View',
           Start \/ CheckResumeConfiguration \/ PersistConfiguration \/ OpenRun
    PROVE  [Ledger!Next]_(Ledger!vars)
<1>0. disk \in Disk
  BY DEF ReportInv, TypeInv, TypeOK
<1>1. CASE Start
  <2>1. pc = "idle" /\ pc' = "check" /\ rerun' \in BOOLEAN
        /\ disk'.rows = disk.rows /\ disk'.state = disk.state
    BY <1>0, <1>1, RunnerAssumption DEF Start, Disk
  <2>2. SawOutage = FALSE /\ SawOutage' = FALSE
    BY <2>1 DEF View, Closing
  <2>3. Ledger!Begin
    BY <2>1, <2>2, SameView DEF Ledger!Begin
  <2> QED
    BY <2>3 DEF Ledger!Next
<1>2. CASE CheckResumeConfiguration
  <2>1. CASE Gone
    <3>1. Ledger!Abandon
      BY <1>2, <2>1, LedgerAbandon DEF CheckResumeConfiguration
    <3> QED
      BY <3>1 DEF Ledger!Next
  <2>2. CASE pc' = "configure" /\ UNCHANGED locals
    <3>1. pc = "check" /\ pc' = "configure" /\ rerun' = rerun /\ disk' = disk
      BY <1>2, <2>2 DEF CheckResumeConfiguration, locals
    <3>2. SawOutage = FALSE /\ SawOutage' = FALSE
      BY <3>1 DEF View, Closing
    <3> QED
      BY <3>1, <3>2, SameView, LedgerStutter
  <2> QED
    BY <1>2, <2>1, <2>2 DEF CheckResumeConfiguration
<1>3. CASE PersistConfiguration
  <2>1. pc = "configure" /\ pc' = "open" /\ rerun' = rerun
        /\ disk'.rows = disk.rows /\ disk'.state = disk.state
    BY <1>0, <1>3 DEF PersistConfiguration, locals, Disk
  <2>2. SawOutage = FALSE /\ SawOutage' = FALSE
    BY <2>1 DEF View, Closing
  <2> QED
    BY <2>1, <2>2, SameView, LedgerStutter
<1>4. CASE OpenRun
  <2>1. pc = "open" /\ pc' = "loop" /\ rerun' = rerun /\ disk'.rows = disk.rows
    BY <1>0, <1>4 DEF OpenRun, locals, Disk
  <2>2. SawOutage = FALSE /\ SawOutage' = FALSE /\ PublishedAs' = "NOTHING"
    BY <2>1 DEF View, Looping, Closing
  <2>3. Ledger!Reopen
    BY <2>1, <2>2 DEF Ledger!Reopen
  <2> QED
    BY <2>3 DEF Ledger!Next
<1> QED
  BY <1>1, <1>2, <1>3, <1>4

\* In the loop only _persist_case_result is a step of the ledger.
LEMMA LedgerLoop ==
    ASSUME ReportInv, View, View',
           \/ ResumeRow /\ Existing # Torn
           \/ ValidateCase \/ ExecuteStrategy \/ RecordResult \/ LeaveLoop \/ PersistReport
    PROVE  UNCHANGED Ledger!vars
<1>0. disk \in Disk
  BY DEF ReportInv, TypeInv, TypeOK
<1>1. /\ pc \in Looping \union Closing /\ pc' \in Looping \union Closing
      /\ rerun' = rerun /\ disk'.rows = disk.rows
  BY <1>0 DEF ResumeRow, ValidateCase, ExecuteStrategy, RecordResult, LeaveLoop, PersistReport,
     locals, Looping, Closing, Disk
<1>2. PublishedAs' = PublishedAs
  BY <1>1 DEF View
<1>3. SawOutage' = SawOutage
  <2>1. CASE RecordResult
    <3>1. SawOutage = IsGlobal(pending)
      BY <2>1 DEF View, RecordResult
    <3>2. CASE IsGlobal(pending)
      <4>1. pc' = "report" /\ status' = "PAUSED_PROVIDER_UNAVAILABLE"
        BY <2>1, <3>2 DEF RecordResult
      <4>2. SawOutage' = TRUE
        BY <4>1 DEF SawOutage
      <4> QED
        BY <3>1, <3>2, <4>2 DEF IsGlobal
    <3>3. CASE ~IsGlobal(pending)
      <4>1. pc' = "loop"
        BY <2>1, <3>3 DEF RecordResult
      <4>2. SawOutage' = FALSE
        BY <4>1 DEF View, Closing
      <4>3. IsGlobal(pending) = FALSE
        BY <3>3 DEF IsGlobal
      <4> QED
        BY <3>1, <4>2, <4>3
    <3> QED
      BY <3>2, <3>3
  <2>2. CASE LeaveLoop
    <3>1. pc = "loop" /\ pc' = "report" /\ status' = "COMPLETED"
      BY <2>2 DEF LeaveLoop
    <3>2. SawOutage = FALSE
      BY <3>1 DEF View, Closing
    <3>3. SawOutage' = FALSE
      BY <3>1 DEF SawOutage
    <3> QED
      BY <3>2, <3>3
  <2>3. CASE PersistReport
    <3>1. pc = "report" /\ pc' = "close" /\ status' = status
      BY <2>3 DEF PersistReport, locals
    <3> QED
      BY <3>1 DEF SawOutage
  <2>4. CASE (ResumeRow /\ Existing # Torn) \/ ValidateCase \/ ExecuteStrategy
    <3>1. pc \notin Closing \union {"record"} /\ pc' \notin Closing \union {"record"}
      BY <2>4 DEF ResumeRow, ValidateCase, ExecuteStrategy, Closing
    <3> QED
      BY <3>1 DEF View
  <2> QED
    BY <2>1, <2>2, <2>3, <2>4
<1> QED
  BY <1>1, <1>2, <1>3, LedgerStutter DEF Looping, Closing

\* A row is written by a process that may write it, and shows the outage it saw.
LEMMA LedgerWrite ==
    ASSUME ReportInv, View, View', PersistCaseResult
    PROVE  Ledger!Write
<1>0. disk \in Disk /\ ordinal \in Ordinals /\ pending \in Row
  BY DEF PersistCaseResult, ReportInv, TypeInv, TypeOK, Ordinals
<1>1. pc = "persist" /\ pc' = "record" /\ pending' = pending /\ rerun' = rerun
  BY DEF PersistCaseResult, locals
<1>2. Path \in Paths
  BY <1>0, PathInPaths DEF Path
<1>3. disk'.rows = [disk.rows EXCEPT ![Path] = pending]
  BY <1>0 DEF PersistCaseResult, Disk
<1>4. disk.rows[Path] = Absent \/ rerun
  BY <1>1 DEF ReportInv, LoopInv, Existing
<1>5. SawOutage = FALSE /\ PublishedAs = "NOTHING" /\ PublishedAs' = "NOTHING"
  BY <1>1 DEF View, Looping, Closing
<1>6. SawOutage' = IsGlobal(pending)
  <2>1. SawOutage' = IsGlobal(pending')
    BY <1>1 DEF View
  <2> QED
    BY <1>1, <2>1
<1>7. \E p \in Paths, row \in Row :
        /\ disk.rows[p] = Absent \/ rerun
        /\ disk'.rows = [disk.rows EXCEPT ![p] = row]
        /\ SawOutage' = IsGlobal(row)
  BY <1>0, <1>2, <1>3, <1>4, <1>6, Zenon
<1>8. pc # "idle" /\ ~SawOutage /\ UNCHANGED <<pc # "idle", rerun, PublishedAs>>
  BY <1>1, <1>5
<1> QED
  BY <1>5, <1>7, <1>8, Zenon DEF Ledger!Write

\* A run is completed with every row there, and paused by the process that saw
\* the outage.
LEMMA LedgerClose ==
    ASSUME ReportInv, View, View', CloseRun
    PROVE  Ledger!Complete \/ Ledger!Pause
<1>0. disk \in Disk /\ results \in Seq(Row)
  BY DEF ReportInv, TypeInv, TypeOK
<1>1. pc = "close" /\ pc' = "idle" /\ rerun' = FALSE
      /\ disk'.rows = disk.rows /\ disk'.state = RunState(status, Len(results))
  BY <1>0 DEF CloseRun, Gone, Disk
<1>2. SawOutage = (status = "PAUSED_PROVIDER_UNAVAILABLE") /\ SawOutage' = FALSE
  BY <1>1 DEF View, Closing
<1>3. status \in {"PAUSED_PROVIDER_UNAVAILABLE", "COMPLETED"}
  BY <1>1 DEF ReportInv, LoopInv, Closing
<1>4. PublishedAs' = status
  <2>1. Whole(disk'.state) /\ disk'.state.status = status
    BY <1>1 DEF RunState, Whole, Absent, Torn
  <2> QED
    BY <1>3, <2>1 DEF PublishedAs, IsPublished
<1>5. CASE status = "COMPLETED"
  <2>1. ASSUME NEW p \in Paths PROVE disk.rows[p] # Absent
    <3>1. PICK o \in Ordinals : ResultPath(o) = p
      BY ScheduleIsComplete
    <3>2. o \in 1..Len(results)
      BY <1>5 DEF ReportInv, LoopInv, Ordinals
    <3>3. results[o] = disk.rows[p] /\ results[o] \in Row
      BY <1>0, <3>1, <3>2 DEF ReportInv, LoopInv, InOrder
    <3> QED
      BY <3>3 DEF Row, Absent
  <2>2. Ledger!Complete
    BY <1>1, <1>2, <1>4, <1>5, <2>1 DEF Ledger!Complete, Ledger!End
  <2> QED
    BY <2>2
<1>6. CASE status = "PAUSED_PROVIDER_UNAVAILABLE"
  <2>1. Ledger!Pause
    BY <1>1, <1>2, <1>4, <1>6 DEF Ledger!Pause, Ledger!End
  <2> QED
    BY <2>1
<1> QED
  BY <1>3, <1>5, <1>6

\* Every step of a benchmark run is a step of the ledger or invisible to it.
LEMMA LedgerNext ==
    ASSUME "torn" \notin Faults, ReportInv, View, View', [Next]_vars
    PROVE  [Ledger!Next]_(Ledger!vars)
<1>1. CASE Start \/ CheckResumeConfiguration \/ PersistConfiguration \/ OpenRun
  BY <1>1, LedgerOpening
<1>2. CASE \/ ResumeRow /\ Existing # Torn
           \/ ValidateCase \/ ExecuteStrategy \/ RecordResult \/ LeaveLoop \/ PersistReport
  BY <1>2, LedgerLoop
<1>3. CASE PersistCaseResult
  BY <1>3, LedgerWrite DEF Ledger!Next
<1>4. CASE CloseRun
  BY <1>4, LedgerClose DEF Ledger!Next
<1>5. CASE (ResumeRow /\ Existing = Torn) \/ Interrupt
  <2>1. pc # "idle" /\ Gone /\ UNCHANGED disk
    BY <1>5 DEF ResumeRow, Interrupt
  <2> QED
    BY <2>1, LedgerAbandon DEF Ledger!Next
<1>6. CASE UNCHANGED vars
  BY <1>6 DEF vars, locals, Ledger!vars, SawOutage, PublishedAs, IsPublished
<1> QED
  BY <1>1, <1>2, <1>3, <1>4, <1>5, <1>6 DEF Next, Work

\* As long as no write is cut short, a run directory with the processes that
\* work on it one after another is a ledger.
THEOREM RunImplementsLedger ==
    ASSUME "torn" \notin Faults
    PROVE  Spec => ImplementsLedger
<1>1. Init => Ledger!Init
  BY LedgerInit
<1>2. ReportInv /\ View /\ View' /\ [Next]_vars => [Ledger!Next]_(Ledger!vars)
  BY LedgerNext
<1> QED
  BY <1>1, <1>2, LedgerView, ReportInvariance, PTL DEF Spec, ImplementsLedger, Ledger!Spec

-----------------------------------------------------------------------------
(* The comparison.                                                         *)

\* A set with exactly one member in each of q rounds, and at most one in a
\* further one, has q or q + 1 members.
LEMMA OncePerRound ==
    ASSUME NEW A, IsFiniteSet(A), NEW q \in Nat, NEW round \in [A -> 0..q],
           \A a, b \in A : round[a] = round[b] => a = b,
           \A j \in 0..(q - 1) : \E a \in A : round[a] = j
    PROVE  Cardinality(A) \in q..(q + 1)
<1>1. IsFiniteSet(0..q) /\ Cardinality(0..q) = q + 1
  BY FS_Interval
<1>2. Cardinality(A) <= q + 1
  <2>1. round \in Injection(A, 0..q)
    BY DEF Injection, IsInjective
  <2> QED
    BY <1>1, <2>1, FS_Injection
<1>3. q <= Cardinality(A)
  <2> DEFINE of == [j \in 0..(q - 1) |-> CHOOSE a \in A : round[a] = j]
  <2>1. \A j \in 0..(q - 1) : of[j] \in A /\ round[of[j]] = j
    OBVIOUS
  <2>2. of \in Injection(0..(q - 1), A)
    <3> HIDE DEF of
    <3>1. \A i, j \in 0..(q - 1) : of[i] = of[j] => i = j
      BY <2>1
    <3>2. of \in [0..(q - 1) -> A]
      BY DEF of
    <3> QED
      BY <3>1, <3>2 DEF Injection, IsInjective
  <2>3. Cardinality(0..(q - 1)) = q
    BY FS_Interval
  <2> QED
    BY <2>2, <2>3, FS_Injection
<1>4. Cardinality(A) \in Nat
  BY FS_CardinalityType
<1> QED
  BY <1>2, <1>3, <1>4

\* Strategy, trial and position of an entry in terms of the loop indices.
LEMMA StrategyOfEntry ==
    ASSUME NEW o \in Ordinals
    PROVE  /\ schedule[o].strategy = Rotated(OffsetOf(o))[PlaceOf(o) + 1]
           /\ schedule[o].trial = TrialOf(o) + 1
           /\ schedule[o].position = PlaceOf(o) + 1
<1>1. /\ schedule[o].strategy = ResultPath(o)[2]
      /\ schedule[o].trial = ResultPath(o)[3]
  BY DEF ResultPath
<1>2. schedule[o].position = PlaceOf(o) + 1
  BY DEF schedule, Entry, PlaceOf
<1> QED
  BY <1>1, <1>2, PathOfEntry

\* The pass of the innermost loop entry o is in.
BlockOf(o) == (o - 1) \div Len(Strategies)

\* Among the first n entries every strategy has run once per complete pass of the
\* innermost loop, and at most once in the last.
LEMMA RunsOfStrategy ==
    ASSUME NEW n \in 0..Planned, NEW s \in StrategyIds
    PROVE  Cardinality({o \in 1..n : schedule[o].strategy = s})
             \in (n \div Len(Strategies))..(n \div Len(Strategies) + 1)
<1> DEFINE S == Len(Strategies)
           A == {o \in 1..n : schedule[o].strategy = s}
           q == n \div S
           round == [o \in A |-> BlockOf(o)]
<1>1. S \in Nat \ {0} /\ Planned \in Nat /\ n \in Nat /\ Trials \in Nat \ {0}
  BY Sizes
<1>2. q \in Nat /\ n = S * q + (n % S) /\ n % S \in 0..(S - 1)
  BY <1>1, Division
<1> HIDE DEF q, S
<1>3. \A o \in A : o \in Ordinals /\ o \in 1..n
  BY <1>1 DEF Ordinals
<1>4. IsFiniteSet(A)
  <2>1. IsFiniteSet(1..n) /\ A \in SUBSET (1..n)
    BY <1>1, FS_Interval
  <2> QED
    BY <2>1, FS_Subset
<1>5. round \in [A -> 0..q]
  <2> SUFFICES ASSUME NEW o \in A PROVE BlockOf(o) \in 0..q
    OBVIOUS
  <2>1. o - 1 \in Nat /\ o - 1 < S * (q + 1)
    <3>1. S * (q + 1) = S * q + S
      BY <1>1, <1>2
    <3>2. S * q \in Nat
      BY <1>1, <1>2
    <3> QED
      BY <1>1, <1>2, <1>3, <3>1, <3>2
  <2>2. (o - 1) \div S \in Nat /\ (o - 1) \div S < q + 1
    <3>1. q + 1 \in Nat
      BY <1>2
    <3> QED
      BY <1>1, <2>1, <3>1, Division, QuotientBelow
  <2> QED
    BY <1>2, <2>2 DEF BlockOf, S
<1>6. \A a, b \in A : round[a] = round[b] => a = b
  <2> SUFFICES ASSUME NEW a \in A, NEW b \in A, BlockOf(a) = BlockOf(b)
               PROVE  a = b
    OBVIOUS
  <2>1. CaseOf(a) = CaseOf(b) /\ TrialOf(a) = TrialOf(b)
    BY DEF CaseOf, TrialOf, BlockOf
  <2>2. OffsetOf(a) = OffsetOf(b)
    BY <2>1 DEF OffsetOf
  <2>3. Rotated(OffsetOf(a))[PlaceOf(a) + 1] = Rotated(OffsetOf(a))[PlaceOf(b) + 1]
    BY <1>3, <2>2, StrategyOfEntry
  <2>4. /\ OffsetOf(a) \in 0..(Len(Strategies) - 1)
        /\ PlaceOf(a) \in 0..(Len(Strategies) - 1) /\ PlaceOf(b) \in 0..(Len(Strategies) - 1)
    BY <1>3, EntryIndices
  <2>5. PlaceOf(a) + 1 \in 1..Len(Strategies) /\ PlaceOf(b) + 1 \in 1..Len(Strategies)
    BY <2>4, Sizes
  <2>6. PlaceOf(a) = PlaceOf(b)
    <3>1. PlaceOf(a) + 1 = PlaceOf(b) + 1
      BY <2>3, <2>4, <2>5, RotatedOnce
    <3> QED
      BY <2>4, <3>1
  <2> QED
    BY <1>3, <2>1, <2>6, EntryIndices
<1>7. \A j \in 0..(q - 1) : \E a \in A : round[a] = j
  <2> SUFFICES ASSUME NEW j \in 0..(q - 1) PROVE \E a \in A : BlockOf(a) = j
    OBVIOUS
  <2> DEFINE c == j \div Trials
             t == j % Trials
             k == (c + t) % S
  <2>1. j \in Nat /\ c \in Nat /\ t \in 0..(Trials - 1) /\ j = Trials * c + t
    <3>1. j \in Nat
      BY <1>2
    <3> QED
      BY <1>1, <3>1, Division
  <2>2. k \in 0..(S - 1)
    <3>1. c + t \in Nat
      BY <1>1, <2>1
    <3> QED
      BY <1>1, <3>1, Division
  <2> HIDE DEF c, t
  <2>3. PICK p \in 1..S : Rotated(k)[p] = s
    BY <2>2, RotatedHas DEF S
  <2> DEFINE o == S * j + (p - 1) + 1
  <2>4. S * j \in Nat /\ S * j + S <= n /\ p - 1 \in 0..(S - 1)
    <3>1. S * (j + 1) <= S * q /\ S * (j + 1) = S * j + S /\ S * j \in Nat /\ S * q \in Nat
      BY <1>1, <1>2, <2>1
    <3> QED
      BY <1>1, <1>2, <3>1
  <2>5. o \in 1..n /\ o \in Ordinals
    BY <1>1, <2>4 DEF Ordinals
  <2>6. o \in Nat \ {0} /\ CaseOf(o) = c /\ TrialOf(o) = t /\ PlaceOf(o) = p - 1
        /\ (o - 1) \div S = j
    <3> HIDE DEF o
    <3>1. o = Len(Strategies) * (Trials * c + t) + (p - 1) + 1
      BY <2>1 DEF o, S
    <3>2. p - 1 \in 0..(Len(Strategies) - 1)
      BY <2>4 DEF S
    <3> QED
      BY <2>1, <3>1, <3>2, OrdinalAt DEF S
  <2> HIDE DEF o
  <2>7. schedule[o].strategy = s
    <3>1. OffsetOf(o) = k
      BY <2>6 DEF OffsetOf, S
    <3>2. PlaceOf(o) + 1 = p
      BY <1>1, <2>6
    <3> QED
      BY <2>3, <2>5, <3>1, <3>2, StrategyOfEntry
  <2> QED
    BY <2>5, <2>6, <2>7 DEF BlockOf, S
<1>8. Cardinality(A) \in q..(q + 1)
  <2> HIDE DEF A, round
  <2> QED
    BY <1>2, <1>4, <1>5, <1>6, <1>7, OncePerRound
<1> QED
  BY <1>8 DEF q, S

\* No other multiple of b is as close to zero as zero.
LEMMA SmallMultiple ==
    ASSUME NEW b \in Nat \ {0}, NEW z \in Int, b * z < b, -b < b * z
    PROVE  z = 0
OBVIOUS

\* For a trial and a position, every strategy has had one turn in as many
\* consecutive cases as there are strategies, and at most one in the rest.
LEMMA TurnsOfStrategy ==
    ASSUME NEW n \in 0..Planned,
           NEW u \in 1..Trials, NEW p \in 1..Len(Strategies)
    PROVE  \E q \in Nat : \A s \in StrategyIds :
             Cardinality({o \in 1..n : schedule[o].strategy = s /\ schedule[o].trial = u
                                        /\ schedule[o].position = p}) \in q..(q + 1)
<1> DEFINE S == Len(Strategies)
           t == u - 1
           first == S * t + p
           m == IF n < first THEN 0 ELSE (n - first) \div (S * Trials) + 1
           q == m \div S
<1>1. S \in Nat \ {0} /\ Planned \in Nat /\ n \in Nat /\ Trials \in Nat \ {0}
      /\ t \in 0..(Trials - 1) /\ t + 1 = u /\ p \in 1..S
  BY Sizes
<1> HIDE DEF t, S
<1>2. first \in Nat /\ S * Trials \in Nat \ {0}
  BY <1>1
<1> HIDE DEF first
<1>3. m \in Nat
  <2>1. CASE n < first
    BY <2>1
  <2>2. CASE ~(n < first)
    <3>1. n - first \in Nat
      BY <1>1, <1>2, <2>2
    <3>2. (n - first) \div (S * Trials) \in Nat
      BY <1>2, <3>1, Division
    <3> QED
      BY <2>2, <3>2
  <2> QED
    BY <2>1, <2>2
\* Case c has its turn among the first n entries iff c < m.
<1>4. \A c \in Nat : c < m <=> (S * Trials) * c + first <= n
  <2> DEFINE d == S * Trials
  <2> SUFFICES ASSUME NEW c \in Nat PROVE c < m <=> d * c + first <= n
    OBVIOUS
  <2>1. CASE n < first
    <3>1. d * c \in Nat
      BY <1>2
    <3> QED
      BY <1>1, <1>2, <2>1, <3>1
  <2>2. CASE ~(n < first)
    <3> DEFINE e == n - first
               x == e \div d
    <3>1. e \in Nat /\ e = d * x + (e % d) /\ x \in Nat /\ e % d \in 0..(d - 1)
      <4>1. e \in Nat
        BY <1>1, <1>2, <2>2
      <4> QED
        BY <1>2, <4>1, Division
    <3>2. m = x + 1
      BY <2>2
    <3> HIDE DEF d, e, x, m
    <3>3. c <= x <=> d * c <= e
      <4>1. d \in Nat \ {0}
        BY <1>2 DEF d
      <4>2. ASSUME c <= x PROVE d * c <= e
        <5>1. d * c <= d * x /\ d * c \in Nat /\ d * x \in Nat
          BY <3>1, <4>1, <4>2
        <5> QED
          BY <3>1, <4>1, <5>1
      <4>3. ASSUME c > x PROVE d * c > e
        <5>1. d * c >= d * x + d /\ d * c \in Nat /\ d * x \in Nat
          BY <3>1, <4>1, <4>3
        <5> QED
          BY <3>1, <4>1, <5>1
      <4>4. d * c \in Nat
        BY <4>1
      <4> QED
        BY <3>1, <4>2, <4>3, <4>4
    <3>4. d * c <= e <=> d * c + first <= n
      <4>1. d * c \in Nat
        BY <1>2 DEF d
      <4> QED
        BY <1>1, <1>2, <4>1 DEF e
    <3> QED
      BY <3>1, <3>2, <3>3, <3>4
  <2> QED
    BY <2>1, <2>2
<1>5. q \in Nat /\ m = S * q + (m % S) /\ m % S \in 0..(S - 1)
  BY <1>1, <1>3, Division
<1> HIDE DEF q, m
<1> SUFFICES ASSUME NEW s \in StrategyIds
             PROVE  Cardinality({o \in 1..n : schedule[o].strategy = s /\ schedule[o].trial = u
                                               /\ schedule[o].position = p}) \in q..(q + 1)
  BY <1>5
<1> DEFINE A == {o \in 1..n : schedule[o].strategy = s /\ schedule[o].trial = u
                               /\ schedule[o].position = p}
           round == [o \in A |-> CaseOf(o) \div S]
<1>6. ASSUME NEW o \in A
      PROVE  /\ o \in Ordinals /\ o \in 1..n
             /\ CaseOf(o) \in Nat /\ TrialOf(o) = t /\ PlaceOf(o) = p - 1
             /\ o = (S * Trials) * CaseOf(o) + first
             /\ OffsetOf(o) = (CaseOf(o) + t) % S
             /\ Rotated(OffsetOf(o))[p] = s
  <2>1. o \in Ordinals
    BY <1>1 DEF Ordinals
  <2>2. CaseOf(o) \in Nat /\ TrialOf(o) \in Nat /\ PlaceOf(o) \in Nat
    <3>1. CaseOf(o) \in 0..(Len(Cases) - 1) /\ TrialOf(o) \in 0..(Trials - 1)
          /\ PlaceOf(o) \in 0..(Len(Strategies) - 1)
      BY <2>1, EntryIndices
    <3> QED
      BY <3>1
  <2>3. TrialOf(o) + 1 = u /\ PlaceOf(o) + 1 = p /\ Rotated(OffsetOf(o))[PlaceOf(o) + 1] = s
    BY <2>1, StrategyOfEntry
  <2>4. TrialOf(o) = t /\ PlaceOf(o) = p - 1
    BY <1>1, <2>2, <2>3
  <2>5. o = S * (Trials * CaseOf(o) + t) + (p - 1) + 1
    BY <2>1, <2>4, EntryIndices DEF S
  <2>6. S * (Trials * CaseOf(o) + t) + (p - 1) + 1 = (S * Trials) * CaseOf(o) + (S * t + p)
    BY <1>1, <2>2, SMTT(30)
  <2>7. OffsetOf(o) = (CaseOf(o) + t) % S
    BY <2>4 DEF OffsetOf, S
  <2> QED
    BY <2>1, <2>2, <2>3, <2>4, <2>5, <2>6, <2>7 DEF first
<1>7. IsFiniteSet(A)
  <2>1. IsFiniteSet(1..n) /\ A \in SUBSET (1..n)
    BY <1>1, FS_Interval
  <2> QED
    BY <2>1, FS_Subset
<1>8. round \in [A -> 0..q]
  <2> SUFFICES ASSUME NEW o \in A PROVE CaseOf(o) \div S \in 0..q
    OBVIOUS
  <2> DEFINE c == CaseOf(o)
  <2>1. c \in Nat /\ c < m
    <3>1. c \in Nat /\ o = (S * Trials) * c + first /\ o <= n
      BY <1>1, <1>6
    <3> HIDE DEF c, A
    <3> QED
      BY <1>4, <3>1
  <2> HIDE DEF c
  <2>2. c < S * (q + 1)
    <3>1. S * (q + 1) = S * q + S /\ S * q \in Nat
      BY <1>1, <1>5
    <3> QED
      BY <1>1, <1>3, <1>5, <2>1, <3>1
  <2>3. c \div S \in Nat /\ c \div S < q + 1
    <3>1. q + 1 \in Nat
      BY <1>5
    <3> QED
      BY <1>1, <2>1, <2>2, <3>1, Division, QuotientBelow
  <2> QED
    BY <1>5, <2>3 DEF c
<1>9. \A a, b \in A : round[a] = round[b] => a = b
  <2> SUFFICES ASSUME NEW a \in A, NEW b \in A, CaseOf(a) \div S = CaseOf(b) \div S
               PROVE  a = b
    OBVIOUS
  <2> DEFINE x == CaseOf(a)
             y == CaseOf(b)
  <2>1. x \in Nat /\ y \in Nat /\ x + t \in Nat /\ y + t \in Nat
    <3>1. t \in Nat
      BY <1>1
    <3>2. x \in Nat /\ y \in Nat
      BY <1>6
    <3> HIDE DEF x, y
    <3> QED
      BY <3>1, <3>2
  <2>2. (x + t) % S = (y + t) % S
    <3>1. OffsetOf(a) \in 0..(Len(Strategies) - 1) /\ OffsetOf(b) \in 0..(Len(Strategies) - 1)
      BY <1>6, EntryIndices
    <3>2. OffsetOf(a) = OffsetOf(b)
      BY <1>6, <3>1, RotatedElsewhere
    <3> QED
      BY <1>6, <3>2
  <2> HIDE DEF x, y
  <2>3. x = S * (x \div S) + (x % S) /\ y = S * (x \div S) + (y % S)
        /\ x % S \in 0..(S - 1) /\ y % S \in 0..(S - 1) /\ x \div S \in Nat
    BY <1>1, <2>1, Division DEF x, y
  <2> DEFINE f == (x + t) \div S
             g == (y + t) \div S
             w == (x + t) % S
  <2>4. f \in Nat /\ g \in Nat /\ w \in Nat /\ x + t = S * f + w /\ y + t = S * g + w
    <3>1. x + t = S * f + ((x + t) % S) /\ f \in Nat /\ (x + t) % S \in 0..(S - 1)
      BY <1>1, <2>1, Division
    <3>2. y + t = S * g + ((y + t) % S) /\ g \in Nat
      BY <1>1, <2>1, Division
    <3> QED
      BY <2>2, <3>1, <3>2
  <2> HIDE DEF f, g, w
  <2>5. x - y < S /\ -S < x - y
    <3> DEFINE z == x \div S
    <3>1. z \in Nat /\ x = S * z + (x % S) /\ y = S * z + (y % S)
      BY <2>3
    <3> HIDE DEF z
    <3>2. S * z \in Nat
      BY <1>1, <3>1
    <3> QED
      BY <1>1, <2>1, <2>3, <3>1, <3>2
  <2>6. x - y = S * (f - g)
    <3>1. S * (f - g) = S * f - S * g /\ S * f \in Nat /\ S * g \in Nat
      BY <1>1, <2>4
    <3> QED
      BY <1>1, <2>1, <2>4, <3>1
  <2>7. f - g = 0
    <3>1. f - g \in Int
      BY <2>4
    <3> QED
      BY <1>1, <2>5, <2>6, <3>1, SmallMultiple
  <2>8. x = y
    <3>1. x + t = y + t
      <4>1. f = g
        BY <2>4, <2>7
      <4> QED
        BY <2>4, <4>1
    <3> QED
      BY <1>1, <2>1, <3>1
  <2> QED
    BY <1>6, <2>8 DEF x, y
<1>10. \A j \in 0..(q - 1) : \E a \in A : round[a] = j
  <2> SUFFICES ASSUME NEW j \in 0..(q - 1) PROVE \E a \in A : CaseOf(a) \div S = j
    OBVIOUS
  <2>1. PICK k \in 0..(S - 1) : Rotated(k)[p] = s
    BY <1>1, RotationWith DEF S
  <2> DEFINE y == t \div S
             v == t % S
             r == IF k < v THEN k + S - v ELSE k - v
             c == S * j + r
  <2>2. y \in Nat /\ v \in 0..(S - 1) /\ t = S * y + v /\ j \in Nat
    <3>1. t \in Nat
      BY <1>1
    <3>2. j \in Nat
      BY <1>5
    <3>3. t \div S \in Nat /\ t % S \in 0..(S - 1) /\ t = S * (t \div S) + (t % S)
      BY <1>1, <3>1, Division
    <3> QED
      BY <3>2, <3>3
  <2>3. r \in 0..(S - 1) /\ (v + r = k \/ v + r = k + S)
    BY <1>1, <2>2
  <2> HIDE DEF v, r, y
  <2>4. c \in Nat /\ c \div S = j
    <3>1. S * j \in Nat
      BY <1>1, <2>2
    <3> QED
      BY <1>1, <2>2, <2>3, <3>1, DivisionIsUnique
  <2>5. (c + t) % S = k
    <3>1. S * j \in Nat /\ S * y \in Nat /\ j + y \in Nat /\ j + y + 1 \in Nat
      BY <1>1, <2>2
    <3>2. S * (j + y) = S * j + S * y /\ S * (j + y + 1) = S * j + S * y + S
      BY <1>1, <2>2
    <3>3. c + t = S * (j + y) + k \/ c + t = S * (j + y + 1) + k
      BY <1>1, <2>2, <2>3, <3>1, <3>2
    <3>4. (S * (j + y) + k) % S = k /\ (S * (j + y + 1) + k) % S = k
      BY <1>1, <2>1, <3>1, DivisionIsUnique
    <3> QED
      BY <3>3, <3>4
  <2>6. c < m
    <3>1. S * (j + 1) <= S * q /\ S * (j + 1) = S * j + S /\ S * j \in Nat /\ S * q \in Nat
      BY <1>1, <1>5, <2>2
    <3> QED
      BY <1>1, <1>3, <1>5, <2>3, <3>1
  <2> HIDE DEF c
  <2> DEFINE o == S * (Trials * c + t) + (p - 1) + 1
  <2>7. o = (S * Trials) * c + first
    BY <1>1, <2>4 DEF first
  <2>8. o <= n
    BY <1>4, <2>4, <2>6, <2>7
  <2> HIDE DEF o
  <2>9. o \in Nat \ {0} /\ CaseOf(o) = c /\ TrialOf(o) = t /\ PlaceOf(o) = p - 1
    <3>1. p - 1 \in 0..(Len(Strategies) - 1)
      BY <1>1 DEF S
    <3>2. o = Len(Strategies) * (Trials * c + t) + (p - 1) + 1
      BY DEF o, S
    <3>3. t \in 0..(Trials - 1) /\ c \in Nat
      BY <1>1, <2>4
    <3> QED
      BY <3>1, <3>2, <3>3, OrdinalAt
  <2>10. o \in 1..n /\ o \in Ordinals
    BY <1>1, <2>8, <2>9 DEF Ordinals
  <2>11. o \in A
    <3>1. OffsetOf(o) = k
      BY <2>5, <2>9 DEF OffsetOf, S
    <3>2. PlaceOf(o) + 1 = p /\ TrialOf(o) + 1 = u
      BY <1>1, <2>9
    <3> QED
      BY <2>1, <2>10, <3>1, <3>2, StrategyOfEntry
  <2> QED
    BY <2>4, <2>9, <2>11
<1>11. Cardinality(A) \in q..(q + 1)
  <2> HIDE DEF A, round
  <2> QED
    BY <1>5, <1>7, <1>8, <1>9, <1>10, OncePerRound
<1> QED
  BY <1>11

\* Wherever a run stops, it has compared the strategies evenly, for every suite.
THEOREM ComparisonStaysBalanced == Spec => []ComparisonIsBalanced
<1>1. ReportInv => ComparisonIsBalanced
  <2> SUFFICES ASSUME ReportInv, NEW s1 \in StrategyIds, NEW s2 \in StrategyIds
               PROVE  /\ TimesRun(s1) <= TimesRun(s2) + 1
                      /\ \A t \in 1..Trials, p \in 1..Len(Strategies) :
                             TimesAt(s1, t, p) <= TimesAt(s2, t, p) + 1
    BY DEF ComparisonIsBalanced
  <2> DEFINE n == Len(results)
  <2>1. n \in 0..Planned
    BY Sizes DEF ReportInv, TypeInv, TypeOK
  <2> HIDE DEF n
  <2>2. TimesRun(s1) <= TimesRun(s2) + 1
    <3> DEFINE q == n \div Len(Strategies)
    <3>1. q \in Nat
      <4>1. n \in Nat
        BY <2>1
      <4> QED
        BY <4>1, Sizes, Division
    <3>2. TimesRun(s1) \in q..(q + 1) /\ TimesRun(s2) \in q..(q + 1)
      BY <2>1, RunsOfStrategy DEF TimesRun, n
    <3> HIDE DEF q
    <3> QED
      BY <3>1, <3>2
  <2>3. ASSUME NEW t \in 1..Trials, NEW p \in 1..Len(Strategies)
        PROVE  TimesAt(s1, t, p) <= TimesAt(s2, t, p) + 1
    <3>1. PICK q \in Nat : \A s \in StrategyIds :
            Cardinality({o \in 1..n : schedule[o].strategy = s /\ schedule[o].trial = t
                                       /\ schedule[o].position = p}) \in q..(q + 1)
      BY <2>1, TurnsOfStrategy
    <3>2. TimesAt(s1, t, p) \in q..(q + 1) /\ TimesAt(s2, t, p) \in q..(q + 1)
      BY <3>1 DEF TimesAt, n
    <3> QED
      BY <3>2
  <2> QED
    BY <2>2, <2>3
<1> QED
  BY <1>1, ReportInvariance, PTL
=============================================================================
