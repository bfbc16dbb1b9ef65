----------------------- MODULE DiagnoseSession_proofs -----------------------
(***************************************************************************)
(* Nothing stale is sent as new, every fact is accounted for, and the health   *)
(* report follows the newest facts: for every machine, query and policy of     *)
(* ages, for stores of every size and diagnoses of any number.                *)
(***************************************************************************)
EXTENDS DiagnoseSession, FiniteSetTheorems, SequenceTheorems, WellFoundedInduction, TLAPS

-----------------------------------------------------------------------------
(* Induction over the natural numbers, as a statement about sets. *)

LessThan == {pair \in Nat \X Nat : pair[1] < pair[2]}

LEMMA LessThanWellFounded == IsWellFoundedOn(LessThan, Nat)
BY NatLessThanWellFounded DEF OpToRel, LessThan

LEMMA LeastElement ==
  ASSUME NEW S, S \subseteq Nat, S # {}
  PROVE  \E m \in S : \A n \in S : m <= n
<1>1. PICK m \in S : \A n \in S : ~(<<n, m>> \in LessThan)
  BY LessThanWellFounded, WFMin
<1>2. \A n \in S : m <= n
  <2> TAKE n \in S
  <2>1. <<n, m>> \in Nat \X Nat
    OBVIOUS
  <2>2. ~(n < m)
    BY <1>1, <2>1 DEF LessThan
  <2>3. QED
    BY <2>2
<1>3. QED
  BY <1>2

LEMMA Induction ==
  ASSUME NEW S, 0 \in S, \A n \in Nat : n \in S => n + 1 \in S
  PROVE  \A n \in Nat : n \in S
<1>1. SUFFICES ASSUME Nat \ S # {} PROVE FALSE
  OBVIOUS
<1>2. PICK m \in Nat \ S : \A n \in Nat \ S : m <= n
  BY <1>1, LeastElement
<1>3. m - 1 \in Nat /\ m - 1 \in S
  BY <1>2
<1>4. QED
  BY <1>2, <1>3

-----------------------------------------------------------------------------
(* FlattenSeq and PushedAll are recursive functions: they satisfy their        *)
(* recursion, by induction over the length.                                 *)

FlattenRecursion(seqs, flatten, n) ==
  flatten = [i \in 1 .. n |-> IF i = 1 THEN seqs[i] ELSE flatten[i - 1] \o seqs[i]]

LEMMA FlattenExists ==
  ASSUME NEW seqs, NEW n \in Nat
  PROVE  \E flatten : FlattenRecursion(seqs, flatten, n)
<1> DEFINE S == {k \in Nat : \E flatten : FlattenRecursion(seqs, flatten, k)}
<1>1. 0 \in S
  <2>1. FlattenRecursion(seqs, [i \in 1 .. 0 |-> seqs[i]], 0)
    BY DEF FlattenRecursion
  <2>2. QED
    BY <2>1
<1>2. \A k \in Nat : k \in S => k + 1 \in S
  <2> SUFFICES ASSUME NEW k \in Nat, NEW f, FlattenRecursion(seqs, f, k)
               PROVE  \E flatten : FlattenRecursion(seqs, flatten, k + 1)
    OBVIOUS
  <2> DEFINE g == [i \in 1 .. k + 1 |->
                     IF i <= k THEN f[i] ELSE IF i = 1 THEN seqs[i] ELSE f[i - 1] \o seqs[i]]
  <2>1. \A i \in 1 .. k : f[i] = IF i = 1 THEN seqs[i] ELSE f[i - 1] \o seqs[i]
    BY DEF FlattenRecursion
  <2>2. \A i \in 1 .. k + 1 : g[i] = IF i = 1 THEN seqs[i] ELSE g[i - 1] \o seqs[i]
    BY <2>1
  <2>3. FlattenRecursion(seqs, g, k + 1)
    BY <2>2 DEF FlattenRecursion
  <2>4. QED
    BY <2>3
<1> HIDE DEF S
<1>3. n \in S
  BY <1>1, <1>2, Induction
<1>4. QED
  BY <1>3 DEF S

\* A flattened sequence has nothing but elements of its parts.
LEMMA FlattenProperties ==
  ASSUME NEW S, NEW seqs \in Seq(Seq(S))
  PROVE  FlattenSeq(seqs) \in Seq(S)
<1> DEFINE f == CHOOSE flatten : FlattenRecursion(seqs, flatten, Len(seqs))
<1>1. Len(seqs) \in Nat /\ \A m \in 1 .. Len(seqs) : seqs[m] \in Seq(S)
  OBVIOUS
<1>2. CASE Len(seqs) = 0
  <2>1. FlattenSeq(seqs) = seqs /\ seqs = <<>>
    BY <1>2 DEF FlattenSeq
  <2>2. QED
    BY <2>1, <1>2, EmptySeq
<1>3. CASE Len(seqs) # 0
  <2>1. FlattenSeq(seqs) = f[Len(seqs)]
    BY <1>3 DEF FlattenSeq, FlattenRecursion
  <2>2. FlattenRecursion(seqs, f, Len(seqs))
    BY <1>1, FlattenExists
  <2> HIDE DEF f
  <2>3. \A i \in 1 .. Len(seqs) : f[i] = IF i = 1 THEN seqs[i] ELSE f[i - 1] \o seqs[i]
    BY <2>2 DEF FlattenRecursion
  <2> DEFINE Good(k) == f[k] \in Seq(S)
      T == {k \in Nat : k \in 1 .. Len(seqs) => Good(k)}
  <2>4. 0 \in T
    OBVIOUS
  <2>5. ASSUME NEW k \in Nat, k \in T, k + 1 \in 1 .. Len(seqs) PROVE Good(k + 1)
    <3>1. CASE k = 0
      BY <3>1, <2>3, <2>5, <1>1
    <3>2. CASE k # 0
      <4>1. f[k] \in Seq(S) /\ seqs[k + 1] \in Seq(S)
        BY <3>2, <2>5, <1>1
      <4>2. f[k + 1] = f[k] \o seqs[k + 1]
        <5>1. (k + 1) - 1 = k /\ k + 1 # 1
          BY <3>2
        <5>2. QED
          BY <5>1, <2>3, <2>5
      <4>3. QED
        BY <4>1, <4>2, ConcatProperties
    <3>3. QED
      BY <3>1, <3>2
  <2> HIDE DEF Good
  <2>6. ASSUME NEW k \in Nat, k \in T PROVE k + 1 \in T
    <3>1. k + 1 \in 1 .. Len(seqs) => Good(k + 1)
      BY <2>5, <2>6
    <3>2. QED
      BY <3>1
  <2>7. Len(seqs) \in T
    <3> HIDE DEF T
    <3>1. QED
      BY <1>1, <2>4, <2>6, Induction
  <2>8. Len(seqs) \in 1 .. Len(seqs)
    BY <1>1, <1>3
  <2>9. QED
    BY <2>1, <2>7, <2>8 DEF Good
<1>4. QED
  BY <1>2, <1>3

-----------------------------------------------------------------------------
(* Facts: what they are about, and what a query takes an interest in.           *)

Id == FixedIds \cup StorageIds
IdsOf(check) ==
  CASE check = "cpu" -> {"cpu-status"}
    [] check = "ram" -> {"ram-status"}
    [] check = "gpu" -> {"gpu-generic-driver", "gpu-driver-ok"}
    [] check = "temperature" -> {"temperature-status"}
    [] check = "storage" -> StorageIds
    [] check = "processes" -> {"heavy-processes", "processes-ok"}
    [] check = "network" -> {"network-status"}
FactSet ==
  {f \in [id : Id, check : CheckName, severity : {"ok", "warning", "error"}] : f.id \in IdsOf(f.check)}
Stamp == [fact : FactSet, observedAt : Nat, readAt : Nat]
Entry == [field : Id, before : {"observed", "stale"}, required : BOOLEAN, performed : BOOLEAN,
          after : {"observed", "stale"}]

LEMMA CheckNames ==
  /\ CheckName = {"cpu", "ram", "gpu", "temperature", "storage", "processes", "network"}
  /\ DOMAIN CheckOrder = 1 .. 7
  /\ \A n \in 1 .. 7 : CheckOrder[n] \in CheckName
<1>1. DOMAIN CheckOrder = 1 .. 7
  BY DEF CheckOrder
<1>2. \A n \in 1 .. 7 : n = 1 \/ n = 2 \/ n = 3 \/ n = 4 \/ n = 5 \/ n = 6 \/ n = 7
  OBVIOUS
<1>3. /\ CheckOrder[1] = "cpu" /\ CheckOrder[2] = "ram" /\ CheckOrder[3] = "gpu"
      /\ CheckOrder[4] = "temperature" /\ CheckOrder[5] = "storage"
      /\ CheckOrder[6] = "processes" /\ CheckOrder[7] = "network"
  BY DEF CheckOrder
<1>4. CheckName = {CheckOrder[n] : n \in 1 .. 7}
  BY <1>1 DEF CheckName, ToSet
<1>5. QED
  BY <1>1, <1>2, <1>3, <1>4

\* Each fact has the category of its check, and a query that selects its check
\* takes an interest in it, unless it is about a disk.
LEMMA FactsMatchTheirChecks ==
  ASSUME NEW f \in FactSet
  PROVE  /\ ExtractCategory(f.id) = CategoryOfCheck(f.check)
         /\ CategoryOfCheck(f.check) \in Category
         /\ \A checks : f.check \in checks \ {"storage"} => f.id \in RelevantChecks(checks)
<1>1. f.check \in CheckName /\ f.id \in IdsOf(f.check) /\ f.id \in Id
  BY DEF FactSet
<1>2. CASE f.check = "storage"
  BY <1>1, <1>2 DEF IdsOf, ExtractCategory, CategoryOfCheck, Category
<1>3. CASE f.check # "storage"
  <2>1. \/ f.check = "cpu" /\ f.id = "cpu-status"
        \/ f.check = "ram" /\ f.id = "ram-status"
        \/ f.check = "gpu" /\ f.id \in {"gpu-generic-driver", "gpu-driver-ok"}
        \/ f.check = "temperature" /\ f.id = "temperature-status"
        \/ f.check = "processes" /\ f.id \in {"heavy-processes", "processes-ok"}
        \/ f.check = "network" /\ f.id = "network-status"
    BY <1>1, <1>3, CheckNames DEF IdsOf
  <2>2. f.id \notin StorageIds
    BY <2>1, MeasurementAssumption DEF FixedIds
  <2>3. ExtractCategory(f.id) = CategoryOfCheck(f.check)
    BY <2>1, <2>2 DEF ExtractCategory, CategoryOfCheck
  <2>4. CategoryOfCheck(f.check) \in Category
    BY <2>1 DEF CategoryOfCheck, Category
  <2>5. ASSUME NEW checks, f.check \in checks PROVE f.id \in RelevantChecks(checks)
    BY <2>1, <2>5 DEF RelevantChecks
  <2>6. QED
    BY <2>3, <2>4, <2>5
<1>4. QED
  BY <1>2, <1>3

LEMMA SingleFacts ==
  ASSUME NEW s \in Systems
  PROVE  /\ CpuFact(s) \in FactSet /\ CpuFact(s).check = "cpu"
         /\ RamFact(s) \in FactSet /\ RamFact(s).check = "ram"
         /\ GpuFact(s) \in FactSet
         /\ TemperatureFact(s) \in FactSet /\ TemperatureFact(s).check = "temperature"
         /\ ProcessesFact(s) \in FactSet /\ ProcessesFact(s).check = "processes"
         /\ QuietProcesses \in FactSet /\ QuietProcesses.check = "processes"
         /\ NetworkFact \in FactSet
         /\ StorageFacts(s) \in Seq(FactSet)
<1>1. \A value, error, warning : Graded(value, error, warning) \in {"ok", "warning", "error"}
  BY DEF Graded
<1>2. /\ CpuSeverity(s.cpu) \in {"ok", "warning", "error"}
      /\ RamSeverity(s.ram) \in {"ok", "warning", "error"}
      /\ TemperatureSeverity(s.temperature) \in {"ok", "warning", "error"}
  BY <1>1 DEF CpuSeverity, RamSeverity, TemperatureSeverity
<1>3. ASSUME NEW check \in CheckName, NEW id \in Id, id \in IdsOf(check),
             NEW severity \in {"ok", "warning", "error"}
      PROVE  Fact(id, check, severity) \in FactSet /\ Fact(id, check, severity).check = check
  BY <1>3 DEF Fact, FactSet
<1>4. /\ "cpu-status" \in Id /\ "ram-status" \in Id /\ "gpu-generic-driver" \in Id
      /\ "gpu-driver-ok" \in Id /\ "temperature-status" \in Id /\ "processes-ok" \in Id
      /\ "heavy-processes" \in Id /\ "network-status" \in Id /\ StorageIds \subseteq Id
  BY DEF Id, FixedIds
<1>5. CpuFact(s) \in FactSet /\ CpuFact(s).check = "cpu"
  BY <1>2, <1>3, <1>4, CheckNames DEF CpuFact, IdsOf
<1>6. RamFact(s) \in FactSet /\ RamFact(s).check = "ram"
  BY <1>2, <1>3, <1>4, CheckNames DEF RamFact, IdsOf
<1>7. GpuFact(s) \in FactSet
  BY <1>3, <1>4, CheckNames DEF GpuFact, IdsOf
<1>8. TemperatureFact(s) \in FactSet /\ TemperatureFact(s).check = "temperature"
  BY <1>2, <1>3, <1>4, CheckNames DEF TemperatureFact, IdsOf
<1>9. QuietProcesses \in FactSet /\ QuietProcesses.check = "processes"
  BY <1>3, <1>4, CheckNames DEF QuietProcesses, IdsOf
<1>10. ProcessesFact(s) \in FactSet /\ ProcessesFact(s).check = "processes"
  BY <1>3, <1>4, <1>9, CheckNames DEF ProcessesFact, IdsOf
<1>11. NetworkFact \in FactSet
  BY <1>3, <1>4, CheckNames DEF NetworkFact, IdsOf
<1>12. StorageFacts(s) \in Seq(FactSet)
  <2>1. s.disks \in Seq([id : StorageIds, used : Nat])
    BY MeasurementAssumption
  <2>2. Len(s.disks) \in Nat /\ DOMAIN s.disks = 1 .. Len(s.disks)
    BY <2>1
  <2>3. ASSUME NEW n \in 1 .. Len(s.disks) PROVE s.disks[n].id \in StorageIds
    <3>1. s.disks[n] \in [id : StorageIds, used : Nat]
      BY <2>1, ElementOfSeq
    <3>2. QED
      BY <3>1
  <2>4. ASSUME NEW n \in 1 .. Len(s.disks)
        PROVE  Fact(s.disks[n].id, "storage", DiskSeverity(s.disks[n].used)) \in FactSet
    <3>1. DiskSeverity(s.disks[n].used) \in {"ok", "warning", "error"}
      BY <1>1 DEF DiskSeverity
    <3>2. QED
      BY <3>1, <2>3, <1>3, <1>4, CheckNames DEF IdsOf
  <2>5. QED
    BY <2>2, <2>4 DEF StorageFacts
<1>13. QED
  BY <1>5, <1>6, <1>7, <1>8, <1>9, <1>10, <1>11, <1>12

\* A diagnosis reports facts about its checks.
LEMMA AnalyzedFacts ==
  ASSUME NEW s \in Systems, NEW checks
  PROVE  AnalyzeForQuery(s, checks) \in Seq(FactSet)
<1>1. ASSUME NEW check \in CheckName PROVE FactsOf(s, check) \in Seq(FactSet)
  <2>1. \A f \in FactSet : <<f>> \in Seq(FactSet)
    OBVIOUS
  <2>2. <<>> \in Seq(FactSet)
    OBVIOUS
  <2>3. QED
    BY <2>1, <2>2, SingleFacts, CheckNames DEF FactsOf
<1> DEFINE parts == [n \in DOMAIN CheckOrder |->
                      IF CheckOrder[n] \in checks THEN FactsOf(s, CheckOrder[n]) ELSE <<>>]
<1>2. parts \in Seq(Seq(FactSet))
  <2>1. \A n \in 1 .. 7 : FactsOf(s, CheckOrder[n]) \in Seq(FactSet)
    BY <1>1, CheckNames
  <2>2. <<>> \in Seq(FactSet)
    OBVIOUS
  <2>3. DOMAIN CheckOrder = 1 .. 7
    BY CheckNames
  <2> HIDE DEF FactsOf
  <2>4. \A n \in 1 .. 7 : parts[n] \in Seq(FactSet)
    BY <2>1, <2>2, <2>3
  <2>5. QED
    BY <2>3, <2>4
<1> HIDE DEF parts
<1>3. FlattenSeq(parts) \in Seq(FactSet)
  BY <1>2, FlattenProperties
<1>4. QED
  BY <1>3 DEF AnalyzeForQuery, parts

\* Measuring a fact again gives nothing or one fact about the same check.
LEMMA RefreshedFacts ==
  ASSUME NEW f \in FactSet, f.id \in Refreshable, NEW s \in Systems
  PROVE  \/ RefreshField(f.id, s) = <<>>
         \/ \E g \in FactSet : RefreshField(f.id, s) = <<g>> /\ g.check = f.check
<1>1. f.check \in CheckName /\ f.id \in IdsOf(f.check)
  BY DEF FactSet
<1>2. f.check # "storage"
  BY <1>1, MeasurementAssumption DEF IdsOf, Refreshable, FixedIds
<1>3. \/ f.check = "cpu" /\ f.id = "cpu-status"
      \/ f.check = "ram" /\ f.id = "ram-status"
      \/ f.check = "temperature" /\ f.id = "temperature-status"
      \/ f.check = "processes" /\ f.id = "heavy-processes"
      \/ f.check = "processes" /\ f.id = "processes-ok"
  BY <1>1, <1>2, CheckNames DEF IdsOf, Refreshable
<1>4. QED
  BY <1>3, SingleFacts DEF RefreshField

LEMMA StampedFacts ==
  ASSUME NEW facts \in Seq(FactSet), NEW at \in Nat, NEW read \in Nat
  PROVE  Stamped(facts, at, read) \in Seq(Stamp)
<1>1. Len(facts) \in Nat /\ DOMAIN facts = 1 .. Len(facts)
  OBVIOUS
<1>2. \A n \in 1 .. Len(facts) :
        [fact |-> facts[n], observedAt |-> at, readAt |-> read] \in Stamp
  BY DEF Stamp
<1>3. QED
  BY <1>1, <1>2 DEF Stamped

LEMMA StampedOne ==
  ASSUME NEW f \in FactSet, NEW at \in Nat, NEW read \in Nat
  PROVE  /\ Stamped(<<>>, at, read) = <<>>
         /\ Stamped(<<f>>, at, read) # <<>>
         /\ Stamped(<<f>>, at, read)[1] = [fact |-> f, observedAt |-> at, readAt |-> read]
BY DEF Stamped

-----------------------------------------------------------------------------
(* The audit trail.                                                         *)

StaleIn(entries) == {n \in DOMAIN entries : entries[n].before = "stale"}
RequiredIn(entries) == {n \in DOMAIN entries : entries[n].required}
PerformedIn(entries) == {n \in DOMAIN entries : entries[n].performed}
FieldsIn(entries, positions) == {entries[n].field : n \in positions}

LEMMA EntriesAppend ==
  ASSUME NEW s \in Seq(Entry), NEW e \in Entry
  PROVE  LET t == Append(s, e) k == Len(s) + 1
         IN /\ DOMAIN t = DOMAIN s \cup {k} /\ k \notin DOMAIN s
            /\ t[k] = e /\ \A n \in DOMAIN s : t[n] = s[n]
<1>1. Len(s) \in Nat /\ DOMAIN s = 1 .. Len(s)
  OBVIOUS
<1>2. DOMAIN Append(s, e) = 1 .. Len(s) + 1
  BY AppendProperties
<1>3. Append(s, e)[Len(s) + 1] = e /\ \A n \in 1 .. Len(s) : Append(s, e)[n] = s[n]
  BY AppendProperties
<1>4. QED
  BY <1>1, <1>2, <1>3

LEMMA PositionsAreFinite ==
  ASSUME NEW s \in Seq(Entry), NEW positions, positions \subseteq DOMAIN s
  PROVE  IsFiniteSet(positions) /\ Cardinality(positions) \in Nat
<1>1. IsFiniteSet(DOMAIN s)
  <2>1. DOMAIN s = 1 .. Len(s) /\ Len(s) \in Nat
    OBVIOUS
  <2>2. QED
    BY <2>1, FS_Interval
<1>2. QED
  BY <1>1, FS_Subset, FS_CardinalityType

\* The audit trail agrees with the lists.
AuditOf(entries, again, omitted, needed) ==
  /\ Cardinality(StaleIn(entries)) = Len(again) + Len(omitted) + Len(needed)
  /\ Cardinality(PerformedIn(entries)) = Len(again)
  /\ FieldsIn(entries, RequiredIn(entries)) = FieldsIn(entries, PerformedIn(entries)) \cup ToSet(needed)

LEMMA AuditBegins == AuditOf(<<>>, <<>>, <<>>, <<>>)
<1>1. StaleIn(<<>>) = {} /\ RequiredIn(<<>>) = {} /\ PerformedIn(<<>>) = {}
  BY DEF StaleIn, RequiredIn, PerformedIn
<1>2. Cardinality({}) = 0
  BY FS_EmptySet
<1>3. FieldsIn(<<>>, {}) = {} /\ ToSet(<<>>) = {} /\ Len(<<>>) = 0
  BY DEF FieldsIn, ToSet
<1>4. \A empty : empty = <<>> => AuditOf(empty, empty, empty, empty)
  <2> SUFFICES ASSUME NEW empty, empty = <<>> PROVE AuditOf(empty, empty, empty, empty)
    OBVIOUS
  <2>1. StaleIn(empty) = {} /\ RequiredIn(empty) = {} /\ PerformedIn(empty) = {}
    BY <1>1
  <2>2. FieldsIn(empty, {}) = {} /\ ToSet(empty) = {} /\ Len(empty) = 0
    BY <1>3
  <2>3. QED
    BY <2>1, <2>2, <1>2 DEF AuditOf
<1>5. QED
  BY <1>4

LEMMA ToSetAppend ==
  ASSUME NEW S, NEW s \in Seq(S), NEW e \in S
  PROVE  ToSet(Append(s, e)) = ToSet(s) \cup {e}
<1>1. /\ DOMAIN s = 1 .. Len(s) /\ DOMAIN Append(s, e) = 1 .. Len(s) + 1 /\ Len(s) \in Nat
      /\ Append(s, e)[Len(s) + 1] = e /\ \A n \in 1 .. Len(s) : Append(s, e)[n] = s[n]
  BY AppendProperties
<1>2. QED
  BY <1>1 DEF ToSet

\* What one more entry does to the sets of positions.
LEMMA PositionsAppend ==
  ASSUME NEW s \in Seq(Entry), NEW e \in Entry
  PROVE  LET t == Append(s, e)
         IN /\ Cardinality(StaleIn(t)) = Cardinality(StaleIn(s)) + (IF e.before = "stale" THEN 1 ELSE 0)
            /\ Cardinality(PerformedIn(t)) = Cardinality(PerformedIn(s)) + (IF e.performed THEN 1 ELSE 0)
            /\ FieldsIn(t, RequiredIn(t)) =
                 FieldsIn(s, RequiredIn(s)) \cup (IF e.required THEN {e.field} ELSE {})
            /\ FieldsIn(t, PerformedIn(t)) =
                 FieldsIn(s, PerformedIn(s)) \cup (IF e.performed THEN {e.field} ELSE {})
<1> DEFINE t == Append(s, e) k == Len(s) + 1
<1>1. /\ DOMAIN t = DOMAIN s \cup {k} /\ k \notin DOMAIN s
      /\ t[k] = e /\ \A n \in DOMAIN s : t[n] = s[n]
  BY EntriesAppend
<1> HIDE DEF t, k
<1>2. StaleIn(t) = StaleIn(s) \cup (IF e.before = "stale" THEN {k} ELSE {})
  BY <1>1 DEF StaleIn
<1>3. PerformedIn(t) = PerformedIn(s) \cup (IF e.performed THEN {k} ELSE {})
  BY <1>1 DEF PerformedIn
<1>4. RequiredIn(t) = RequiredIn(s) \cup (IF e.required THEN {k} ELSE {})
  BY <1>1 DEF RequiredIn
<1>5. /\ StaleIn(s) \subseteq DOMAIN s /\ PerformedIn(s) \subseteq DOMAIN s
      /\ RequiredIn(s) \subseteq DOMAIN s
  BY DEF StaleIn, PerformedIn, RequiredIn
<1>6. ASSUME NEW A, A \subseteq DOMAIN s
      PROVE  Cardinality(A \cup {k}) = Cardinality(A) + 1 /\ Cardinality(A) \in Nat
  <2>1. IsFiniteSet(A) /\ Cardinality(A) \in Nat
    BY <1>6, PositionsAreFinite
  <2>2. k \notin A
    BY <1>1, <1>6
  <2>3. QED
    BY <2>1, <2>2, FS_AddElement
<1>7. Cardinality(StaleIn(t)) = Cardinality(StaleIn(s)) + (IF e.before = "stale" THEN 1 ELSE 0)
  <2>1. CASE e.before = "stale"
    <3>1. StaleIn(t) = StaleIn(s) \cup {k}
      BY <1>2, <2>1
    <3>2. Cardinality(StaleIn(s) \cup {k}) = Cardinality(StaleIn(s)) + 1
      BY <1>5, <1>6
    <3>3. QED
      BY <2>1, <3>1, <3>2
  <2>2. CASE ~(e.before = "stale")
    <3>1. StaleIn(t) = StaleIn(s)
      BY <1>2, <2>2
    <3>2. Cardinality(StaleIn(s)) \in Nat
      BY <1>5, <1>6
    <3>3. QED
      BY <2>2, <3>1, <3>2
  <2>3. QED
    BY <2>1, <2>2
<1>8. Cardinality(PerformedIn(t)) = Cardinality(PerformedIn(s)) + (IF e.performed THEN 1 ELSE 0)
  <2>1. CASE e.performed
    <3>1. PerformedIn(t) = PerformedIn(s) \cup {k}
      BY <1>3, <2>1
    <3>2. Cardinality(PerformedIn(s) \cup {k}) = Cardinality(PerformedIn(s)) + 1
      BY <1>5, <1>6
    <3>3. QED
      BY <2>1, <3>1, <3>2
  <2>2. CASE ~(e.performed)
    <3>1. PerformedIn(t) = PerformedIn(s)
      BY <1>3, <2>2
    <3>2. Cardinality(PerformedIn(s)) \in Nat
      BY <1>5, <1>6
    <3>3. QED
      BY <2>2, <3>1, <3>2
  <2>3. QED
    BY <2>1, <2>2
<1>9. FieldsIn(t, RequiredIn(t)) =
         FieldsIn(s, RequiredIn(s)) \cup (IF e.required THEN {e.field} ELSE {})
  BY <1>1, <1>4, <1>5 DEF FieldsIn
<1>10. FieldsIn(t, PerformedIn(t)) =
         FieldsIn(s, PerformedIn(s)) \cup (IF e.performed THEN {e.field} ELSE {})
  BY <1>1, <1>3, <1>5 DEF FieldsIn
<1>11. QED
  BY <1>7, <1>8, <1>9, <1>10 DEF t

\* What becomes of a fact: it is sent as it is, omitted, given up or measured again.
LEMMA AuditKept ==
  ASSUME NEW s \in Seq(Entry), NEW r \in Seq(Stamp), NEW o \in Seq(Id), NEW d \in Seq(Id),
         AuditOf(s, r, o, d), NEW id \in Id, NEW fresh \in Stamp,
         NEW req \in BOOLEAN, NEW perf \in BOOLEAN,
         NEW before \in {"observed", "stale"}, NEW after \in {"observed", "stale"}
  PROVE  LET t == Append(s, [field |-> id, before |-> before, required |-> req,
                             performed |-> perf, after |-> after])
         IN /\ (before = "observed" /\ ~req /\ ~perf) => AuditOf(t, r, o, d)
            /\ (before = "stale" /\ ~req /\ ~perf) => AuditOf(t, r, Append(o, id), d)
            /\ (before = "stale" /\ req /\ ~perf) => AuditOf(t, r, o, Append(d, id))
            /\ (before = "stale" /\ req /\ perf) => AuditOf(t, Append(r, fresh), o, d)
<1> DEFINE e == [field |-> id, before |-> before, required |-> req,
                 performed |-> perf, after |-> after]
           t == Append(s, e)
<1>1. e \in Entry /\ e.field = id /\ e.before = before /\ e.required = req /\ e.performed = perf
  BY DEF Entry
<1> HIDE DEF e
<1>2. /\ Cardinality(StaleIn(t)) = Cardinality(StaleIn(s)) + (IF before = "stale" THEN 1 ELSE 0)
      /\ Cardinality(PerformedIn(t)) = Cardinality(PerformedIn(s)) + (IF perf THEN 1 ELSE 0)
      /\ FieldsIn(t, RequiredIn(t)) = FieldsIn(s, RequiredIn(s)) \cup (IF req THEN {id} ELSE {})
      /\ FieldsIn(t, PerformedIn(t)) = FieldsIn(s, PerformedIn(s)) \cup (IF perf THEN {id} ELSE {})
  BY <1>1, PositionsAppend
<1> HIDE DEF t
<1>3. /\ Len(Append(r, fresh)) = Len(r) + 1 /\ Len(Append(o, id)) = Len(o) + 1
      /\ Len(Append(d, id)) = Len(d) + 1
      /\ Len(r) \in Nat /\ Len(o) \in Nat /\ Len(d) \in Nat
  BY AppendProperties
<1>4. ToSet(Append(d, id)) = ToSet(d) \cup {id}
  BY ToSetAppend
<1>5. /\ Cardinality(StaleIn(s)) = Len(r) + Len(o) + Len(d)
      /\ Cardinality(PerformedIn(s)) = Len(r)
      /\ FieldsIn(s, RequiredIn(s)) = FieldsIn(s, PerformedIn(s)) \cup ToSet(d)
  BY DEF AuditOf
<1>6. (before = "observed" /\ ~req /\ ~perf) => AuditOf(t, r, o, d)
  BY <1>2, <1>3, <1>5 DEF AuditOf
<1>7. (before = "stale" /\ ~req /\ ~perf) => AuditOf(t, r, Append(o, id), d)
  BY <1>2, <1>3, <1>5 DEF AuditOf
<1>8. (before = "stale" /\ req /\ ~perf) => AuditOf(t, r, o, Append(d, id))
  BY <1>2, <1>3, <1>4, <1>5 DEF AuditOf
<1>9. (before = "stale" /\ req /\ perf) => AuditOf(t, Append(r, fresh), o, d)
  BY <1>2, <1>3, <1>5 DEF AuditOf
<1>10. QED
  BY <1>6, <1>7, <1>8, <1>9 DEF t, e

-----------------------------------------------------------------------------
(* The inductive invariant of the diagnosis, in parts.                         *)

ListsTypeOK ==
  /\ included \in Seq(Stamp) /\ refreshed \in Seq(Stamp)
  /\ omittedStale \in Seq(Id) /\ needsRefresh \in Seq(Id)
  /\ instrumentation \in Seq(Entry)
ReadingTypeOK == reading \in {NoReading} \cup [taken : {TRUE}, system : Systems, at : Nat]
GateTypeOK ==
  /\ now \in Nat /\ began \in Nat
  /\ system \in Systems
  /\ pc \in {"idle", "measuring", "gating", "refreshing", "sent"}
  /\ ReadingTypeOK
  /\ input \in Seq(Stamp) /\ kept \in Seq(Stamp)
  /\ position \in Nat \ {0}
  /\ ListsTypeOK

\* The clock has not gone back since the gating began, and what is read for a
\* fact that is measured again is read after it began.
Timing ==
  /\ began <= now
  /\ pc = "refreshing" =>
       /\ position <= Len(input) /\ Current.fact.id \in Refreshable
       /\ reading.taken => reading.at >= began /\ reading.at <= now

\* SentIsRecent, of the lists as they grow.
StillRecent(stamp) == began - stamp.observedAt <= MaxAge[CategoryOfCheck(stamp.fact.check)]
Recent ==
  /\ \A n \in 1 .. Len(included) : StillRecent(included[n])
  /\ \A n \in 1 .. Len(refreshed) : refreshed[n].observedAt >= began /\ refreshed[n].readAt >= began

\* A fact whose check the query selected has a place among what is sent or reported.
Mentions(stamps, fact) == \E m \in 1 .. Len(stamps) : stamps[m].fact.check = fact.check
Covered(checks, asis, again, needed, fact) ==
  fact.check \in checks \ {"storage"} =>
    \/ Mentions(asis, fact) \/ Mentions(again, fact)
    \/ \E m \in 1 .. Len(needed) : needed[m] = fact.id

\* The facts before the position are accounted for.
Progress ==
  /\ position <= Len(input) + 1
  /\ pc = "sent" => position = Len(input) + 1
  /\ pc \in {"idle", "measuring"} => position = 1
  /\ Len(included) + Len(refreshed) + Len(omittedStale) + Len(needsRefresh) = position - 1
  /\ \A n \in 1 .. position - 1 :
       Covered(selection, included, refreshed, needsRefresh, input[n].fact)

Audit == AuditOf(instrumentation, refreshed, omittedStale, needsRefresh)

GateInv == GateTypeOK /\ Timing /\ Recent /\ Progress /\ Audit

GateNext == GateStep \/ Environment \/ Rest

LEMMA GateInitInv == GateInit => GateInv
<1> SUFFICES ASSUME GateInit PROVE GateInv
  OBVIOUS
<1>1. \A S : <<>> \in Seq(S)
  OBVIOUS
<1>2. GateTypeOK
  BY <1>1 DEF GateInit, GateTypeOK, ListsTypeOK, ReadingTypeOK
<1>3. Timing
  BY DEF GateInit, Timing
<1>4. Len(included) = 0 /\ Len(refreshed) = 0 /\ Len(omittedStale) = 0 /\ Len(needsRefresh) = 0
  BY DEF GateInit
<1>5. Recent
  BY <1>4 DEF Recent
<1>6. Progress
  BY <1>2, <1>4 DEF GateInit, Progress, GateTypeOK
<1>7. Audit
  BY AuditBegins DEF GateInit, Audit
<1>8. QED
  BY <1>2, <1>3, <1>5, <1>6, <1>7 DEF GateInv

-----------------------------------------------------------------------------
(* What a round of the loop does to the fact it is about.                      *)

WasIncluded ==
  /\ ~IsStale
  /\ Instrument("observed", FALSE, FALSE, "observed")
  /\ included' = Append(included, Current)
  /\ UNCHANGED <<refreshed, omittedStale, needsRefresh>>
WasOmitted ==
  /\ ~Relevant
  /\ Instrument("stale", FALSE, FALSE, "stale")
  /\ omittedStale' = Append(omittedStale, Current.fact.id)
  /\ UNCHANGED <<included, refreshed, needsRefresh>>
WasGivenUp ==
  /\ Instrument("stale", TRUE, FALSE, "stale")
  /\ needsRefresh' = Append(needsRefresh, Current.fact.id)
  /\ UNCHANGED <<included, refreshed, omittedStale>>
WasRefreshed ==
  /\ Instrument("stale", TRUE, TRUE, "observed")
  /\ \E fresh \in Stamp :
       /\ fresh.fact.check = Current.fact.check
       /\ fresh.observedAt >= began /\ fresh.readAt >= began
       /\ refreshed' = Append(refreshed, fresh)
  /\ UNCHANGED <<included, omittedStale, needsRefresh>>
Round ==
  /\ position \in 1 .. Len(input) /\ Continue
  /\ reading' \in {NoReading, reading}
  /\ UNCHANGED <<now, system, calls, began, selection, input, kept>>
  /\ WasIncluded \/ WasOmitted \/ WasGivenUp \/ WasRefreshed

LEMMA CurrentStamp ==
  ASSUME GateTypeOK, position \in 1 .. Len(input)
  PROVE  /\ Current \in Stamp /\ Current.fact \in FactSet /\ Current.fact.id \in Id
         /\ Current.observedAt \in Nat /\ Current.readAt \in Nat
<1>1. input \in Seq(Stamp)
  BY DEF GateTypeOK
<1>2. Current \in Stamp
  BY <1>1, ElementOfSeq DEF Current
<1>3. Current.fact \in FactSet
  BY <1>2 DEF Stamp
<1>4. QED
  BY <1>2, <1>3 DEF Stamp, FactSet

LEMMA RefreshIsRound ==
  ASSUME GateTypeOK, Timing, Progress, Refresh
  PROVE  Round
<1>1. /\ pc = "refreshing" /\ reading.taken
      /\ reading \in [taken : {TRUE}, system : Systems, at : Nat]
  <2>1. pc = "refreshing" /\ reading.taken
    BY DEF Refresh
  <2>2. reading # NoReading
    BY <2>1 DEF NoReading
  <2>3. QED
    BY <2>1, <2>2 DEF GateTypeOK, ReadingTypeOK
<1>2. /\ position \in 1 .. Len(input) /\ Current.fact.id \in Refreshable
      /\ reading.at \in Nat /\ reading.at >= began
      /\ reading.system \in Systems /\ now \in Nat /\ began \in Nat /\ began <= now
  <2>1. position \in Nat \ {0} /\ input \in Seq(Stamp) /\ now \in Nat /\ began \in Nat
    BY DEF GateTypeOK
  <2>2. Len(input) \in Nat
    BY <2>1
  <2>3. QED
    BY <1>1, <2>1, <2>2 DEF Timing
<1>3. Current.fact \in FactSet
  BY <1>2, CurrentStamp
<1>4. \/ FreshFact = <<>>
      \/ \E g \in FactSet :
           /\ g.check = Current.fact.check
           /\ FreshFact # <<>>
           /\ FreshFact[1] = [fact |-> g, observedAt |-> now, readAt |-> reading.at]
  <2>1. CASE RefreshField(Current.fact.id, reading.system) = <<>>
    BY <2>1 DEF FreshFact, Stamped
  <2>2. CASE RefreshField(Current.fact.id, reading.system) # <<>>
    <3>1. PICK g \in FactSet : /\ RefreshField(Current.fact.id, reading.system) = <<g>>
                               /\ g.check = Current.fact.check
      BY <1>2, <1>3, <2>2, RefreshedFacts
    <3>2. FreshFact = Stamped(<<g>>, now, reading.at)
      BY <3>1 DEF FreshFact
    <3>3. QED
      BY <3>1, <3>2, <1>2, StampedOne
  <2>3. QED
    BY <2>1, <2>2
<1>5. CASE FreshFact = <<>>
  <2>1. GiveUp /\ reading' = NoReading
    BY <1>5 DEF Refresh
  <2>2. QED
    BY <2>1, <1>2 DEF GiveUp, Round, WasGivenUp
<1>6. CASE FreshFact # <<>>
  <2>1. PICK g \in FactSet :
          /\ g.check = Current.fact.check
          /\ FreshFact[1] = [fact |-> g, observedAt |-> now, readAt |-> reading.at]
    BY <1>4, <1>6
  <2>2. /\ FreshFact[1] \in Stamp /\ FreshFact[1].fact.check = Current.fact.check
        /\ FreshFact[1].observedAt >= began /\ FreshFact[1].readAt >= began
    BY <2>1, <1>2 DEF Stamp
  <2>3. /\ reading' = NoReading
        /\ refreshed' = Append(refreshed, FreshFact[1])
        /\ Instrument("stale", TRUE, TRUE, "observed")
        /\ Continue
        /\ UNCHANGED <<now, system, calls, began, selection, input,
                       included, omittedStale, needsRefresh, kept>>
    BY <1>6 DEF Refresh
  <2>4. WasRefreshed
    BY <2>2, <2>3 DEF WasRefreshed
  <2>5. QED
    BY <2>3, <2>4, <1>2 DEF Round
<1>7. QED
  BY <1>5, <1>6

LEMMA LoopIsRounds ==
  ASSUME GateTypeOK, Timing, Progress,
         Include \/ Omit \/ NoRefreshFunction \/ Refresh \/ RefreshFails
  PROVE  Round
<1>1. position \in Nat \ {0} /\ Len(input) \in Nat
  BY DEF GateTypeOK
<1>2. CASE Include
  <2>1. WasIncluded
    BY <1>2 DEF Include, WasIncluded
  <2>2. /\ position \in 1 .. Len(input) /\ Continue /\ reading' \in {NoReading, reading}
        /\ UNCHANGED <<now, system, calls, began, selection, input, kept>>
    BY <1>1, <1>2 DEF Include, Gating, Timing
  <2>3. QED
    BY <2>1, <2>2 DEF Round
<1>3. CASE Omit
  <2>1. WasOmitted
    BY <1>3 DEF Omit, WasOmitted
  <2>2. /\ position \in 1 .. Len(input) /\ Continue /\ reading' \in {NoReading, reading}
        /\ UNCHANGED <<now, system, calls, began, selection, input, kept>>
    BY <1>1, <1>3 DEF Omit, Gating, Timing
  <2>3. QED
    BY <2>1, <2>2 DEF Round
<1>4. CASE NoRefreshFunction
  <2>1. WasGivenUp
    BY <1>4 DEF NoRefreshFunction, GiveUp, WasGivenUp
  <2>2. /\ position \in 1 .. Len(input) /\ Continue /\ reading' \in {NoReading, reading}
        /\ UNCHANGED <<now, system, calls, began, selection, input, kept>>
    BY <1>1, <1>4 DEF NoRefreshFunction, GiveUp, Gating, Timing
  <2>3. QED
    BY <2>1, <2>2 DEF Round
<1>5. CASE Refresh
  BY <1>5, RefreshIsRound
<1>6. CASE RefreshFails
  <2>1. WasGivenUp
    BY <1>6 DEF RefreshFails, GiveUp, WasGivenUp
  <2>2. /\ position \in 1 .. Len(input) /\ Continue /\ reading' \in {NoReading, reading}
        /\ UNCHANGED <<now, system, calls, began, selection, input, kept>>
    BY <1>1, <1>6 DEF RefreshFails, GiveUp, Gating, Timing
  <2>3. QED
    BY <2>1, <2>2 DEF Round
<1>7. QED
  BY <1>2, <1>3, <1>4, <1>5, <1>6

-----------------------------------------------------------------------------
(* Every step keeps the invariant.                                          *)

LEMMA ClearedLists ==
  ASSUME GateTypeOK, Cleared
  PROVE  /\ ListsTypeOK'
         /\ Len(included') = 0 /\ Len(refreshed') = 0
         /\ Len(omittedStale') = 0 /\ Len(needsRefresh') = 0
<1>1. \A S : <<>> \in Seq(S)
  OBVIOUS
<1>2. QED
  BY <1>1 DEF Cleared, ListsTypeOK

LEMMA AppendType ==
  ASSUME NEW S, NEW s \in Seq(S), NEW e \in S
  PROVE  Append(s, e) \in Seq(S)
OBVIOUS

LEMMA RoundTypes ==
  ASSUME GateTypeOK, Round
  PROVE  ListsTypeOK'
<1>1. /\ included \in Seq(Stamp) /\ refreshed \in Seq(Stamp)
      /\ omittedStale \in Seq(Id) /\ needsRefresh \in Seq(Id)
      /\ instrumentation \in Seq(Entry)
  BY DEF GateTypeOK, ListsTypeOK
<1>2. Current \in Stamp /\ Current.fact.id \in Id
  BY CurrentStamp DEF Round
<1>3. instrumentation' \in Seq(Entry)
  <2>1. ASSUME NEW entry \in Entry, instrumentation' = Append(instrumentation, entry)
        PROVE  instrumentation' \in Seq(Entry)
    BY <1>1, <2>1, AppendType
  <2> DEFINE entry(before, req, perf, after) ==
        [field |-> Current.fact.id, before |-> before, required |-> req,
         performed |-> perf, after |-> after]
  <2>2. /\ entry("observed", FALSE, FALSE, "observed") \in Entry
        /\ entry("stale", FALSE, FALSE, "stale") \in Entry
        /\ entry("stale", TRUE, FALSE, "stale") \in Entry
        /\ entry("stale", TRUE, TRUE, "observed") \in Entry
    BY <1>2 DEF Entry
  <2>3. \/ instrumentation' = Append(instrumentation, entry("observed", FALSE, FALSE, "observed"))
        \/ instrumentation' = Append(instrumentation, entry("stale", FALSE, FALSE, "stale"))
        \/ instrumentation' = Append(instrumentation, entry("stale", TRUE, FALSE, "stale"))
        \/ instrumentation' = Append(instrumentation, entry("stale", TRUE, TRUE, "observed"))
    BY DEF Round, WasIncluded, WasOmitted, WasGivenUp, WasRefreshed, Instrument
  <2> HIDE DEF entry
  <2>4. QED
    BY <2>1, <2>2, <2>3
<1>4. included' \in Seq(Stamp)
  BY <1>1, <1>2, AppendType DEF Round, WasIncluded, WasOmitted, WasGivenUp, WasRefreshed
<1>5. refreshed' \in Seq(Stamp)
  BY <1>1, AppendType DEF Round, WasIncluded, WasOmitted, WasGivenUp, WasRefreshed
<1>6. omittedStale' \in Seq(Id)
  BY <1>1, <1>2, AppendType DEF Round, WasIncluded, WasOmitted, WasGivenUp, WasRefreshed
<1>7. needsRefresh' \in Seq(Id)
  BY <1>1, <1>2, AppendType DEF Round, WasIncluded, WasOmitted, WasGivenUp, WasRefreshed
<1>8. QED
  BY <1>3, <1>4, <1>5, <1>6, <1>7 DEF ListsTypeOK

LEMMA SentType ==
  ASSUME GateTypeOK
  PROVE  Sent \in Seq(Stamp)
BY ConcatProperties DEF GateTypeOK, ListsTypeOK, Sent

LEMMA TypeKept ==
  ASSUME GateInv, [GateNext]_gateVars
  PROVE  GateTypeOK'
<1>1. GateTypeOK /\ Timing /\ Progress
  BY DEF GateInv
<1>2. NoReading \in {NoReading} \cup [taken : {TRUE}, system : Systems, at : Nat]
  OBVIOUS
<1>3. ASSUME UNCHANGED resultVars PROVE ListsTypeOK'
  BY <1>1, <1>3 DEF GateTypeOK, ListsTypeOK, resultVars
<1>4. ASSUME UNCHANGED reading \/ reading' = NoReading PROVE ReadingTypeOK'
  BY <1>1, <1>2, <1>4 DEF GateTypeOK, ReadingTypeOK
<1>5. ASSUME NEW checks \in Selections, Diagnose(checks) PROVE GateTypeOK'
  BY <1>1, <1>3, <1>4, <1>5 DEF GateTypeOK, Diagnose
<1>6. ASSUME NEW checks \in Selections, GateKept(checks) PROVE GateTypeOK'
  <2>1. ListsTypeOK'
    BY <1>1, <1>6, ClearedLists DEF GateKept
  <2>2. QED
    BY <1>1, <1>4, <1>6, <2>1 DEF GateTypeOK, GateKept
<1>7. CASE AdapterReads
  <2>1. [taken |-> TRUE, system |-> system, at |-> now] \in [taken : {TRUE}, system : Systems, at : Nat]
    BY <1>1 DEF GateTypeOK
  <2>2. ReadingTypeOK'
    BY <1>7, <2>1 DEF AdapterReads, ReadingTypeOK
  <2>3. QED
    BY <1>1, <1>3, <1>7, <2>2 DEF GateTypeOK, AdapterReads
<1>8. CASE MeasuringFails
  BY <1>1, <1>3, <1>4, <1>8 DEF GateTypeOK, MeasuringFails
<1>9. CASE Analyze
  <2>1. reading.taken /\ reading # NoReading
    BY <1>9 DEF Analyze, NoReading
  <2>2. reading \in [taken : {TRUE}, system : Systems, at : Nat]
    BY <1>1, <2>1 DEF GateTypeOK, ReadingTypeOK
  <2>3. reading.system \in Systems /\ reading.at \in Nat /\ now \in Nat
    BY <1>1, <2>2 DEF GateTypeOK
  <2>4. AnalyzeForQuery(reading.system, selection) \in Seq(FactSet)
    BY <2>3, AnalyzedFacts
  <2>5. input' \in Seq(Stamp)
    BY <1>9, <2>3, <2>4, StampedFacts DEF Analyze
  <2>6. ListsTypeOK'
    BY <1>1, <1>9, ClearedLists DEF Analyze
  <2>7. QED
    BY <1>1, <1>4, <1>9, <2>5, <2>6 DEF GateTypeOK, Analyze
<1>10. CASE Include \/ Omit \/ NoRefreshFunction \/ Refresh \/ RefreshFails
  <2>1. Round
    BY <1>1, <1>10, LoopIsRounds
  <2>2. ListsTypeOK'
    BY <1>1, <2>1, RoundTypes
  <2>3. ReadingTypeOK'
    BY <2>1, <1>4 DEF Round
  <2>4. QED
    BY <1>1, <2>1, <2>2, <2>3 DEF GateTypeOK, Round, Continue
<1>11. CASE BeginRefresh
  BY <1>1, <1>3, <1>4, <1>11 DEF GateTypeOK, BeginRefresh
<1>12. CASE Answer
  BY <1>1, <1>3, <1>4, <1>12, SentType DEF GateTypeOK, Answer
<1>13. CASE Tick
  BY <1>1, <1>3, <1>4, <1>13 DEF GateTypeOK, Tick
<1>14. CASE MachineChanges
  BY <1>1, <1>3, <1>4, <1>14 DEF GateTypeOK, MachineChanges
<1>15. CASE Rest
  <2>1. <<>> \in Seq(Stamp)
    OBVIOUS
  <2>2. ListsTypeOK'
    BY <1>1, <1>15, ClearedLists DEF Rest
  <2>3. QED
    BY <1>1, <1>4, <1>15, <2>1, <2>2 DEF GateTypeOK, Rest
<1>16. CASE UNCHANGED gateVars
  BY <1>1, <1>3, <1>4, <1>16 DEF GateTypeOK, gateVars
<1>17. QED
  BY <1>5, <1>6, <1>7, <1>8, <1>9, <1>10, <1>11, <1>12, <1>13, <1>14, <1>15, <1>16
  DEF GateNext, GateStep, Environment

LEMMA TimingKept ==
  ASSUME GateInv, [GateNext]_gateVars
  PROVE  Timing'
<1>1. GateTypeOK /\ Timing /\ Progress
  BY DEF GateInv
<1>2. now \in Nat /\ began \in Nat /\ began <= now
  BY <1>1 DEF GateTypeOK, Timing
<1>3. ASSUME began' <= now', pc' # "refreshing" PROVE Timing'
  BY <1>3 DEF Timing
<1>4. ASSUME began' <= now', pc' = pc, UNCHANGED <<began, input, position>>,
             UNCHANGED reading, now' >= now, now' \in Nat
      PROVE  Timing'
  <2>1. CASE pc = "refreshing" /\ reading.taken
    <3>1. reading \in [taken : {TRUE}, system : Systems, at : Nat]
      <4>1. reading # NoReading
        BY <2>1 DEF NoReading
      <4>2. QED
        BY <1>1, <4>1 DEF GateTypeOK, ReadingTypeOK
    <3>2. QED
      BY <1>1, <1>2, <1>4, <2>1, <3>1 DEF Timing, Current
  <2>2. CASE pc = "refreshing" /\ ~reading.taken
    BY <1>1, <1>2, <1>4, <2>2 DEF Timing, Current
  <2>3. CASE pc # "refreshing"
    BY <1>3, <1>4, <2>3
  <2>4. QED
    BY <2>1, <2>2, <2>3
<1>5. ASSUME NEW checks \in Selections, Diagnose(checks) PROVE Timing'
  BY <1>2, <1>3, <1>5 DEF Diagnose
<1>6. ASSUME NEW checks \in Selections, GateKept(checks) PROVE Timing'
  BY <1>2, <1>3, <1>6 DEF GateKept
<1>7. CASE AdapterReads
  <2>1. reading'.at = now
    BY <1>7 DEF AdapterReads
  <2>2. QED
    BY <1>1, <1>2, <1>7, <2>1 DEF AdapterReads, Timing, Current
<1>8. CASE MeasuringFails
  BY <1>2, <1>3, <1>8 DEF MeasuringFails
<1>9. CASE Analyze
  BY <1>2, <1>3, <1>9 DEF Analyze
<1>10. CASE Include \/ Omit \/ NoRefreshFunction \/ Refresh \/ RefreshFails
  <2>1. Round
    BY <1>1, <1>10, LoopIsRounds
  <2>2. QED
    BY <1>2, <1>3, <2>1 DEF Round, Continue
<1>11. CASE BeginRefresh
  <2>1. ~reading'.taken /\ pc = "gating" /\ position <= Len(input)
    BY <1>11 DEF BeginRefresh, Gating, NoReading
  <2>2. Current' = Current /\ Current.fact.id \in Refreshable
    BY <1>11 DEF BeginRefresh, Current
  <2>3. UNCHANGED <<now, began, position, input>>
    BY <1>11 DEF BeginRefresh
  <2>4. QED
    BY <1>2, <2>1, <2>2, <2>3 DEF Timing
<1>12. CASE Answer
  BY <1>2, <1>3, <1>12 DEF Answer
<1>13. CASE Tick
  BY <1>2, <1>4, <1>13 DEF Tick
<1>14. CASE MachineChanges
  BY <1>2, <1>4, <1>14 DEF MachineChanges
<1>15. CASE Rest
  BY <1>2, <1>3, <1>15 DEF Rest
<1>16. CASE UNCHANGED gateVars
  BY <1>2, <1>4, <1>16 DEF gateVars
<1>17. QED
  BY <1>5, <1>6, <1>7, <1>8, <1>9, <1>10, <1>11, <1>12, <1>13, <1>14, <1>15, <1>16
  DEF GateNext, GateStep, Environment

\* Every other step leaves the lists alone, or clears them before the first fact.
Begins == Cleared /\ position' = 1 /\ pc' \in {"gating", "idle"}

LEMMA StepKinds ==
  ASSUME GateInv, [GateNext]_gateVars
  PROVE  \/ Round
         \/ Begins
         \/ /\ UNCHANGED <<began, input, position, resultVars>>
            /\ \/ UNCHANGED <<selection, pc>>
               \/ UNCHANGED selection /\ pc = "gating" /\ pc' = "refreshing"
               \/ UNCHANGED selection /\ pc = "measuring" /\ pc' = "idle"
               \/ UNCHANGED selection /\ pc = "gating" /\ pc' = "sent" /\ position > Len(input)
               \/ pc = "idle" /\ pc' = "measuring"
<1>1. GateTypeOK /\ Timing /\ Progress
  BY DEF GateInv
<1>2. CASE Include \/ Omit \/ NoRefreshFunction \/ Refresh \/ RefreshFails
  BY <1>1, <1>2, LoopIsRounds
<1>3. ASSUME NEW checks \in Selections, GateKept(checks) PROVE Begins
  BY <1>3 DEF GateKept, Begins
<1>4. CASE Analyze
  BY <1>4 DEF Analyze, Begins
<1>5. CASE Rest
  BY <1>5 DEF Rest, Begins
<1>6. ASSUME NEW checks \in Selections, Diagnose(checks)
      PROVE  /\ UNCHANGED <<began, input, position, resultVars>>
             /\ pc = "idle" /\ pc' = "measuring"
  BY <1>6 DEF Diagnose
<1>7. CASE AdapterReads
  BY <1>7 DEF AdapterReads
<1>8. CASE MeasuringFails
  BY <1>8 DEF MeasuringFails
<1>9. CASE BeginRefresh
  BY <1>9 DEF BeginRefresh, Gating
<1>10. CASE Answer
  BY <1>10 DEF Answer
<1>11. CASE Environment
  BY <1>11 DEF Environment, Tick, MachineChanges
<1>12. CASE UNCHANGED gateVars
  BY <1>12 DEF gateVars
<1>13. QED
  BY <1>2, <1>3, <1>4, <1>5, <1>6, <1>7, <1>8, <1>9, <1>10, <1>11, <1>12 DEF GateNext, GateStep

LEMMA RecentKept ==
  ASSUME GateInv, [GateNext]_gateVars
  PROVE  Recent'
<1>1. GateTypeOK /\ Timing /\ Recent
  BY DEF GateInv
<1>2. /\ now \in Nat /\ began \in Nat /\ began <= now
      /\ included \in Seq(Stamp) /\ refreshed \in Seq(Stamp)
  BY <1>1 DEF GateTypeOK, ListsTypeOK, Timing
<1>3. CASE Begins
  <2>1. Len(included') = 0 /\ Len(refreshed') = 0
    BY <1>1, <1>3, ClearedLists DEF Begins
  <2>2. QED
    BY <2>1 DEF Recent
<1>4. CASE UNCHANGED <<began, resultVars>>
  BY <1>1, <1>4 DEF Recent, StillRecent, resultVars
<1>5. CASE Round
  <2>1. began' = began
    BY <1>5 DEF Round
  <2>2. Current \in Stamp /\ Current.fact \in FactSet /\ Current.observedAt \in Nat
    BY <1>1, <1>5, CurrentStamp DEF Round
  <2>3. CASE WasIncluded
    <3>1. included' = Append(included, Current) /\ refreshed' = refreshed /\ ~IsStale
      BY <2>3 DEF WasIncluded
    <3>2. StillRecent(Current)
      <4>1. MaxAge[CategoryOfCheck(Current.fact.check)] \in Nat
        BY <2>2, FactsMatchTheirChecks, FreshnessAssumption
      <4>2. ~(now - Current.observedAt > MaxAge[CategoryOfCheck(Current.fact.check)])
        BY <2>2, <3>1, FactsMatchTheirChecks DEF IsStale, Stale
      <4>3. QED
        BY <1>2, <2>2, <4>1, <4>2 DEF StillRecent
    <3>3. /\ Len(included') = Len(included) + 1 /\ Len(included) \in Nat
          /\ \A n \in 1 .. Len(included) : included'[n] = included[n]
          /\ included'[Len(included) + 1] = Current
      BY <1>2, <2>2, <3>1, AppendProperties
    <3>4. \A n \in 1 .. Len(included') : StillRecent(included'[n])
      BY <1>1, <3>2, <3>3 DEF Recent
    <3>5. QED
      BY <1>1, <2>1, <3>1, <3>4 DEF Recent, StillRecent
  <2>4. CASE WasRefreshed
    <3>1. PICK fresh \in Stamp : /\ fresh.observedAt >= began /\ fresh.readAt >= began
                                 /\ refreshed' = Append(refreshed, fresh)
      BY <2>4 DEF WasRefreshed
    <3>2. /\ Len(refreshed') = Len(refreshed) + 1 /\ Len(refreshed) \in Nat
          /\ \A n \in 1 .. Len(refreshed) : refreshed'[n] = refreshed[n]
          /\ refreshed'[Len(refreshed) + 1] = fresh
      BY <1>2, <3>1, AppendProperties
    <3>3. \A n \in 1 .. Len(refreshed') :
            refreshed'[n].observedAt >= began /\ refreshed'[n].readAt >= began
      BY <1>1, <3>1, <3>2 DEF Recent
    <3>4. included' = included
      BY <2>4 DEF WasRefreshed
    <3>5. QED
      BY <1>1, <2>1, <3>3, <3>4 DEF Recent, StillRecent
  <2>5. CASE WasOmitted \/ WasGivenUp
    BY <1>1, <2>1, <2>5 DEF Recent, StillRecent, WasOmitted, WasGivenUp
  <2>6. QED
    BY <1>5, <2>3, <2>4, <2>5 DEF Round
<1>6. QED
  BY <1>3, <1>4, <1>5, StepKinds

LEMMA AuditStep ==
  ASSUME GateInv, [GateNext]_gateVars
  PROVE  Audit'
<1>1. GateTypeOK /\ Audit
  BY DEF GateInv
<1>2. CASE Begins
  BY <1>2, AuditBegins DEF Begins, Cleared, Audit
<1>3. CASE UNCHANGED resultVars
  BY <1>1, <1>3 DEF Audit, resultVars
<1>4. CASE Round
  <2>1. Current \in Stamp /\ Current.fact.id \in Id
    BY <1>1, <1>4, CurrentStamp DEF Round
  <2>2. /\ refreshed \in Seq(Stamp) /\ omittedStale \in Seq(Id) /\ needsRefresh \in Seq(Id)
        /\ instrumentation \in Seq(Entry)
        /\ AuditOf(instrumentation, refreshed, omittedStale, needsRefresh)
    BY <1>1 DEF GateTypeOK, ListsTypeOK, Audit
  <2>3. CASE WasIncluded
    BY <2>1, <2>2, <2>3, AuditKept DEF WasIncluded, Instrument, Audit
  <2>4. CASE WasOmitted
    BY <2>1, <2>2, <2>4, AuditKept DEF WasOmitted, Instrument, Audit
  <2>5. CASE WasGivenUp
    BY <2>1, <2>2, <2>5, AuditKept DEF WasGivenUp, Instrument, Audit
  <2>6. CASE WasRefreshed
    BY <2>1, <2>2, <2>6, AuditKept DEF WasRefreshed, Instrument, Audit
  <2>7. QED
    BY <1>4, <2>3, <2>4, <2>5, <2>6 DEF Round
<1>5. QED
  BY <1>2, <1>3, <1>4, StepKinds

-----------------------------------------------------------------------------
(* The facts before the position stay accounted for.                           *)

\* A list that grows keeps what it has.
Grows(old, new) == Len(old) <= Len(new) /\ \A n \in 1 .. Len(old) : new[n] = old[n]

LEMMA GrowsAppend ==
  ASSUME NEW S, NEW s \in Seq(S), NEW e \in S
  PROVE  /\ Grows(s, s) /\ Grows(s, Append(s, e))
         /\ Len(s) \in Nat /\ Len(Append(s, e)) = Len(s) + 1
         /\ Append(s, e)[Len(s) + 1] = e
BY AppendProperties DEF Grows

LEMMA MentionsKept ==
  ASSUME NEW s \in Seq(Stamp), NEW t \in Seq(Stamp), Grows(s, t), NEW fact, Mentions(s, fact)
  PROVE  Mentions(t, fact)
<1>1. Len(s) \in Nat /\ Len(t) \in Nat
  OBVIOUS
<1>2. PICK m \in 1 .. Len(s) : s[m].fact.check = fact.check
  BY DEF Mentions
<1>3. m \in 1 .. Len(t) /\ t[m] = s[m]
  BY <1>1 DEF Grows
<1>4. QED
  BY <1>2, <1>3 DEF Mentions

LEMMA CoveredKept ==
  ASSUME NEW asis \in Seq(Stamp), NEW again \in Seq(Stamp), NEW needed \in Seq(Id),
         NEW asis2 \in Seq(Stamp), NEW again2 \in Seq(Stamp), NEW needed2 \in Seq(Id),
         Grows(asis, asis2), Grows(again, again2), Grows(needed, needed2),
         NEW checks, NEW fact, Covered(checks, asis, again, needed, fact)
  PROVE  Covered(checks, asis2, again2, needed2, fact)
<1>1. /\ Len(asis) \in Nat /\ Len(asis2) \in Nat /\ Len(again) \in Nat /\ Len(again2) \in Nat
      /\ Len(needed) \in Nat /\ Len(needed2) \in Nat
  OBVIOUS
<1>2. Mentions(asis, fact) => Mentions(asis2, fact)
  BY MentionsKept
<1>3. Mentions(again, fact) => Mentions(again2, fact)
  BY MentionsKept
<1>4. (\E m \in 1 .. Len(needed) : needed[m] = fact.id)
        => \E m \in 1 .. Len(needed2) : needed2[m] = fact.id
  BY <1>1 DEF Grows
<1>5. QED
  BY <1>2, <1>3, <1>4 DEF Covered

\* A round covers the fact it is about: only a fact of no interest is omitted.
LEMMA RoundCovers ==
  ASSUME GateTypeOK, Round
  PROVE  /\ Covered(selection, included', refreshed', needsRefresh', Current.fact)
         /\ Grows(included, included') /\ Grows(refreshed, refreshed')
         /\ Grows(needsRefresh, needsRefresh')
         /\ Len(included') + Len(refreshed') + Len(omittedStale') + Len(needsRefresh')
              = Len(included) + Len(refreshed) + Len(omittedStale) + Len(needsRefresh) + 1
<1>1. /\ included \in Seq(Stamp) /\ refreshed \in Seq(Stamp)
      /\ omittedStale \in Seq(Id) /\ needsRefresh \in Seq(Id)
  BY DEF GateTypeOK, ListsTypeOK
<1>2. Current \in Stamp /\ Current.fact \in FactSet /\ Current.fact.id \in Id
  BY CurrentStamp DEF Round
<1>3. /\ Grows(included, included) /\ Grows(refreshed, refreshed)
      /\ Grows(needsRefresh, needsRefresh)
      /\ Len(included) \in Nat /\ Len(refreshed) \in Nat
      /\ Len(omittedStale) \in Nat /\ Len(needsRefresh) \in Nat
  BY <1>1 DEF Grows
<1>4. CASE WasIncluded
  <2>1. /\ included' = Append(included, Current)
        /\ UNCHANGED <<refreshed, omittedStale, needsRefresh>>
    BY <1>4 DEF WasIncluded
  <2>2. /\ Grows(included, included') /\ Len(included') = Len(included) + 1
        /\ included'[Len(included) + 1] = Current
    BY <1>1, <1>2, <2>1, GrowsAppend
  <2>3. Mentions(included', Current.fact)
    BY <1>3, <2>2 DEF Mentions
  <2>4. QED
    BY <1>3, <2>1, <2>2, <2>3 DEF Covered
<1>5. CASE WasOmitted
  <2>1. /\ omittedStale' = Append(omittedStale, Current.fact.id)
        /\ UNCHANGED <<included, refreshed, needsRefresh>> /\ ~Relevant
    BY <1>5 DEF WasOmitted
  <2>2. Len(omittedStale') = Len(omittedStale) + 1
    BY <1>1, <1>2, <2>1, GrowsAppend
  <2>3. ~(Current.fact.check \in selection \ {"storage"})
    BY <1>2, <2>1, FactsMatchTheirChecks DEF Relevant
  <2>4. QED
    BY <1>3, <2>1, <2>2, <2>3 DEF Covered
<1>6. CASE WasGivenUp
  <2>1. /\ needsRefresh' = Append(needsRefresh, Current.fact.id)
        /\ UNCHANGED <<included, refreshed, omittedStale>>
    BY <1>6 DEF WasGivenUp
  <2>2. /\ Grows(needsRefresh, needsRefresh') /\ Len(needsRefresh') = Len(needsRefresh) + 1
        /\ needsRefresh'[Len(needsRefresh) + 1] = Current.fact.id
    BY <1>1, <1>2, <2>1, GrowsAppend
  <2>3. \E m \in 1 .. Len(needsRefresh') : needsRefresh'[m] = Current.fact.id
    BY <1>3, <2>2
  <2>4. QED
    BY <1>3, <2>1, <2>2, <2>3 DEF Covered
<1>7. CASE WasRefreshed
  <2>1. PICK fresh \in Stamp : /\ fresh.fact.check = Current.fact.check
                               /\ refreshed' = Append(refreshed, fresh)
    BY <1>7 DEF WasRefreshed
  <2>2. UNCHANGED <<included, omittedStale, needsRefresh>>
    BY <1>7 DEF WasRefreshed
  <2>3. /\ Grows(refreshed, refreshed') /\ Len(refreshed') = Len(refreshed) + 1
        /\ refreshed'[Len(refreshed) + 1] = fresh
    BY <1>1, <2>1, GrowsAppend
  <2>4. Mentions(refreshed', Current.fact)
    BY <1>3, <2>1, <2>3 DEF Mentions
  <2>5. QED
    BY <1>3, <2>2, <2>3, <2>4 DEF Covered
<1>8. QED
  BY <1>4, <1>5, <1>6, <1>7 DEF Round

LEMMA ProgressKept ==
  ASSUME GateInv, [GateNext]_gateVars
  PROVE  Progress'
<1>1. GateTypeOK /\ Progress
  BY DEF GateInv
<1>2. position \in Nat \ {0} /\ input \in Seq(Stamp) /\ Len(input) \in Nat
  BY <1>1 DEF GateTypeOK
<1>3. GateTypeOK'
  BY TypeKept
<1>4. CASE Begins
  <2>1. /\ Len(included') = 0 /\ Len(refreshed') = 0
        /\ Len(omittedStale') = 0 /\ Len(needsRefresh') = 0
    BY <1>1, <1>4, ClearedLists DEF Begins
  <2>2. position' = 1 /\ pc' # "sent" /\ Len(input') \in Nat
    BY <1>3, <1>4 DEF Begins, GateTypeOK
  <2>3. QED
    BY <2>1, <2>2 DEF Progress
<1>5. CASE Round
  <2>1. /\ position \in 1 .. Len(input) /\ position' = position + 1 /\ pc' = "gating"
        /\ UNCHANGED <<selection, input>>
    BY <1>5 DEF Round, Continue
  <2>2. /\ Covered(selection, included', refreshed', needsRefresh', Current.fact)
        /\ Grows(included, included') /\ Grows(refreshed, refreshed')
        /\ Grows(needsRefresh, needsRefresh')
        /\ Len(included') + Len(refreshed') + Len(omittedStale') + Len(needsRefresh') = position
    BY <1>1, <1>2, <1>5, RoundCovers DEF Progress
  <2>3. /\ included \in Seq(Stamp) /\ refreshed \in Seq(Stamp) /\ needsRefresh \in Seq(Id)
        /\ included' \in Seq(Stamp) /\ refreshed' \in Seq(Stamp) /\ needsRefresh' \in Seq(Id)
    BY <1>1, <1>3 DEF GateTypeOK, ListsTypeOK
  <2>4. \A n \in 1 .. position :
          Covered(selection, included', refreshed', needsRefresh', input[n].fact)
    <3> TAKE n \in 1 .. position
    <3>1. CASE n = position
      BY <2>2, <3>1 DEF Current
    <3>2. CASE n # position
      <4>1. Covered(selection, included, refreshed, needsRefresh, input[n].fact)
        BY <1>1, <1>2, <3>2 DEF Progress
      <4>2. QED
        BY <2>2, <2>3, <4>1, CoveredKept
    <3>3. QED
      BY <3>1, <3>2
  <2>5. QED
    BY <1>2, <2>1, <2>2, <2>4 DEF Progress
<1>6. CASE /\ UNCHANGED <<input, position, resultVars, selection>>
           /\ \/ pc' = pc
              \/ pc = "gating" /\ pc' = "refreshing"
              \/ pc = "measuring" /\ pc' = "idle"
              \/ pc = "gating" /\ pc' = "sent" /\ position > Len(input)
  BY <1>1, <1>2, <1>6 DEF Progress, resultVars
<1>7. CASE UNCHANGED <<input, position, resultVars>> /\ pc = "idle" /\ pc' = "measuring"
  BY <1>1, <1>2, <1>7 DEF Progress, resultVars
<1>8. QED
  BY <1>4, <1>5, <1>6, <1>7, StepKinds

-----------------------------------------------------------------------------
(* The diagnosis within a session.                                          *)

LEMMA SessionSteps == [Next]_vars => [GateNext]_gateVars
BY DEF Next, vars, Recorded, GateNext

LEMMA GateInvariant == Spec => []GateInv
<1>1. Init => GateInv
  BY GateInitInv DEF Init
<1>2. GateInv /\ [Next]_vars => GateInv'
  BY SessionSteps, TypeKept, TimingKept, RecentKept, ProgressKept, AuditStep DEF GateInv
<1>3. QED
  BY <1>1, <1>2, PTL DEF Spec

\* The positions of what is sent: first what is as it was, then what was measured again.
LEMMA SentElements ==
  ASSUME GateTypeOK
  PROVE  /\ DOMAIN Sent = 1 .. Len(included) + Len(refreshed)
         /\ \A n \in 1 .. Len(included) : Sent[n] = included[n]
         /\ \A n \in 1 .. Len(refreshed) : Sent[Len(included) + n] = refreshed[n]
         /\ Len(included) \in Nat /\ Len(refreshed) \in Nat
<1>1. /\ included \in Seq(Stamp) /\ refreshed \in Seq(Stamp)
      /\ Len(included) \in Nat /\ Len(refreshed) \in Nat
  BY DEF GateTypeOK, ListsTypeOK
<1>2. /\ Len(Sent) = Len(included) + Len(refreshed) /\ Sent \in Seq(Stamp)
      /\ \A n \in 1 .. Len(included) + Len(refreshed) :
           Sent[n] = IF n <= Len(included) THEN included[n] ELSE refreshed[n - Len(included)]
  BY <1>1, ConcatProperties DEF Sent
<1>3. DOMAIN Sent = 1 .. Len(included) + Len(refreshed)
  BY <1>2
<1>4. \A n \in 1 .. Len(included) : Sent[n] = included[n]
  BY <1>1, <1>2
<1>5. ASSUME NEW n \in 1 .. Len(refreshed) PROVE Sent[Len(included) + n] = refreshed[n]
  <2>1. /\ Len(included) + n \in 1 .. Len(included) + Len(refreshed)
        /\ ~(Len(included) + n <= Len(included)) /\ (Len(included) + n) - Len(included) = n
    BY <1>1
  <2>2. QED
    BY <1>2, <2>1
<1>6. QED
  BY <1>1, <1>3, <1>4, <1>5

\* No fact that is sent was stale when the gating began, and one that was measured
\* again was measured after that (freshness-gating.ts:78-170).
LEMMA SentRecently == GateInv => SentIsRecent
<1> SUFFICES ASSUME GateInv PROVE SentIsRecent
  OBVIOUS
<1>1. GateTypeOK /\ Recent
  BY DEF GateInv
<1>2. /\ began \in Nat /\ refreshed \in Seq(Stamp)
      /\ DOMAIN refreshed = 1 .. Len(refreshed) /\ Len(refreshed) \in Nat
  BY <1>1 DEF GateTypeOK, ListsTypeOK
<1>3. ASSUME NEW n \in 1 .. Len(refreshed) PROVE StillRecent(refreshed[n])
  <2>1. refreshed[n] \in Stamp
    BY <1>2, ElementOfSeq
  <2>2. refreshed[n].fact \in FactSet /\ refreshed[n].observedAt \in Nat
    BY <2>1 DEF Stamp
  <2>3. MaxAge[CategoryOfCheck(refreshed[n].fact.check)] \in Nat
    BY <2>2, FactsMatchTheirChecks, FreshnessAssumption
  <2>4. refreshed[n].observedAt >= began
    BY <1>1 DEF Recent
  <2>5. QED
    BY <1>2, <2>2, <2>3, <2>4 DEF StillRecent
<1>4. ASSUME NEW n \in DOMAIN Sent PROVE StillRecent(Sent[n])
  <2>1. n \in 1 .. Len(included) + Len(refreshed) /\ Len(included) \in Nat
    BY <1>1, SentElements
  <2>2. CASE n <= Len(included)
    <3>1. n \in 1 .. Len(included) /\ Sent[n] = included[n]
      BY <1>1, <2>1, <2>2, SentElements
    <3>2. QED
      BY <1>1, <3>1 DEF Recent
  <2>3. CASE ~(n <= Len(included))
    <3>1. n - Len(included) \in 1 .. Len(refreshed) /\ Len(included) + (n - Len(included)) = n
      BY <1>2, <2>1, <2>3
    <3>2. Sent[n] = refreshed[n - Len(included)]
      BY <1>1, <3>1, SentElements
    <3>3. QED
      BY <1>3, <3>1, <3>2
  <2>4. QED
    BY <2>2, <2>3
<1>5. \A n \in DOMAIN refreshed : refreshed[n].readAt >= began
  BY <1>1, <1>2 DEF Recent
<1>6. QED
  BY <1>4, <1>5 DEF SentIsRecent, StillRecent

THEOREM FreshAsSent == Spec => []SentIsRecent
BY GateInvariant, SentRecently, PTL

LEMMA AccountedFacts == GateInv => FactsAreAccounted
<1> SUFFICES ASSUME GateInv, pc = "sent" PROVE FactsAreAccounted
  BY DEF FactsAreAccounted
<1>1. GateTypeOK /\ Progress /\ Audit
  BY DEF GateInv
<1>2. /\ input \in Seq(Stamp) /\ needsRefresh \in Seq(Id)
      /\ DOMAIN input = 1 .. Len(input) /\ Len(input) \in Nat
      /\ DOMAIN needsRefresh = 1 .. Len(needsRefresh)
  BY <1>1 DEF GateTypeOK, ListsTypeOK
<1>3. position = Len(input) + 1
  BY <1>1 DEF Progress
<1>4. Len(included) + Len(refreshed) + Len(omittedStale) + Len(needsRefresh) = Len(input)
  BY <1>1, <1>2, <1>3 DEF Progress
<1>5. ASSUME NEW n \in DOMAIN input, input[n].fact.check \in selection \ {"storage"}
      PROVE  \/ \E m \in DOMAIN Sent : Sent[m].fact.check = input[n].fact.check
             \/ \E m \in DOMAIN needsRefresh : needsRefresh[m] = input[n].fact.id
  <2>1. n \in 1 .. position - 1
    BY <1>2, <1>3
  <2>2. \/ Mentions(included, input[n].fact) \/ Mentions(refreshed, input[n].fact)
        \/ \E m \in 1 .. Len(needsRefresh) : needsRefresh[m] = input[n].fact.id
    BY <1>1, <1>5, <2>1 DEF Progress, Covered
  <2>3. CASE Mentions(included, input[n].fact)
    <3>1. PICK m \in 1 .. Len(included) : included[m].fact.check = input[n].fact.check
      BY <2>3 DEF Mentions
    <3>2. m \in DOMAIN Sent /\ Sent[m] = included[m]
      BY <1>1, SentElements
    <3>3. QED
      BY <3>1, <3>2
  <2>4. CASE Mentions(refreshed, input[n].fact)
    <3>1. PICK m \in 1 .. Len(refreshed) : refreshed[m].fact.check = input[n].fact.check
      BY <2>4 DEF Mentions
    <3>2. Len(included) + m \in DOMAIN Sent /\ Sent[Len(included) + m] = refreshed[m]
      BY <1>1, SentElements
    <3>3. QED
      BY <3>1, <3>2
  <2>5. QED
    BY <1>2, <2>2, <2>3, <2>4
<1>6. /\ StaleFields = StaleIn(instrumentation)
      /\ RefreshPerformed = PerformedIn(instrumentation)
      /\ RefreshRequired = RequiredIn(instrumentation)
  BY DEF StaleFields, RefreshPerformed, RefreshRequired, EntriesWhere,
         StaleIn, PerformedIn, RequiredIn
<1>7. \A entries : FieldsOf(entries) = FieldsIn(instrumentation, entries)
  BY DEF FieldsOf, FieldsIn
<1>8. /\ Cardinality(StaleFields) = Len(refreshed) + Len(omittedStale) + Len(needsRefresh)
      /\ Cardinality(RefreshPerformed) = Len(refreshed)
      /\ FieldsOf(RefreshRequired) = FieldsOf(RefreshPerformed) \cup ToSet(needsRefresh)
  BY <1>1, <1>6, <1>7 DEF Audit, AuditOf
<1>9. QED
  BY <1>4, <1>5, <1>8 DEF FactsAreAccounted

\* Every fact gated ends in exactly one list, one the query asked for is not
\* dropped as irrelevant, and the audit trail agrees (freshness-gating.ts:78-170,
\* diagnose.ts, buildAuditTrail).
THEOREM AllAccountedFor == Spec => []FactsAreAccounted
BY GateInvariant, AccountedFacts, PTL

-----------------------------------------------------------------------------
(* The telemetry: the store of freshness entries mirrors the newest of what ever *)
(* happened.                                                                *)

FreshnessEntry == [field : Id, epistemicState : {"observed", "stale"}, refreshPerformed : BOOLEAN]

\* The store holds the newest of the first length facts.
Mirrors(store, ever, length) ==
  /\ Len(store) = IF length <= MaxStore THEN length ELSE MaxStore
  /\ \A n \in 1 .. Len(store) :
       (store[n].epistemicState = "stale") <=> (ever[length - Len(store) + n] = TRUE)

TelemetryInv ==
  /\ freshnessTelemetry \in Seq(FreshnessEntry)
  /\ everStale \in Seq(BOOLEAN)
  /\ Mirrors(freshnessTelemetry, everStale, Len(everStale))

LEMMA PushKept ==
  ASSUME NEW store \in Seq(FreshnessEntry), NEW ever, NEW length \in Nat,
         Mirrors(store, ever, length), NEW entry \in FreshnessEntry,
         (entry.epistemicState = "stale") <=> (ever[length + 1] = TRUE)
  PROVE  /\ Pushed(store, entry) \in Seq(FreshnessEntry)
         /\ Mirrors(Pushed(store, entry), ever, length + 1)
<1>1. MaxStore \in Nat /\ MaxStore # 0
  BY TelemetryAssumption
<1>2. /\ Len(store) \in Nat
      /\ Len(store) = IF length <= MaxStore THEN length ELSE MaxStore
      /\ \A n \in 1 .. Len(store) :
           (store[n].epistemicState = "stale") <=> (ever[length - Len(store) + n] = TRUE)
  BY DEF Mirrors
<1> DEFINE pushed == Pushed(store, entry)
<1>3. CASE Len(store) = MaxStore
  <2>1. pushed = Append(Tail(store), entry)
    BY <1>3 DEF Pushed
  <2>2. store # <<>>
    BY <1>1, <1>3
  <2>3. /\ Tail(store) \in Seq(FreshnessEntry) /\ Len(Tail(store)) = Len(store) - 1
        /\ \A n \in 1 .. Len(Tail(store)) : Tail(store)[n] = store[n + 1]
    BY <2>2, HeadTailProperties
  <2>4. /\ pushed \in Seq(FreshnessEntry) /\ Len(pushed) = MaxStore
        /\ pushed[MaxStore] = entry
        /\ \A n \in 1 .. MaxStore - 1 : pushed[n] = store[n + 1]
    BY <1>1, <1>3, <2>1, <2>3, AppendProperties
  <2> HIDE DEF pushed
  <2>5. ASSUME NEW n \in 1 .. Len(pushed)
        PROVE  (pushed[n].epistemicState = "stale") <=> (ever[(length + 1) - Len(pushed) + n] = TRUE)
    <3>1. CASE n = MaxStore
      <4>1. (length + 1) - Len(pushed) + n = length + 1
        BY <1>1, <2>4, <3>1
      <4>2. QED
        BY <2>4, <3>1, <4>1
    <3>2. CASE n # MaxStore
      <4>1. /\ n \in 1 .. MaxStore - 1 /\ n + 1 \in 1 .. Len(store)
            /\ length - Len(store) + (n + 1) = (length + 1) - Len(pushed) + n
        BY <1>1, <1>3, <2>4, <3>2
      <4>2. (store[n + 1].epistemicState = "stale") <=> (ever[length - Len(store) + (n + 1)] = TRUE)
        BY <1>2, <4>1
      <4>3. QED
        BY <2>4, <4>1, <4>2
    <3>3. QED
      BY <3>1, <3>2
  <2>6. Len(pushed) = IF length + 1 <= MaxStore THEN length + 1 ELSE MaxStore
    BY <1>1, <1>2, <1>3, <2>4
  <2>7. Mirrors(pushed, ever, length + 1)
    BY <2>4, <2>5, <2>6 DEF Mirrors
  <2>8. QED
    BY <2>4, <2>7 DEF pushed
<1>4. CASE Len(store) # MaxStore
  <2>1. pushed = Append(store, entry)
    BY <1>4 DEF Pushed
  <2>2. Len(store) = length /\ length < MaxStore
    BY <1>1, <1>2, <1>4
  <2>3. /\ pushed \in Seq(FreshnessEntry) /\ Len(pushed) = length + 1
        /\ pushed[length + 1] = entry
        /\ \A n \in 1 .. length : pushed[n] = store[n]
    BY <2>1, <2>2, AppendProperties
  <2> HIDE DEF pushed
  <2>4. ASSUME NEW n \in 1 .. Len(pushed)
        PROVE  (pushed[n].epistemicState = "stale") <=> (ever[(length + 1) - Len(pushed) + n] = TRUE)
    <3>1. /\ (length + 1) - Len(pushed) + n = n /\ length - Len(store) + n = n
          /\ n \in 1 .. length + 1
      BY <2>2, <2>3
    <3>2. CASE n = length + 1
      BY <2>3, <3>1, <3>2
    <3>3. CASE n # length + 1
      <4>1. n \in 1 .. length
        BY <3>1, <3>3
      <4>2. QED
        BY <1>2, <2>2, <2>3, <3>1, <4>1
    <3>4. QED
      BY <3>2, <3>3
  <2>5. Len(pushed) = IF length + 1 <= MaxStore THEN length + 1 ELSE MaxStore
    BY <1>1, <2>2, <2>3
  <2>6. Mirrors(pushed, ever, length + 1)
    BY <2>3, <2>4, <2>5 DEF Mirrors
  <2>7. QED
    BY <2>3, <2>6 DEF pushed
<1>5. QED
  BY <1>3, <1>4

PushedRecursion(store, entries, kept1, n) ==
  kept1 = [i \in 0 .. n |-> IF i = 0 THEN store ELSE Pushed(kept1[i - 1], entries[i])]

LEMMA PushedExists ==
  ASSUME NEW store, NEW entries, NEW n \in Nat
  PROVE  \E kept1 : PushedRecursion(store, entries, kept1, n)
<1> DEFINE S == {k \in Nat : \E f : PushedRecursion(store, entries, f, k)}
<1>1. 0 \in S
  <2>1. PushedRecursion(store, entries, [i \in 0 .. 0 |-> store], 0)
    BY DEF PushedRecursion
  <2>2. QED
    BY <2>1
<1>2. \A k \in Nat : k \in S => k + 1 \in S
  <2> SUFFICES ASSUME NEW k \in Nat, NEW f, PushedRecursion(store, entries, f, k)
               PROVE  \E g : PushedRecursion(store, entries, g, k + 1)
    OBVIOUS
  <2> DEFINE g == [i \in 0 .. k + 1 |->
                     IF i <= k THEN f[i] ELSE IF i = 0 THEN store ELSE Pushed(f[i - 1], entries[i])]
  <2>1. \A i \in 0 .. k : f[i] = IF i = 0 THEN store ELSE Pushed(f[i - 1], entries[i])
    BY DEF PushedRecursion
  <2>2. \A i \in 0 .. k + 1 : g[i] = IF i = 0 THEN store ELSE Pushed(g[i - 1], entries[i])
    BY <2>1
  <2>3. PushedRecursion(store, entries, g, k + 1)
    BY <2>2 DEF PushedRecursion
  <2>4. QED
    BY <2>3
<1> HIDE DEF S
<1>3. n \in S
  BY <1>1, <1>2, Induction
<1>4. QED
  BY <1>3 DEF S

LEMMA PushedAllKept ==
  ASSUME NEW store \in Seq(FreshnessEntry), NEW entries \in Seq(FreshnessEntry),
         NEW ever, NEW length \in Nat, Mirrors(store, ever, length),
         \A n \in 1 .. Len(entries) :
           (entries[n].epistemicState = "stale") <=> (ever[length + n] = TRUE)
  PROVE  /\ PushedAll(store, entries) \in Seq(FreshnessEntry)
         /\ Mirrors(PushedAll(store, entries), ever, length + Len(entries))
<1> DEFINE f == CHOOSE g : PushedRecursion(store, entries, g, Len(entries))
<1>1. Len(entries) \in Nat /\ \A n \in 1 .. Len(entries) : entries[n] \in FreshnessEntry
  OBVIOUS
<1>2. PushedAll(store, entries) = f[Len(entries)]
  BY DEF PushedAll, PushedRecursion
<1>3. PushedRecursion(store, entries, f, Len(entries))
  BY <1>1, PushedExists
<1> HIDE DEF f
<1>4. \A i \in 0 .. Len(entries) : f[i] = IF i = 0 THEN store ELSE Pushed(f[i - 1], entries[i])
  BY <1>3 DEF PushedRecursion
<1> DEFINE Good(k) == f[k] \in Seq(FreshnessEntry) /\ Mirrors(f[k], ever, length + k)
           T == {k \in Nat : k <= Len(entries) => Good(k)}
<1>5. 0 \in T
  <2>1. f[0] = store /\ length + 0 = length
    BY <1>1, <1>4
  <2>2. QED
    BY <2>1
<1>6. ASSUME NEW k \in Nat, k \in T, k + 1 <= Len(entries) PROVE Good(k + 1)
  <2>1. f[k] \in Seq(FreshnessEntry) /\ Mirrors(f[k], ever, length + k)
    BY <1>1, <1>6
  <2>2. f[k + 1] = Pushed(f[k], entries[k + 1])
    <3>1. k + 1 \in 0 .. Len(entries) /\ k + 1 # 0 /\ (k + 1) - 1 = k
      BY <1>1, <1>6
    <3>2. QED
      BY <1>4, <3>1
  <2>3. /\ entries[k + 1] \in FreshnessEntry
        /\ (entries[k + 1].epistemicState = "stale") <=> (ever[length + k + 1] = TRUE)
    <3>1. k + 1 \in 1 .. Len(entries) /\ length + (k + 1) = length + k + 1
      BY <1>1, <1>6
    <3>2. QED
      BY <1>1, <3>1
  <2>4. length + k \in Nat /\ (length + k) + 1 = length + (k + 1)
    OBVIOUS
  <2>5. QED
    BY <2>1, <2>2, <2>3, <2>4, PushKept
<1> HIDE DEF Good
<1>7. ASSUME NEW k \in Nat, k \in T PROVE k + 1 \in T
  <2>1. k + 1 <= Len(entries) => Good(k + 1)
    BY <1>6, <1>7
  <2>2. QED
    BY <2>1
<1>8. Len(entries) \in T
  <2> HIDE DEF T
  <2>1. QED
    BY <1>1, <1>5, <1>7, Induction
<1>9. Good(Len(entries))
  BY <1>1, <1>8
<1>10. QED
  BY <1>2, <1>9 DEF Good

LEMMA TelemetryEntries ==
  ASSUME NEW trail \in Seq(Entry)
  PROVE  /\ FreshnessTelemetry(trail) \in Seq(FreshnessEntry)
         /\ Len(FreshnessTelemetry(trail)) = Len(trail)
         /\ \A n \in 1 .. Len(trail) :
              FreshnessTelemetry(trail)[n].epistemicState = trail[n].after
<1>1. DOMAIN trail = 1 .. Len(trail) /\ Len(trail) \in Nat
  OBVIOUS
<1>2. \A n \in 1 .. Len(trail) : trail[n] \in Entry
  OBVIOUS
<1>3. \A n \in 1 .. Len(trail) :
        [field |-> trail[n].field, epistemicState |-> trail[n].after,
         refreshPerformed |-> trail[n].performed] \in FreshnessEntry
  BY <1>2 DEF Entry, FreshnessEntry
<1>4. FreshnessTelemetry(trail) \in Seq(FreshnessEntry)
  BY <1>1, <1>3 DEF FreshnessTelemetry
<1>5. DOMAIN FreshnessTelemetry(trail) = 1 .. Len(trail)
  BY <1>1 DEF FreshnessTelemetry
<1>6. Len(FreshnessTelemetry(trail)) = Len(trail)
  BY <1>1, <1>4, <1>5
<1>7. \A n \in 1 .. Len(trail) :
        FreshnessTelemetry(trail)[n].epistemicState = trail[n].after
  BY <1>1 DEF FreshnessTelemetry
<1>8. QED
  BY <1>4, <1>6, <1>7

LEMMA RecordingKept ==
  ASSUME TelemetryInv, NEW trail \in Seq(Entry), RecordFreshness(trail)
  PROVE  TelemetryInv'
<1>1. /\ freshnessTelemetry \in Seq(FreshnessEntry) /\ everStale \in Seq(BOOLEAN)
      /\ Mirrors(freshnessTelemetry, everStale, Len(everStale))
  BY DEF TelemetryInv
<1> DEFINE bits == [n \in DOMAIN trail |-> trail[n].after = "stale"]
           length == Len(everStale)
           ever == everStale \o bits
<1>2. /\ DOMAIN trail = 1 .. Len(trail) /\ Len(trail) \in Nat /\ length \in Nat
      /\ \A n \in 1 .. Len(trail) : (trail[n].after = "stale") \in BOOLEAN
  BY <1>1
<1>3. bits \in Seq(BOOLEAN) /\ Len(bits) = Len(trail)
  BY <1>2
<1>4. \A n \in 1 .. Len(trail) : (bits[n] = TRUE) <=> (trail[n].after = "stale")
  BY <1>2
<1>5. everStale' = ever
  BY DEF RecordFreshness
<1>6. freshnessTelemetry' = PushedAll(freshnessTelemetry, FreshnessTelemetry(trail))
  BY DEF RecordFreshness
<1> HIDE DEF bits
<1>7. /\ ever \in Seq(BOOLEAN) /\ Len(ever) = length + Len(trail)
      /\ \A i \in 1 .. length + Len(bits) :
           ever[i] = IF i <= length THEN everStale[i] ELSE bits[i - length]
  <2>1. ever \in Seq(BOOLEAN)
    BY <1>1, <1>3, ConcatProperties
  <2>2. Len(ever) = length + Len(bits)
    BY <1>1, <1>3, ConcatProperties
  <2>3. \A i \in 1 .. length + Len(bits) :
          ever[i] = IF i <= length THEN everStale[i] ELSE bits[i - length]
    BY <1>1, <1>3, ConcatProperties
  <2>4. QED
    BY <1>3, <2>1, <2>2, <2>3
<1> HIDE DEF length, ever
<1>8. \A i \in 1 .. length : ever[i] = everStale[i]
  BY <1>2, <1>3, <1>7
<1>9. ASSUME NEW n \in 1 .. Len(trail) PROVE ever[length + n] = bits[n]
  <2>1. /\ length + n \in 1 .. length + Len(bits) /\ ~(length + n <= length)
        /\ (length + n) - length = n
    BY <1>2, <1>3
  <2>2. QED
    BY <1>7, <2>1
<1>10. Mirrors(freshnessTelemetry, ever, length)
  <2>1. Mirrors(freshnessTelemetry, everStale, length)
    BY <1>1 DEF length
  <2>2. Len(freshnessTelemetry) \in Nat /\ Len(freshnessTelemetry) <= length /\ MaxStore \in Nat
    BY <1>1, <1>2, <2>1, TelemetryAssumption DEF Mirrors
  <2>3. \A n \in 1 .. Len(freshnessTelemetry) :
          length - Len(freshnessTelemetry) + n \in 1 .. length
    BY <1>2, <2>2
  <2>4. QED
    BY <1>8, <2>1, <2>3 DEF Mirrors
<1>11. \A n \in 1 .. Len(trail) :
         (FreshnessTelemetry(trail)[n].epistemicState = "stale") <=> (ever[length + n] = TRUE)
  BY <1>4, <1>9, TelemetryEntries
<1>12. /\ FreshnessTelemetry(trail) \in Seq(FreshnessEntry)
       /\ Len(FreshnessTelemetry(trail)) = Len(trail)
  BY TelemetryEntries
<1>13. /\ freshnessTelemetry' \in Seq(FreshnessEntry)
       /\ Mirrors(freshnessTelemetry', ever, length + Len(trail))
  BY <1>1, <1>2, <1>6, <1>10, <1>11, <1>12, PushedAllKept
<1>14. Len(everStale') = length + Len(trail)
  BY <1>5, <1>7
<1>15. QED
  BY <1>5, <1>7, <1>13, <1>14 DEF TelemetryInv

LEMMA TelemetryBegins ==
  ASSUME NEW none, none = <<>>
  PROVE  Mirrors(none, none, Len(none))
<1>1. Len(none) = 0
  OBVIOUS
<1>2. QED
  BY <1>1, TelemetryAssumption DEF Mirrors

LEMMA TelemetryInvariant == Spec => []TelemetryInv
<1>1. \A S : <<>> \in Seq(S)
  OBVIOUS
<1>2. Init => TelemetryInv
  BY <1>1, TelemetryBegins DEF Init, TelemetryInit, TelemetryInv
<1>3. ASSUME TelemetryInv, GateInv, [Next]_vars PROVE TelemetryInv'
  <2>1. ASSUME UNCHANGED <<freshnessTelemetry, everStale>> PROVE TelemetryInv'
    BY <1>3, <2>1 DEF TelemetryInv
  <2>2. ASSUME freshnessTelemetry' = <<>>, everStale' = <<>> PROVE TelemetryInv'
    BY <1>1, <2>2, TelemetryBegins DEF TelemetryInv
  <2>3. instrumentation \in Seq(Entry)
    BY <1>3 DEF GateInv, GateTypeOK, ListsTypeOK
  <2>4. CASE RecordFreshness(instrumentation)
    BY <1>3, <2>3, <2>4, RecordingKept
  <2>5. CASE RecordRequest(instrumentation)
    BY <2>1, <2>5 DEF RecordRequest
  <2>6. ASSUME NEW c \in ErrorCategory, RecordError(c) PROVE TelemetryInv'
    BY <2>1, <2>6 DEF RecordError
  <2>7. CASE ResetTelemetry
    BY <2>2, <2>7 DEF ResetTelemetry
  <2>8. CASE UNCHANGED telemetryVars
    BY <2>1, <2>8 DEF telemetryVars
  <2>9. QED
    BY <1>3, <2>4, <2>5, <2>6, <2>7, <2>8 DEF Next, Recorded, vars
<1>4. QED
  BY <1>2, <1>3, GateInvariant, PTL DEF Spec

\* What the store says is stale is what the newest of all that happened says.
LEMMA StoreIsNewest ==
  ASSUME TelemetryInv
  PROVE  /\ StaleEntries = {n \in DOMAIN Newest : Newest[n]}
         /\ Len(freshnessTelemetry) = Len(Newest)
         /\ freshnessTelemetry = <<>> <=> everStale = <<>>
<1>1. /\ freshnessTelemetry \in Seq(FreshnessEntry) /\ everStale \in Seq(BOOLEAN)
      /\ Mirrors(freshnessTelemetry, everStale, Len(everStale))
  BY DEF TelemetryInv
<1> DEFINE store == freshnessTelemetry length == Len(everStale)
<1>2. /\ length \in Nat /\ Len(store) \in Nat /\ MaxStore \in Nat /\ MaxStore # 0
      /\ Len(store) = IF length <= MaxStore THEN length ELSE MaxStore
      /\ \A n \in 1 .. Len(store) :
           (store[n].epistemicState = "stale") <=> (everStale[length - Len(store) + n] = TRUE)
      /\ \A n \in 1 .. length : everStale[n] \in BOOLEAN
      /\ DOMAIN store = 1 .. Len(store)
  <2>1. MaxStore \in Nat /\ MaxStore # 0
    BY TelemetryAssumption
  <2>2. /\ length \in Nat /\ \A n \in 1 .. length : everStale[n] \in BOOLEAN
        /\ Len(store) \in Nat /\ DOMAIN store = 1 .. Len(store)
    BY <1>1
  <2>3. /\ Len(store) = IF length <= MaxStore THEN length ELSE MaxStore
        /\ \A n \in 1 .. Len(store) :
             (store[n].epistemicState = "stale") <=> (everStale[length - Len(store) + n] = TRUE)
    BY <1>1 DEF Mirrors
  <2>4. QED
    BY <2>1, <2>2, <2>3
<1>3. /\ Newest \in Seq(BOOLEAN) /\ Len(Newest) = Len(store)
      /\ \A n \in 1 .. Len(store) : Newest[n] = everStale[length - Len(store) + n]
  <2>1. CASE length <= MaxStore
    <3>1. Newest = everStale /\ Len(store) = length
      BY <1>2, <2>1 DEF Newest
    <3>2. \A n \in 1 .. Len(store) : length - Len(store) + n = n
      BY <1>2, <3>1
    <3>3. QED
      BY <1>1, <3>1, <3>2
  <2>2. CASE ~(length <= MaxStore)
    <3> DEFINE first == length - MaxStore + 1
    <3>1. Newest = SubSeq(everStale, first, length) /\ Len(store) = MaxStore
      BY <1>2, <2>2 DEF Newest
    <3>2. /\ first \in Int /\ length \in Int /\ first <= length /\ length - first + 1 = MaxStore
          /\ \A i \in first .. length : i \in 1 .. length
          /\ \A i \in 1 .. MaxStore : first + i - 1 = length - MaxStore + i
      BY <1>2, <2>2
    <3> HIDE DEF first
    <3>3. \A i \in first .. length : everStale[i] \in BOOLEAN
      BY <1>2, <3>2
    <3>4. /\ SubSeq(everStale, first, length) \in Seq(BOOLEAN)
          /\ Len(SubSeq(everStale, first, length)) = length - first + 1
          /\ \A i \in 1 .. length - first + 1 :
               SubSeq(everStale, first, length)[i] = everStale[first + i - 1]
      BY <3>2, <3>3, SubSeqProperties
    <3>5. QED
      BY <3>1, <3>2, <3>4
  <2>3. QED
    BY <2>1, <2>2
<1>4. DOMAIN Newest = 1 .. Len(store)
  BY <1>2, <1>3
<1>5. \A n \in 1 .. Len(store) : (store[n].epistemicState = "stale") <=> (Newest[n] = TRUE)
  BY <1>2, <1>3
<1>6. \A n \in 1 .. Len(store) : Newest[n] \in BOOLEAN
  BY <1>3, <1>4
<1>7. StaleEntries = {n \in 1 .. Len(store) : store[n].epistemicState = "stale"}
  BY <1>2 DEF StaleEntries
<1>8. {n \in DOMAIN Newest : Newest[n]} = {n \in 1 .. Len(store) : Newest[n] = TRUE}
  BY <1>4, <1>6
<1>9. StaleEntries = {n \in DOMAIN Newest : Newest[n]}
  BY <1>5, <1>7, <1>8
<1>10. freshnessTelemetry = <<>> <=> everStale = <<>>
  <2>1. (Len(store) = 0) <=> (length = 0)
    BY <1>2
  <2>2. QED
    BY <1>1, <2>1, EmptySeq
<1>11. QED
  BY <1>3, <1>9, <1>10

\* The health report follows the newest facts, whatever the store had to drop, and
\* no other way (telemetry.ts:83-88, 167-172, 346).
THEOREM ReportFollowsNewest == Spec => []HealthFollowsNewest
<1>1. TelemetryInv => HealthFollowsNewest
  <2> SUFFICES ASSUME TelemetryInv PROVE HealthFollowsNewest
    OBVIOUS
  <2>1. (HealthStatus.freshness = "ok") <=> StaleRateBelowHalf
    BY DEF HealthStatus
  <2>2. QED
    BY <2>1, StoreIsNewest DEF HealthFollowsNewest, StaleRateBelowHalf
<1>2. QED
  BY <1>1, TelemetryInvariant, PTL
=============================================================================
