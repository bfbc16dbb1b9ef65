------------------------ MODULE JournalSystem_proofs ------------------------
(***************************************************************************)
(* Theorems about GateExecution alone and about JournalSystem, for every set *)
(* of processes, hosts, calls, operators, keys and faults.                   *)
(*                                                                         *)
(* First the specification without operators, Spec: its types, one run per   *)
(* key, and that what beginKey decides and finishKey reports is true of the  *)
(* journal.  Then the one with operators, SystemSpec: its types, one run per *)
(* key, the abstract guarantee, and what operators cannot undo.              *)
(***************************************************************************)
EXTENDS JournalSystem, FiniteSetTheorems, TLAPS

-----------------------------------------------------------------------------
(* What an append does to the state the journal gives a key.                  *)

\* A nonempty set of positions of the journal has a largest one.
LEMMA LargestPosition ==
  ASSUME NEW n \in Nat, NEW S \in SUBSET (1..n), S # {}
  PROVE  \E x \in S : \A y \in S : x >= y
<1> DEFINE D == {n - x : x \in S}
           R == OpToRel(<, Nat)
<1>1. D \subseteq Nat /\ D # {}
  <2>1. ASSUME NEW x \in S PROVE n - x \in Nat
    OBVIOUS
  <2> QED BY <2>1
<1>2. PICK d \in D : \A e \in D : ~ (<<e, d>> \in R)
  <2> HIDE DEF D, R
  <2> QED BY <1>1, NatLessThanWellFounded, WFMin DEF R
<1>3. \A e \in D : ~ (e < d)
  BY <1>1, <1>2 DEF OpToRel
<1>4. PICK x \in S : d = n - x
  BY <1>2
<1>5. ASSUME NEW y \in S PROVE x >= y
  <2>1. n - y \in D
    OBVIOUS
  <2>2. ~ (n - y < n - x)
    BY <1>3, <1>4, <2>1
  <2> QED BY <2>2
<1> QED BY <1>5

\* A record appended for another key leaves a key's lines and its last line alone; one
\* for the key itself becomes its last line.
LEMMA LastAfterAppend ==
  ASSUME journal \in Seq(Record), NEW r \in Record,
         journal' = Append(journal, r), NEW k \in Key
  PROVE  /\ r.key = k => KeyLines(k)' # {} /\ LastLine(k)' = r
         /\ r.key # k => /\ KeyLines(k)' = KeyLines(k)
                         /\ KeyLines(k) # {} => LastLine(k)' = LastLine(k)
         /\ CorruptFor(k)' <=> CorruptFor(k) \/ k \in r.mentions
<1> DEFINE n == Len(journal)
<1>1. /\ n \in Nat
      /\ DOMAIN journal = 1..n
      /\ DOMAIN journal' = 1..(n + 1)
      /\ \A m \in 1..n : journal'[m] = journal[m]
      /\ journal'[n + 1] = r
  OBVIOUS
<1> HIDE DEF n
<1>2. CorruptFor(k)' <=> CorruptFor(k) \/ k \in r.mentions
  BY <1>1 DEF CorruptFor
<1>3. CASE r.key = k
  <2>1. n + 1 \in KeyLines(k)' /\ \A y \in KeyLines(k)' : n + 1 >= y
    BY <1>1, <1>3 DEF KeyLines
  <2>2. KeyLines(k)' \subseteq Nat
    BY <1>1 DEF KeyLines
  <2>3. Max(KeyLines(k)') = n + 1
    BY <2>1, <2>2, <1>1 DEF Max
  <2>4. LastLine(k)' = r
    BY <1>1, <2>3 DEF LastLine
  <2> QED BY <2>1, <2>4, <1>3, <1>2
<1>4. CASE r.key # k
  <2>1. KeyLines(k)' = KeyLines(k)
    BY <1>1, <1>4 DEF KeyLines
  <2>2. ASSUME KeyLines(k) # {} PROVE LastLine(k)' = LastLine(k)
    <3>1. KeyLines(k) \in SUBSET (1..n)
      BY <1>1 DEF KeyLines
    <3>2. \E x \in KeyLines(k) : \A y \in KeyLines(k) : x >= y
      BY <1>1, <2>2, <3>1, LargestPosition
    <3>3. Max(KeyLines(k)) \in 1..n
      BY <3>1, <3>2 DEF Max
    <3> QED BY <1>1, <2>1, <3>3 DEF LastLine
  <2> QED BY <1>4, <1>2, <2>1, <2>2
<1> QED BY <1>3, <1>4

\* The line an append leaves in the journal is a record: the one written, or a corrupt
\* line that mentions its key.
LEMMA LandedRecord ==
  ASSUME tail \in Ending, NEW rec \in KeyLine \cup Phase1Line
  PROVE  /\ Landed(rec) \in Record
         /\ tail.torn => /\ Landed(rec).key = NoKey
                         /\ \A k \in Key : rec.key = k => k \in Landed(rec).mentions
         /\ ~tail.torn => Landed(rec) = rec
<1>1. KeysIn(rec) \subseteq Key
  BY DEF KeyLine, Phase1Line, KeysIn
<1>2. CASE tail.torn
  <2>1. tail.mentions \cup KeysIn(rec) \in SUBSET Key
    BY <1>1 DEF Ending
  <2>2. Landed(rec) \in CorruptedLine
    BY <1>2, <2>1 DEF Landed, CorruptLine, CorruptedLine
  <2>3. \A k \in Key : rec.key = k => k \in Landed(rec).mentions
    BY <1>2, JournalAssumption DEF Landed, CorruptLine, KeysIn
  <2> QED BY <1>2, <2>2, <2>3 DEF Record, CorruptedLine
<1>3. CASE ~tail.torn
  BY <1>3 DEF Landed, Record
<1> QED BY <1>2, <1>3

\* An append never reopens a key it is not about; about its own key it does so only
\* with an aborted or a resolved-as-absent line that can be read.
LEMMA AppendReopens ==
  ASSUME journal \in Seq(Record), tail \in Ending,
         NEW rec \in KeyLine \cup Phase1Line, NEW written \in BOOLEAN,
         WriteLine(rec, written), NEW k \in Key
  PROVE  /\ journal' = journal => (Reopens(k)' <=> Reopens(k))
         /\ rec.key # k => (Reopens(k)' => Reopens(k))
         /\ rec.key = k /\ journal' # journal /\ Reopens(k)' =>
              ~tail.torn /\ rec.type \in {"aborted", "efecto_ausente_confirmado"}
         /\ written => journal' # journal
<1>1. \/ journal' = journal /\ ~written
      \/ journal' = Append(journal, Landed(rec))
  BY DEF WriteLine
<1>2. CASE journal' = journal /\ ~written
  BY <1>2 DEF Reopens, CorruptFor, KeyLines, LastLine
<1>3. CASE journal' = Append(journal, Landed(rec))
  <2>1. Landed(rec) \in Record
    BY LandedRecord
  <2>2. journal' # journal
    <3>1. Len(journal') = Len(journal) + 1 /\ Len(journal) \in Nat
      BY <1>3, <2>1
    <3> QED BY <3>1
  <2>3. /\ Landed(rec).key = k => KeyLines(k)' # {} /\ LastLine(k)' = Landed(rec)
        /\ Landed(rec).key # k =>
             /\ KeyLines(k)' = KeyLines(k)
             /\ KeyLines(k) # {} => LastLine(k)' = LastLine(k)
        /\ CorruptFor(k)' <=> CorruptFor(k) \/ k \in Landed(rec).mentions
    BY <1>3, <2>1, LastAfterAppend
  <2>4. CASE rec.key # k
    <3>1. Landed(rec).key # k
      BY <2>4, LandedRecord, JournalAssumption
    <3> QED BY <2>2, <2>3, <2>4, <3>1 DEF Reopens
  <2>5. CASE rec.key = k
    BY <2>2, <2>3, <2>5, LandedRecord DEF Reopens
  <2> QED BY <2>4, <2>5
<1> QED BY <1>1, <1>2, <1>3

\* An append keeps the types of what it writes.
LEMMA AppendType ==
  ASSUME journal \in Seq(Record), tail \in Ending, faults \in Nat,
         NEW rec \in KeyLine \cup Phase1Line, NEW written \in BOOLEAN,
         WriteLine(rec, written)
  PROVE  journal' \in Seq(Record) /\ tail' \in Ending /\ faults' \in Nat
<1>1. Landed(rec) \in Record
  BY LandedRecord
<1>2. journal' \in Seq(Record)
  BY <1>1 DEF WriteLine
<1>3. faults' \in Nat
  BY DEF WriteLine, Fault
<1>4. KeysIn(rec) \subseteq Key
  BY DEF KeyLine, Phase1Line, KeysIn
<1>5. Clean \in Ending /\ \A ks \in SUBSET KeysIn(rec) : Fragment(tail.mentions \cup ks) \in Ending
  BY <1>4 DEF Clean, Fragment, Ending
<1>6. tail' \in Ending
  BY <1>5 DEF WriteLine
<1> QED BY <1>2, <1>3, <1>6

-----------------------------------------------------------------------------
(* What is read back. *)

\* The last line about a key is a line with a key.
LEMMA LastLineType ==
  ASSUME journal \in Seq(Record), NEW k \in Key, KeyLines(k) # {}
  PROVE  LastLine(k) \in KeyLine /\ LastLine(k).key = k
<1>1. Len(journal) \in Nat /\ DOMAIN journal = 1..Len(journal)
  OBVIOUS
<1>2. KeyLines(k) \in SUBSET (1..Len(journal))
  BY <1>1 DEF KeyLines
<1>3. \E x \in KeyLines(k) : \A y \in KeyLines(k) : x >= y
  BY <1>1, <1>2, LargestPosition
<1>4. Max(KeyLines(k)) \in KeyLines(k)
  BY <1>3 DEF Max
<1>5. LastLine(k) \in Record /\ LastLine(k).key = k
  BY <1>1, <1>4 DEF LastLine, KeyLines
<1> QED BY <1>5, JournalAssumption DEF Record, Phase1Line, CorruptedLine

\* The invocation a key's claim is looked up for is one that started, or none.
LEMMA StartedExecType ==
  ASSUME journal \in Seq(Record), NEW k \in Key
  PROVE  StartedExec(k) \in Invocation \cup {Nobody}
<1>1. Len(journal) \in Nat /\ DOMAIN journal = 1..Len(journal)
  OBVIOUS
<1>2. CASE StartedLines(k) = {}
  BY <1>2 DEF StartedExec
<1>3. CASE StartedLines(k) # {}
  <2>1. StartedLines(k) \in SUBSET (1..Len(journal))
    BY <1>1 DEF StartedLines, KeyLines
  <2>2. \E x \in StartedLines(k) : \A y \in StartedLines(k) : x >= y
    BY <1>1, <1>3, <2>1, LargestPosition
  <2>3. Max(StartedLines(k)) \in StartedLines(k)
    BY <2>2 DEF Max
  <2>4. journal[Max(StartedLines(k))] \in Record
    BY <1>1, <2>1, <2>3
  <2> QED BY <1>3, <2>4 DEF StartedExec, Record, KeyLine, Phase1Line, CorruptedLine
<1> QED BY <1>2, <1>3

\* The derived state of a key is one of five; it lets an attempt proceed only when the
\* journal reopens the key, and asks for a resolution of a key that has no corrupt
\* line only when it has a line.
LEMMA KeyStateRange ==
  ASSUME journal \in Seq(Record), NEW k \in Key, NEW f, NEW h
  PROVE  /\ KeyState(k, f, h) \in
              {"proceed", "cached", "in_progress", "needs_resolution", "key_conflict"}
         /\ KeyState(k, f, h) = "proceed" => Reopens(k)
         /\ KeyState(k, f, h) = "needs_resolution" /\ ~CorruptFor(k) => KeyLines(k) # {}
<1>1. CASE CorruptFor(k) \/ KeyLines(k) = {}
  BY <1>1 DEF KeyState, Reopens
<1>2. CASE ~CorruptFor(k) /\ KeyLines(k) # {}
  <2>1. LastLine(k).type \in KeyRecordType
    BY <1>2, LastLineType DEF KeyLine
  <2>2. LastLine(k).type # "started" =>
          /\ StateAfter[LastLine(k).type] \in {"proceed", "cached", "needs_resolution"}
          /\ StateAfter[LastLine(k).type] = "proceed" =>
               LastLine(k).type \in {"aborted", "efecto_ausente_confirmado"}
    BY <2>1 DEF StateAfter, KeyRecordType, Resolution
  <2>3. /\ LastState(k, h) \in {"proceed", "cached", "in_progress", "needs_resolution"}
        /\ LastState(k, h) = "proceed" =>
             LastLine(k).type \in {"aborted", "efecto_ausente_confirmado"}
    BY <2>2 DEF LastState
  <2> QED BY <1>2, <2>3 DEF KeyState, Reopens
<1> QED BY <1>1, <1>2

-----------------------------------------------------------------------------
(* The specification without operators: types *)

\* Every invocation has a stage to go to after a critical section.
LEMMA NextStageType ==
  ASSUME NEW i \in Invocation, stage[i] \in LockedStage
  PROVE  NextStage(i) \in {"claim", "finish", "release", "done"}
BY DEF NextStage, AfterLast, LockedStage

LEMMA GoToType ==
  ASSUME stage \in [Invocation -> Stage], phase \in [Invocation -> Phase],
         NEW i \in Invocation, NEW s \in Stage, GoTo(i, s)
  PROVE  stage' \in [Invocation -> Stage] /\ phase' \in [Invocation -> Phase]
BY DEF GoTo, Phase

LEMMA AdvanceType ==
  ASSUME stage \in [Invocation -> Stage], phase \in [Invocation -> Phase],
         NEW i \in Invocation, NEW s \in Phase, Advance(i, s)
  PROVE  stage' \in [Invocation -> Stage] /\ phase' \in [Invocation -> Phase]
BY DEF Advance

\* The records the gate and the operators write are well formed.
LEMMA GateRecordType ==
  ASSUME NEW i \in Invocation
  PROVE  /\ Phase1Record("execution", FpOf[i], i) \in Phase1Line
         /\ HasKey(i) => \A t \in KeyRecordType : KeyRecord(t, KeyOf[i], FpOf[i], i) \in KeyLine
BY JournalAssumption DEF Phase1Record, KeyRecord, Phase1Line, KeyLine, HasKey

\* An invocation is in a stage about its key only when it has one.
KeyedStages ==
  \A i \in Invocation : stage[i] \in {"begin", "abort", "finish"} => HasKey(i)

GateTypeInv == TypeOK /\ KeyedStages

LEMMA KeyedStagesStep ==
  ASSUME GateTypeInv, NEW i \in Invocation, GateStep(i)
  PROVE  KeyedStages'
<1> USE DEF GateTypeInv, TypeOK, GateTypeOK, KeyedStages, HasKey
<1>1. CASE Start(i)
  BY <1>1 DEF Start, GoTo
<1>2. CASE LockStep(i)
  <2>1. stage[i] \in LockedStage
    BY <1>2 DEF LockStep, LockAcquired, LockUnavailable, LockFails, Unlock
  <2>2. NextStage(i) \in {"finish"} => HasKey(i)
    BY <2>1 DEF NextStage, AfterLast, LockedStage
  <2>3. NextStage(i) \in {"claim", "finish", "release", "done"}
    BY <2>1, NextStageType
  <2> QED BY <1>2, <2>2, <2>3
        DEF LockStep, LockAcquired, LockUnavailable, LockFails, Unlock, GoTo, Advance
<1>3. CASE BeginStep(i)
  BY <1>3 DEF BeginStep, BeginRead, BeginWrite, Advance
<1>4. CASE RunStep(i)
  BY <1>4 DEF RunStep, ClaimInflight, Refused, AbortWrite, Invoke, ExecutorReturns, GoTo, Advance
<1>5. CASE EndStep(i)
  BY <1>5 DEF EndStep, LogWrite, FinishWrite, ReleaseRead, ReleaseUnlink, GoTo, Advance
<1> QED BY <1>1, <1>2, <1>3, <1>4, <1>5 DEF GateStep, Continue

\* The session's record and token keep their types.
LEMMA SessionTypeStep ==
  ASSUME GateTypeInv, NEW i \in Invocation, GateStep(i)
  PROVE  record' \in [Invocation -> RecordState] /\ token' \in [Invocation -> TokenState]
<1> USE DEF GateTypeInv, TypeOK, GateTypeOK, RecordState, TokenState
<1>1. CASE UNCHANGED sessionVars
  BY <1>1 DEF sessionVars
<1>2. ASSUME NEW s \in {"completed", "failed"}, Settle(i, s)
      PROVE  record' \in [Invocation -> RecordState] /\ token' \in [Invocation -> TokenState]
  BY <1>2 DEF Settle
<1>3. CASE Start(i)
  BY <1>3 DEF Start
<1>4. CASE LockStep(i)
  BY <1>1, <1>2, <1>4 DEF LockStep, LockAcquired, LockUnavailable, LockFails, Unlock, SettleUnrun,
       sessionVars
<1>5. CASE RunStep(i)
  <2>1. CASE ExecutorReturns(i)
    BY <1>2, <2>1 DEF ExecutorReturns
  <2>2. CASE ClaimInflight(i) \/ AbortWrite(i) \/ Invoke(i)
    BY <1>1, <1>2, <2>2 DEF ClaimInflight, Refused, AbortWrite, Invoke, sessionVars
  <2> QED BY <1>5, <2>1, <2>2 DEF RunStep
<1>6. CASE BeginStep(i) \/ EndStep(i)
  BY <1>1, <1>6 DEF BeginStep, BeginRead, BeginWrite, EndStep, LogWrite, FinishWrite, ReleaseRead,
       ReleaseUnlink, sessionVars
<1> QED BY <1>3, <1>4, <1>5, <1>6 DEF GateStep, Continue

LEMMA GateTypeStep ==
  ASSUME GateTypeInv, NEW i \in Invocation, GateStep(i)
  PROVE  GateTypeOK'
<1> USE SessionTypeStep DEF GateTypeInv, TypeOK, GateTypeOK
<1>1. CASE Start(i)
  BY <1>1, GoToType DEF Start, Stage, LockedStage
<1>2. CASE LockStep(i)
  <2>1. stage[i] \in LockedStage
    BY <1>2 DEF LockStep, LockAcquired, LockUnavailable, LockFails, Unlock
  <2>2. NextStage(i) \in Stage
    BY <2>1, NextStageType DEF Stage, LockedStage
  <2>3. CASE LockAcquired(i)
    BY <2>3, AdvanceType DEF LockAcquired, Phase
  <2>4. CASE LockUnavailable(i)
    BY <2>4, <2>2, GoToType DEF LockUnavailable, Verdict
  <2>5. CASE LockFails(i)
    BY <2>5, GoToType DEF LockFails, Verdict, Stage
  <2>6. CASE Unlock(i)
    BY <2>6, <2>2, GoToType DEF Unlock
  <2> QED BY <1>2, <2>3, <2>4, <2>5, <2>6 DEF LockStep
<1>3. CASE BeginRead(i)
  <2>1. KeyOf[i] \in Key
    BY <1>3, JournalAssumption DEF BeginRead, At, KeyedStages, HasKey
  <2>2. KeyState(KeyOf[i], FpOf[i], HostOf[ProcOf[i]]) \in KeyVerdict
    BY <2>1, KeyStateRange DEF StoreTypeOK, KeyVerdict
  <2> QED BY <1>3, <2>2, AdvanceType DEF BeginRead, Verdict, Phase
<1>4. CASE BeginWrite(i)
  BY <1>4, AdvanceType DEF BeginWrite, Verdict, Phase
<1>5. CASE ClaimInflight(i)
  BY <1>5, GoToType DEF ClaimInflight, Refused, Stage, LockedStage
<1>6. CASE AbortWrite(i)
  BY <1>6, AdvanceType DEF AbortWrite, Phase
<1>7. CASE Invoke(i)
  BY <1>7, GoToType DEF Invoke, Stage, LockedStage, Outcome
<1>8. CASE ExecutorReturns(i)
  BY <1>8, GoToType DEF ExecutorReturns, Stage, LockedStage, Outcome
<1>9. CASE LogWrite(i)
  BY <1>9, AdvanceType DEF LogWrite, Phase
<1>10. CASE FinishWrite(i)
  BY <1>10, AdvanceType DEF FinishWrite, Phase
<1>11. CASE ReleaseRead(i)
  BY <1>11, AdvanceType, GoToType DEF ReleaseRead, Phase, Stage
<1>12. CASE ReleaseUnlink(i)
  BY <1>12, GoToType DEF ReleaseUnlink, Stage
<1> QED BY <1>1, <1>2, <1>3, <1>4, <1>5, <1>6, <1>7, <1>8, <1>9, <1>10, <1>11, <1>12
      DEF GateStep, Continue, BeginStep, RunStep, EndStep

LEMMA GateStoreTypeStep ==
  ASSUME GateTypeInv, NEW i \in Invocation, GateStep(i)
  PROVE  StoreTypeOK'
<1> USE DEF GateTypeInv, TypeOK
<1>1. i \in Actor
  BY DEF Actor
<1>2. CASE Start(i) \/ Invoke(i) \/ ExecutorReturns(i) \/ ReleaseRead(i)
  BY <1>2 DEF Start, Invoke, ExecutorReturns, ReleaseRead, storeVars, StoreTypeOK
<1>3. CASE LockStep(i)
  BY <1>1, <1>3 DEF LockStep, LockAcquired, LockUnavailable, LockFails, Unlock, StoreTypeOK,
       TakeLock, LockTimesOut, LockThrows, FreeLock, Fault
<1>4. CASE BeginRead(i) \/ ClaimInflight(i) \/ ReleaseUnlink(i)
  <2>1. CASE BeginRead(i)
    BY <2>1 DEF BeginRead, Fault, StoreTypeOK
  <2>2. CASE ClaimInflight(i)
    BY <2>2 DEF ClaimInflight, Fault, StoreTypeOK
  <2>3. CASE ReleaseUnlink(i)
    BY <2>3 DEF ReleaseUnlink, StoreTypeOK
  <2> QED BY <1>4, <2>1, <2>2, <2>3
<1>5. ASSUME BeginWrite(i) \/ AbortWrite(i) \/ LogWrite(i) \/ FinishWrite(i)
      PROVE  StoreTypeOK'
  <2>1. PICK written \in BOOLEAN, rec \in KeyLine \cup Phase1Line : WriteLine(rec, written)
    BY <1>5, GateRecordType
       DEF BeginWrite, AbortWrite, LogWrite, FinishWrite, At, KeyedStages, TerminalType,
           KeyRecordType
  <2>2. journal' \in Seq(Record) /\ tail' \in Ending /\ faults' \in Nat
    BY <2>1, AppendType DEF StoreTypeOK
  <2> QED BY <1>5, <2>2 DEF BeginWrite, AbortWrite, LogWrite, FinishWrite, StoreTypeOK
<1> QED BY <1>2, <1>3, <1>4, <1>5 DEF GateStep, Continue, BeginStep, RunStep, EndStep

\* The type invariant of the gate, with what it needs to be inductive.
LEMMA GateTypeInvInit == Init => GateTypeInv
<1> SUFFICES ASSUME Init PROVE GateTypeInv
  OBVIOUS
<1>1. StoreTypeOK
  BY DEF Init, StoreInit, StoreTypeOK, Clean, Ending
<1>2. GateTypeOK /\ KeyedStages
  BY DEF Init, GateInit, GateTypeOK, KeyedStages, Stage, Phase, Verdict, Outcome,
         RecordState, TokenState
<1> QED BY <1>1, <1>2 DEF GateTypeInv, TypeOK

LEMMA GateTypeInvStep == GateTypeInv /\ [Next]_vars => GateTypeInv'
<1> SUFFICES ASSUME GateTypeInv, [Next]_vars PROVE GateTypeInv'
  OBVIOUS
<1>1. ASSUME NEW i \in Invocation, GateStep(i) PROVE GateTypeInv'
  BY <1>1, GateTypeStep, GateStoreTypeStep, KeyedStagesStep DEF GateTypeInv, TypeOK
<1>2. ASSUME NEW p \in Process, Crash(p) PROVE GateTypeInv'
  BY <1>2 DEF Crash, Die, StoreTypeOK, GateTypeOK, KeyedStages, gateVars, sessionVars, GateTypeInv, TypeOK
<1>3. CASE UNCHANGED vars
  BY <1>3 DEF vars, storeVars, gateVars, sessionVars, StoreTypeOK, GateTypeOK, KeyedStages, GateTypeInv,
              TypeOK
<1> QED BY <1>1, <1>2, <1>3 DEF Next

\* Type correctness of the gate: every stage hands on to a stage, every line written is
\* a well-formed record.
THEOREM GateTypeCorrect == Spec => []TypeOK
<1>1. GateTypeInv => TypeOK
  BY DEF GateTypeInv
<1> QED BY <1>1, GateTypeInvInit, GateTypeInvStep, PTL DEF Spec

-----------------------------------------------------------------------------
(* One run per fingerprint *)

\* From the claim on, until it gives it up, a call is the one its action's claim names.
OwnsClaim(i) ==
  \/ stage[i] \in {"invoke", "executing", "log", "finish"}
  \/ stage[i] = "release" /\ phase[i] = "unlink"

ClaimInv == \A i \in Invocation : OwnsClaim(i) => claim[FpOf[i]] = i

\* A call's step leaves the other calls where they are.
LEMMA OtherCalls ==
  ASSUME GateTypeInv, NEW i \in Invocation, GateStep(i), NEW j \in Invocation \ {i}
  PROVE  stage'[j] = stage[j] /\ phase'[j] = phase[j]
BY DEF GateStep, Continue, Start, LockStep, LockAcquired, LockUnavailable, LockFails, Unlock,
       BeginStep, BeginRead, BeginWrite, RunStep, ClaimInflight, Refused, AbortWrite, Invoke,
       ExecutorReturns, EndStep, LogWrite, FinishWrite, ReleaseRead, ReleaseUnlink,
       GoTo, Advance, GateTypeInv, TypeOK, GateTypeOK

LEMMA ClaimInvStep == GateTypeInv /\ ClaimInv /\ [Next]_vars => ClaimInv'
<1> SUFFICES ASSUME GateTypeInv, ClaimInv, [Next]_vars PROVE ClaimInv'
  OBVIOUS
<1> USE DEF GateTypeInv, TypeOK, GateTypeOK, ClaimInv, OwnsClaim
<1>1. ASSUME NEW i \in Invocation, GateStep(i) PROVE ClaimInv'
  <2>1. \A j \in Invocation \ {i} : stage'[j] = stage[j] /\ phase'[j] = phase[j]
    BY <1>1, OtherCalls
  <2>2. ASSUME claim' = claim, OwnsClaim(i)' => OwnsClaim(i) PROVE ClaimInv'
    BY <2>1, <2>2
  <2>3. CASE Start(i) \/ BeginStep(i) \/ Invoke(i) \/ ExecutorReturns(i) \/ AbortWrite(i)
    BY <2>2, <2>3 DEF Start, BeginStep, BeginRead, BeginWrite, Invoke, ExecutorReturns,
         AbortWrite, At, GoTo, Advance, storeVars
  <2>4. CASE LockStep(i)
    <3>1. stage[i] \in LockedStage
      BY <2>4 DEF LockStep, LockAcquired, LockUnavailable, LockFails, Unlock
    <3>2. /\ NextStage(i) \in {"claim", "finish", "release", "done"}
          /\ NextStage(i) = "finish" => stage[i] = "log"
      BY <3>1, NextStageType DEF NextStage, AfterLast, LockedStage
    <3> QED BY <2>2, <2>4, <3>2
            DEF LockStep, LockAcquired, LockUnavailable, LockFails, Unlock, GoTo, Advance
  <2>5. CASE ClaimInflight(i)
    <3>1. CASE claim' = claim /\ stage'[i] \in {"abort", "done"}
      BY <2>2, <3>1
    <3>2. CASE claim[FpOf[i]] = Nobody /\ claim' = [claim EXCEPT ![FpOf[i]] = i]
      <4>1. claim'[FpOf[i]] = i
        BY <3>2, JournalAssumption DEF StoreTypeOK
      <4>2. \A j \in Invocation : claim[FpOf[j]] = j => claim'[FpOf[j]] = j
        BY <3>2, <4>1, JournalAssumption DEF StoreTypeOK, Actor
      <4> QED BY <2>1, <4>1, <4>2
    <3> QED BY <2>5, <3>1, <3>2 DEF ClaimInflight, Refused, GoTo
  <2>6. CASE LogWrite(i) \/ FinishWrite(i) \/ ReleaseRead(i)
    <3>1. CASE LogWrite(i) \/ FinishWrite(i)
      BY <2>2, <3>1 DEF LogWrite, FinishWrite, At, Advance
    <3>2. CASE ReleaseRead(i)
      BY <2>1, <3>2 DEF ReleaseRead, At, GoTo, Advance, storeVars
    <3> QED BY <2>6, <3>1, <3>2
  <2>7. CASE ReleaseUnlink(i)
    <3>1. claim[FpOf[i]] = i /\ claim' = [claim EXCEPT ![FpOf[i]] = Nobody]
      BY <2>7 DEF ReleaseUnlink, At
    <3>2. stage'[i] = "done"
      BY <2>7 DEF ReleaseUnlink, GoTo
    <3>3. \A j \in Invocation \ {i} : claim[FpOf[j]] = j => claim'[FpOf[j]] = j
      BY <3>1, JournalAssumption DEF StoreTypeOK
    <3> QED BY <2>1, <3>2, <3>3
  <2> QED BY <1>1, <2>3, <2>4, <2>5, <2>6, <2>7 DEF GateStep, Continue, RunStep, EndStep
<1>2. ASSUME UNCHANGED <<stage, phase, claim>> PROVE ClaimInv'
  BY <1>2
<1> QED BY <1>1, <1>2 DEF Next, Crash, Die, vars, gateVars, sessionVars, storeVars

\* Two calls of the same action never run at the same time, whatever crashes: each
\* would have to own the one claim of that action.
THEOREM OneRunCorrect == Spec => []OneRunPerFingerprint
<1>1. Init => ClaimInv
  BY DEF Init, GateInit, ClaimInv, OwnsClaim
<1>2. ClaimInv => OneRunPerFingerprint
  BY DEF ClaimInv, OwnsClaim, OneRunPerFingerprint, Occupied
<1> QED BY <1>1, <1>2, GateTypeInvInit, GateTypeInvStep, ClaimInvStep, PTL DEF Spec

-----------------------------------------------------------------------------
(* No effect is forgotten *)

InJournal(i) == Recorded(i) \/ CorruptAbout(i)

\* What the gate was told of an append is so, and it gives up a claim only when the
\* journal tells what became of the action.
EffectInv ==
  \A i \in Invocation :
    /\ stage[i] = "release" => Releases(i)
    /\ HasKey(i) /\ persisted[i] => InJournal(i)
    /\ ~HasKey(i) /\ journalWritten[i] => InJournal(i)
    /\ Invoked(i) => claim[FpOf[i]] = i \/ InJournal(i)

\* A line once in the journal stays there.
LEMMA JournalKeeps ==
  ASSUME journal \in Seq(Record),
         journal' = journal \/ \E r \in Record : journal' = Append(journal, r),
         NEW i \in Invocation, InJournal(i)
  PROVE  InJournal(i)'
<1>1. CASE journal' = journal
  BY <1>1 DEF InJournal, Recorded, CorruptAbout
<1>2. ASSUME NEW r \in Record, journal' = Append(journal, r) PROVE InJournal(i)'
  <2>1. \A n \in DOMAIN journal : n \in DOMAIN journal' /\ journal'[n] = journal[n]
    BY <1>2
  <2> QED BY <2>1 DEF InJournal, Recorded, CorruptAbout
<1> QED BY <1>1, <1>2

\* A line reported as written about the end of a call is there, or its line is corrupt.
LEMMA WrittenIsThere ==
  ASSUME journal \in Seq(Record), tail \in Ending, NEW i \in Invocation,
         NEW rec \in KeyLine \cup Phase1Line, rec.exec = i, rec.type # "started",
         HasKey(i) => rec.key = KeyOf[i],
         WriteLine(rec, TRUE)
  PROVE  InJournal(i)'
<1>1. journal' = Append(journal, Landed(rec)) /\ Landed(rec) \in Record
  BY LandedRecord DEF WriteLine
<1>2. Len(journal) + 1 \in DOMAIN journal' /\ journal'[Len(journal) + 1] = Landed(rec)
  BY <1>1
<1>3. CASE ~tail.torn
  <2>1. Landed(rec).exec = i /\ Landed(rec).type # "started"
    BY <1>3 DEF Landed
  <2> QED BY <1>2, <2>1 DEF InJournal, Recorded
<1>4. CASE tail.torn
  <2>1. Landed(rec).type = "corrupt"
    BY <1>4 DEF Landed, CorruptLine
  <2>2. HasKey(i) => KeyOf[i] \in Landed(rec).mentions
    BY <1>4, LandedRecord, JournalAssumption DEF HasKey
  <2> QED BY <1>2, <2>1, <2>2 DEF InJournal, CorruptAbout
<1> QED BY <1>3, <1>4

\* A step of a call leaves the journal's lines where they are.
LEMMA GateJournalGrows ==
  ASSUME GateTypeInv, NEW i \in Invocation, GateStep(i)
  PROVE  journal' = journal \/ \E r \in Record : journal' = Append(journal, r)
<1> USE DEF GateTypeInv, TypeOK
<1>1. ASSUME BeginWrite(i) \/ AbortWrite(i) \/ LogWrite(i) \/ FinishWrite(i)
      PROVE  journal' = journal \/ \E r \in Record : journal' = Append(journal, r)
  <2>1. PICK written \in BOOLEAN, rec \in KeyLine \cup Phase1Line : WriteLine(rec, written)
    BY <1>1, GateRecordType
       DEF BeginWrite, AbortWrite, LogWrite, FinishWrite, At, KeyedStages, TerminalType,
           KeyRecordType
  <2> QED BY <2>1, LandedRecord DEF WriteLine, StoreTypeOK
<1> QED BY <1>1
   DEF GateStep, Continue, Start, LockStep, LockAcquired, LockUnavailable, LockFails, Unlock,
       BeginStep, BeginRead, RunStep, ClaimInflight, Invoke, ExecutorReturns, EndStep,
       ReleaseRead, ReleaseUnlink, storeVars

\* What a step does to the call that takes it.
LEMMA EffectOfOwnStep ==
  ASSUME GateTypeInv, ClaimInv, EffectInv, NEW i \in Invocation, GateStep(i)
  PROVE  /\ stage'[i] = "release" => Releases(i)'
         /\ HasKey(i) /\ persisted'[i] => InJournal(i)'
         /\ ~HasKey(i) /\ journalWritten'[i] => InJournal(i)'
         /\ Invoked(i)' => claim'[FpOf[i]] = i \/ InJournal(i)'
<1> USE DEF GateTypeInv, TypeOK, GateTypeOK
<1>1. InJournal(i) => InJournal(i)'
  BY GateJournalGrows, JournalKeeps DEF StoreTypeOK
<1>2. CASE Start(i) \/ BeginStep(i) \/ AbortWrite(i)
  BY <1>1, <1>2 DEF EffectInv, Start, BeginStep, BeginRead, BeginWrite, AbortWrite, At, GoTo,
       Advance, Invoked, storeVars
<1>3. CASE LockStep(i)
  <2>1. stage[i] \in LockedStage /\ claim' = claim
        /\ UNCHANGED <<outcome, persisted, journalWritten>>
    BY <1>3 DEF LockStep, LockAcquired, LockUnavailable, LockFails, Unlock
  <2>2. stage'[i] = "release" => NextStage(i) = "release"
    BY <1>3, <2>1 DEF LockStep, LockAcquired, LockUnavailable, LockFails, Unlock, GoTo, Advance,
         LockedStage
  <2>3. NextStage(i) = "release" => Releases(i)
    BY <2>1 DEF NextStage, AfterLast, LockedStage
  <2> QED BY <1>1, <2>1, <2>2, <2>3 DEF EffectInv, Releases, Invoked
<1>4. CASE ClaimInflight(i)
  <2>1. claim'[FpOf[i]] = claim[FpOf[i]] \/ claim'[FpOf[i]] = i
    BY <1>4, JournalAssumption DEF ClaimInflight, StoreTypeOK
  <2>2. stage'[i] # "release" /\ UNCHANGED <<outcome, persisted, journalWritten>>
    BY <1>4 DEF ClaimInflight, Refused, GoTo
  <2> QED BY <1>1, <2>1, <2>2 DEF EffectInv, Invoked
<1>5. CASE Invoke(i) \/ ExecutorReturns(i)
  <2>1. claim[FpOf[i]] = i
    BY <1>5 DEF Invoke, ExecutorReturns, ClaimInv, OwnsClaim
  <2> QED BY <1>1, <1>5, <2>1 DEF EffectInv, Invoke, ExecutorReturns, GoTo, storeVars
<1>6. CASE LogWrite(i)
  <2>1. PICK written \in BOOLEAN :
          /\ WriteLine(Phase1Record("execution", FpOf[i], i), written)
          /\ journalWritten' = [journalWritten EXCEPT ![i] = written]
    BY <1>6 DEF LogWrite
  <2>2. ~HasKey(i) /\ written => InJournal(i)'
    BY <2>1, GateRecordType, WrittenIsThere DEF StoreTypeOK, Phase1Record, KeyRecord
  <2>3. stage'[i] # "release" /\ UNCHANGED <<outcome, persisted, claim>>
    BY <1>6 DEF LogWrite, At, Advance
  <2> QED BY <1>1, <2>1, <2>2, <2>3 DEF EffectInv, Invoked
<1>7. CASE FinishWrite(i)
  <2>1. PICK written \in BOOLEAN :
          /\ WriteLine(KeyRecord(TerminalType(i), KeyOf[i], FpOf[i], i), written)
          /\ persisted' = [persisted EXCEPT ![i] = written]
    BY <1>7 DEF FinishWrite
  <2>2. HasKey(i) => KeyRecord(TerminalType(i), KeyOf[i], FpOf[i], i) \in KeyLine
    BY GateRecordType DEF TerminalType, KeyRecordType
  <2>3. HasKey(i) /\ written => InJournal(i)'
    BY <2>1, <2>2, WrittenIsThere DEF StoreTypeOK, KeyRecord, TerminalType
  <2>4. stage'[i] # "release" /\ UNCHANGED <<outcome, journalWritten, claim>>
    BY <1>7 DEF FinishWrite, At, Advance
  <2> QED BY <1>1, <2>1, <2>3, <2>4 DEF EffectInv, Invoked
<1>8. CASE ReleaseRead(i)
  BY <1>1, <1>8 DEF EffectInv, ReleaseRead, At, GoTo, Advance, Invoked, Releases, storeVars
<1>9. CASE ReleaseUnlink(i)
  <2>1. Releases(i) /\ stage'[i] # "release"
    BY <1>9 DEF EffectInv, ReleaseUnlink, At, GoTo
  <2>2. Invoked(i) => InJournal(i)
    BY <2>1 DEF EffectInv, Releases, Invoked
  <2> QED BY <1>1, <1>9, <2>1, <2>2 DEF EffectInv, ReleaseUnlink, Invoked
<1> QED BY <1>2, <1>3, <1>4, <1>5, <1>6, <1>7, <1>8, <1>9 DEF GateStep, Continue, RunStep, EndStep

\* What it does to the others: only the owner of a claim unlinks it.
LEMMA EffectOfOthersStep ==
  ASSUME GateTypeInv, ClaimInv, EffectInv, NEW i \in Invocation, GateStep(i),
         NEW j \in Invocation \ {i}
  PROVE  /\ stage'[j] = "release" => Releases(j)'
         /\ HasKey(j) /\ persisted'[j] => InJournal(j)'
         /\ ~HasKey(j) /\ journalWritten'[j] => InJournal(j)'
         /\ Invoked(j)' => claim'[FpOf[j]] = j \/ InJournal(j)'
<1> USE DEF GateTypeInv, TypeOK, GateTypeOK
<1>1. InJournal(j) => InJournal(j)'
  BY GateJournalGrows, JournalKeeps DEF StoreTypeOK
<1>2. /\ stage'[j] = stage[j]
      /\ outcome'[j] = outcome[j]
      /\ persisted'[j] = persisted[j]
      /\ journalWritten'[j] = journalWritten[j]
  <2>1. stage'[j] = stage[j]
    BY OtherCalls
  <2> QED BY <2>1
    DEF GateStep, Continue, Start, LockStep, LockAcquired, LockUnavailable, LockFails, Unlock,
        BeginStep, BeginRead, BeginWrite, RunStep, ClaimInflight, AbortWrite, Invoke,
        ExecutorReturns, EndStep, LogWrite, FinishWrite, ReleaseRead, ReleaseUnlink
<1>3. claim[FpOf[j]] = j => claim'[FpOf[j]] = j
  <2>1. CASE claim' = claim
    BY <2>1
  <2>2. CASE ClaimInflight(i)
    BY <2>2, JournalAssumption DEF ClaimInflight, StoreTypeOK, Actor
  <2>3. CASE ReleaseUnlink(i)
    <3>1. claim[FpOf[i]] = i
      BY <2>3 DEF ReleaseUnlink, At, ClaimInv, OwnsClaim
    <3> QED BY <2>3, <3>1, JournalAssumption DEF ReleaseUnlink, StoreTypeOK
  <2> QED BY <2>1, <2>2, <2>3
    DEF GateStep, Continue, Start, LockStep, LockAcquired, LockUnavailable, LockFails, Unlock,
        BeginStep, BeginRead, BeginWrite, RunStep, AbortWrite, Invoke, ExecutorReturns, EndStep,
        LogWrite, FinishWrite, ReleaseRead, storeVars
<1> QED BY <1>1, <1>2, <1>3 DEF EffectInv, Releases, Invoked

LEMMA EffectInvStep == GateTypeInv /\ ClaimInv /\ EffectInv /\ [Next]_vars => EffectInv'
<1> SUFFICES ASSUME GateTypeInv, ClaimInv, EffectInv, [Next]_vars PROVE EffectInv'
  OBVIOUS
<1>1. ASSUME NEW i \in Invocation, GateStep(i) PROVE EffectInv'
  BY <1>1, EffectOfOwnStep, EffectOfOthersStep DEF EffectInv
<1>2. ASSUME UNCHANGED <<gateVars, claim, journal>> PROVE EffectInv'
  BY <1>2 DEF EffectInv, gateVars, sessionVars, Releases, Invoked, InJournal, Recorded, CorruptAbout
<1> QED BY <1>1, <1>2 DEF Next, Crash, Die, vars, storeVars

\* Whatever is lost between an executor's call and the last append, the claim or the
\* journal still tells of the effect.
THEOREM EffectRemembered == Spec => []EffectIsRemembered
<1>1. Init => EffectInv
  BY DEF Init, GateInit, EffectInv, Invoked
<1>2. Init => ClaimInv
  BY DEF Init, GateInit, ClaimInv, OwnsClaim
<1>3. EffectInv => EffectIsRemembered
  BY DEF EffectInv, EffectIsRemembered, InJournal
<1> QED BY <1>1, <1>2, <1>3, GateTypeInvInit, GateTypeInvStep, ClaimInvStep, EffectInvStep, PTL
        DEF Spec

-----------------------------------------------------------------------------
(* The session's record *)

Unrun == {"begin", "claim", "abort", "invoke"}
Ended == {"log", "finish", "release", "done"}

\* A call's record is open until its executor came back or the call is about to answer
\* without one, and then it is closed for good.
RecordInv ==
  \A i \in Invocation :
    /\ record[i] = "completed" <=> outcome[i] \in {"ok", "fail"}
    /\ stage[i] = "ready" => record[i] = "none" /\ outcome[i] = "none"
    /\ stage[i] \in Unrun => record[i] = "started" /\ outcome[i] = "none"
    /\ stage[i] = "executing" => record[i] = "started" /\ outcome[i] = "running"
    /\ stage[i] \in Ended => record[i] \in {"completed", "failed"} /\ token[i] # "claimed"

LEMMA RecordOfOwnStep ==
  ASSUME GateTypeInv, RecordInv, NEW i \in Invocation, GateStep(i)
  PROVE  /\ record'[i] = "completed" <=> outcome'[i] \in {"ok", "fail"}
         /\ stage'[i] = "ready" => record'[i] = "none" /\ outcome'[i] = "none"
         /\ stage'[i] \in Unrun => record'[i] = "started" /\ outcome'[i] = "none"
         /\ stage'[i] = "executing" => record'[i] = "started" /\ outcome'[i] = "running"
         /\ stage'[i] \in Ended => record'[i] \in {"completed", "failed"} /\ token'[i] # "claimed"
<1> USE DEF GateTypeInv, TypeOK, GateTypeOK, RecordInv, Unrun, Ended
<1>1. CASE Start(i)
  BY <1>1 DEF Start, GoTo
<1>2. CASE BeginStep(i) \/ AbortWrite(i)
  BY <1>2 DEF BeginStep, BeginRead, BeginWrite, AbortWrite, Advance, sessionVars
<1>3. CASE LockAcquired(i)
  BY <1>3 DEF LockAcquired, Advance, sessionVars
<1>4. CASE LockUnavailable(i) \/ Unlock(i)
  <2>1. stage[i] \in LockedStage /\ outcome' = outcome /\ GoTo(i, NextStage(i)) /\ SettleUnrun(i)
    BY <1>4 DEF LockUnavailable, Unlock
  <2>2. stage'[i] = NextStage(i)
    BY <2>1 DEF GoTo
  <2>3. CASE AnswersUnrun(i)
    BY <2>1, <2>2, <2>3 DEF AnswersUnrun, SettleUnrun, Settle
  <2>4. CASE ~AnswersUnrun(i)
    <3>1. record' = record /\ token' = token
      BY <2>1, <2>4 DEF SettleUnrun, sessionVars
    <3>2. \/ stage[i] = "begin" /\ NextStage(i) = "claim"
          \/ stage[i] \in {"log", "finish"} /\ NextStage(i) \in {"finish", "release", "done"}
      BY <2>1, <2>4 DEF AnswersUnrun, NextStage, AfterLast, LockedStage
    <3> QED BY <2>1, <2>2, <3>1, <3>2
  <2> QED BY <2>3, <2>4
<1>5. CASE LockFails(i)
  <2>1. stage[i] \in LockedStage /\ outcome' = outcome
    BY <1>5 DEF LockFails
  <2>2. CASE stage[i] = "begin"
    BY <1>5, <2>1, <2>2 DEF LockFails, GoTo, Settle
  <2>3. CASE stage[i] # "begin"
    BY <1>5, <2>1, <2>3 DEF LockFails, GoTo, sessionVars
  <2> QED BY <2>2, <2>3
<1>6. CASE ClaimInflight(i)
  BY <1>6 DEF ClaimInflight, Refused, GoTo, Settle, sessionVars
<1>7. CASE Invoke(i)
  BY <1>7 DEF Invoke, GoTo, Settle, sessionVars
<1>8. CASE ExecutorReturns(i)
  BY <1>8 DEF ExecutorReturns, GoTo, Settle
<1>9. CASE EndStep(i)
  BY <1>9 DEF EndStep, LogWrite, FinishWrite, ReleaseRead, ReleaseUnlink, At, GoTo, Advance,
       sessionVars
<1> QED BY <1>1, <1>2, <1>3, <1>4, <1>5, <1>6, <1>7, <1>8, <1>9
        DEF GateStep, Continue, LockStep, RunStep

LEMMA RecordInvStep == GateTypeInv /\ RecordInv /\ [Next]_vars => RecordInv'
<1> SUFFICES ASSUME GateTypeInv, RecordInv, [Next]_vars PROVE RecordInv'
  OBVIOUS
<1>1. ASSUME NEW i \in Invocation, GateStep(i) PROVE RecordInv'
  <2>1. ASSUME NEW j \in Invocation \ {i}
        PROVE  /\ stage'[j] = stage[j] /\ outcome'[j] = outcome[j]
               /\ record'[j] = record[j] /\ token'[j] = token[j]
    <3>1. stage'[j] = stage[j]
      BY <1>1, OtherCalls
    <3>2. outcome'[j] = outcome[j]
      BY <1>1 DEF GateTypeInv, TypeOK, GateTypeOK, GateStep, Continue, Start, LockStep,
        LockAcquired, LockUnavailable, LockFails, Unlock, BeginStep, BeginRead, BeginWrite,
        RunStep, ClaimInflight, AbortWrite, Invoke, ExecutorReturns, EndStep, LogWrite,
        FinishWrite, ReleaseRead, ReleaseUnlink
    <3>3. record'[j] = record[j] /\ token'[j] = token[j]
      BY <1>1 DEF GateTypeInv, TypeOK, GateTypeOK, GateStep, Continue, Start, LockStep,
        LockAcquired, LockUnavailable, LockFails, Unlock, BeginStep, BeginRead, BeginWrite,
        RunStep, ClaimInflight, Refused, AbortWrite, Invoke, ExecutorReturns, EndStep, LogWrite,
        FinishWrite, ReleaseRead, ReleaseUnlink, SettleUnrun, Settle, sessionVars
    <3> QED BY <3>1, <3>2, <3>3
  <2> QED BY <1>1, <2>1, RecordOfOwnStep DEF RecordInv
<1>2. ASSUME UNCHANGED gateVars PROVE RecordInv'
  BY <1>2 DEF RecordInv, gateVars, sessionVars
<1> QED BY <1>1, <1>2 DEF Next, Crash, vars

\* The record that pipeline.ts turns into evidence tells the truth about the executor,
\* on every path of execute.
THEOREM RecordIsTrue == Spec => []RecordIsEvidence
<1>1. Init => RecordInv
  BY DEF Init, GateInit, RecordInv, Unrun, Ended
<1>2. RecordInv => RecordIsEvidence
  BY DEF RecordInv, RecordIsEvidence, Ended
<1> QED BY <1>1, <1>2, GateTypeInvInit, GateTypeInvStep, RecordInvStep, PTL DEF Spec

-----------------------------------------------------------------------------
(* What beginKey decides and what finishKey reports is true of the journal, for *)
(* any calls, processes, deaths and faults.                                   *)

\* If rec says completed, the executor of i came back with success and this is its line.
VouchesFor(i, rec) ==
  rec.type = "completed" =>
    /\ FinishWrite(i) /\ outcome[i] = "ok"
    /\ rec = KeyRecord("completed", KeyOf[i], FpOf[i], i)

\* The steps of a call that append to the journal, and what they append.
LEMMA GateAppends ==
  ASSUME GateTypeInv, NEW i \in Invocation, GateStep(i), journal' # journal
  PROVE  \E rec \in KeyLine \cup Phase1Line :
           /\ journal' = Append(journal, Landed(rec))
           /\ Landed(rec) \in Record
           /\ VouchesFor(i, rec)
<1> USE DEF GateTypeInv, TypeOK
<1>1. ASSUME BeginWrite(i) \/ AbortWrite(i) \/ LogWrite(i) \/ FinishWrite(i)
      PROVE  \E rec \in KeyLine \cup Phase1Line, written \in BOOLEAN :
               /\ WriteLine(rec, written)
               /\ VouchesFor(i, rec)
  <2>1. CASE BeginWrite(i)
    BY <2>1, GateRecordType
       DEF BeginWrite, At, KeyedStages, KeyRecordType, KeyRecord, VouchesFor
  <2>2. CASE AbortWrite(i)
    BY <2>2, GateRecordType
       DEF AbortWrite, At, KeyedStages, KeyRecordType, KeyRecord, VouchesFor
  <2>3. CASE LogWrite(i)
    BY <2>3, GateRecordType DEF LogWrite, Phase1Record, KeyRecord, VouchesFor
  <2>4. CASE FinishWrite(i)
    <3> DEFINE end == KeyRecord(TerminalType(i), KeyOf[i], FpOf[i], i)
    <3>1. PICK written \in BOOLEAN : WriteLine(end, written)
      BY <2>4 DEF FinishWrite
    <3>2. end \in KeyLine
      BY <2>4, GateRecordType DEF FinishWrite, At, KeyedStages, KeyRecordType, TerminalType
    <3>3. VouchesFor(i, end)
      BY <2>4 DEF VouchesFor, KeyRecord, TerminalType
    <3> HIDE DEF end
    <3> QED BY <3>1, <3>2, <3>3
  <2> QED BY <1>1, <2>1, <2>2, <2>3, <2>4
<1>2. BeginWrite(i) \/ AbortWrite(i) \/ LogWrite(i) \/ FinishWrite(i)
  BY DEF GateStep, Continue, Start, LockStep, LockAcquired, LockUnavailable, LockFails, Unlock,
       BeginStep, BeginRead, RunStep, ClaimInflight, Invoke, ExecutorReturns, EndStep,
       ReleaseRead, ReleaseUnlink, storeVars
<1>3. PICK rec \in KeyLine \cup Phase1Line, written \in BOOLEAN :
        /\ WriteLine(rec, written)
        /\ VouchesFor(i, rec)
  BY <1>1, <1>2
<1> QED BY <1>3, LandedRecord DEF WriteLine, StoreTypeOK

\* A line keeps its place, so what a key's lines told stays told.
LEMMA LinesStay ==
  ASSUME GateTypeInv, NEW i \in Invocation, GateStep(i)
  PROVE  /\ \A n \in DOMAIN journal : n \in DOMAIN journal' /\ journal'[n] = journal[n]
         /\ \A k \in Key : CorruptFor(k) => CorruptFor(k)'
         /\ \A k \in Key : KeyLines(k) \subseteq KeyLines(k)'
<1>1. \A n \in DOMAIN journal : n \in DOMAIN journal' /\ journal'[n] = journal[n]
  <2>1. journal \in Seq(Record)
    BY DEF GateTypeInv, TypeOK, StoreTypeOK
  <2>2. ASSUME NEW r \in Record, journal' = Append(journal, r),
               NEW n \in DOMAIN journal
        PROVE  n \in DOMAIN journal' /\ journal'[n] = journal[n]
    BY <2>1, <2>2
  <2> QED BY <2>2, GateJournalGrows
<1> QED BY <1>1 DEF CorruptFor, KeyLines

-----------------------------------------------------------------------------
(* A key stays bound to its first fingerprint *)

\* Without an operator nothing takes the lock from a call, not even its death.
LockOwned ==
  \A i \in Invocation : stage[i] \in LockedStage /\ phase[i] # "lock" => lock = i

LEMMA LockOwnedStep == GateTypeInv /\ LockOwned /\ [Next]_vars => LockOwned'
<1> SUFFICES ASSUME GateTypeInv, LockOwned, [Next]_vars PROVE LockOwned'
  OBVIOUS
<1> USE DEF GateTypeInv, TypeOK, GateTypeOK
<1>1. ASSUME NEW i \in Invocation, GateStep(i) PROVE LockOwned'
  <2>1. stage'[i] \in LockedStage /\ phase'[i] # "lock" => lock' = i
    <3>1. CASE LockAcquired(i)
      BY <3>1 DEF LockAcquired, TakeLock
    <3>2. CASE Unlock(i) \/ LockUnavailable(i) \/ LockFails(i)
      BY <3>2 DEF Unlock, LockUnavailable, LockFails, GoTo, LockedStage
    <3>3. CASE BeginStep(i)
      BY <3>3 DEF BeginStep, BeginRead, BeginWrite, At, Advance, LockOwned, LockedStage
    <3>4. CASE Start(i)
      BY <3>4 DEF Start, GoTo
    <3>5. CASE RunStep(i)
      BY <3>5 DEF RunStep, ClaimInflight, Refused, AbortWrite, Invoke, ExecutorReturns, At, GoTo,
           Advance, LockOwned, LockedStage
    <3>6. CASE EndStep(i)
      BY <3>6 DEF EndStep, LogWrite, FinishWrite, ReleaseRead, ReleaseUnlink, At, GoTo, Advance,
           LockOwned, LockedStage
    <3> QED BY <1>1, <3>1, <3>2, <3>3, <3>4, <3>5, <3>6 DEF GateStep, Continue, LockStep
  <2>2. ASSUME NEW j \in Invocation \ {i},
               stage'[j] \in LockedStage /\ phase'[j] # "lock"
        PROVE  lock' = j
    <3>1. lock = j
      BY <1>1, <2>2, OtherCalls DEF LockOwned
    <3>2. lock' = lock
      <4>1. j # Nobody /\ j # i
        BY JournalAssumption DEF Actor
      <4>2. ~LockAcquired(i) /\ ~LockFails(i)
        BY <3>1, <4>1 DEF LockAcquired, TakeLock, LockFails, LockThrows
      <4>3. ~Unlock(i)
        BY <3>1, <4>1 DEF Unlock, LockOwned
      <4> QED BY <1>1, <4>2, <4>3
          DEF GateStep, Continue, Start, LockStep, LockUnavailable, LockTimesOut, BeginStep,
              BeginRead, BeginWrite, RunStep, ClaimInflight, AbortWrite, Invoke, ExecutorReturns,
              EndStep, LogWrite, FinishWrite, ReleaseRead, ReleaseUnlink, storeVars
    <3> QED BY <3>1, <3>2
  <2> QED BY <2>1, <2>2 DEF LockOwned
<1>2. ASSUME UNCHANGED <<gateVars, lock>> PROVE LockOwned'
  BY <1>2 DEF LockOwned, gateVars
<1> QED BY <1>1, <1>2 DEF Next, Crash, Die, vars, storeVars

\* The journal shows the key of i as its own, or shows it as blocked.
Marked(i) ==
  CorruptFor(KeyOf[i]) \/ \E n \in KeyLines(KeyOf[i]) : journal[n].fp = FpOf[i]

\* A call that may proceed has its mark in the journal, or is about to set it with the
\* lock in its hands.
BindInv ==
  /\ KeyBoundToFingerprint
  /\ \A i \in Invocation : verdict[i] = "proceed" =>
       /\ HasKey(i)
       /\ Marked(i) \/ (stage[i] = "begin" /\ phase[i] = "write")

LEMMA MarkStays ==
  ASSUME GateTypeInv, NEW i \in Invocation, GateStep(i),
         NEW j \in Invocation, HasKey(j), Marked(j)
  PROVE  Marked(j)'
<1>1. KeyOf[j] \in Key
  BY JournalAssumption DEF HasKey
<1> QED BY <1>1, LinesStay DEF Marked, KeyLines

\* A started line reported as written is the call's mark.
LEMMA WriteMarks ==
  ASSUME GateTypeInv, NEW i \in Invocation, BeginWrite(i), verdict'[i] = "proceed"
  PROVE  Marked(i)'
<1> DEFINE rec == KeyRecord("started", KeyOf[i], FpOf[i], i)
<1>1. HasKey(i) /\ KeyOf[i] \in Key /\ rec \in KeyLine
  BY GateRecordType, JournalAssumption
     DEF BeginWrite, At, GateTypeInv, KeyedStages, HasKey, KeyRecordType
<1>2. WriteLine(rec, TRUE)
  BY DEF BeginWrite, GateTypeInv, TypeOK, GateTypeOK
<1>3. journal \in Seq(Record) /\ tail \in Ending
  BY DEF GateTypeInv, TypeOK, StoreTypeOK
<1>4. rec.key = KeyOf[i] /\ rec.fp = FpOf[i]
  BY DEF KeyRecord
<1> HIDE DEF rec
<1>5. journal' = Append(journal, Landed(rec)) /\ Landed(rec) \in Record
  BY <1>1, <1>2, <1>3, LandedRecord DEF WriteLine
<1>6. Len(journal) + 1 \in DOMAIN journal' /\ journal'[Len(journal) + 1] = Landed(rec)
  BY <1>3, <1>5
<1>7. CASE tail.torn
  BY <1>1, <1>3, <1>4, <1>6, <1>7, LandedRecord DEF Marked, CorruptFor
<1>8. CASE ~tail.torn
  BY <1>4, <1>6, <1>8 DEF Landed, Marked, KeyLines
<1> QED BY <1>7, <1>8

\* beginKey lets a call past only if it agrees with every mark on its key.
LEMMA ProceedAgrees ==
  ASSUME NEW i \in Invocation, NEW j \in Invocation, NEW h,
         KeyOf[j] = KeyOf[i], Marked(j), KeyState(KeyOf[i], FpOf[i], h) = "proceed"
  PROVE  FpOf[j] = FpOf[i]
<1>1. FpOf[i] # NoFp
  BY JournalAssumption
<1>2. ~CorruptFor(KeyOf[i])
  BY DEF KeyState
<1>3. PICK n \in KeyLines(KeyOf[i]) : journal[n].fp = FpOf[j]
  BY <1>2 DEF Marked
<1>4. ~Conflicts(KeyOf[i], FpOf[i])
  BY <1>2, <1>3 DEF KeyState
<1> QED BY <1>1, <1>3, <1>4 DEF Conflicts

LEMMA BindInvStep == GateTypeInv /\ LockOwned /\ BindInv /\ [Next]_vars => BindInv'
<1> SUFFICES ASSUME GateTypeInv, LockOwned, BindInv, [Next]_vars PROVE BindInv'
  OBVIOUS
<1> USE DEF GateTypeInv, TypeOK, GateTypeOK
<1>1. ASSUME NEW i \in Invocation, GateStep(i) PROVE BindInv'
  <2>1. ASSUME NEW j \in Invocation \ {i}
        PROVE  verdict'[j] = verdict[j] /\ stage'[j] = stage[j] /\ phase'[j] = phase[j]
    <3>1. verdict'[j] = verdict[j]
      BY <1>1 DEF GateStep, Continue, Start, LockStep,
        LockAcquired, LockUnavailable, LockFails, Unlock, BeginStep, BeginRead, BeginWrite,
        RunStep, ClaimInflight, AbortWrite, Invoke, ExecutorReturns, EndStep, LogWrite,
        FinishWrite, ReleaseRead, ReleaseUnlink
    <3> QED BY <1>1, <3>1, OtherCalls
  <2>2. ASSUME NEW j \in Invocation \ {i}, verdict'[j] = "proceed"
        PROVE  HasKey(j) /\ (Marked(j)' \/ (stage'[j] = "begin" /\ phase'[j] = "write"))
    BY <1>1, <2>1, <2>2, MarkStays DEF BindInv
  <2>3. ASSUME verdict'[i] = "proceed", ~BeginRead(i)
        PROVE  /\ verdict[i] = "proceed" /\ HasKey(i)
               /\ Marked(i)' \/ (stage'[i] = "begin" /\ phase'[i] = "write")
    <3>1. CASE BeginWrite(i)
      <4>1. verdict[i] = "proceed"
        BY <2>3, <3>1 DEF BeginWrite
      <4> QED BY <2>3, <3>1, <4>1, WriteMarks DEF BindInv
    <3>2. CASE ~BeginWrite(i)
      <4>1. verdict[i] = "proceed"
        BY <1>1, <2>3, <3>2 DEF GateStep, Continue, Start, LockStep,
          LockAcquired, LockUnavailable, LockFails, Unlock, BeginStep,
          RunStep, ClaimInflight, AbortWrite, Invoke, ExecutorReturns, EndStep, LogWrite,
          FinishWrite, ReleaseRead, ReleaseUnlink
      <4>2. ~(stage[i] = "begin" /\ phase[i] = "write")
        BY <1>1, <2>3, <3>2 DEF GateStep, Continue, Start, LockStep,
          LockAcquired, LockUnavailable, LockFails, Unlock, BeginStep,
          RunStep, ClaimInflight, AbortWrite, Invoke, ExecutorReturns, EndStep, LogWrite,
          FinishWrite, ReleaseRead, ReleaseUnlink, At
      <4> QED BY <1>1, <4>1, <4>2, MarkStays DEF BindInv
    <3> QED BY <3>1, <3>2
  <2>4. CASE ~BeginRead(i)
    BY <2>1, <2>2, <2>3, <2>4 DEF BindInv, KeyBoundToFingerprint, HasKey
  <2>5. CASE BeginRead(i) /\ verdict'[i] = "proceed"
    <3>1. KeyState(KeyOf[i], FpOf[i], HostOf[ProcOf[i]]) = "proceed"
      BY <2>5 DEF BeginRead
    <3>2. HasKey(i) /\ stage'[i] = "begin" /\ phase'[i] = "write"
      BY <2>5 DEF BeginRead, At, Advance, KeyedStages
    <3>3. lock = i
      BY <2>5 DEF BeginRead, At, LockOwned, LockedStage
    <3>4. ASSUME NEW j \in Invocation \ {i}, verdict[j] = "proceed", KeyOf[j] = KeyOf[i]
          PROVE  FpOf[j] = FpOf[i]
      <4>1. Marked(j)
        BY <3>3, <3>4 DEF BindInv, LockOwned, LockedStage
      <4> QED BY <3>1, <3>4, <4>1, ProceedAgrees
    <3> QED BY <2>1, <2>2, <3>2, <3>4 DEF BindInv, KeyBoundToFingerprint, HasKey
  <2>6. CASE verdict'[i] # "proceed"
    BY <2>1, <2>2, <2>6 DEF BindInv, KeyBoundToFingerprint, HasKey
  <2> QED BY <2>4, <2>5, <2>6
<1>2. ASSUME UNCHANGED <<gateVars, journal>> PROVE BindInv'
  BY <1>2 DEF BindInv, KeyBoundToFingerprint, Marked, CorruptFor, KeyLines, gateVars, HasKey
<1> QED BY <1>1, <1>2 DEF Next, Crash, Die, vars, storeVars

\* Of two actions that share a key, beginKey lets at most one past, in any interleaving
\* of their critical sections and after any death or failed append.
THEOREM KeyBound == Spec => []KeyBoundToFingerprint
<1>1. Init => LockOwned /\ BindInv
  BY DEF Init, GateInit, LockOwned, LockedStage, BindInv, KeyBoundToFingerprint
<1>2. BindInv => KeyBoundToFingerprint
  BY DEF BindInv
<1> QED BY <1>1, <1>2, GateTypeInvInit, GateTypeInvStep, LockOwnedStep, BindInvStep, PTL DEF Spec

-----------------------------------------------------------------------------
(* What is answered from the journal *)

\* A line that says completed is of a call whose executor came back with success.
CompletedTrue ==
  \A n \in DOMAIN journal : journal[n].type = "completed" =>
    /\ journal[n].exec \in Invocation
    /\ outcome[journal[n].exec] = "ok"
    /\ journal[n].key = KeyOf[journal[n].exec]
    /\ journal[n].fp = FpOf[journal[n].exec]

\* What the executor of a call came to does not change any more.
LEMMA OkStays ==
  ASSUME GateTypeInv, RecordInv, NEW i \in Invocation, GateStep(i),
         NEW j \in Invocation, outcome[j] = "ok"
  PROVE  outcome'[j] = "ok"
<1>1. stage[j] \notin {"invoke", "executing"}
  BY DEF RecordInv, Unrun
<1> QED BY <1>1 DEF GateTypeInv, TypeOK, GateTypeOK, GateStep, Continue, Start, LockStep,
        LockAcquired, LockUnavailable, LockFails, Unlock, BeginStep, BeginRead, BeginWrite,
        RunStep, ClaimInflight, AbortWrite, Invoke, ExecutorReturns, EndStep, LogWrite,
        FinishWrite, ReleaseRead, ReleaseUnlink

LEMMA CompletedStep ==
  ASSUME GateTypeInv, RecordInv, CompletedTrue, NEW i \in Invocation, GateStep(i)
  PROVE  CompletedTrue'
<1>1. \A n \in DOMAIN journal : n \in DOMAIN journal' /\ journal'[n] = journal[n]
  BY LinesStay
<1>2. ASSUME NEW n \in DOMAIN journal, journal[n].type = "completed"
      PROVE  /\ journal[n].exec \in Invocation
             /\ outcome'[journal[n].exec] = "ok"
             /\ journal[n].key = KeyOf[journal[n].exec]
             /\ journal[n].fp = FpOf[journal[n].exec]
  BY <1>2, OkStays DEF CompletedTrue
<1>3. CASE journal' = journal
  BY <1>2, <1>3 DEF CompletedTrue
<1>4. CASE journal' # journal
  <2>1. PICK rec \in KeyLine \cup Phase1Line :
          /\ journal' = Append(journal, Landed(rec))
          /\ Landed(rec) \in Record
          /\ VouchesFor(i, rec)
    BY <1>4, GateAppends
  <2>2. /\ DOMAIN journal' = DOMAIN journal \cup {Len(journal) + 1}
        /\ journal'[Len(journal) + 1] = Landed(rec)
    BY <2>1 DEF GateTypeInv, TypeOK, StoreTypeOK
  <2>3. ASSUME Landed(rec).type = "completed"
        PROVE  /\ Landed(rec).exec \in Invocation
               /\ outcome'[Landed(rec).exec] = "ok"
               /\ Landed(rec).key = KeyOf[Landed(rec).exec]
               /\ Landed(rec).fp = FpOf[Landed(rec).exec]
    <3>1. Landed(rec) = rec
      BY <2>3 DEF Landed, CorruptLine
    <3>2. /\ FinishWrite(i) /\ outcome[i] = "ok"
          /\ rec = KeyRecord("completed", KeyOf[i], FpOf[i], i)
      BY <2>1, <2>3, <3>1 DEF VouchesFor
    <3>3. outcome'[i] = outcome[i]
      BY <3>2 DEF FinishWrite
    <3> QED BY <3>1, <3>2, <3>3 DEF KeyRecord
  <2> QED BY <1>1, <1>2, <2>2, <2>3 DEF CompletedTrue
<1> QED BY <1>3, <1>4

\* A cached answer read from the journal is about a line that says so.
LEMMA CachedLine ==
  ASSUME journal \in Seq(Record), NEW k \in Key, NEW f \in Fingerprint, NEW h,
         KeyState(k, f, h) = "cached"
  PROVE  \E n \in KeyLines(k) :
           /\ journal[n].fp = f
           /\ journal[n].type \in {"completed", "efecto_confirmado"}
<1>1. ~CorruptFor(k) /\ KeyLines(k) # {} /\ ~Conflicts(k, f) /\ LastState(k, h) = "cached"
  BY DEF KeyState
<1>2. LastLine(k).type \in KeyRecordType
  BY <1>1, LastLineType DEF KeyLine
<1>3. LastLine(k).type \in {"completed", "efecto_confirmado"}
  BY <1>1, <1>2 DEF LastState, StateAfter, KeyRecordType, Resolution
<1>4. Max(KeyLines(k)) \in KeyLines(k)
  <2>1. Len(journal) \in Nat /\ KeyLines(k) \in SUBSET (1..Len(journal))
    BY DEF KeyLines
  <2>2. \E x \in KeyLines(k) : \A y \in KeyLines(k) : x >= y
    BY <1>1, <2>1, LargestPosition
  <2> QED BY <2>2 DEF Max
<1>5. f # NoFp
  BY JournalAssumption
<1>6. journal[Max(KeyLines(k))].fp = f
  BY <1>1, <1>4, <1>5 DEF Conflicts
<1> QED BY <1>3, <1>4, <1>6 DEF LastLine

CachedInv == CompletedTrue /\ CachedIsJustified

\* Whom a cached answer may rest on.
Justified(i) ==
  \/ \E j \in Invocation :
       KeyOf[j] = KeyOf[i] /\ FpOf[j] = FpOf[i] /\ outcome[j] = "ok"
  \/ \E n \in KeyLines(KeyOf[i]) : journal[n].type = "efecto_confirmado"

LEMMA JustifiedStays ==
  ASSUME GateTypeInv, RecordInv, NEW i \in Invocation, GateStep(i),
         NEW j \in Invocation, Justified(j)
  PROVE  Justified(j)'
<1>1. ASSUME NEW n \in KeyLines(KeyOf[j])
      PROVE  n \in KeyLines(KeyOf[j])' /\ journal'[n] = journal[n]
  BY LinesStay DEF KeyLines
<1>2. CASE \E n \in KeyLines(KeyOf[j]) : journal[n].type = "efecto_confirmado"
  BY <1>1, <1>2 DEF Justified
<1>3. CASE \E m \in Invocation :
             KeyOf[m] = KeyOf[j] /\ FpOf[m] = FpOf[j] /\ outcome[m] = "ok"
  BY <1>3, OkStays DEF Justified
<1> QED BY <1>2, <1>3 DEF Justified

LEMMA CachedInvStep == GateTypeInv /\ RecordInv /\ CachedInv /\ [Next]_vars => CachedInv'
<1> SUFFICES ASSUME GateTypeInv, RecordInv, CachedInv, [Next]_vars PROVE CachedInv'
  OBVIOUS
<1> USE DEF GateTypeInv, TypeOK, GateTypeOK
<1>1. ASSUME NEW i \in Invocation, GateStep(i) PROVE CachedInv'
  <2>1. CompletedTrue'
    BY <1>1, CompletedStep DEF CachedInv
  <2>2. ASSUME NEW j \in Invocation, verdict[j] = "cached" PROVE Justified(j)'
    BY <1>1, <2>2, JustifiedStays DEF CachedInv, CachedIsJustified, Justified
  <2>3. ASSUME NEW j \in Invocation, verdict'[j] = "cached", verdict[j] # "cached"
        PROVE  Justified(j)'
    <3>1. j = i /\ BeginRead(i)
      BY <1>1, <2>3 DEF GateStep, Continue, Start, LockStep,
        LockAcquired, LockUnavailable, LockFails, Unlock, BeginStep, BeginRead, BeginWrite,
        RunStep, ClaimInflight, AbortWrite, Invoke, ExecutorReturns, EndStep, LogWrite,
        FinishWrite, ReleaseRead, ReleaseUnlink
    <3>2. KeyState(KeyOf[i], FpOf[i], HostOf[ProcOf[i]]) = "cached"
      BY <2>3, <3>1 DEF BeginRead
    <3>3. KeyOf[i] \in Key /\ FpOf[i] \in Fingerprint
      BY <3>1, JournalAssumption DEF BeginRead, At, KeyedStages, HasKey
    <3>4. PICK n \in KeyLines(KeyOf[i]) :
            /\ journal[n].fp = FpOf[i]
            /\ journal[n].type \in {"completed", "efecto_confirmado"}
      BY <3>2, <3>3, CachedLine DEF StoreTypeOK
    <3>5. Justified(i)
      BY <3>4 DEF CachedInv, CompletedTrue, Justified, KeyLines
    <3> QED BY <1>1, <3>1, <3>5, JustifiedStays
  <2>4. \A j \in Invocation : verdict'[j] = "cached" => Justified(j)'
    BY <2>2, <2>3
  <2> QED BY <2>1, <2>4 DEF CachedInv, CachedIsJustified, Justified
<1>2. ASSUME UNCHANGED <<gateVars, journal>> PROVE CachedInv'
  BY <1>2 DEF CachedInv, CompletedTrue, CachedIsJustified, KeyLines, gateVars
<1> QED BY <1>1, <1>2 DEF Next, Crash, Die, vars, storeVars

\* Nobody is told [cached] about an effect that no call and no operator vouches for.
THEOREM CachedJustified == Spec => []CachedIsJustified
<1>1. Init => RecordInv /\ CachedInv
  <2>1. Init => RecordInv
    BY DEF Init, GateInit, RecordInv, Unrun, Ended
  <2>2. Init => CachedInv
    BY DEF Init, GateInit, StoreInit, CachedInv, CompletedTrue, CachedIsJustified
  <2> QED BY <2>1, <2>2
<1>2. CachedInv => CachedIsJustified
  BY DEF CachedInv
<1> QED BY <1>1, <1>2, GateTypeInvInit, GateTypeInvStep, RecordInvStep, CachedInvStep, PTL
        DEF Spec

-----------------------------------------------------------------------------
(* The specification with operators: types *)

\* The type invariant, with what it needs to be inductive.
TypeInv == SystemTypeOK /\ KeyedStages

\* The types of a command and of the claim a session aims at.
LEMMA CommandType ==
  ASSUME RecoveryTypeOK, NEW a \in Admin, step[a] # "idle"
  PROVE  /\ command[a] \in Command
         /\ command[a].op \in Op
         /\ command[a].key \in Key
         /\ command[a].resolution \in Resolution
         /\ target[a].fp \in Fingerprint \cup {NoFp}
         /\ target[a].exec \in Invocation \cup {Nobody}
BY RecoveryAssumption DEF RecoveryTypeOK

\* Only a step from begin, lock, read or write can bring a session to write or
\* change what it aims at.
LEMMA RecoveryTypeStep ==
  ASSUME TypeInv, NEW a \in Admin, AdminStep(a)
  PROVE  RecoveryTypeOK'
<1> USE DEF TypeInv, SystemTypeOK, TypeOK
<1>1. CASE BeginCommand(a)
  <2>1. PICK c \in Command :
          BeginResolveKey(a, c) \/ InspectClaim(a, c) \/ InspectForReconcile(a, c)
    BY <1>1 DEF BeginCommand
  <2>2. c.fp \in Fingerprint /\ claim[c.fp] \in Invocation \cup {Nobody}
    BY RecoveryAssumption DEF StoreTypeOK
  <2>3. step' \in [Admin -> Step] /\ command' \in [Admin -> Command \cup {NoCommand}]
    BY <2>1 DEF BeginResolveKey, InspectClaim, InspectForReconcile, Begins, AdminGoTo,
                RecoveryTypeOK, Step
  <2>4. target' \in [Admin -> [fp : Fingerprint \cup {NoFp}, exec : Invocation \cup {Nobody}]]
    BY <2>1, <2>2 DEF BeginResolveKey, InspectClaim, InspectForReconcile, Aim, RecoveryTypeOK
  <2>5. /\ command'[a] \in Command
        /\ step'[a] \notin {"read", "write"}
        /\ step'[a] = "lock" /\ command'[a].op = "resolveClaim" =>
             target'[a].fp \in Fingerprint /\ target'[a].exec \in Invocation
        /\ \A b \in Admin \ {a} :
             step'[b] = step[b] /\ command'[b] = command[b] /\ target'[b] = target[b]
    BY <2>1, <2>2 DEF BeginResolveKey, InspectClaim, InspectForReconcile, Begins, AdminGoTo,
                      Aim, RecoveryTypeOK
  <2> QED BY <2>3, <2>4, <2>5 DEF RecoveryTypeOK, IsOp
<1>2. CASE AdminLock(a)
  BY <1>2 DEF AdminLock, AdminGoTo, RecoveryTypeOK, Step, Runs, IsOp
<1>3. CASE ReadKey(a)
  <2>1. command[a].key \in Key
    BY <1>3, CommandType DEF ReadKey, Runs
  <2>2. StartedExec(command[a].key) \in Invocation \cup {Nobody}
    BY <2>1, StartedExecType DEF StoreTypeOK
  <2>3. Resolvable(command[a].key, AdminHost(a)) /\ ~CorruptFor(command[a].key) =>
          LastLine(command[a].key).fp \in Fingerprint \cup {NoFp}
    BY <2>1, KeyStateRange, LastLineType DEF StoreTypeOK, Resolvable, KeyLine
  <2>4. \E s \in {"write", "unlock"} : AdminGoTo(a, s)
    BY <1>3 DEF ReadKey
  <2>5. \/ UNCHANGED target
        \/ \E f \in Fingerprint \cup {NoFp}, e \in Invocation \cup {Nobody} : Aim(a, f, e)
    BY <1>3, <2>2, <2>3 DEF ReadKey
  <2>6. command' = command /\ IsOp(a, "resolveKey") /\ step[a] = "read"
    BY <1>3 DEF ReadKey, Runs, RecoveryTypeOK
  <2>7. step' \in [Admin -> Step]
    BY <2>4 DEF AdminGoTo, RecoveryTypeOK, Step
  <2>8. target' \in [Admin -> [fp : Fingerprint \cup {NoFp}, exec : Invocation \cup {Nobody}]]
    BY <2>5 DEF Aim, RecoveryTypeOK
  <2>9. \A b \in Admin \ {a} : step'[b] = step[b] /\ target'[b] = target[b]
    BY <2>4, <2>5 DEF AdminGoTo, Aim, RecoveryTypeOK
  <2>10. step'[a] \in {"write", "unlock"}
    BY <2>4 DEF AdminGoTo, RecoveryTypeOK
  <2> QED BY <2>6, <2>7, <2>8, <2>9, <2>10 DEF RecoveryTypeOK, IsOp
<1>4. CASE WriteKeyResolution(a)
  BY <1>4 DEF WriteKeyResolution, AdminGoTo, RecoveryTypeOK, Step, Runs, IsOp
<1>5. CASE WriteClaimResolution(a)
  BY <1>5 DEF WriteClaimResolution, AdminGoTo, RecoveryTypeOK, Step, Runs, IsOp, NoTarget
<1>6. CASE CheckClaim(a) \/ UnlinkClaim(a) \/ AdminUnlock(a)
  BY <1>6 DEF CheckClaim, UnlinkClaim, AdminUnlock, AfterRelease, AdminGoTo, RecoveryTypeOK,
              Step, Runs, IsOp
<1> QED BY <1>1, <1>2, <1>3, <1>4, <1>5, <1>6 DEF AdminStep, WriteResolution

\* What a session writes is a record.
LEMMA AdminRecordType ==
  ASSUME TypeInv, NEW a \in Admin, step[a] = "write"
  PROVE  /\ ResolutionLine(a) \in KeyLine
         /\ IsOp(a, "resolveClaim") =>
              Phase1Record("claim_resolution", target[a].fp, target[a].exec) \in Phase1Line
<1>1. RecoveryTypeOK
  BY DEF TypeInv, SystemTypeOK
<1>2. ResolutionLine(a) \in KeyLine
  BY <1>1, CommandType DEF ResolutionLine, KeyRecord, KeyLine, KeyRecordType
<1> QED BY <1>1, <1>2 DEF RecoveryTypeOK, Phase1Record, KeyRecord, Phase1Line

LEMMA AdminStoreTypeStep ==
  ASSUME TypeInv, NEW a \in Admin, AdminStep(a)
  PROVE  StoreTypeOK'
<1> USE DEF TypeInv, SystemTypeOK, TypeOK
<1>1. a \in Actor
  BY DEF Actor
<1>2. CASE BeginCommand(a) \/ CheckClaim(a)
  BY <1>2 DEF BeginCommand, BeginResolveKey, InspectClaim, InspectForReconcile, Begins,
              CheckClaim, storeVars, StoreTypeOK
<1>3. CASE AdminLock(a) \/ AdminUnlock(a) \/ ReadKey(a) \/ UnlinkClaim(a)
  BY <1>1, <1>3 DEF AdminLock, AdminUnlock, ReadKey, UnlinkClaim, TakeLock, LockTimesOut,
                    LockThrows, FreeLock, Fault, StoreTypeOK
<1>4. CASE WriteResolution(a)
  <2>1. PICK written \in BOOLEAN, rec \in KeyLine \cup Phase1Line : WriteLine(rec, written)
    BY <1>4, AdminRecordType
       DEF WriteResolution, WriteKeyResolution, WriteClaimResolution, Runs
  <2>2. journal' \in Seq(Record) /\ tail' \in Ending /\ faults' \in Nat
    BY <2>1, AppendType DEF StoreTypeOK
  <2>3. reopened' \in [Key -> Nat]
    BY <1>4 DEF WriteResolution, WriteKeyResolution, WriteClaimResolution, StoreTypeOK
  <2> QED BY <1>4, <2>2, <2>3
          DEF WriteResolution, WriteKeyResolution, WriteClaimResolution, StoreTypeOK
<1> QED BY <1>2, <1>3, <1>4 DEF AdminStep

\* It holds at the start and is kept by every step.
LEMMA TypeInvInit == SystemInit => TypeInv
<1> SUFFICES ASSUME SystemInit PROVE TypeInv
  OBVIOUS
<1>1. StoreTypeOK
  BY DEF SystemInit, StoreInit, StoreTypeOK, Clean, Ending
<1>2. GateTypeOK /\ KeyedStages
  BY DEF SystemInit, GateInit, GateTypeOK, KeyedStages, Stage, Phase, Verdict, Outcome,
         RecordState, TokenState
<1>3. RecoveryTypeOK
  BY DEF SystemInit, RecoveryInit, RecoveryTypeOK, Step, NoTarget
<1> QED BY <1>1, <1>2, <1>3 DEF TypeInv, SystemTypeOK, TypeOK

LEMMA TypeInvStep == TypeInv /\ [SystemNext]_systemVars => TypeInv'
<1> SUFFICES ASSUME TypeInv, [SystemNext]_systemVars PROVE TypeInv'
  OBVIOUS
<1> USE DEF TypeInv, SystemTypeOK, TypeOK
<1>1. ASSUME NEW i \in Invocation, GateStep(i), UNCHANGED recoveryVars PROVE TypeInv'
  <2>1. GateTypeOK' /\ StoreTypeOK' /\ KeyedStages'
    BY <1>1, GateTypeStep, GateStoreTypeStep, KeyedStagesStep DEF GateTypeInv
  <2>2. RecoveryTypeOK'
    BY <1>1 DEF RecoveryTypeOK, recoveryVars, IsOp
  <2> QED BY <2>1, <2>2
<1>2. ASSUME NEW a \in Admin, AdminStep(a), UNCHANGED gateVars PROVE TypeInv'
  <2>1. RecoveryTypeOK' /\ StoreTypeOK'
    BY <1>2, RecoveryTypeStep, AdminStoreTypeStep
  <2>2. GateTypeOK' /\ KeyedStages'
    BY <1>2 DEF GateTypeOK, KeyedStages, gateVars, sessionVars
  <2> QED BY <2>1, <2>2
<1>3. ASSUME NEW p \in Process, Crash(p), UNCHANGED recoveryVars PROVE TypeInv'
  <2>1. StoreTypeOK'
    BY <1>3 DEF Crash, Die, StoreTypeOK
  <2>2. GateTypeOK' /\ KeyedStages' /\ RecoveryTypeOK'
    BY <1>3 DEF Crash, GateTypeOK, KeyedStages, gateVars, sessionVars, recoveryVars, RecoveryTypeOK, IsOp
  <2> QED BY <2>1, <2>2
<1>4. ASSUME DeleteStaleLock, UNCHANGED gateVars PROVE TypeInv'
  <2>1. StoreTypeOK'
    BY <1>4 DEF DeleteStaleLock, StoreTypeOK
  <2>2. GateTypeOK' /\ KeyedStages' /\ RecoveryTypeOK'
    BY <1>4 DEF DeleteStaleLock, GateTypeOK, KeyedStages, gateVars, sessionVars, recoveryVars,
                RecoveryTypeOK, IsOp
  <2> QED BY <2>1, <2>2
<1>5. CASE UNCHANGED systemVars
  BY <1>5 DEF systemVars, storeVars, gateVars, sessionVars, recoveryVars, StoreTypeOK, GateTypeOK,
              KeyedStages, RecoveryTypeOK, IsOp
<1> QED BY <1>1, <1>2, <1>3, <1>4, <1>5 DEF SystemNext

\* Type correctness of the whole journal.
THEOREM SystemTypeCorrect == SystemSpec => []SystemTypeOK
<1>1. TypeInv => SystemTypeOK
  BY DEF TypeInv
<1> QED BY <1>1, TypeInvInit, TypeInvStep, PTL DEF SystemSpec

-----------------------------------------------------------------------------
(* The lock *)

\* A call of execute enters its critical section by taking the lock and leaves it by
\* giving it back.
LEMMA LockHeldGate ==
  ASSUME TypeInv, LockHeld, NEW i \in Invocation, GateStep(i), UNCHANGED recoveryVars
  PROVE  LockHeld'
<1> USE DEF TypeInv, SystemTypeOK, TypeOK, GateTypeOK, LockHeld, InGateSection, InAdminSection,
            Up, IsOp, recoveryVars
<1>1. alive' = alive /\ \A j \in Invocation \ {i} : stage'[j] = stage[j] /\ phase'[j] = phase[j]
  BY DEF GateStep, Continue, Start, LockStep, LockAcquired, LockUnavailable, LockFails, Unlock,
         BeginStep, BeginRead, BeginWrite, RunStep, ClaimInflight, Refused, AbortWrite, Invoke,
         ExecutorReturns, EndStep, LogWrite, FinishWrite, ReleaseRead, ReleaseUnlink,
         GoTo, Advance, storeVars
<1>2. i \notin Admin /\ i # Nobody
  BY JournalAssumption DEF Actor
<1>3. ASSUME lock' = lock, ~InGateSection(i)' \/ InGateSection(i), alive[ProcOf[i]] PROVE LockHeld'
  BY <1>1, <1>3
<1>4. CASE Start(i) \/ BeginStep(i) \/ RunStep(i) \/ EndStep(i)
  <2>1. lock' = lock /\ alive[ProcOf[i]]
    BY <1>4 DEF Start, BeginStep, BeginRead, BeginWrite, RunStep, ClaimInflight, AbortWrite,
         Invoke, ExecutorReturns, EndStep, LogWrite, FinishWrite, ReleaseRead, ReleaseUnlink,
         At, storeVars
  <2>2. ~InGateSection(i)' \/ InGateSection(i)
    <3>1. CASE Start(i) \/ RunStep(i)
      BY <3>1 DEF Start, RunStep, ClaimInflight, Refused, AbortWrite, Invoke, ExecutorReturns,
           At, GoTo, Advance, LockedStage
    <3>2. CASE BeginStep(i) \/ EndStep(i)
      BY <3>2 DEF BeginStep, BeginRead, BeginWrite, EndStep, LogWrite, FinishWrite, ReleaseRead,
           ReleaseUnlink, At, GoTo, Advance, LockedStage
    <3> QED BY <1>4, <3>1, <3>2
  <2> QED BY <1>3, <2>1, <2>2
<1>5. CASE LockAcquired(i)
  BY <1>1, <1>2, <1>5, JournalAssumption DEF LockAcquired, TakeLock, Actor
<1>6. CASE LockUnavailable(i)
  <2>1. lock' = lock /\ alive[ProcOf[i]]
    BY <1>6 DEF LockUnavailable, LockTimesOut
  <2>2. ~InGateSection(i)'
    BY <1>6, NextStageType DEF LockUnavailable, GoTo, LockedStage
  <2> QED BY <1>3, <2>1, <2>2
<1>7. CASE LockFails(i)
  <2>1. ~InGateSection(i)'
    BY <1>7 DEF LockFails, GoTo, LockedStage
  <2>2. lock = Nobody
    BY <1>7 DEF LockFails, LockThrows
  <2> QED BY <1>1, <2>1, <2>2, JournalAssumption DEF Actor
<1>8. CASE Unlock(i)
  <2>1. ~InGateSection(i)'
    BY <1>8, NextStageType DEF Unlock, GoTo, LockedStage
  <2>2. lock = i
    BY <1>8 DEF Unlock
  <2> QED BY <1>1, <1>2, <2>1, <2>2
<1> QED BY <1>4, <1>5, <1>6, <1>7, <1>8 DEF GateStep, Continue, LockStep

\* So does an operator's session.
LEMMA LockHeldAdmin ==
  ASSUME TypeInv, LockHeld, NEW a \in Admin, AdminStep(a), UNCHANGED gateVars
  PROVE  LockHeld'
<1> USE DEF TypeInv, SystemTypeOK, RecoveryTypeOK, LockHeld, InGateSection, InAdminSection,
            Up, IsOp, gateVars, sessionVars
<1>1. /\ alive' = alive
      /\ \A b \in Admin \ {a} : step'[b] = step[b] /\ command'[b] = command[b]
  BY DEF AdminStep, BeginCommand, BeginResolveKey, InspectClaim, InspectForReconcile, Begins,
         AdminLock, ReadKey, WriteResolution, WriteKeyResolution, WriteClaimResolution,
         CheckClaim, UnlinkClaim, AdminUnlock, AdminGoTo, storeVars
<1>2. a \notin Invocation /\ a # Nobody
  BY JournalAssumption DEF Actor
<1>3. ASSUME lock' = lock, ~InAdminSection(a)' \/ InAdminSection(a), alive[ProcOf[a]] PROVE LockHeld'
  BY <1>1, <1>3
<1>4. CASE BeginCommand(a)
  <2>1. PICK c \in Command :
          BeginResolveKey(a, c) \/ InspectClaim(a, c) \/ InspectForReconcile(a, c)
    BY <1>4 DEF BeginCommand
  <2>2. lock' = lock /\ alive[ProcOf[a]]
    BY <2>1 DEF BeginResolveKey, InspectClaim, InspectForReconcile, Begins, Runs, storeVars
  <2>3. ~InAdminSection(a)'
    BY <2>1 DEF BeginResolveKey, InspectClaim, InspectForReconcile, Begins, AdminGoTo
  <2> QED BY <1>3, <2>2, <2>3
<1>5. CASE AdminLock(a)
  <2>1. CASE TakeLock(a)
    BY <1>1, <1>2, <2>1, JournalAssumption DEF TakeLock, Actor
  <2>2. CASE lock' = lock /\ AdminGoTo(a, "done")
    BY <1>1, <2>2 DEF AdminGoTo
  <2>3. CASE LockThrows(a) /\ AdminGoTo(a, "done")
    BY <1>1, <2>3, JournalAssumption DEF LockThrows, AdminGoTo, Actor
  <2> QED BY <1>5, <2>1, <2>2, <2>3 DEF AdminLock, LockTimesOut
<1>6. CASE ReadKey(a) \/ WriteResolution(a) \/ CheckClaim(a) \/ UnlinkClaim(a)
  <2>1. lock' = lock /\ alive[ProcOf[a]] /\ command' = command
    BY <1>6 DEF ReadKey, WriteResolution, WriteKeyResolution, WriteClaimResolution, CheckClaim,
                UnlinkClaim, Runs, storeVars
  <2>2. ~InAdminSection(a)' \/ InAdminSection(a)
    BY <1>6, <2>1 DEF ReadKey, WriteResolution, WriteKeyResolution, WriteClaimResolution,
         CheckClaim, UnlinkClaim, AfterRelease, AdminGoTo, Runs
  <2> QED BY <1>3, <2>1, <2>2
<1>7. CASE AdminUnlock(a)
  <2>1. lock = a
    BY <1>7 DEF AdminUnlock, Runs
  <2>2. ~InAdminSection(a)'
    BY <1>7 DEF AdminUnlock, AdminGoTo
  <2> QED BY <1>1, <1>2, <2>1, <2>2
<1> QED BY <1>4, <1>5, <1>6, <1>7 DEF AdminStep

-----------------------------------------------------------------------------
(* Admission: beginKey's decision and what it admits *)

\* A step of a call changes that call alone.
LEMMA GateStepFrame ==
  ASSUME TypeInv, NEW i \in Invocation, GateStep(i)
  PROVE  /\ alive' = alive /\ alive[ProcOf[i]] /\ reopened' = reopened
         /\ \A j \in Invocation \ {i} :
              /\ stage'[j] = stage[j] /\ phase'[j] = phase[j]
              /\ verdict'[j] = verdict[j] /\ outcome'[j] = outcome[j]
         /\ ~(BeginWrite(i) \/ AbortWrite(i) \/ LogWrite(i) \/ FinishWrite(i)) =>
              journal' = journal
<1> USE DEF TypeInv, SystemTypeOK, TypeOK, GateTypeOK
<1>1. CASE Start(i) \/ LockStep(i)
  BY <1>1 DEF Start, LockStep, LockAcquired, LockUnavailable, LockFails, Unlock, Up,
       GoTo, Advance, storeVars
<1>2. CASE BeginStep(i) \/ EndStep(i)
  BY <1>2 DEF BeginStep, BeginRead, BeginWrite, EndStep, LogWrite, FinishWrite, ReleaseRead,
       ReleaseUnlink, At, Up, GoTo, Advance, storeVars
<1>3. CASE RunStep(i)
  BY <1>3 DEF RunStep, ClaimInflight, Refused, AbortWrite, Invoke, ExecutorReturns, At, Up,
       GoTo, Advance, storeVars
<1> QED BY <1>1, <1>2, <1>3 DEF GateStep, Continue

LEMMA InOrderStep ==
  ASSUME TypeInv, InOrder, NEW i \in Invocation, GateStep(i)
  PROVE  InOrder'
<1> USE DEF TypeInv, SystemTypeOK, TypeOK, GateTypeOK, InOrder
<1>1. CASE Start(i)
  BY <1>1 DEF Start, GoTo
<1>2. CASE LockStep(i)
  <2>1. stage[i] \in LockedStage
    BY <1>2 DEF LockStep, LockAcquired, LockUnavailable, LockFails, Unlock
  <2>2. /\ NextStage(i) \in {"claim", "finish", "release", "done"}
        /\ NextStage(i) = "claim" => stage[i] = "begin"
    BY <2>1, NextStageType DEF NextStage, AfterLast, LockedStage
  <2> QED BY <1>2, <2>2
          DEF LockStep, LockAcquired, LockUnavailable, LockFails, Unlock, GoTo, Advance
<1>3. CASE BeginStep(i) \/ EndStep(i)
  BY <1>3 DEF BeginStep, BeginRead, BeginWrite, EndStep, LogWrite, FinishWrite, ReleaseRead,
       ReleaseUnlink, At, GoTo, Advance
<1>4. CASE RunStep(i)
  BY <1>4 DEF RunStep, ClaimInflight, Refused, AbortWrite, Invoke, ExecutorReturns, At, GoTo, Advance
<1> QED BY <1>1, <1>2, <1>3, <1>4 DEF GateStep, Continue

\* While the journal stands still so does what it says of a key.
LEMMA ReopensUnchanged ==
  ASSUME journal' = journal, NEW k
  PROVE  Reopens(k)' <=> Reopens(k)
BY DEF Reopens, CorruptFor, KeyLines, LastLine

\* Whoever is about to write a started line has the lock, so nobody else appends.
LEMMA DecisionIsCurrentGate ==
  ASSUME TypeInv, LockHeld, DecisionIsCurrent, NEW i \in Invocation, GateStep(i)
  PROVE  DecisionIsCurrent'
<1> USE DEF TypeInv, SystemTypeOK, TypeOK, GateTypeOK, DecisionIsCurrent, Up
<1>1. ASSUME NEW j \in Invocation \ {i}, alive[ProcOf[j]], stage[j] = "begin", phase[j] = "write"
      PROVE  verdict'[j] = "proceed" /\ Reopens(KeyOf[j])'
  <2>1. lock = j
    BY <1>1 DEF LockHeld, InGateSection, LockedStage
  <2>2. ~(BeginWrite(i) \/ AbortWrite(i) \/ LogWrite(i) \/ FinishWrite(i))
    BY <1>1, <2>1 DEF LockHeld, InGateSection, LockedStage, BeginWrite, AbortWrite, LogWrite,
         FinishWrite, At
  <2>3. journal' = journal /\ verdict'[j] = verdict[j]
    BY <2>2, GateStepFrame
  <2> QED BY <1>1, <2>3, ReopensUnchanged
<1>2. ASSUME stage'[i] = "begin", phase'[i] = "write"
      PROVE  verdict'[i] = "proceed" /\ Reopens(KeyOf[i])'
  <2>1. BeginRead(i)
    <3>1. ~Start(i) /\ ~RunStep(i)
      BY <1>2 DEF Start, RunStep, ClaimInflight, Refused, AbortWrite, Invoke, ExecutorReturns, At,
                  GoTo, Advance
    <3>2. ~LockStep(i)
      BY <1>2, NextStageType DEF LockStep, LockAcquired, LockUnavailable, LockFails, Unlock, GoTo,
                                 Advance
    <3>3. ~EndStep(i) /\ ~BeginWrite(i)
      BY <1>2 DEF BeginWrite, EndStep, LogWrite, FinishWrite, ReleaseRead, ReleaseUnlink, At, GoTo,
                  Advance
    <3> QED BY <3>1, <3>2, <3>3 DEF GateStep, Continue, BeginStep
  <2>2. verdict'[i] = "proceed"
    BY <1>2, <2>1 DEF BeginRead, Advance
  <2>3. KeyState(KeyOf[i], FpOf[i], HostOf[ProcOf[i]]) = "proceed"
    BY <2>1, <2>2 DEF BeginRead
  <2>4. KeyOf[i] \in Key
    BY <2>1, JournalAssumption DEF BeginRead, At, KeyedStages, HasKey
  <2>5. Reopens(KeyOf[i])
    BY <2>3, <2>4, KeyStateRange DEF StoreTypeOK
  <2> QED BY <2>1, <2>2, <2>5, ReopensUnchanged DEF BeginRead
<1>3. alive' = alive /\ \A j \in Invocation \ {i} : stage'[j] = stage[j] /\ phase'[j] = phase[j]
  BY GateStepFrame
<1> QED BY <1>1, <1>2, <1>3

LEMMA DecisionIsCurrentAdmin ==
  ASSUME TypeInv, LockHeld, DecisionIsCurrent, NEW a \in Admin, AdminStep(a), UNCHANGED gateVars
  PROVE  DecisionIsCurrent'
<1>1. alive' = alive
  BY DEF AdminStep, BeginCommand, BeginResolveKey, InspectClaim, InspectForReconcile, Begins,
         AdminLock, ReadKey, WriteResolution, WriteKeyResolution, WriteClaimResolution,
         CheckClaim, UnlinkClaim, AdminUnlock, storeVars
<1>2. SUFFICES ASSUME NEW i \in Invocation, Up(i), stage[i] = "begin", phase[i] = "write"
               PROVE  verdict[i] = "proceed" /\ Reopens(KeyOf[i])'
  BY <1>1 DEF DecisionIsCurrent, gateVars, sessionVars, Up
<1>3. lock = i
  BY <1>2 DEF LockHeld, InGateSection, LockedStage
<1>4. ~WriteResolution(a)
  BY <1>3, JournalAssumption DEF LockHeld, InAdminSection, WriteResolution, WriteKeyResolution,
       WriteClaimResolution, Runs, Actor
<1>5. journal' = journal
  BY <1>4 DEF AdminStep, BeginCommand, BeginResolveKey, InspectClaim, InspectForReconcile,
       Begins, AdminLock, ReadKey, CheckClaim, UnlinkClaim, AdminUnlock, storeVars
<1> QED BY <1>2, <1>5, ReopensUnchanged DEF DecisionIsCurrent

\* Sets of invocations are finite, and no larger than what contains them.
LEMMA AdmittedCardinality ==
  ASSUME NEW S \in SUBSET Invocation, NEW T \in SUBSET S
  PROVE  /\ IsFiniteSet(S) /\ Cardinality(S) \in Nat
         /\ Cardinality(T) \in Nat /\ Cardinality(T) <= Cardinality(S)
<1>1. IsFiniteSet(S)
  BY JournalAssumption, FS_Subset
<1>2. IsFiniteSet(T) /\ Cardinality(T) <= Cardinality(S)
  BY <1>1, FS_Subset
<1> QED BY <1>1, <1>2, FS_CardinalityType

\* The bound survives a step that admits nobody and either does not reopen the key,
\* or counts that it does.
LEMMA BoundKept ==
  ASSUME reopened \in [Key -> Nat], AdmittedBounded, NEW k \in Key,
         AdmittedFor(k)' \subseteq AdmittedFor(k),
         \/ reopened'[k] = reopened[k] /\ (Reopens(k)' => Reopens(k))
         \/ reopened'[k] = reopened[k] + 1
  PROVE  /\ Cardinality(AdmittedFor(k)') <= 1 + reopened'[k]
         /\ Reopens(k)' => Cardinality(AdmittedFor(k)') <= reopened'[k]
<1>1. AdmittedFor(k) \in SUBSET Invocation
  BY DEF AdmittedFor
<1>2. /\ Cardinality(AdmittedFor(k)) \in Nat /\ Cardinality(AdmittedFor(k)') \in Nat
      /\ Cardinality(AdmittedFor(k)') <= Cardinality(AdmittedFor(k))
  BY <1>1, AdmittedCardinality
<1>3. /\ Cardinality(AdmittedFor(k)) <= 1 + reopened[k]
      /\ Reopens(k) => Cardinality(AdmittedFor(k)) <= reopened[k]
  BY DEF AdmittedBounded
<1> QED BY <1>2, <1>3

\* Only beginKey's write admits a call with a key.
LEMMA AdmitsNobody ==
  ASSUME TypeInv, InOrder, NEW i \in Invocation, GateStep(i), ~BeginWrite(i), HasKey(i)
  PROVE  Admitted(i)' => Admitted(i)
<1> USE DEF TypeInv, SystemTypeOK, TypeOK, GateTypeOK, InOrder, Admitted, Invoked
<1>1. CASE Start(i)
  BY <1>1 DEF Start, GoTo
<1>2. CASE LockStep(i)
  <2>1. stage[i] \in LockedStage
    BY <1>2 DEF LockStep, LockAcquired, LockUnavailable, LockFails, Unlock
  <2>2. /\ NextStage(i) \in {"claim", "finish", "release", "done"}
        /\ NextStage(i) = "claim" => stage[i] = "begin" /\ verdict[i] = "proceed"
    BY <2>1, NextStageType DEF NextStage, AfterLast, LockedStage
  <2>3. CASE LockAcquired(i)
    BY <2>3 DEF LockAcquired, Advance
  <2>4. CASE LockUnavailable(i)
    BY <2>2, <2>4 DEF LockUnavailable, GoTo
  <2>5. CASE LockFails(i)
    BY <2>5 DEF LockFails, GoTo
  <2>6. CASE Unlock(i)
    BY <2>2, <2>6 DEF Unlock, GoTo
  <2> QED BY <1>2, <2>3, <2>4, <2>5, <2>6 DEF LockStep
<1>3. CASE BeginRead(i)
  BY <1>3 DEF BeginRead, At, Advance
<1>4. CASE EndStep(i)
  BY <1>4 DEF EndStep, LogWrite, FinishWrite, ReleaseRead, ReleaseUnlink, At, GoTo, Advance
<1>5. CASE RunStep(i)
  BY <1>5 DEF RunStep, ClaimInflight, Refused, AbortWrite, Invoke, ExecutorReturns, At, GoTo, Advance
<1> QED BY <1>1, <1>2, <1>3, <1>4, <1>5 DEF GateStep, Continue, BeginStep

LEMMA AdmittedForFrame ==
  ASSUME TypeInv, NEW i \in Invocation, GateStep(i), NEW k \in Key
  PROVE  /\ AdmittedFor(k)' \subseteq AdmittedFor(k) \cup {i}
         /\ (KeyOf[i] # k \/ (Admitted(i)' => Admitted(i))) =>
              AdmittedFor(k)' \subseteq AdmittedFor(k)
<1>1. \A j \in Invocation \ {i} : Admitted(j)' <=> Admitted(j)
  BY GateStepFrame DEF Admitted, Invoked
<1> QED BY <1>1 DEF AdmittedFor

\* beginKey writes a started line: the key no longer invites, and one call is admitted.
LEMMA BoundAfterBegin ==
  ASSUME TypeInv, AdmissionInv, NEW i \in Invocation, BeginWrite(i)
  PROVE  AdmittedBounded'
<1> DEFINE rec == KeyRecord("started", KeyOf[i], FpOf[i], i)
<1> USE DEF TypeInv, SystemTypeOK, TypeOK, AdmissionInv
<1>1. KeyOf[i] \in Key /\ HasKey(i)
  BY JournalAssumption DEF BeginWrite, At, KeyedStages, HasKey
<1>2. rec \in KeyLine /\ rec.key = KeyOf[i] /\ rec.type = "started"
  BY <1>1, GateRecordType DEF KeyRecordType, KeyRecord
<1>3. PICK written \in BOOLEAN :
        /\ WriteLine(rec, written)
        /\ verdict' = [verdict EXCEPT ![i] = IF written THEN @ ELSE "error"]
  BY DEF BeginWrite
<1> HIDE DEF rec
<1>4. GateStep(i) /\ reopened' = reopened
  BY DEF GateStep, Continue, BeginStep, BeginWrite
<1>5. ASSUME NEW k \in Key
      PROVE  /\ Cardinality(AdmittedFor(k)') <= 1 + reopened'[k]
             /\ Reopens(k)' => Cardinality(AdmittedFor(k)') <= reopened'[k]
  <2>1. /\ journal' = journal => (Reopens(k)' <=> Reopens(k))
        /\ rec.key # k => (Reopens(k)' => Reopens(k))
        /\ rec.key = k /\ journal' # journal => ~Reopens(k)'
        /\ written => journal' # journal
    BY <1>2, <1>3, AppendReopens DEF StoreTypeOK
  <2>2. CASE KeyOf[i] # k
    BY <1>2, <1>4, <2>1, <2>2, AdmittedForFrame, BoundKept DEF StoreTypeOK
  <2>3. CASE KeyOf[i] = k /\ ~written
    <3>1. Admitted(i)' => Admitted(i)
      BY <1>3, <2>3 DEF BeginWrite, At, Advance, Admitted, Invoked, GateTypeOK
    <3> QED BY <1>2, <1>4, <2>1, <2>3, <3>1, AdmittedForFrame, BoundKept DEF StoreTypeOK
  <2>4. CASE KeyOf[i] = k /\ written
    <3>1. Cardinality(AdmittedFor(k)) <= reopened[k]
      BY <2>4 DEF DecisionIsCurrent, AdmittedBounded, BeginWrite, At
    <3>2. AdmittedFor(k) \in SUBSET Invocation
      BY DEF AdmittedFor
    <3>3. /\ IsFiniteSet(AdmittedFor(k) \cup {i})
          /\ Cardinality(AdmittedFor(k)) \in Nat
          /\ Cardinality(AdmittedFor(k) \cup {i}) <= Cardinality(AdmittedFor(k)) + 1
      BY <3>2, AdmittedCardinality, FS_AddElement
    <3>4. Cardinality(AdmittedFor(k)') <= Cardinality(AdmittedFor(k) \cup {i})
      BY <1>4, <3>3, AdmittedForFrame, FS_Subset
    <3>5. Cardinality(AdmittedFor(k)') \in Nat /\ Cardinality(AdmittedFor(k) \cup {i}) \in Nat
      BY <1>4, <3>3, AdmittedForFrame, FS_Subset, FS_CardinalityType
    <3>6. reopened[k] \in Nat
      BY DEF StoreTypeOK
    <3> QED BY <1>2, <1>4, <2>1, <2>4, <3>1, <3>3, <3>4, <3>5, <3>6
  <2> QED BY <2>2, <2>3, <2>4
<1> QED BY <1>5 DEF AdmittedBounded

\* The loser of a claim writes aborted: the key invites again, and one call is out.
LEMMA BoundAfterAbort ==
  ASSUME TypeInv, AdmissionInv, NEW i \in Invocation, AbortWrite(i)
  PROVE  AdmittedBounded'
<1> DEFINE rec == KeyRecord("aborted", KeyOf[i], FpOf[i], i)
<1> USE DEF TypeInv, SystemTypeOK, TypeOK, AdmissionInv
<1>1. KeyOf[i] \in Key /\ HasKey(i)
  BY JournalAssumption DEF AbortWrite, At, KeyedStages, HasKey
<1>2. rec \in KeyLine /\ rec.key = KeyOf[i]
  BY <1>1, GateRecordType DEF KeyRecordType, KeyRecord
<1>3. PICK written \in BOOLEAN : WriteLine(rec, written)
  BY DEF AbortWrite
<1> HIDE DEF rec
<1>4. GateStep(i) /\ reopened' = reopened
  BY DEF GateStep, Continue, RunStep, AbortWrite
<1>5. Admitted(i) /\ ~Admitted(i)'
  BY DEF AbortWrite, At, Advance, Admitted, Invoked, InOrder, GateTypeOK
<1>6. ASSUME NEW k \in Key
      PROVE  /\ Cardinality(AdmittedFor(k)') <= 1 + reopened'[k]
             /\ Reopens(k)' => Cardinality(AdmittedFor(k)') <= reopened'[k]
  <2>1. CASE KeyOf[i] # k
    <3>1. Reopens(k)' => Reopens(k)
      BY <1>2, <1>3, <2>1, AppendReopens DEF StoreTypeOK
    <3> QED BY <1>4, <2>1, <3>1, AdmittedForFrame, BoundKept DEF StoreTypeOK
  <2>2. CASE KeyOf[i] = k
    <3>1. AdmittedFor(k) \in SUBSET Invocation /\ i \in AdmittedFor(k)
      BY <1>5, <2>2 DEF AdmittedFor
    <3>2. AdmittedFor(k)' \subseteq AdmittedFor(k) \ {i}
      <4>1. AdmittedFor(k)' \subseteq AdmittedFor(k) /\ i \notin AdmittedFor(k)'
        BY <1>4, <1>5, AdmittedForFrame DEF AdmittedFor
      <4> QED BY <4>1
    <3>3. /\ IsFiniteSet(AdmittedFor(k) \ {i})
          /\ Cardinality(AdmittedFor(k)) \in Nat
          /\ Cardinality(AdmittedFor(k) \ {i}) = Cardinality(AdmittedFor(k)) - 1
      BY <3>1, AdmittedCardinality, FS_RemoveElement
    <3>4. /\ Cardinality(AdmittedFor(k)') <= Cardinality(AdmittedFor(k) \ {i})
          /\ Cardinality(AdmittedFor(k)') \in Nat
      BY <3>2, <3>3, FS_Subset, FS_CardinalityType
    <3>5. reopened[k] \in Nat /\ Cardinality(AdmittedFor(k)) <= 1 + reopened[k]
      BY DEF StoreTypeOK, AdmittedBounded
    <3> QED BY <1>4, <3>3, <3>4, <3>5
  <2> QED BY <2>1, <2>2
<1> QED BY <1>6 DEF AdmittedBounded

LEMMA BoundAfterGate ==
  ASSUME TypeInv, AdmissionInv, NEW i \in Invocation, GateStep(i)
  PROVE  AdmittedBounded'
<1> USE DEF TypeInv, SystemTypeOK, TypeOK, AdmissionInv
<1>1. CASE BeginWrite(i)
  BY <1>1, BoundAfterBegin
<1>2. CASE AbortWrite(i)
  BY <1>2, BoundAfterAbort
<1>3. CASE ~BeginWrite(i) /\ ~AbortWrite(i)
  <2>1. ASSUME NEW k \in Key PROVE Reopens(k)' => Reopens(k)
    <3>1. CASE LogWrite(i)
      <4>1. PICK written \in BOOLEAN :
              WriteLine(Phase1Record("execution", FpOf[i], i), written)
        BY <3>1 DEF LogWrite
      <4>2. Phase1Record("execution", FpOf[i], i).key # k
        BY JournalAssumption DEF Phase1Record, KeyRecord
      <4> QED BY <4>1, <4>2, GateRecordType, AppendReopens DEF StoreTypeOK
    <3>2. CASE FinishWrite(i)
      <4>1. PICK written \in BOOLEAN :
              WriteLine(KeyRecord(TerminalType(i), KeyOf[i], FpOf[i], i), written)
        BY <3>2 DEF FinishWrite
      <4>2. HasKey(i) /\ TerminalType(i) \in {"completed", "failed"}
        BY <3>2 DEF FinishWrite, At, KeyedStages, TerminalType
      <4>3. KeyRecord(TerminalType(i), KeyOf[i], FpOf[i], i).type \in {"completed", "failed"}
        BY <4>2 DEF KeyRecord
      <4>4. KeyRecord(TerminalType(i), KeyOf[i], FpOf[i], i) \in KeyLine
        BY <4>2, GateRecordType DEF KeyRecordType
      <4> HIDE DEF KeyRecord
      <4> QED BY <4>1, <4>3, <4>4, AppendReopens DEF StoreTypeOK
    <3>3. CASE ~LogWrite(i) /\ ~FinishWrite(i)
      BY <1>3, <3>3, GateStepFrame, ReopensUnchanged
    <3> QED BY <3>1, <3>2, <3>3
  <2>2. ASSUME NEW k \in Key PROVE AdmittedFor(k)' \subseteq AdmittedFor(k)
    <3>1. KeyOf[i] = k => HasKey(i)
      BY JournalAssumption DEF HasKey
    <3> QED BY <1>3, <3>1, AdmitsNobody, AdmittedForFrame
  <2>3. reopened' = reopened
    BY GateStepFrame
  <2> QED BY <2>1, <2>2, <2>3, BoundKept DEF AdmittedBounded, StoreTypeOK
<1> QED BY <1>1, <1>2, <1>3

\* An operator's efecto_ausente_confirmado invites again, and is counted.
LEMMA BoundAfterAdmin ==
  ASSUME TypeInv, AdmissionInv, NEW a \in Admin, AdminStep(a), UNCHANGED gateVars
  PROVE  AdmittedBounded'
<1> USE DEF TypeInv, SystemTypeOK, TypeOK, AdmissionInv
<1>1. ASSUME NEW k \in Key PROVE AdmittedFor(k)' = AdmittedFor(k)
  BY DEF AdmittedFor, Admitted, Invoked, gateVars, sessionVars
<1>2. ASSUME NEW k \in Key
      PROVE  \/ reopened'[k] = reopened[k] /\ (Reopens(k)' => Reopens(k))
             \/ reopened'[k] = reopened[k] + 1
  <2>1. CASE WriteKeyResolution(a)
    <3> DEFINE rec == ResolutionLine(a)
    <3>1. PICK written \in BOOLEAN : WriteLine(rec, written)
      BY <2>1 DEF WriteKeyResolution
    <3>2. /\ rec \in KeyLine /\ rec.key = command[a].key
          /\ rec.type = command[a].resolution /\ command[a].resolution \in Resolution
      BY <2>1, AdminRecordType, CommandType
         DEF WriteKeyResolution, Runs, ResolutionLine, KeyRecord
    <3> HIDE DEF rec
    <3>3. /\ journal' = journal => (Reopens(k)' <=> Reopens(k))
          /\ rec.key # k => (Reopens(k)' => Reopens(k))
          /\ rec.key = k /\ journal' # journal /\ Reopens(k)' =>
               ~tail.torn /\ rec.type \in {"aborted", "efecto_ausente_confirmado"}
      BY <3>1, <3>2, AppendReopens DEF StoreTypeOK
    <3>4. rec.key = k /\ journal' # journal /\ Reopens(k)' => ReopensNow(a)
      BY <3>2, <3>3 DEF ReopensNow, Resolution
    <3>5. /\ command[a].key \in Key
          /\ reopened' = [reopened EXCEPT ![command[a].key] =
                            @ + IF ReopensNow(a) THEN 1 ELSE 0]
      BY <2>1, CommandType DEF WriteKeyResolution, Runs
    <3> QED BY <3>2, <3>3, <3>4, <3>5 DEF StoreTypeOK
  <2>2. CASE WriteClaimResolution(a)
    <3> DEFINE rec == Phase1Record("claim_resolution", target[a].fp, target[a].exec)
    <3>1. PICK written \in BOOLEAN : WriteLine(rec, written)
      BY <2>2 DEF WriteClaimResolution
    <3>2. rec \in Phase1Line /\ rec.key # k
      BY <2>2, AdminRecordType, JournalAssumption
         DEF WriteClaimResolution, Runs, Phase1Record, KeyRecord
    <3> HIDE DEF rec
    <3>3. Reopens(k)' => Reopens(k)
      BY <3>1, <3>2, AppendReopens DEF StoreTypeOK
    <3> QED BY <2>2, <3>3 DEF WriteClaimResolution
  <2>3. CASE ~WriteResolution(a)
    <3>1. journal' = journal /\ reopened' = reopened
      BY <2>3 DEF AdminStep, BeginCommand, BeginResolveKey, InspectClaim, InspectForReconcile,
           Begins, AdminLock, ReadKey, CheckClaim, UnlinkClaim, AdminUnlock, storeVars
    <3> QED BY <3>1, ReopensUnchanged
  <2> QED BY <2>1, <2>2, <2>3 DEF WriteResolution
<1> QED BY <1>1, <1>2, BoundKept DEF AdmittedBounded, StoreTypeOK

LEMMA AdmissionInit == SystemInit => AdmissionInv
<1> SUFFICES ASSUME SystemInit PROVE AdmissionInv
  OBVIOUS
<1> USE DEF SystemInit, StoreInit, GateInit, RecoveryInit
<1>1. LockHeld /\ InOrder /\ DecisionIsCurrent
  BY DEF LockHeld, InOrder, DecisionIsCurrent, InGateSection, InAdminSection, LockedStage
<1>2. ASSUME NEW k \in Key PROVE AdmittedFor(k) = {}
  BY DEF AdmittedFor, Admitted, Invoked
<1>3. ASSUME NEW k \in Key
      PROVE  Cardinality(AdmittedFor(k)) = 0 /\ reopened[k] = 0
  BY <1>2, FS_EmptySet
<1>4. AdmittedBounded
  BY <1>3 DEF AdmittedBounded
<1> QED BY <1>1, <1>4 DEF AdmissionInv

LEMMA AdmissionStep == TypeInv /\ AdmissionInv /\ [SystemNext]_systemVars => AdmissionInv'
<1> SUFFICES ASSUME TypeInv, AdmissionInv, [SystemNext]_systemVars PROVE AdmissionInv'
  OBVIOUS
<1> USE DEF AdmissionInv
<1>1. ASSUME NEW i \in Invocation, GateStep(i), UNCHANGED recoveryVars PROVE AdmissionInv'
  BY <1>1, LockHeldGate, InOrderStep, DecisionIsCurrentGate, BoundAfterGate
<1>2. ASSUME NEW a \in Admin, AdminStep(a), UNCHANGED gateVars PROVE AdmissionInv'
  <2>1. InOrder'
    BY <1>2 DEF InOrder, gateVars, sessionVars
  <2> QED BY <1>2, <2>1, LockHeldAdmin, DecisionIsCurrentAdmin, BoundAfterAdmin
<1>3. ASSUME UNCHANGED <<journal, reopened>>, UNCHANGED gateVars, UNCHANGED recoveryVars,
             \A p \in Process : alive'[p] => alive[p],
             \/ lock' = lock
             \/ lock \in Actor /\ ~alive[ProcOf[lock]]
      PROVE  AdmissionInv'
  <2>1. ProcOf \in [Actor -> Process]
    BY JournalAssumption
  <2>2. LockHeld'
    BY <1>3, <2>1 DEF LockHeld, InGateSection, InAdminSection, IsOp, Up, Actor,
                      gateVars, sessionVars, recoveryVars
  <2>3. InOrder'
    BY <1>3 DEF InOrder, gateVars, sessionVars
  <2>4. DecisionIsCurrent'
    BY <1>3, <2>1, ReopensUnchanged DEF DecisionIsCurrent, Up, Actor, gateVars, sessionVars
  <2>5. AdmittedBounded'
    <3>1. ASSUME NEW k \in Key PROVE AdmittedFor(k)' = AdmittedFor(k)
      BY <1>3 DEF AdmittedFor, Admitted, Invoked, gateVars, sessionVars
    <3> QED BY <1>3, <3>1, ReopensUnchanged DEF AdmittedBounded
  <2> QED BY <2>2, <2>3, <2>4, <2>5
<1>4. ASSUME NEW p \in Process, Crash(p), UNCHANGED recoveryVars PROVE AdmissionInv'
  BY <1>3, <1>4 DEF Crash, Die, TypeInv, SystemTypeOK, TypeOK, StoreTypeOK
<1>5. ASSUME DeleteStaleLock, UNCHANGED gateVars PROVE AdmissionInv'
  BY <1>3, <1>5 DEF DeleteStaleLock, TypeInv, SystemTypeOK, TypeOK, StoreTypeOK
<1>6. CASE UNCHANGED systemVars
  BY <1>3, <1>6 DEF systemVars, storeVars
<1> QED BY <1>1, <1>2, <1>4, <1>5, <1>6 DEF SystemNext

\* The inductive invariant behind the guarantee.
THEOREM AdmissionCorrect == SystemSpec => []AdmissionInv
BY TypeInvInit, TypeInvStep, AdmissionInit, AdmissionStep, PTL DEF SystemSpec

-----------------------------------------------------------------------------
(* The guarantee *)

LEMMA RunsAreAdmitted ==
  ASSUME TypeInv, AdmittedBounded, NEW k \in Key
  PROVE  /\ RunsOf(k) \subseteq AdmittedFor(k)
         /\ Cardinality(RunsOf(k)) \in Nat
         /\ Cardinality(RunsOf(k)) <= 1 + reopened[k]
<1>1. AdmittedFor(k) \in SUBSET Invocation /\ RunsOf(k) \in SUBSET AdmittedFor(k)
  BY DEF AdmittedFor, RunsOf, Admitted, Invoked
<1>2. /\ Cardinality(RunsOf(k)) \in Nat /\ Cardinality(AdmittedFor(k)) \in Nat
      /\ Cardinality(RunsOf(k)) <= Cardinality(AdmittedFor(k))
  BY <1>1, AdmittedCardinality
<1>3. reopened[k] \in Nat /\ Cardinality(AdmittedFor(k)) <= 1 + reopened[k]
  BY DEF AdmittedBounded, TypeInv, SystemTypeOK, TypeOK, StoreTypeOK
<1> QED BY <1>1, <1>2, <1>3

\* The executor runs for a key at most once, plus once for every time an operator
\* reopened it, however many calls, processes, hosts, operators and faults there are.
THEOREM AtMostOncePerKey == SystemSpec => []AtMostOnce
<1>1. TypeInv /\ AdmissionInv => AtMostOnce
  BY RunsAreAdmitted DEF AtMostOnce, AdmissionInv
<1> QED BY <1>1, TypeInvInit, TypeInvStep, AdmissionInit, AdmissionStep, PTL DEF SystemSpec

\* Calling the executor is the only step that adds to the calls that ran.
LEMMA RunsUnchanged ==
  ASSUME TypeInv, AdmissionInv, NEW i \in Invocation, GateStep(i), ~Invoke(i), NEW k \in Key
  PROVE  RunsOf(k)' = RunsOf(k)
<1> USE DEF TypeInv, SystemTypeOK, TypeOK, GateTypeOK
<1>1. \A j \in Invocation \ {i} : outcome'[j] = outcome[j]
  BY GateStepFrame
<1>2. Invoked(i)' <=> Invoked(i)
  <2>1. CASE ExecutorReturns(i)
    BY <2>1 DEF ExecutorReturns, Invoked, AdmissionInv, InOrder
  <2>2. CASE Start(i) \/ LockStep(i) \/ BeginStep(i) \/ EndStep(i)
    BY <2>2 DEF Invoked, Start, LockStep, LockAcquired, LockUnavailable, LockFails, Unlock,
         BeginStep, BeginRead, BeginWrite, EndStep, LogWrite, FinishWrite, ReleaseRead,
         ReleaseUnlink
  <2>3. CASE ClaimInflight(i) \/ AbortWrite(i)
    BY <2>3 DEF Invoked, ClaimInflight, AbortWrite
  <2> QED BY <2>1, <2>2, <2>3 DEF GateStep, Continue, RunStep
<1> QED BY <1>1, <1>2 DEF RunsOf, Invoked

\* A call of the executor under a key is a run that the guarantee allows.
LEMMA InvokeIsRun ==
  ASSUME TypeInv, AdmissionInv, NEW i \in Invocation, Invoke(i), FpOf[i] \in Executable,
         NEW k \in Key, KeyOf[i] = k
  PROVE  Guarantee!Run(k, i)
<1> USE DEF TypeInv, SystemTypeOK, TypeOK, GateTypeOK
<1>1. i \notin RunsOf(k) /\ i \in AdmittedFor(k)
  BY DEF Invoke, RunsOf, Invoked, AdmissionInv, InOrder, AdmittedFor, Admitted
<1>2. Cardinality(RunsOf(k)) <= reopened[k]
  <2>1. AdmittedFor(k) \in SUBSET Invocation /\ RunsOf(k) \subseteq AdmittedFor(k) \ {i}
    BY <1>1, RunsAreAdmitted DEF AdmissionInv, AdmittedFor
  <2>2. /\ IsFiniteSet(AdmittedFor(k) \ {i}) /\ Cardinality(AdmittedFor(k)) \in Nat
        /\ Cardinality(AdmittedFor(k) \ {i}) = Cardinality(AdmittedFor(k)) - 1
    BY <1>1, <2>1, AdmittedCardinality, FS_RemoveElement
  <2>3. /\ Cardinality(RunsOf(k)) <= Cardinality(AdmittedFor(k) \ {i})
        /\ Cardinality(RunsOf(k)) \in Nat
    BY <2>1, <2>2, FS_Subset, FS_CardinalityType
  <2>4. reopened[k] \in Nat /\ Cardinality(AdmittedFor(k)) <= 1 + reopened[k]
    BY DEF AdmissionInv, AdmittedBounded, StoreTypeOK
  <2> QED BY <2>2, <2>3, <2>4
<1>3. /\ RunsOf(k)' = RunsOf(k) \cup {i}
      /\ \A k2 \in Key \ {k} : RunsOf(k2)' = RunsOf(k2)
  BY DEF Invoke, RunsOf, Invoked
<1>4. reopened' = reopened
  BY DEF Invoke, storeVars
<1>5. Ran[k] = RunsOf(k)
  BY DEF Ran
<1>6. Ran' = [Ran EXCEPT ![k] = @ \cup {i}]
  BY <1>3 DEF Ran
<1>7. i \notin Ran[k] /\ Cardinality(Ran[k]) <= reopened[k]
  BY <1>1, <1>2, <1>5
<1>8. Guarantee!Cardinality(Ran[k]) = Cardinality(Ran[k])
  BY DEF Guarantee!Cardinality, Cardinality, Guarantee!IsFiniteSet, IsFiniteSet
<1> QED BY <1>4, <1>6, <1>7, <1>8 DEF Guarantee!Run

\* Every step of the journal is a step of the guarantee, or a stutter.
LEMMA GuaranteeStep ==
  ASSUME TypeInv, AdmissionInv, [SystemNext]_systemVars
  PROVE  [Guarantee!Next]_<<Ran, reopened>>
<1>1. ASSUME NEW i \in Invocation, GateStep(i) PROVE [Guarantee!Next]_<<Ran, reopened>>
  <2>1. CASE Invoke(i) /\ FpOf[i] \in Executable /\ KeyOf[i] \in Key
    BY <2>1, InvokeIsRun DEF Guarantee!Next
  <2>2. CASE Invoke(i) /\ ~(FpOf[i] \in Executable /\ KeyOf[i] \in Key)
    <3>1. \A k \in Key : RunsOf(k)' = RunsOf(k)
      BY <2>2 DEF Invoke, RunsOf, Invoked, TypeInv, SystemTypeOK, TypeOK, GateTypeOK,
           AdmissionInv, InOrder
    <3> QED BY <2>2, <3>1 DEF Ran, Invoke, storeVars
  <2>3. CASE ~Invoke(i)
    <3>1. \A k \in Key : RunsOf(k)' = RunsOf(k)
      BY <1>1, <2>3, RunsUnchanged
    <3>2. reopened' = reopened
      BY <1>1, GateStepFrame
    <3> QED BY <3>1, <3>2 DEF Ran
  <2> QED BY <2>1, <2>2, <2>3
<1>2. ASSUME NEW a \in Admin, AdminStep(a), UNCHANGED gateVars
      PROVE  [Guarantee!Next]_<<Ran, reopened>>
  <2>1. Ran' = Ran
    BY <1>2 DEF Ran, RunsOf, Invoked, gateVars, sessionVars
  <2>2. \/ reopened' = reopened
        \/ \E k \in Key : reopened' = [reopened EXCEPT ![k] = @ + 1]
    <3>1. CASE WriteKeyResolution(a)
      <4>1. command[a].key \in Key
        BY <3>1, CommandType DEF WriteKeyResolution, Runs, TypeInv, SystemTypeOK
      <4>2. reopened \in [Key -> Nat]
        BY DEF TypeInv, SystemTypeOK, TypeOK, StoreTypeOK
      <4>3. reopened' = [reopened EXCEPT ![command[a].key] =
                           @ + IF ReopensNow(a) THEN 1 ELSE 0]
        BY <3>1 DEF WriteKeyResolution
      <4>4. CASE ReopensNow(a)
        BY <4>1, <4>3, <4>4
      <4>5. CASE ~ReopensNow(a)
        BY <4>1, <4>2, <4>3, <4>5
      <4> QED BY <4>4, <4>5
    <3>2. CASE ~WriteKeyResolution(a)
      BY <1>2, <3>2 DEF AdminStep, BeginCommand, BeginResolveKey, InspectClaim,
           InspectForReconcile, Begins, AdminLock, ReadKey, WriteResolution,
           WriteClaimResolution, CheckClaim, UnlinkClaim, AdminUnlock, storeVars
    <3> QED BY <3>1, <3>2
  <2> QED BY <2>1, <2>2 DEF Guarantee!Next, Guarantee!Reopen
<1>3. ASSUME UNCHANGED <<outcome, reopened>> PROVE [Guarantee!Next]_<<Ran, reopened>>
  BY <1>3 DEF Ran, RunsOf, Invoked
<1>4. CASE UNCHANGED systemVars
  BY <1>3, <1>4 DEF systemVars, storeVars, gateVars, sessionVars
<1>5. ASSUME NEW p \in Process, Crash(p) PROVE [Guarantee!Next]_<<Ran, reopened>>
  BY <1>3, <1>5 DEF Crash, Die, gateVars, sessionVars
<1>6. ASSUME DeleteStaleLock, UNCHANGED gateVars PROVE [Guarantee!Next]_<<Ran, reopened>>
  BY <1>3, <1>6 DEF DeleteStaleLock, gateVars, sessionVars
<1> QED BY <1>1, <1>2, <1>4, <1>5, <1>6 DEF SystemNext

\* The journal, with its lock, claims, crashes and operators, implements the guarantee.
THEOREM ImplementsGuarantee == SystemSpec => KeepsGuarantee
<1>1. SystemInit => Guarantee!Init
  BY DEF SystemInit, StoreInit, GateInit, Guarantee!Init, Ran, RunsOf, Invoked
<1>2. TypeInv /\ AdmissionInv /\ [SystemNext]_systemVars =>
        [Guarantee!Next]_<<Ran, reopened>>
  BY GuaranteeStep
<1> QED BY <1>1, <1>2, TypeInvInit, TypeInvStep, AdmissionInit, AdmissionStep, PTL
        DEF SystemSpec, KeepsGuarantee, Guarantee!Spec

-----------------------------------------------------------------------------
(* What is reported as persisted *)

\* The types of a last line after which no attempt starts and none is under way.
Closing == {"completed", "failed", "efecto_confirmado", "abandonada_sin_determinar"}

Shut(k) == CorruptFor(k) \/ (KeyLines(k) # {} /\ LastLine(k).type \in Closing)

\* An append leaves a shut key shut unless it is a whole line of that key that opens
\* it; a whole closing line, or one that falls on a fragment, shuts it.
LEMMA ShutAfterAppend ==
  ASSUME journal \in Seq(Record), tail \in Ending,
         NEW rec \in KeyLine \cup Phase1Line, NEW written \in BOOLEAN,
         WriteLine(rec, written), NEW k \in Key
  PROVE  /\ Shut(k) /\ (rec.key # k \/ rec.type \in Closing \/ tail.torn) => Shut(k)'
         /\ Shut(k) /\ journal' = journal => Shut(k)'
         /\ written /\ rec.key = k /\ rec.type \in Closing => Shut(k)'
<1>1. \/ journal' = journal /\ ~written
      \/ journal' = Append(journal, Landed(rec))
  BY DEF WriteLine
<1>2. journal' = journal => (Shut(k)' <=> Shut(k))
  BY DEF Shut, CorruptFor, KeyLines, LastLine
<1>3. CASE journal' = Append(journal, Landed(rec))
  <2>1. Landed(rec) \in Record
    BY LandedRecord
  <2>2. /\ Landed(rec).key = k => KeyLines(k)' # {} /\ LastLine(k)' = Landed(rec)
        /\ Landed(rec).key # k =>
             /\ KeyLines(k)' = KeyLines(k)
             /\ KeyLines(k) # {} => LastLine(k)' = LastLine(k)
        /\ CorruptFor(k)' <=> CorruptFor(k) \/ k \in Landed(rec).mentions
    BY <1>3, <2>1, LastAfterAppend
  <2>3. rec.key # k => Landed(rec).key # k
    BY LandedRecord, JournalAssumption
  <2>4. tail.torn /\ rec.key = k => k \in Landed(rec).mentions
    BY LandedRecord
  <2>5. ~tail.torn => Landed(rec) = rec
    BY LandedRecord
  <2>6. /\ rec.key # k /\ Shut(k) => Shut(k)'
        /\ rec.key = k /\ (rec.type \in Closing \/ tail.torn) => Shut(k)'
    BY <2>2, <2>3, <2>4, <2>5 DEF Shut
  <2> QED BY <1>2, <2>6
<1> QED BY <1>1, <1>2, <1>3

\* Whoever is told persisted has a key, was admitted, and left the key shut; a call
\* that writes how it ended has come to its executor, or to the want of one.
StandInv ==
  /\ \A i \in Invocation : stage[i] \in {"log", "finish", "release"} => outcome[i] # "none"
  /\ \A i \in Invocation : persisted[i] => HasKey(i) /\ outcome[i] # "none"
  /\ \A i \in Invocation : persisted[i] /\ reopened[KeyOf[i]] = 0 => Shut(KeyOf[i])

\* The first two conjuncts, and what becomes of persisted.
LEMMA PersistedStep ==
  ASSUME TypeInv, InOrder, StandInv, NEW i \in Invocation, GateStep(i)
  PROVE  /\ \A j \in Invocation :
              stage'[j] \in {"log", "finish", "release"} => outcome'[j] # "none"
         /\ \A j \in Invocation : persisted'[j] => HasKey(j) /\ outcome'[j] # "none"
         /\ \A j \in Invocation : persisted'[j] => persisted[j] \/ (j = i /\ FinishWrite(i))
<1> USE DEF TypeInv, SystemTypeOK, TypeOK, GateTypeOK, StandInv
<1>1. \A j \in Invocation \ {i} :
        stage'[j] = stage[j] /\ outcome'[j] = outcome[j] /\ persisted'[j] = persisted[j]
  <2>1. \A j \in Invocation \ {i} : persisted'[j] = persisted[j]
    BY DEF GateStep, Continue, Start, LockStep, LockAcquired, LockUnavailable, LockFails,
        Unlock, BeginStep, BeginRead, BeginWrite, RunStep, ClaimInflight, AbortWrite, Invoke,
        ExecutorReturns, EndStep, LogWrite, FinishWrite, ReleaseRead, ReleaseUnlink
  <2> QED BY <2>1, GateStepFrame
<1>2. ~FinishWrite(i) => persisted' = persisted
  BY DEF GateStep, Continue, Start, LockStep, LockAcquired, LockUnavailable, LockFails,
      Unlock, BeginStep, BeginRead, BeginWrite, RunStep, ClaimInflight, AbortWrite, Invoke,
      ExecutorReturns, EndStep, LogWrite, ReleaseRead, ReleaseUnlink
<1>3. /\ outcome[i] # "none" => outcome'[i] # "none"
      /\ stage'[i] \in {"log", "finish", "release"} => outcome'[i] # "none"
  <2>1. CASE Start(i)
    BY <2>1 DEF Start, GoTo
  <2>2. CASE LockStep(i)
    <3>1. stage[i] \in LockedStage /\ outcome' = outcome
      BY <2>2 DEF LockStep, LockAcquired, LockUnavailable, LockFails, Unlock
    <3>2. NextStage(i) \in {"log", "finish", "release"} => stage[i] \in {"log", "finish"}
      BY <3>1 DEF NextStage, LockedStage
    <3>3. stage'[i] \in {stage[i], NextStage(i), "done", "rejected"}
      BY <2>2 DEF LockStep, LockAcquired, LockUnavailable, LockFails, Unlock, GoTo, Advance
    <3> QED BY <3>1, <3>2, <3>3
  <2>3. CASE BeginStep(i) \/ EndStep(i)
    BY <2>3 DEF BeginStep, BeginRead, BeginWrite, EndStep, LogWrite, FinishWrite, ReleaseRead,
        ReleaseUnlink, At, GoTo, Advance
  <2>4. CASE RunStep(i)
    BY <2>4 DEF RunStep, ClaimInflight, Refused, AbortWrite, Invoke, ExecutorReturns, At,
        GoTo, Advance
  <2> QED BY <2>1, <2>2, <2>3, <2>4 DEF GateStep, Continue
<1>4. FinishWrite(i) => HasKey(i) /\ outcome[i] # "none"
  BY DEF FinishWrite, At, KeyedStages
<1> QED BY <1>1, <1>2, <1>3, <1>4

\* Of the calls of a key that was never reopened no two are admitted.
LEMMA AdmittedAlone ==
  ASSUME TypeInv, AdmissionInv, NEW i \in Invocation, NEW j \in Invocation,
         Admitted(i), Admitted(j), HasKey(i), KeyOf[j] = KeyOf[i], reopened[KeyOf[i]] = 0
  PROVE  i = j
<1> DEFINE k == KeyOf[i]
<1>1. k \in Key
  BY JournalAssumption DEF HasKey
<1>2. {i, j} \in SUBSET AdmittedFor(k) /\ AdmittedFor(k) \in SUBSET Invocation
  BY DEF AdmittedFor
<1>3. Cardinality(AdmittedFor(k)) <= 1
  BY <1>1 DEF AdmissionInv, AdmittedBounded
<1>4. Cardinality({i, j}) <= 1
  BY <1>2, <1>3, AdmittedCardinality
<1>5. ASSUME i # j PROVE FALSE
  <2>1. /\ Cardinality({i}) = 1 /\ IsFiniteSet({i})
    BY FS_Singleton
  <2>2. Cardinality({i} \cup {j}) = Cardinality({i}) + 1
    BY <1>5, <2>1, FS_AddElement
  <2>3. {i} \cup {j} = {i, j}
    OBVIOUS
  <2> QED BY <1>4, <2>1, <2>2, <2>3
<1> QED BY <1>5

\* No step of a call opens the key of a call that was told persisted.
LEMMA ShutByGate ==
  ASSUME TypeInv, AdmissionInv, StandInv, NEW i \in Invocation, GateStep(i),
         NEW j \in Invocation, persisted[j], reopened[KeyOf[j]] = 0
  PROVE  Shut(KeyOf[j])'
<1> DEFINE k == KeyOf[j]
<1> USE DEF TypeInv, SystemTypeOK, TypeOK, AdmissionInv
<1>1. k \in Key /\ Shut(k) /\ Admitted(j) /\ HasKey(j)
  BY JournalAssumption DEF StandInv, HasKey, Admitted
<1>2. journal \in Seq(Record) /\ tail \in Ending
  BY DEF StoreTypeOK
<1>3. CASE BeginWrite(i)
  <2> DEFINE rec == KeyRecord("started", KeyOf[i], FpOf[i], i)
  <2>1. PICK written \in BOOLEAN : WriteLine(rec, written)
    BY <1>3 DEF BeginWrite
  <2>2. Reopens(KeyOf[i])
    BY <1>3 DEF DecisionIsCurrent, BeginWrite, At
  <2>3. rec \in KeyLine /\ rec.key = KeyOf[i]
    BY <1>3, GateRecordType DEF BeginWrite, At, KeyedStages, KeyRecordType, KeyRecord
  <2>4. rec.key # k
    BY <1>1, <2>2, <2>3 DEF Shut, Reopens, Closing
  <2> HIDE DEF rec, k
  <2> QED BY <1>1, <1>2, <2>1, <2>3, <2>4, ShutAfterAppend DEF k
<1>4. CASE AbortWrite(i)
  <2> DEFINE rec == KeyRecord("aborted", KeyOf[i], FpOf[i], i)
  <2>1. PICK written \in BOOLEAN : WriteLine(rec, written)
    BY <1>4 DEF AbortWrite
  <2>2. Admitted(i) /\ outcome[i] = "none"
    BY <1>4 DEF Admitted, AbortWrite, At, InOrder
  <2>3. rec \in KeyLine /\ rec.key = KeyOf[i]
    BY <1>4, GateRecordType DEF AbortWrite, At, KeyedStages, KeyRecordType, KeyRecord
  <2>4. i # j
    BY <2>2 DEF StandInv
  <2>5. rec.key # k
    BY <1>1, <2>2, <2>3, <2>4, AdmittedAlone
  <2> HIDE DEF rec, k
  <2> QED BY <1>1, <1>2, <2>1, <2>3, <2>5, ShutAfterAppend DEF k
<1>5. CASE LogWrite(i)
  <2> DEFINE rec == Phase1Record("execution", FpOf[i], i)
  <2>1. PICK written \in BOOLEAN : WriteLine(rec, written)
    BY <1>5 DEF LogWrite
  <2>2. rec \in Phase1Line /\ rec.key # k
    BY <1>1, GateRecordType, JournalAssumption DEF Phase1Record, KeyRecord
  <2> HIDE DEF rec, k
  <2> QED BY <1>1, <1>2, <2>1, <2>2, ShutAfterAppend DEF k
<1>6. CASE FinishWrite(i)
  <2> DEFINE rec == KeyRecord(TerminalType(i), KeyOf[i], FpOf[i], i)
  <2>1. PICK written \in BOOLEAN : WriteLine(rec, written)
    BY <1>6 DEF FinishWrite
  <2>2. rec \in KeyLine /\ rec.type \in Closing
    BY <1>6, GateRecordType
       DEF FinishWrite, At, KeyedStages, KeyRecordType, KeyRecord, TerminalType, Closing
  <2> HIDE DEF rec, k
  <2> QED BY <1>1, <1>2, <2>1, <2>2, ShutAfterAppend DEF k
<1>7. CASE ~(BeginWrite(i) \/ AbortWrite(i) \/ LogWrite(i) \/ FinishWrite(i))
  <2>1. journal' = journal
    BY <1>7, GateStepFrame
  <2> QED BY <1>1, <2>1 DEF Shut, CorruptFor, KeyLines, LastLine
<1> QED BY <1>3, <1>4, <1>5, <1>6, <1>7

\* Of the operators only one who finds the effect absent opens it, and is counted.
LEMMA ShutByAdmin ==
  ASSUME TypeInv, NEW a \in Admin, AdminStep(a), NEW k \in Key, Shut(k), reopened'[k] = 0
  PROVE  Shut(k)'
<1> USE DEF TypeInv, SystemTypeOK, TypeOK
<1>1. journal \in Seq(Record) /\ tail \in Ending /\ reopened \in [Key -> Nat]
  BY DEF StoreTypeOK
<1>2. CASE WriteKeyResolution(a)
  <2> DEFINE rec == ResolutionLine(a)
  <2>1. PICK written \in BOOLEAN : WriteLine(rec, written)
    BY <1>2 DEF WriteKeyResolution
  <2>2. /\ rec \in KeyLine /\ rec.key = command[a].key
        /\ rec.type = command[a].resolution /\ command[a].resolution \in Resolution
    BY <1>2, AdminRecordType, CommandType
       DEF WriteKeyResolution, Runs, ResolutionLine, KeyRecord
  <2>3. /\ command[a].key \in Key
        /\ reopened' = [reopened EXCEPT ![command[a].key] =
                          @ + IF ReopensNow(a) THEN 1 ELSE 0]
    BY <1>2, CommandType DEF WriteKeyResolution, Runs
  <2> HIDE DEF rec
  <2>4. reopened[k] = 0 /\ (rec.key = k => ~ReopensNow(a))
    BY <1>1, <2>2, <2>3
  <2>5. rec.key = k => rec.type \in Closing \/ journal' = journal \/ tail.torn
    BY <2>2, <2>4 DEF ReopensNow, Resolution, Closing
  <2> QED BY <1>1, <2>1, <2>2, <2>4, <2>5, ShutAfterAppend
<1>3. CASE WriteClaimResolution(a)
  <2> DEFINE rec == Phase1Record("claim_resolution", target[a].fp, target[a].exec)
  <2>1. PICK written \in BOOLEAN : WriteLine(rec, written)
    BY <1>3 DEF WriteClaimResolution
  <2>2. rec \in Phase1Line /\ rec.key # k
    BY <1>3, AdminRecordType, JournalAssumption
       DEF WriteClaimResolution, Runs, Phase1Record, KeyRecord
  <2>3. reopened' = reopened
    BY <1>3 DEF WriteClaimResolution
  <2> HIDE DEF rec
  <2> QED BY <1>1, <2>1, <2>2, <2>3, ShutAfterAppend
<1>4. CASE ~WriteResolution(a)
  <2>1. journal' = journal /\ reopened' = reopened
    BY <1>4 DEF AdminStep, BeginCommand, BeginResolveKey, InspectClaim, InspectForReconcile,
         Begins, AdminLock, ReadKey, CheckClaim, UnlinkClaim, AdminUnlock, storeVars
  <2> QED BY <2>1 DEF Shut, CorruptFor, KeyLines, LastLine
<1> QED BY <1>2, <1>3, <1>4 DEF WriteResolution

LEMMA StandInvStep ==
  TypeInv /\ AdmissionInv /\ StandInv /\ [SystemNext]_systemVars => StandInv'
<1> SUFFICES ASSUME TypeInv, AdmissionInv, StandInv, [SystemNext]_systemVars PROVE StandInv'
  OBVIOUS
<1>1. ASSUME NEW i \in Invocation, GateStep(i) PROVE StandInv'
  <2>1. /\ \A j \in Invocation :
             stage'[j] \in {"log", "finish", "release"} => outcome'[j] # "none"
        /\ \A j \in Invocation : persisted'[j] => HasKey(j) /\ outcome'[j] # "none"
        /\ \A j \in Invocation : persisted'[j] => persisted[j] \/ (j = i /\ FinishWrite(i))
    BY <1>1, PersistedStep DEF AdmissionInv
  <2>2. reopened' = reopened
    BY <1>1, GateStepFrame
  <2>3. ASSUME NEW j \in Invocation, persisted[j], reopened[KeyOf[j]] = 0
        PROVE  Shut(KeyOf[j])'
    BY <1>1, <2>3, ShutByGate
  <2>4. ASSUME FinishWrite(i), persisted'[i] PROVE Shut(KeyOf[i])'
    <3> DEFINE rec == KeyRecord(TerminalType(i), KeyOf[i], FpOf[i], i)
    <3>1. WriteLine(rec, TRUE)
      BY <2>4 DEF FinishWrite, TypeInv, SystemTypeOK, TypeOK, GateTypeOK
    <3>2. HasKey(i) /\ KeyOf[i] \in Key
      BY <2>4, JournalAssumption DEF FinishWrite, At, TypeInv, KeyedStages, HasKey
    <3>3. rec \in KeyLine /\ rec.key = KeyOf[i] /\ rec.type \in Closing
      BY <3>2, GateRecordType DEF KeyRecordType, KeyRecord, TerminalType, Closing
    <3>4. journal \in Seq(Record) /\ tail \in Ending
      BY DEF TypeInv, SystemTypeOK, TypeOK, StoreTypeOK
    <3> HIDE DEF rec
    <3> QED BY <3>1, <3>2, <3>3, <3>4, ShutAfterAppend
  <2> QED BY <2>1, <2>2, <2>3, <2>4 DEF StandInv, HasKey
<1>2. ASSUME NEW a \in Admin, AdminStep(a), UNCHANGED gateVars PROVE StandInv'
  <2>1. ASSUME NEW i \in Invocation, persisted[i], reopened'[KeyOf[i]] = 0
        PROVE  Shut(KeyOf[i])'
    <3>1. KeyOf[i] \in Key
      BY <2>1, JournalAssumption DEF StandInv, HasKey
    <3>2. reopened[KeyOf[i]] = 0
      <4>1. reopened \in [Key -> Nat] /\ reopened'[KeyOf[i]] >= reopened[KeyOf[i]]
        <5>1. reopened \in [Key -> Nat]
          BY DEF TypeInv, SystemTypeOK, TypeOK, StoreTypeOK
        <5>2. \/ reopened' = reopened
              \/ \E k \in Key, n \in {0, 1} : reopened' = [reopened EXCEPT ![k] = @ + n]
          <6>1. CASE WriteKeyResolution(a)
            BY <6>1, CommandType
               DEF WriteKeyResolution, Runs, TypeInv, SystemTypeOK
          <6>2. CASE ~WriteKeyResolution(a)
            BY <1>2, <6>2 DEF AdminStep, BeginCommand, BeginResolveKey, InspectClaim,
                 InspectForReconcile, Begins, AdminLock, ReadKey, WriteResolution,
                 WriteClaimResolution, CheckClaim, UnlinkClaim, AdminUnlock, storeVars
          <6> QED BY <6>1, <6>2
        <5> QED BY <3>1, <5>1, <5>2
      <4> QED BY <2>1, <3>1, <4>1
    <3>3. Shut(KeyOf[i])
      BY <2>1, <3>2 DEF StandInv
    <3> QED BY <1>2, <2>1, <3>1, <3>3, ShutByAdmin
  <2> QED BY <1>2, <2>1 DEF StandInv, gateVars, sessionVars, HasKey
<1>3. ASSUME UNCHANGED <<gateVars, journal, reopened>> PROVE StandInv'
  BY <1>3 DEF StandInv, Shut, CorruptFor, KeyLines, LastLine, HasKey, gateVars, sessionVars
<1> QED BY <1>1, <1>2, <1>3
        DEF SystemNext, Crash, Die, DeleteStaleLock, systemVars, storeVars

\* What a caller was told is persisted stands until an operator reopens the key, with
\* any faults, fragments, hosts and operators.
THEOREM PersistedWillStand == SystemSpec => []PersistedStands
<1>1. SystemInit => StandInv
  BY DEF SystemInit, GateInit, StandInv
<1>2. TypeInv /\ StandInv => PersistedStands
  <2> SUFFICES ASSUME TypeInv, StandInv, NEW i \in Invocation, persisted[i],
                      reopened[KeyOf[i]] = 0, NEW f, NEW h
               PROVE  KeyState(KeyOf[i], f, h) \notin {"proceed", "in_progress"}
    BY DEF PersistedStands
  <2>1. Shut(KeyOf[i])
    BY DEF StandInv
  <2>2. ASSUME ~CorruptFor(KeyOf[i])
        PROVE  /\ KeyLines(KeyOf[i]) # {}
               /\ LastState(KeyOf[i], h) \in {"cached", "needs_resolution"}
    BY <2>1, <2>2 DEF Shut, Closing, LastState, StateAfter
  <2> QED BY <2>2 DEF KeyState
<1> QED BY <1>1, <1>2, TypeInvInit, TypeInvStep, AdmissionInit, AdmissionStep, StandInvStep, PTL
        DEF SystemSpec

-----------------------------------------------------------------------------
(* What operators cannot undo: on one host, with a journal that can be read, an  *)
(* answer is final and no command aims at a call that still runs.             *)

\* startedOwnerAlive can tell whether the owner lives: all processes share a host.
SameHost == \A a, b \in Actor : HostOf[ProcOf[a]] = HostOf[ProcOf[b]]

StartedLine(i) == KeyRecord("started", KeyOf[i], FpOf[i], i)

\* A live call whose started line is written and whose ending is not.
Open(i) ==
  /\ HasKey(i) /\ Up(i)
  /\ \/ stage[i] = "begin" /\ phase[i] = "unlock" /\ verdict[i] = "proceed"
     \/ stage[i] \in {"claim", "invoke", "executing", "log"}
     \/ stage[i] \in {"abort", "finish"} /\ phase[i] \in {"lock", "write"}

Last(k, rec) == KeyLines(k) # {} /\ LastLine(k) = rec

\* Nobody writes about a key over the head of an open call.
OpenIsLast ==
  \A i \in Invocation : Open(i) =>
    CorruptFor(KeyOf[i]) \/ Last(KeyOf[i], StartedLine(i))

\* The call has left the point where its started line is written.
Begun(i) == stage[i] # "ready" /\ (stage[i] = "begin" => phase[i] = "unlock")

PastLog(i) == stage[i] \in {"log", "finish", "release", "done", "rejected"}

\* A started or an execution line is of a call that has come as far as that.
Fits(rec) ==
  /\ rec.type = "started" =>
       rec.exec \in Invocation /\ Begun(rec.exec) /\ rec.key = KeyOf[rec.exec]
  /\ rec.type = "execution" =>
       rec.exec \in Invocation /\ PastLog(rec.exec)

LinesFit == \A n \in DOMAIN journal : Fits(journal[n])

\* What deriveKeyState calls needs_resolution, for whoever asks on this host.
Undecided(k) ==
  \/ CorruptFor(k)
  \/ /\ KeyLines(k) # {}
     /\ \/ LastLine(k).type \in {"failed", "abandonada_sin_determinar"}
        \/ LastLine(k).type = "started" /\ ~alive[ProcOf[LastLine(k).exec]]

\* What resolveKey read under the lock is still so when it writes.
ReadIsCurrent ==
  \A a \in Admin :
    alive[ProcOf[a]] /\ step[a] = "write" /\ IsOp(a, "resolveKey") =>
      Undecided(command[a].key)

\* The call will not call its executor any more, nor wait for it.
Finished(i) ==
  \/ ~Up(i)
  \/ stage[i] \in {"abort", "log", "finish", "release", "done", "rejected"}
  \/ stage[i] = "begin" /\ phase[i] = "unlock" /\ verdict[i] # "proceed"

AimsAtFinished ==
  \A a \in Admin : step[a] # "done" /\ target[a].exec # Nobody =>
    Finished(target[a].exec)

AnswerInv == OpenIsLast /\ LinesFit /\ ReadIsCurrent /\ AimsAtFinished

-----------------------------------------------------------------------------
(* Appends *)

\* An append keeps what a key is blocked by, the last line of the keys it is not about,
\* and becomes the last line of its own, unless it spoils the line for both.
LEMMA AppendKeeps ==
  ASSUME journal \in Seq(Record), tail \in Ending,
         NEW rec \in KeyLine \cup Phase1Line, NEW written \in BOOLEAN,
         WriteLine(rec, written), NEW k \in Key, NEW x
  PROVE  /\ CorruptFor(k) => CorruptFor(k)'
         /\ rec.key # k /\ Last(k, x) => Last(k, x)'
         /\ rec.key = k /\ rec = x /\ written => CorruptFor(k)' \/ Last(k, x)'
<1>1. CASE journal' = journal /\ ~written
  BY <1>1 DEF CorruptFor, Last, KeyLines, LastLine
<1>2. CASE journal' = Append(journal, Landed(rec))
  <2>1. Landed(rec) \in Record
    BY LandedRecord
  <2>2. /\ Landed(rec).key = k => KeyLines(k)' # {} /\ LastLine(k)' = Landed(rec)
        /\ Landed(rec).key # k =>
             /\ KeyLines(k)' = KeyLines(k)
             /\ KeyLines(k) # {} => LastLine(k)' = LastLine(k)
        /\ CorruptFor(k)' <=> CorruptFor(k) \/ k \in Landed(rec).mentions
    BY <1>2, <2>1, LastAfterAppend
  <2>3. Landed(rec).key = k => rec.key = k /\ Landed(rec) = rec
    BY LandedRecord, JournalAssumption
  <2>4. rec.key = k => Landed(rec) = rec \/ k \in Landed(rec).mentions
    BY LandedRecord
  <2> QED BY <2>2, <2>3, <2>4 DEF Last
<1> QED BY <1>1, <1>2 DEF WriteLine

\* An append leaves the lines before it in place and adds its own or a corrupt one.
LEMMA AppendAdds ==
  ASSUME journal \in Seq(Record), tail \in Ending,
         NEW rec \in KeyLine \cup Phase1Line, NEW written \in BOOLEAN,
         WriteLine(rec, written)
  PROVE  /\ \A n \in DOMAIN journal : n \in DOMAIN journal' /\ journal'[n] = journal[n]
         /\ \A n \in DOMAIN journal' \ DOMAIN journal :
              journal'[n] = rec \/ journal'[n].type = "corrupt"
<1>1. CASE journal' = journal
  BY <1>1
<1>2. CASE journal' = Append(journal, Landed(rec))
  <2>1. Landed(rec) \in Record
    BY LandedRecord
  <2>2. Landed(rec) = rec \/ Landed(rec).type = "corrupt"
    BY DEF Landed, CorruptLine
  <2>3. /\ DOMAIN journal' = DOMAIN journal \cup {Len(journal) + 1}
        /\ journal'[Len(journal) + 1] = Landed(rec)
        /\ \A n \in DOMAIN journal : journal'[n] = journal[n]
    BY <1>2, <2>1
  <2> QED BY <2>2, <2>3
<1> QED BY <1>1, <1>2 DEF WriteLine

\* The state of a key does not change while the journal stands still.
LEMMA StandsStill ==
  ASSUME journal' = journal, NEW k, NEW x
  PROVE  /\ CorruptFor(k)' <=> CorruptFor(k)
         /\ Last(k, x)' <=> Last(k, x)
         /\ Cached(k)' <=> Cached(k)
         /\ KeyLines(k)' = KeyLines(k) /\ LastLine(k)' = LastLine(k)
BY DEF CorruptFor, Last, Cached, KeyLines, LastLine

\* The line each appending step writes.
LEMMA GateLine ==
  ASSUME TypeInv, NEW i \in Invocation, GateStep(i)
  PROVE  \/ journal' = journal
         \/ \E rec \in KeyLine \cup Phase1Line, written \in BOOLEAN :
              /\ WriteLine(rec, written)
              /\ rec.exec = i
              /\ \/ BeginWrite(i) /\ rec = StartedLine(i) /\ HasKey(i)
                    /\ (verdict'[i] = "proceed" => written)
                 \/ AbortWrite(i) /\ rec.key = KeyOf[i] /\ rec.type = "aborted"
                 \/ LogWrite(i) /\ rec.key = NoKey /\ rec.type = "execution"
                 \/ FinishWrite(i) /\ rec.key = KeyOf[i] /\ rec.type \in {"completed", "failed"}
<1> USE DEF TypeInv, SystemTypeOK, TypeOK, GateTypeOK
<1>1. CASE BeginWrite(i)
  <2>1. HasKey(i) /\ StartedLine(i) \in KeyLine /\ StartedLine(i).exec = i
    BY <1>1, GateRecordType
       DEF BeginWrite, At, KeyedStages, StartedLine, KeyRecord, KeyRecordType
  <2>2. \E written \in BOOLEAN :
          WriteLine(StartedLine(i), written) /\ (verdict'[i] = "proceed" => written)
    BY <1>1 DEF BeginWrite, StartedLine
  <2> QED BY <1>1, <2>1, <2>2
<1>2. CASE AbortWrite(i)
  <2> DEFINE rec == KeyRecord("aborted", KeyOf[i], FpOf[i], i)
  <2>1. rec \in KeyLine /\ rec.exec = i /\ rec.key = KeyOf[i] /\ rec.type = "aborted"
    BY <1>2, GateRecordType DEF AbortWrite, At, KeyedStages, KeyRecord, KeyRecordType
  <2>2. \E written \in BOOLEAN : WriteLine(rec, written)
    BY <1>2 DEF AbortWrite
  <2> QED BY <1>2, <2>1, <2>2
<1>3. CASE LogWrite(i)
  <2> DEFINE rec == Phase1Record("execution", FpOf[i], i)
  <2>1. rec \in Phase1Line /\ rec.exec = i /\ rec.key = NoKey /\ rec.type = "execution"
    BY GateRecordType DEF Phase1Record, KeyRecord
  <2>2. \E written \in BOOLEAN : WriteLine(rec, written)
    BY <1>3 DEF LogWrite
  <2> QED BY <1>3, <2>1, <2>2
<1>4. CASE FinishWrite(i)
  <2> DEFINE rec == KeyRecord(TerminalType(i), KeyOf[i], FpOf[i], i)
  <2>1. /\ rec \in KeyLine /\ rec.exec = i /\ rec.key = KeyOf[i]
        /\ rec.type \in {"completed", "failed"}
    BY <1>4, GateRecordType
       DEF FinishWrite, At, KeyedStages, KeyRecord, KeyRecordType, TerminalType
  <2>2. \E written \in BOOLEAN : WriteLine(rec, written)
    BY <1>4 DEF FinishWrite
  <2> HIDE DEF rec
  <2> QED BY <1>4, <2>1, <2>2
<1> QED BY <1>1, <1>2, <1>3, <1>4, GateStepFrame

\* The line a session writes.
LEMMA AdminLine ==
  ASSUME TypeInv, NEW a \in Admin, AdminStep(a)
  PROVE  \/ journal' = journal
         \/ \E rec \in KeyLine \cup Phase1Line, written \in BOOLEAN :
              /\ WriteLine(rec, written)
              /\ \/ /\ Runs(a, "write") /\ IsOp(a, "resolveKey")
                    /\ rec.key = command[a].key /\ rec.type \in Resolution
                 \/ /\ Runs(a, "write")
                    /\ rec.key = NoKey /\ rec.type = "claim_resolution"
<1>1. CASE WriteKeyResolution(a)
  <2>1. ResolutionLine(a) \in KeyLine
    BY <1>1, AdminRecordType DEF WriteKeyResolution, Runs
  <2>2. ResolutionLine(a).key = command[a].key /\ ResolutionLine(a).type \in Resolution
    BY <1>1, CommandType
       DEF WriteKeyResolution, Runs, ResolutionLine, KeyRecord, TypeInv, SystemTypeOK
  <2> QED BY <1>1, <2>1, <2>2 DEF WriteKeyResolution
<1>2. CASE WriteClaimResolution(a)
  <2> DEFINE rec == Phase1Record("claim_resolution", target[a].fp, target[a].exec)
  <2>1. rec \in Phase1Line /\ rec.key = NoKey /\ rec.type = "claim_resolution"
    BY <1>2, AdminRecordType DEF WriteClaimResolution, Runs, Phase1Record, KeyRecord
  <2> QED BY <1>2, <2>1 DEF WriteClaimResolution
<1> QED BY <1>1, <1>2
   DEF AdminStep, BeginCommand, BeginResolveKey, InspectClaim, InspectForReconcile, Begins,
       AdminLock, ReadKey, WriteResolution, CheckClaim, UnlinkClaim, AdminUnlock, storeVars

-----------------------------------------------------------------------------
(* Open calls *)

\* A call becomes open by writing its started line and stays so until it writes how it
\* ended.
LEMMA OpenByOwnStep ==
  ASSUME TypeInv, InOrder, NEW i \in Invocation, GateStep(i), Open(i)'
  PROVE  \/ BeginWrite(i) /\ verdict'[i] = "proceed"
         \/ Open(i) /\ ~BeginWrite(i) /\ ~AbortWrite(i) /\ ~FinishWrite(i)
<1> USE DEF TypeInv, SystemTypeOK, TypeOK, GateTypeOK, Open, Up, HasKey
<1>1. alive' = alive /\ alive[ProcOf[i]]
  BY GateStepFrame
<1>2. CASE Start(i)
  BY <1>2 DEF Start, GoTo
<1>3. CASE LockAcquired(i)
  BY <1>1, <1>3 DEF LockAcquired, Advance, LockedStage, BeginWrite, AbortWrite, FinishWrite, At
<1>4. CASE LockUnavailable(i) \/ Unlock(i)
  <2>1. /\ stage[i] \in LockedStage /\ stage'[i] = NextStage(i) /\ phase[i] \in {"lock", "unlock"}
        /\ stage[i] = "begin" /\ NextStage(i) = "claim" => phase[i] = "unlock"
    BY <1>4 DEF LockUnavailable, Unlock, GoTo, InOrder, NextStage
  <2>2. Open(i)
    BY <1>1, <2>1 DEF NextStage, AfterLast, LockedStage
  <2> QED BY <2>1, <2>2 DEF BeginWrite, AbortWrite, FinishWrite, At
<1>5. CASE LockFails(i)
  BY <1>5 DEF LockFails, GoTo
<1>6. CASE BeginRead(i)
  BY <1>6 DEF BeginRead, At, Advance
<1>7. CASE BeginWrite(i)
  BY <1>7 DEF BeginWrite, At, Advance
<1>8. CASE RunStep(i)
  BY <1>1, <1>8 DEF RunStep, ClaimInflight, Refused, AbortWrite, Invoke, ExecutorReturns, At,
       GoTo, Advance, BeginWrite, FinishWrite
<1>9. CASE EndStep(i)
  BY <1>1, <1>9 DEF EndStep, LogWrite, FinishWrite, ReleaseRead, ReleaseUnlink, At, GoTo, Advance,
       BeginWrite, AbortWrite
<1> QED BY <1>2, <1>3, <1>4, <1>5, <1>6, <1>7, <1>8, <1>9
        DEF GateStep, Continue, LockStep, BeginStep

LEMMA OpenIsLastGate ==
  ASSUME TypeInv, AdmissionInv, OpenIsLast, NEW i \in Invocation, GateStep(i)
  PROVE  OpenIsLast'
<1> USE DEF TypeInv, SystemTypeOK, TypeOK, StoreTypeOK, AdmissionInv
<1>1. ASSUME NEW j \in Invocation \ {i}, Open(j)' PROVE Open(j)
  BY <1>1, GateStepFrame DEF Open, Up, HasKey
<1>2. ASSUME NEW j \in Invocation, HasKey(j) PROVE KeyOf[j] \in Key
  BY <1>2, JournalAssumption DEF HasKey
<1>3. ASSUME NEW j \in Invocation, Open(j) PROVE HasKey(j) /\ KeyOf[j] \in Key
  BY <1>2, <1>3 DEF Open
<1>4. CASE journal' = journal
  <2>1. ~BeginWrite(i) \/ verdict'[i] # "proceed"
    <3>1. SUFFICES ASSUME BeginWrite(i), verdict'[i] = "proceed" PROVE FALSE
      OBVIOUS
    <3>2. WriteLine(StartedLine(i), TRUE)
      BY <3>1 DEF BeginWrite, StartedLine, GateTypeOK
    <3>3. StartedLine(i) \in KeyLine
      BY <3>1, GateRecordType DEF BeginWrite, At, KeyedStages, StartedLine, KeyRecordType
    <3>4. journal' = Append(journal, Landed(StartedLine(i))) /\ Landed(StartedLine(i)) \in Record
      BY <3>2, <3>3, LandedRecord DEF WriteLine
    <3>5. Len(journal') = Len(journal) + 1 /\ Len(journal) \in Nat
      BY <3>4
    <3> QED BY <1>4, <3>5
  <2>2. ASSUME NEW j \in Invocation, Open(j)' PROVE Open(j)
    BY <1>1, <2>1, <2>2, OpenByOwnStep
  <2> QED BY <1>4, <2>2, StandsStill DEF OpenIsLast
<1>5. ASSUME NEW rec \in KeyLine \cup Phase1Line, NEW written \in BOOLEAN,
             WriteLine(rec, written), NEW j \in Invocation, Open(j), rec.key # KeyOf[j]
      PROVE  CorruptFor(KeyOf[j])' \/ Last(KeyOf[j], StartedLine(j))'
  BY <1>3, <1>5, AppendKeeps DEF OpenIsLast
<1>6. ASSUME NEW rec \in KeyLine \cup Phase1Line, NEW written \in BOOLEAN,
             WriteLine(rec, written), NEW j \in Invocation, Open(j), CorruptFor(KeyOf[j])
      PROVE  CorruptFor(KeyOf[j])'
  BY <1>3, <1>6, AppendKeeps
<1>7. CASE BeginWrite(i)
  <2>1. journal' # journal \/ journal' = journal
    OBVIOUS
  <2>2. CASE journal' # journal
    <3>1. PICK rec \in KeyLine \cup Phase1Line, written \in BOOLEAN :
            /\ WriteLine(rec, written) /\ rec = StartedLine(i) /\ HasKey(i)
            /\ verdict'[i] = "proceed" => written
      BY <1>7, <2>2, GateLine DEF BeginWrite, AbortWrite, LogWrite, FinishWrite, At
    <3>2. rec.key = KeyOf[i]
      BY <3>1 DEF StartedLine, KeyRecord
    <3>3. Reopens(KeyOf[i])
      BY <1>7 DEF BeginWrite, At, DecisionIsCurrent
    <3>4. ASSUME NEW j \in Invocation \ {i}, Open(j)', KeyOf[j] = KeyOf[i] PROVE FALSE
      <4>1. CorruptFor(KeyOf[i]) \/ Last(KeyOf[i], StartedLine(j))
        BY <1>1, <3>4 DEF OpenIsLast
      <4>2. Last(KeyOf[i], StartedLine(j)) => LastLine(KeyOf[i]).type = "started"
        BY DEF Last, StartedLine, KeyRecord
      <4> QED BY <3>3, <4>1, <4>2 DEF Reopens, Last
    <3>5. Open(i)' => CorruptFor(KeyOf[i])' \/ Last(KeyOf[i], StartedLine(i))'
      BY <1>2, <1>7, <3>1, <3>2, AppendKeeps, OpenByOwnStep
    <3> QED BY <1>1, <1>5, <3>1, <3>2, <3>4, <3>5 DEF OpenIsLast
  <2> QED BY <2>2, <1>4
<1>8. CASE AbortWrite(i) \/ FinishWrite(i)
  <2>1. CASE journal' # journal
    <3>1. PICK rec \in KeyLine \cup Phase1Line, written \in BOOLEAN :
            WriteLine(rec, written) /\ rec.key = KeyOf[i]
      BY <1>8, <2>1, GateLine DEF BeginWrite, AbortWrite, LogWrite, FinishWrite, At
    <3>2. Open(i)
      BY <1>8 DEF AbortWrite, FinishWrite, At, Open, KeyedStages, HasKey
    <3>3. ~Open(i)'
      BY <1>8, OpenByOwnStep DEF BeginWrite, AbortWrite, FinishWrite, At
    <3>4. ASSUME NEW j \in Invocation \ {i}, Open(j), KeyOf[j] = KeyOf[i]
          PROVE  CorruptFor(KeyOf[j])
      <4>1. \/ CorruptFor(KeyOf[j])
            \/ Last(KeyOf[j], StartedLine(i)) /\ Last(KeyOf[j], StartedLine(j))
        BY <3>2, <3>4 DEF OpenIsLast
      <4>2. StartedLine(i).exec = i /\ StartedLine(j).exec = j
        BY DEF StartedLine, KeyRecord
      <4> QED BY <4>1, <4>2 DEF Last
    <3> QED BY <1>1, <1>5, <1>6, <3>1, <3>3, <3>4 DEF OpenIsLast
  <2> QED BY <2>1, <1>4
<1>9. CASE LogWrite(i)
  <2>1. CASE journal' # journal
    <3>1. PICK rec \in KeyLine \cup Phase1Line, written \in BOOLEAN :
            WriteLine(rec, written) /\ rec.key = NoKey
      BY <1>9, <2>1, GateLine DEF BeginWrite, AbortWrite, LogWrite, FinishWrite, At
    <3>2. ASSUME NEW j \in Invocation, Open(j)' PROVE Open(j)
      BY <1>1, <1>9, <3>2, OpenByOwnStep DEF BeginWrite, LogWrite, At
    <3>3. ASSUME NEW j \in Invocation, Open(j) PROVE rec.key # KeyOf[j]
      BY <3>1, <3>3 DEF Open, HasKey
    <3> QED BY <1>5, <3>1, <3>2, <3>3 DEF OpenIsLast
  <2> QED BY <2>1, <1>4
<1> QED BY <1>4, <1>7, <1>8, <1>9, GateStepFrame

\* An operator writes only about a key whose call is not open.
LEMMA OpenIsLastAdmin ==
  ASSUME TypeInv, OpenIsLast, ReadIsCurrent, NEW a \in Admin, AdminStep(a), UNCHANGED gateVars
  PROVE  OpenIsLast'
<1> USE DEF TypeInv, SystemTypeOK, TypeOK, StoreTypeOK
<1>1. alive' = alive
  BY DEF AdminStep, BeginCommand, BeginResolveKey, InspectClaim, InspectForReconcile, Begins,
         AdminLock, ReadKey, WriteResolution, WriteKeyResolution, WriteClaimResolution,
         CheckClaim, UnlinkClaim, AdminUnlock, storeVars
<1>2. SUFFICES ASSUME NEW i \in Invocation, Open(i)
               PROVE  CorruptFor(KeyOf[i])' \/ Last(KeyOf[i], StartedLine(i))'
  BY <1>1 DEF OpenIsLast, Open, Up, HasKey, gateVars, sessionVars
<1>3. KeyOf[i] \in Key /\ KeyOf[i] # NoKey /\ alive[ProcOf[i]]
  BY <1>2, JournalAssumption DEF Open, HasKey, Up
<1>4. CorruptFor(KeyOf[i]) \/ Last(KeyOf[i], StartedLine(i))
  BY <1>2 DEF OpenIsLast
<1>5. CASE journal' = journal
  BY <1>4, <1>5, StandsStill
<1>6. CASE journal' # journal
  <2>1. PICK rec \in KeyLine \cup Phase1Line, written \in BOOLEAN :
          /\ WriteLine(rec, written)
          /\ \/ Runs(a, "write") /\ IsOp(a, "resolveKey") /\ rec.key = command[a].key
             \/ rec.key = NoKey
    BY <1>6, AdminLine
  <2>2. CASE rec.key # KeyOf[i]
    BY <1>3, <1>4, <2>1, <2>2, AppendKeeps
  <2>3. CASE rec.key = KeyOf[i]
    <3>1. Undecided(KeyOf[i])
      BY <1>3, <2>1, <2>3 DEF ReadIsCurrent, Runs
    <3>2. ~Last(KeyOf[i], StartedLine(i)) \/ CorruptFor(KeyOf[i])
      BY <1>3, <3>1 DEF Undecided, Last, StartedLine, KeyRecord
    <3> QED BY <1>3, <1>4, <2>1, <3>2, AppendKeeps
  <2> QED BY <2>2, <2>3
<1> QED BY <1>5, <1>6

-----------------------------------------------------------------------------
(* What the lines say about their calls *)

\* A call never goes back.
LEMMA CallsAdvance ==
  ASSUME TypeInv, NEW i \in Invocation, GateStep(i), NEW j \in Invocation
  PROVE  /\ Begun(j) => Begun(j)'
         /\ PastLog(j) => PastLog(j)'
         /\ Finished(j) => Finished(j)'
<1> USE DEF TypeInv, SystemTypeOK, TypeOK, GateTypeOK, Begun, PastLog, Finished, Up
<1>1. CASE j # i
  BY <1>1, GateStepFrame
<1>2. CASE j = i
  <2>1. alive[ProcOf[i]]
    BY GateStepFrame
  <2>2. CASE Start(i) \/ RunStep(i)
    BY <1>2, <2>1, <2>2 DEF Start, RunStep, ClaimInflight, Refused, AbortWrite, Invoke,
      ExecutorReturns, At, GoTo, Advance
  <2>3. CASE LockAcquired(i)
    BY <1>2, <2>1, <2>3 DEF LockAcquired, Advance
  <2>4. CASE LockUnavailable(i) \/ LockFails(i) \/ Unlock(i)
    <3>1. stage[i] \in LockedStage
      BY <2>4 DEF LockUnavailable, LockFails, Unlock
    <3>2. \/ stage'[i] = NextStage(i) /\ (stage[i] = "begin" => LockUnavailable(i) \/ Unlock(i))
          \/ stage'[i] \in {"done", "rejected"}
      BY <2>4 DEF LockUnavailable, LockFails, Unlock, GoTo
    <3>3. /\ NextStage(i) \in {"claim", "finish", "release", "done"}
          /\ stage[i] # "begin" => NextStage(i) \in {"finish", "release", "done"}
          /\ stage[i] = "begin" /\ verdict[i] # "proceed" => NextStage(i) = "done"
      BY <3>1 DEF NextStage, AfterLast, LockedStage
    <3> QED BY <1>2, <2>1, <3>1, <3>2, <3>3
  <2>5. CASE BeginStep(i)
    BY <1>2, <2>1, <2>5 DEF BeginStep, BeginRead, BeginWrite, At, Advance
  <2>6. CASE EndStep(i)
    BY <1>2, <2>1, <2>6 DEF EndStep, LogWrite, FinishWrite, ReleaseRead, ReleaseUnlink, At, GoTo,
      Advance
  <2> QED BY <2>2, <2>3, <2>4, <2>5, <2>6 DEF GateStep, Continue, LockStep
<1> QED BY <1>1, <1>2

LEMMA FitsAfterAppend ==
  ASSUME TypeInv, LinesFit, \A r : Fits(r) => Fits(r)',
         NEW rec \in KeyLine \cup Phase1Line, NEW written \in BOOLEAN,
         WriteLine(rec, written), Fits(rec)'
  PROVE  LinesFit'
<1>1. /\ \A n \in DOMAIN journal : n \in DOMAIN journal' /\ journal'[n] = journal[n]
      /\ \A n \in DOMAIN journal' \ DOMAIN journal :
           journal'[n] = rec \/ journal'[n].type = "corrupt"
  BY AppendAdds DEF TypeInv, SystemTypeOK, TypeOK, StoreTypeOK
<1>2. SUFFICES ASSUME NEW n \in DOMAIN journal' PROVE Fits(journal[n])'
  BY DEF LinesFit
<1>3. PICK r : r = journal'[n]
  OBVIOUS
<1>4. Fits(r)'
  <2>1. CASE n \in DOMAIN journal
    BY <1>1, <1>3, <2>1 DEF LinesFit
  <2>2. CASE n \notin DOMAIN journal
    <3>1. r = rec \/ r.type = "corrupt"
      BY <1>1, <1>3, <2>2
    <3>2. r.type = "corrupt" => Fits(r)'
      BY DEF Fits
    <3> QED BY <3>1, <3>2
  <2> QED BY <2>1, <2>2
<1> QED BY <1>3, <1>4 DEF Fits, Begun, PastLog

LEMMA LinesFitGate ==
  ASSUME TypeInv, LinesFit, NEW i \in Invocation, GateStep(i)
  PROVE  LinesFit'
<1>1. ASSUME NEW r, Fits(r) PROVE Fits(r)'
  BY <1>1, CallsAdvance DEF Fits
<1>2. CASE journal' = journal
  <2>1. \A n \in DOMAIN journal : Fits(journal[n]) => Fits(journal[n])'
    <3>1. SUFFICES ASSUME NEW n \in DOMAIN journal, Fits(journal[n]) PROVE Fits(journal[n])'
      OBVIOUS
    <3>2. PICK r : r = journal[n]
      OBVIOUS
    <3>3. Fits(r)'
      BY <1>1, <3>1, <3>2
    <3> QED BY <1>2, <3>2, <3>3 DEF Fits, Begun, PastLog
  <2> QED BY <1>2, <2>1 DEF LinesFit
<1>3. CASE journal' # journal
  <2>1. PICK rec \in KeyLine \cup Phase1Line, written \in BOOLEAN :
          /\ WriteLine(rec, written)
          /\ rec.exec = i
          /\ \/ BeginWrite(i) /\ rec = StartedLine(i)
             \/ LogWrite(i) /\ rec.type = "execution"
             \/ rec.type \in {"aborted", "completed", "failed"}
    BY <1>3, GateLine
  <2>2. BeginWrite(i) => Begun(i)'
    BY DEF BeginWrite, At, Advance, Begun, TypeInv, SystemTypeOK, TypeOK, GateTypeOK
  <2>3. LogWrite(i) => PastLog(i)'
    BY DEF LogWrite, At, Advance, PastLog, TypeInv, SystemTypeOK, TypeOK, GateTypeOK
  <2>4. Fits(rec)'
    BY <2>1, <2>2, <2>3 DEF Fits, StartedLine, KeyRecord
  <2> QED BY <1>1, <2>1, <2>4, FitsAfterAppend
<1> QED BY <1>2, <1>3

LEMMA LinesFitAdmin ==
  ASSUME TypeInv, LinesFit, NEW a \in Admin, AdminStep(a), UNCHANGED gateVars
  PROVE  LinesFit'
<1>1. \A r : Fits(r) => Fits(r)'
  BY DEF Fits, Begun, PastLog, gateVars
<1>2. CASE journal' = journal
  BY <1>2 DEF LinesFit, Fits, Begun, PastLog, gateVars
<1>3. CASE journal' # journal
  <2>1. PICK rec \in KeyLine \cup Phase1Line, written \in BOOLEAN :
          WriteLine(rec, written) /\ rec.type \notin {"started", "execution"}
    BY <1>3, AdminLine DEF Resolution
  <2>2. Fits(rec)'
    BY <2>1 DEF Fits
  <2> QED BY <1>1, <2>1, <2>2, FitsAfterAppend
<1> QED BY <1>2, <1>3

\* The last line about a key is one of its lines; so is the last started line.
LEMMA LastIsThere ==
  ASSUME journal \in Seq(Record), NEW k \in Key
  PROVE  /\ KeyLines(k) # {} => \E n \in KeyLines(k) : LastLine(k) = journal[n]
         /\ StartedLines(k) # {} => \E n \in StartedLines(k) : StartedExec(k) = journal[n].exec
<1>1. /\ Len(journal) \in Nat
      /\ KeyLines(k) \in SUBSET (1..Len(journal)) /\ StartedLines(k) \in SUBSET (1..Len(journal))
  BY DEF KeyLines, StartedLines
<1>2. ASSUME NEW S \in SUBSET (1..Len(journal)), S # {} PROVE Max(S) \in S
  <2>1. \E x \in S : \A y \in S : x >= y
    BY <1>1, <1>2, LargestPosition
  <2> QED BY <2>1 DEF Max
<1> QED BY <1>1, <1>2 DEF LastLine, StartedExec

-----------------------------------------------------------------------------
(* What resolveKey reads and aims at *)

\* A key that needs resolution is undecided, and the call it is about has finished.
LEMMA ResolvableMeans ==
  ASSUME SameHost, TypeInv, OpenIsLast, LinesFit, NEW a \in Admin, NEW k \in Key,
         Resolvable(k, AdminHost(a))
  PROVE  /\ Undecided(k)
         /\ ~CorruptFor(k) /\ StartedExec(k) # Nobody => Finished(StartedExec(k))
<1> USE DEF TypeInv, SystemTypeOK, TypeOK, StoreTypeOK
<1>1. CASE CorruptFor(k)
  BY <1>1 DEF Undecided
<1>2. CASE ~CorruptFor(k)
  <2>1. KeyLines(k) # {} /\ LastState(k, AdminHost(a)) = "needs_resolution"
    BY <1>2 DEF Resolvable, KeyState
  <2>2. PICK m \in KeyLines(k) : LastLine(k) = journal[m]
    BY <2>1, LastIsThere
  <2>3. LastLine(k).type = "started" => LastLine(k).exec \in Invocation
    BY <2>2 DEF LinesFit, Fits, KeyLines
  <2>4. LastLine(k).type = "started" => ~alive[ProcOf[LastLine(k).exec]]
    BY <2>1, <2>3 DEF LastState, OwnerAlive, AdminHost, SameHost, Actor
  <2>5. LastLine(k).type # "started" =>
          LastLine(k).type \in {"failed", "abandonada_sin_determinar"}
    BY <2>1, LastLineType DEF LastState, StateAfter, KeyLine, KeyRecordType, Resolution
  <2>6. Undecided(k)
    BY <2>1, <2>4, <2>5 DEF Undecided
  <2>7. ASSUME StartedExec(k) # Nobody PROVE Finished(StartedExec(k))
    <3>1. StartedLines(k) # {}
      BY <2>7 DEF StartedExec
    <3>2. PICK n \in StartedLines(k) : StartedExec(k) = journal[n].exec
      BY <3>1, LastIsThere
    <3> DEFINE e == StartedExec(k)
    <3>3. e \in Invocation /\ Begun(e) /\ KeyOf[e] = k
      BY <3>2 DEF StartedLines, KeyLines, LinesFit, Fits
    <3> HIDE DEF e
    <3>4. HasKey(e)
      BY <3>3, JournalAssumption DEF HasKey
    <3>5. ~Open(e)
      <4>1. SUFFICES ASSUME Open(e) PROVE FALSE
        OBVIOUS
      <4>2. LastLine(k) = StartedLine(e) /\ alive[ProcOf[e]]
        BY <1>2, <3>3, <4>1 DEF OpenIsLast, Last, Open, Up
      <4>3. LastLine(k).type = "started" /\ LastLine(k).exec = e
        BY <4>2 DEF StartedLine, KeyRecord
      <4> QED BY <2>4, <4>2, <4>3
    <3>6. Finished(e)
      BY <3>3, <3>4, <3>5 DEF Open, Begun, Finished, GateTypeOK, Stage, LockedStage, Phase
    <3> QED BY <3>6 DEF e
  <2> QED BY <2>6, <2>7
<1> QED BY <1>1, <1>2

\* An undecided key stays so while nobody appends, whatever process dies.
LEMMA UndecidedStays ==
  ASSUME TypeInv, LinesFit, journal' = journal, \A p \in Process : alive'[p] => alive[p],
         NEW k \in Key, Undecided(k)
  PROVE  Undecided(k)'
<1>1. CorruptFor(k)' <=> CorruptFor(k)
  BY StandsStill
<1>2. KeyLines(k)' = KeyLines(k) /\ LastLine(k)' = LastLine(k)
  BY StandsStill
<1>3. KeyLines(k) # {} /\ LastLine(k).type = "started" => LastLine(k).exec \in Invocation
  <2>1. SUFFICES ASSUME KeyLines(k) # {}, LastLine(k).type = "started"
                 PROVE  LastLine(k).exec \in Invocation
    OBVIOUS
  <2>2. PICK n \in KeyLines(k) : LastLine(k) = journal[n]
    BY <2>1, LastIsThere DEF TypeInv, SystemTypeOK, TypeOK, StoreTypeOK
  <2> QED BY <2>1, <2>2 DEF KeyLines, LinesFit, Fits
<1>4. \A e \in Invocation : ProcOf[e] \in Process
  BY JournalAssumption DEF Actor
<1> QED BY <1>1, <1>2, <1>3, <1>4 DEF Undecided

LEMMA ReadIsCurrentGate ==
  ASSUME TypeInv, LockHeld, LinesFit, ReadIsCurrent,
         NEW i \in Invocation, GateStep(i), UNCHANGED recoveryVars
  PROVE  ReadIsCurrent'
<1>1. SUFFICES ASSUME NEW a \in Admin, alive[ProcOf[a]], step[a] = "write", IsOp(a, "resolveKey")
               PROVE  Undecided(command[a].key)'
  BY GateStepFrame DEF ReadIsCurrent, recoveryVars, IsOp
<1>2. lock = a
  BY <1>1 DEF LockHeld, InAdminSection
<1>3. journal' = journal
  BY <1>2, GateStepFrame, JournalAssumption
     DEF LockHeld, InGateSection, LockedStage, BeginWrite, AbortWrite, LogWrite, FinishWrite, At
<1>4. PICK k : k = command[a].key
  OBVIOUS
<1>5. k \in Key /\ Undecided(k)
  BY <1>1, <1>4, CommandType DEF ReadIsCurrent, TypeInv, SystemTypeOK
<1>6. Undecided(k)'
  BY <1>3, <1>5, GateStepFrame, UndecidedStays
<1> QED BY <1>4, <1>6 DEF recoveryVars

\* A session's step leaves the others' alone, and the processes.
LEMMA AdminStepFrame ==
  ASSUME TypeInv, NEW a \in Admin, AdminStep(a)
  PROVE  /\ alive' = alive
         /\ \A b \in Admin \ {a} :
              step'[b] = step[b] /\ command'[b] = command[b] /\ target'[b] = target[b]
         /\ ~Runs(a, "write") => journal' = journal
<1> USE DEF TypeInv, SystemTypeOK, RecoveryTypeOK
<1>1. CASE BeginCommand(a) \/ AdminLock(a) \/ ReadKey(a)
  BY <1>1 DEF BeginCommand, BeginResolveKey, InspectClaim, InspectForReconcile, Begins,
       AdminLock, ReadKey, AdminGoTo, Aim, storeVars
<1>2. CASE WriteResolution(a) \/ CheckClaim(a) \/ UnlinkClaim(a) \/ AdminUnlock(a)
  BY <1>2 DEF WriteResolution, WriteKeyResolution, WriteClaimResolution, CheckClaim,
       UnlinkClaim, AdminUnlock, AdminGoTo, storeVars
<1> QED BY <1>1, <1>2 DEF AdminStep

LEMMA ReadIsCurrentAdmin ==
  ASSUME SameHost, "read" \notin Faults, TypeInv, LockHeld, OpenIsLast, LinesFit, ReadIsCurrent,
         NEW b \in Admin, AdminStep(b)
  PROVE  ReadIsCurrent'
<1> USE DEF TypeInv, SystemTypeOK
<1>1. ASSUME NEW a \in Admin \ {b}, alive[ProcOf[a]], step[a] = "write", IsOp(a, "resolveKey")
      PROVE  Undecided(command[a].key)'
  <2>1. lock = a
    BY <1>1 DEF LockHeld, InAdminSection
  <2>2. journal' = journal
    BY <1>1, <2>1, AdminStepFrame DEF LockHeld, InAdminSection, Runs
  <2>3. PICK k : k = command[a].key
    OBVIOUS
  <2>4. k \in Key /\ Undecided(k)
    BY <1>1, <2>3, CommandType DEF ReadIsCurrent
  <2>5. Undecided(k)'
    BY <2>2, <2>4, AdminStepFrame, UndecidedStays
  <2> QED BY <1>1, <2>3, <2>5, AdminStepFrame
<1>2. ASSUME step'[b] = "write", IsOp(b, "resolveKey")' PROVE Undecided(command[b].key)'
  <2>1. ReadKey(b)
    <3>1. ~BeginCommand(b)
      BY <1>2 DEF BeginCommand, BeginResolveKey, InspectClaim, InspectForReconcile, AdminGoTo,
                  RecoveryTypeOK
    <3>2. ~AdminLock(b)
      BY <1>2 DEF AdminLock, AdminGoTo, RecoveryTypeOK, IsOp
    <3>3. ~(WriteResolution(b) \/ CheckClaim(b) \/ UnlinkClaim(b) \/ AdminUnlock(b))
      BY <1>2 DEF WriteResolution, WriteKeyResolution, WriteClaimResolution, CheckClaim,
           UnlinkClaim, AdminUnlock, AfterRelease, AdminGoTo, RecoveryTypeOK
    <3> QED BY <3>1, <3>2, <3>3 DEF AdminStep
  <2>2. Resolvable(command[b].key, AdminHost(b))
    BY <1>2, <2>1 DEF ReadKey, AdminGoTo, Fault, RecoveryTypeOK
  <2>3. PICK k : k = command[b].key
    OBVIOUS
  <2>4. k \in Key
    BY <2>1, <2>3, CommandType DEF ReadKey, Runs
  <2>5. Undecided(k)
    BY <2>2, <2>3, <2>4, ResolvableMeans
  <2>6. journal' = journal /\ command' = command
    BY <2>1 DEF ReadKey
  <2>7. Undecided(k)'
    BY <2>4, <2>5, <2>6, AdminStepFrame, UndecidedStays
  <2> QED BY <2>3, <2>6, <2>7
<1>3. alive' = alive
  BY AdminStepFrame
<1> QED BY <1>1, <1>2, <1>3, AdminStepFrame DEF ReadIsCurrent, IsOp

LEMMA AimsAtFinishedGate ==
  ASSUME TypeInv, AimsAtFinished, NEW i \in Invocation, GateStep(i), UNCHANGED recoveryVars
  PROVE  AimsAtFinished'
<1>1. SUFFICES ASSUME NEW a \in Admin, step[a] # "done", target[a].exec # Nobody
               PROVE  Finished(target[a].exec)'
  BY DEF AimsAtFinished, recoveryVars
<1>2. PICK e : e = target[a].exec
  OBVIOUS
<1>3. e \in Invocation /\ Finished(e)
  BY <1>1, <1>2 DEF AimsAtFinished, TypeInv, SystemTypeOK, RecoveryTypeOK
<1>4. Finished(e)'
  BY <1>3, CallsAdvance
<1> QED BY <1>2, <1>4 DEF recoveryVars, Finished, Up

LEMMA AimsAtFinishedAdmin ==
  ASSUME SameHost, "read" \notin Faults, TypeInv, OpenIsLast, LinesFit, AimsAtFinished,
         NEW b \in Admin, AdminStep(b), UNCHANGED gateVars
  PROVE  AimsAtFinished'
<1> USE DEF TypeInv, SystemTypeOK, TypeOK, StoreTypeOK
<1>1. \A e : Finished(e) => Finished(e)'
  BY AdminStepFrame DEF Finished, Up, gateVars
<1>2. ASSUME NEW a \in Admin \ {b}, step'[a] # "done", target'[a].exec # Nobody
      PROVE  Finished(target'[a].exec)
  BY <1>2, AdminStepFrame DEF AimsAtFinished
<1>3. ASSUME step'[b] # "done", target'[b].exec # Nobody PROVE Finished(target'[b].exec)
  <2>1. step[b] # "done"
    BY DEF AdminStep, BeginCommand, BeginResolveKey, InspectClaim, InspectForReconcile, Begins,
         AdminLock, ReadKey, WriteResolution, WriteKeyResolution, WriteClaimResolution,
         CheckClaim, UnlinkClaim, AdminUnlock, Runs
  <2>2. CASE target'[b] = target[b]
    BY <1>3, <2>1, <2>2 DEF AimsAtFinished
  <2>3. CASE BeginCommand(b) /\ target'[b] # target[b]
    <3>1. PICK c \in Command : InspectClaim(b, c) \/ InspectForReconcile(b, c)
      BY <2>3 DEF BeginCommand, BeginResolveKey
    <3>2. /\ target'[b].exec = claim[c.fp]
          /\ claim[c.fp] \in Invocation \cup {Nobody}
      BY <3>1, RecoveryAssumption DEF InspectClaim, InspectForReconcile, Aim, RecoveryTypeOK
    <3>3. CASE InspectClaim(b, c)
      <4>1. ~OwnerAlive(claim[c.fp], AdminHost(b))
        BY <1>3, <3>3 DEF InspectClaim, AdminGoTo, RecoveryTypeOK
      <4> QED BY <1>3, <3>2, <4>1 DEF OwnerAlive, AdminHost, SameHost, Actor, Finished, Up
    <3>4. CASE InspectForReconcile(b, c)
      <4>1. PICK n \in DOMAIN journal :
              journal[n].type = "execution" /\ journal[n].exec = claim[c.fp]
        BY <1>3, <3>4 DEF InspectForReconcile, AdminGoTo, RecoveryTypeOK
      <4>2. PastLog(claim[c.fp])
        BY <4>1 DEF LinesFit, Fits
      <4> QED BY <3>2, <4>2 DEF PastLog, Finished
    <3> QED BY <3>1, <3>3, <3>4
  <2>4. CASE ReadKey(b) /\ target'[b] # target[b]
    <3>1. command[b].key \in Key
      BY <2>4, CommandType DEF ReadKey, Runs
    <3>2. Resolvable(command[b].key, AdminHost(b)) /\ ~CorruptFor(command[b].key)
      BY <1>3, <2>4 DEF ReadKey, Fault, Aim, RecoveryTypeOK
    <3>3. target'[b].exec = StartedExec(command[b].key)
      BY <2>4, <3>2 DEF ReadKey, Fault, Aim, RecoveryTypeOK
    <3> QED BY <1>3, <3>1, <3>2, <3>3, ResolvableMeans
  <2>5. CASE WriteClaimResolution(b) /\ target'[b] # target[b]
    BY <1>3, <2>5 DEF WriteClaimResolution, NoTarget, RecoveryTypeOK
  <2> QED BY <2>2, <2>3, <2>4, <2>5
      DEF AdminStep, AdminLock, WriteResolution, WriteKeyResolution, CheckClaim, UnlinkClaim,
          AdminUnlock
<1>4. SUFFICES ASSUME NEW a \in Admin, step'[a] # "done", target'[a].exec # Nobody
               PROVE  Finished(target[a].exec)'
  BY DEF AimsAtFinished
<1>5. PICK e : e = target'[a].exec
  OBVIOUS
<1>6. Finished(e)'
  BY <1>1, <1>2, <1>3, <1>4, <1>5
<1> QED BY <1>5, <1>6 DEF Finished, Up

-----------------------------------------------------------------------------
(* The invariant *)

LEMMA AnswerInvInit == SystemInit => AnswerInv
BY DEF SystemInit, StoreInit, GateInit, RecoveryInit, AnswerInv, OpenIsLast, LinesFit,
       ReadIsCurrent, AimsAtFinished, Open, NoTarget

LEMMA AnswerInvStep ==
  ASSUME SameHost, "read" \notin Faults
  PROVE  TypeInv /\ AdmissionInv /\ AnswerInv /\ [SystemNext]_systemVars => AnswerInv'
<1> SUFFICES ASSUME TypeInv, AdmissionInv, AnswerInv, [SystemNext]_systemVars PROVE AnswerInv'
  OBVIOUS
<1>1. LockHeld /\ OpenIsLast /\ LinesFit /\ ReadIsCurrent /\ AimsAtFinished
  BY DEF AdmissionInv, AnswerInv
<1>2. ASSUME NEW i \in Invocation, GateStep(i), UNCHANGED recoveryVars PROVE AnswerInv'
  BY <1>1, <1>2, OpenIsLastGate, LinesFitGate, ReadIsCurrentGate, AimsAtFinishedGate
     DEF AnswerInv
<1>3. ASSUME NEW a \in Admin, AdminStep(a), UNCHANGED gateVars PROVE AnswerInv'
  BY <1>1, <1>3, OpenIsLastAdmin, LinesFitAdmin, ReadIsCurrentAdmin, AimsAtFinishedAdmin
     DEF AnswerInv
<1>4. ASSUME journal' = journal, UNCHANGED gateVars, UNCHANGED recoveryVars,
             \A p \in Process : alive'[p] => alive[p]
      PROVE  AnswerInv'
  <2>1. \A a \in Actor : alive'[ProcOf[a]] => alive[ProcOf[a]]
    BY <1>4, JournalAssumption
  <2>2. OpenIsLast'
    <3>1. ASSUME NEW i \in Invocation, Open(i)' PROVE Open(i)
      BY <1>4, <2>1, <3>1 DEF Open, HasKey, Up, Actor, gateVars
    <3> QED BY <1>1, <1>4, <3>1, StandsStill DEF OpenIsLast
  <2>3. LinesFit'
    BY <1>1, <1>4 DEF LinesFit, Fits, Begun, PastLog, gateVars
  <2>4. ReadIsCurrent'
    <3>1. SUFFICES ASSUME NEW a \in Admin, alive'[ProcOf[a]], step[a] = "write",
                          IsOp(a, "resolveKey")
                   PROVE  Undecided(command[a].key)'
      BY <1>4 DEF ReadIsCurrent, recoveryVars, IsOp
    <3>2. PICK k : k = command[a].key
      OBVIOUS
    <3>3. k \in Key /\ Undecided(k)
      BY <1>1, <2>1, <3>1, <3>2, CommandType
         DEF ReadIsCurrent, TypeInv, SystemTypeOK, Actor
    <3>4. Undecided(k)'
      BY <1>1, <1>4, <3>3, UndecidedStays
    <3> QED BY <1>4, <3>2, <3>4 DEF recoveryVars
  <2>5. AimsAtFinished'
    <3>1. SUFFICES ASSUME NEW a \in Admin, step[a] # "done", target[a].exec # Nobody
                   PROVE  Finished(target[a].exec)'
      BY <1>4 DEF AimsAtFinished, recoveryVars
    <3>2. PICK e : e = target[a].exec
      OBVIOUS
    <3>3. e \in Invocation /\ Finished(e)
      BY <1>1, <3>1, <3>2 DEF AimsAtFinished, TypeInv, SystemTypeOK, RecoveryTypeOK
    <3>4. Finished(e)'
      BY <1>4, <2>1, <3>3 DEF Finished, Up, Actor, gateVars
    <3> QED BY <1>4, <3>2, <3>4 DEF recoveryVars, Finished, Up
  <2> QED BY <2>2, <2>3, <2>4, <2>5 DEF AnswerInv
<1>5. ASSUME NEW p \in Process, Crash(p), UNCHANGED recoveryVars PROVE AnswerInv'
  BY <1>4, <1>5 DEF Crash, Die, TypeInv, SystemTypeOK, TypeOK, StoreTypeOK
<1>6. ASSUME DeleteStaleLock, UNCHANGED gateVars PROVE AnswerInv'
  BY <1>4, <1>6 DEF DeleteStaleLock
<1>7. CASE UNCHANGED systemVars
  BY <1>4, <1>7 DEF systemVars, storeVars
<1> QED BY <1>2, <1>3, <1>5, <1>6, <1>7 DEF SystemNext

\* On one host, with a journal that can be read, no operator's command frees the claim of
\* a call that still runs its executor or is about to: not after any death, failed
\* append or deleted lock.
THEOREM AimsCorrect ==
  ASSUME SameHost, "read" \notin Faults
  PROVE  SystemSpec => []OperatorAimsAtFinished
<1>1. TypeInv /\ AnswerInv => OperatorAimsAtFinished
  <2> SUFFICES ASSUME TypeInv, AnswerInv, NEW a \in Admin, step[a] = "unlink",
                      NEW i \in Invocation, i = target[a].exec, Up(i),
                      stage[i] \in {"claim", "invoke", "executing"}
               PROVE  FALSE
    BY DEF OperatorAimsAtFinished
  <2>1. i # Nobody
    BY JournalAssumption DEF Actor
  <2>2. Finished(i)
    BY <2>1 DEF AnswerInv, AimsAtFinished
  <2> QED BY <2>2 DEF Finished
<1> QED BY <1>1, TypeInvInit, TypeInvStep, AdmissionInit, AdmissionStep, AnswerInvInit,
           AnswerInvStep, PTL DEF SystemSpec

-----------------------------------------------------------------------------
(* Answers are final *)

\* What is cached is neither open nor undecided.
LEMMA CachedIsClosed ==
  ASSUME NEW k \in Key, Cached(k), AnswerInv
  PROVE  /\ \A i \in Invocation : KeyOf[i] = k => ~Open(i)
         /\ ~Undecided(k) /\ ~Reopens(k)
<1>1. ASSUME NEW i \in Invocation, KeyOf[i] = k PROVE ~Open(i)
  <2>1. Open(i) => CorruptFor(k) \/ Last(k, StartedLine(i))
    BY <1>1 DEF AnswerInv, OpenIsLast
  <2>2. StartedLine(i).type = "started"
    BY DEF StartedLine, KeyRecord
  <2> QED BY <2>1, <2>2 DEF Cached, Last
<1>2. ~Undecided(k) /\ ~Reopens(k)
  BY DEF Undecided, Reopens, Cached
<1> QED BY <1>1, <1>2

LEMMA CachedKept ==
  ASSUME TypeInv, NEW rec \in KeyLine \cup Phase1Line, NEW written \in BOOLEAN,
         WriteLine(rec, written), NEW k \in Key, rec.key # k, Cached(k)
  PROVE  Cached(k)' \/ CorruptFor(k)'
<1>1. PICK x : x = LastLine(k)
  OBVIOUS
<1>2. Last(k, x) /\ x.type \in {"completed", "efecto_confirmado"}
  BY <1>1 DEF Cached, Last
<1>3. Last(k, x)'
  BY <1>2, AppendKeeps DEF TypeInv, SystemTypeOK, TypeOK, StoreTypeOK
<1> QED BY <1>2, <1>3 DEF Cached, Last

LEMMA CachedGate ==
  ASSUME TypeInv, AdmissionInv, AnswerInv, NEW i \in Invocation, GateStep(i),
         NEW k \in Key, Cached(k)
  PROVE  (Cached(k)' \/ CorruptFor(k)') /\ RunsOf(k)' = RunsOf(k)
<1>1. Cached(k)' \/ CorruptFor(k)'
  <2>1. CASE journal' = journal
    BY <2>1, StandsStill
  <2>2. CASE journal' # journal
    <3>1. PICK rec \in KeyLine \cup Phase1Line, written \in BOOLEAN :
            /\ WriteLine(rec, written)
            /\ \/ BeginWrite(i) /\ rec.key = KeyOf[i]
               \/ (AbortWrite(i) \/ FinishWrite(i)) /\ rec.key = KeyOf[i]
               \/ rec.key = NoKey
      BY <2>2, GateLine DEF StartedLine, KeyRecord
    <3>2. rec.key # k
      <4>1. SUFFICES ASSUME rec.key = k PROVE FALSE
        OBVIOUS
      <4>2. k # NoKey
        BY JournalAssumption
      <4>3. CASE BeginWrite(i) /\ KeyOf[i] = k
        BY <4>3, CachedIsClosed DEF AdmissionInv, DecisionIsCurrent, BeginWrite, At
      <4>4. CASE (AbortWrite(i) \/ FinishWrite(i)) /\ KeyOf[i] = k
        BY <4>2, <4>4, CachedIsClosed DEF AbortWrite, FinishWrite, At, Open, HasKey
      <4> QED BY <3>1, <4>1, <4>2, <4>3, <4>4
    <3> QED BY <3>1, <3>2, CachedKept
  <2> QED BY <2>1, <2>2
<1>2. RunsOf(k)' = RunsOf(k)
  <2>1. ASSUME NEW j \in Invocation, KeyOf[j] = k PROVE Invoked(j)' <=> Invoked(j)
    <3>1. CASE j # i
      BY <3>1, GateStepFrame DEF Invoked
    <3>2. CASE j = i
      <4>1. ~Open(i) /\ HasKey(i)
        BY <2>1, <3>2, CachedIsClosed, JournalAssumption DEF HasKey
      <4>2. ~Invoke(i) /\ ~ExecutorReturns(i)
        BY <4>1 DEF Invoke, ExecutorReturns, Open
      <4>3. outcome' = outcome
        BY <4>2 DEF GateStep, Continue, Start, LockStep, LockAcquired, LockUnavailable,
          LockFails, Unlock, BeginStep, BeginRead, BeginWrite, RunStep, ClaimInflight, AbortWrite,
          EndStep, LogWrite, FinishWrite, ReleaseRead, ReleaseUnlink
      <4> QED BY <3>2, <4>3 DEF Invoked
    <3> QED BY <3>1, <3>2
  <2> QED BY <2>1 DEF RunsOf
<1> QED BY <1>1, <1>2

LEMMA CachedAdmin ==
  ASSUME TypeInv, AnswerInv, NEW a \in Admin, AdminStep(a), UNCHANGED gateVars,
         NEW k \in Key, Cached(k)
  PROVE  (Cached(k)' \/ CorruptFor(k)') /\ RunsOf(k)' = RunsOf(k)
<1>1. RunsOf(k)' = RunsOf(k)
  BY DEF RunsOf, Invoked, gateVars
<1>2. CASE journal' = journal
  BY <1>1, <1>2, StandsStill
<1>3. CASE journal' # journal
  <2>1. PICK rec \in KeyLine \cup Phase1Line, written \in BOOLEAN :
          /\ WriteLine(rec, written)
          /\ \/ Runs(a, "write") /\ IsOp(a, "resolveKey") /\ rec.key = command[a].key
             \/ rec.key = NoKey
    BY <1>3, AdminLine
  <2>2. rec.key # k
    BY <2>1, CachedIsClosed, JournalAssumption DEF AnswerInv, ReadIsCurrent, Runs
  <2> QED BY <1>1, <2>1, <2>2, CachedKept
<1> QED BY <1>2, <1>3

\* On one host, with a journal that can be read, an answer taken from the journal stays:
\* the only thing that can happen to it is that its line becomes part of a corrupt
\* journal, and then the key is blocked.
THEOREM AnswersFinal ==
  ASSUME SameHost, "read" \notin Faults
  PROVE  SystemSpec => CachedIsFinal
<1> DEFINE Kept == \A k \in Key : Cached(k) =>
                     /\ Cached(k)' \/ CorruptFor(k)'
                     /\ RunsOf(k)' = RunsOf(k)
<1>1. TypeInv /\ AdmissionInv /\ AnswerInv /\ [SystemNext]_systemVars => [Kept]_systemVars
  <2> SUFFICES ASSUME TypeInv, AdmissionInv, AnswerInv, SystemNext PROVE Kept
    OBVIOUS
  <2>1. ASSUME NEW i \in Invocation, GateStep(i) PROVE Kept
    BY <2>1, CachedGate
  <2>2. ASSUME NEW a \in Admin, AdminStep(a), UNCHANGED gateVars PROVE Kept
    BY <2>2, CachedAdmin
  <2>3. ASSUME journal' = journal, UNCHANGED gateVars PROVE Kept
    <3>1. \A k \in Key : RunsOf(k)' = RunsOf(k)
      BY <2>3 DEF RunsOf, Invoked, gateVars
    <3> QED BY <2>3, <3>1, StandsStill
  <2>4. ASSUME NEW p \in Process, Crash(p) PROVE Kept
    BY <2>3, <2>4 DEF Crash, Die
  <2>5. ASSUME DeleteStaleLock, UNCHANGED gateVars PROVE Kept
    BY <2>3, <2>5 DEF DeleteStaleLock
  <2> QED BY <2>1, <2>2, <2>4, <2>5 DEF SystemNext
<1>2. (CachedIsFinal <=> [][Kept]_systemVars)
  BY DEF CachedIsFinal
<1> HIDE DEF Kept
<1> QED BY <1>1, <1>2, TypeInvInit, TypeInvStep, AdmissionInit, AdmissionStep, AnswerInvInit,
           AnswerInvStep, PTL DEF SystemSpec

=============================================================================
