-------------------------- MODULE StateStore_proofs --------------------------
(***************************************************************************)
(* Theorems about StateStore, for any number of commands, caps of any size     *)
(* and any number of faults.                                                *)
(***************************************************************************)
EXTENDS StateStore, SequenceTheorems, TLAPS

USE StateAssumption DEF Call

-----------------------------------------------------------------------------
(* slice(-cap) *)

\* Part of a list without its beginning.
EndOf(part, whole) ==
  \E shift \in Nat : \A n \in DOMAIN part :
    n + shift \in DOMAIN whole /\ part[n] = whole[n + shift]

LEMMA NewestProperties ==
  ASSUME NEW S, NEW s \in Seq(S), NEW cap \in Nat \ {0}
  PROVE  /\ Newest(s, cap) \in Seq(S)
         /\ Len(Newest(s, cap)) <= cap
         /\ EndOf(Newest(s, cap), s)
<1> DEFINE m == IF Len(s) > cap THEN Len(s) - cap + 1 ELSE 1
<1>1. Len(s) \in Nat /\ DOMAIN s = 1 .. Len(s)
  BY LenProperties
<1>2. m \in 1 .. Len(s) + 1 /\ Len(s) + 1 - m <= cap /\ m - 1 \in Nat
  BY <1>1
<1>3. /\ SubSeq(s, m, Len(s)) \in Seq(S)
      /\ Len(SubSeq(s, m, Len(s))) = IF m <= Len(s) THEN Len(s) - m + 1 ELSE 0
      /\ \A i \in 1 .. Len(s) - m + 1 : SubSeq(s, m, Len(s))[i] = s[m + i - 1]
  BY <1>1, <1>2, SubSeqProperties
<1>4. DOMAIN SubSeq(s, m, Len(s)) = 1 .. Len(s) + 1 - m
  BY <1>1, <1>2, <1>3, LenProperties
<1>5. \A n \in 1 .. Len(s) + 1 - m :
        n + (m - 1) \in 1 .. Len(s) /\ SubSeq(s, m, Len(s))[n] = s[n + (m - 1)]
  <2> HIDE DEF m
  <2> QED BY <1>1, <1>2, <1>3
<1>6. Newest(s, cap) = SubSeq(s, m, Len(s))
  BY DEF Newest
<1> HIDE DEF m
<1>7. m - 1 \in Nat /\ \A n \in DOMAIN Newest(s, cap) :
        n + (m - 1) \in DOMAIN s /\ Newest(s, cap)[n] = s[n + (m - 1)]
  BY <1>1, <1>2, <1>4, <1>5, <1>6
<1>8. Len(Newest(s, cap)) <= cap
  BY <1>1, <1>2, <1>3, <1>6
<1>9. EndOf(Newest(s, cap), s)
  BY <1>7 DEF EndOf
<1> QED BY <1>3, <1>6, <1>8, <1>9

-----------------------------------------------------------------------------
(* Types *)

\* Which commands are at which update.
StagesFit ==
  \A c \in Call :
    /\ stage[c] = "scan" => c \in Doctor
    /\ stage[c] = "history" => c \in Act /\ result[c] = "success"
    /\ stage[c] = "evidence" => c \in Act

TypeInv == TypeOK /\ StagesFit

LEMMA StateFields ==
  /\ \A s \in State :
       s.whole \in BOOLEAN /\ s.history \in Seq(Act) /\ s.evidence \in Seq(EvidenceRecord)
         /\ s.scan \in Doctor \cup {NoCall}
  /\ \A s \in State, h \in Seq(Act) : [s EXCEPT !.history = h] \in State
  /\ \A s \in State, e \in Seq(EvidenceRecord) : [s EXCEPT !.evidence = e] \in State
  /\ \A s \in State, d \in Doctor : [s EXCEPT !.scan = d] \in State
  /\ \A s \in State : [s EXCEPT !.whole = FALSE] \in State
BY DEF State

LEMMA LevelType == \A r : LevelOf(r) \in Level
BY DEF LevelOf, Level

LEMMA PatchType ==
  ASSUME TypeInv, NEW c \in Call, At(c, "write")
  PROVE  Patched(c) \in State
<1>1. loaded[c] \in State /\ current[c] \in State
  BY DEF TypeInv, TypeOK
<1>2. CASE stage[c] = "history"
  <2>1. Append(loaded[c].history, c) \in Seq(Act)
    BY <1>1, <1>2, StateFields DEF TypeInv, StagesFit
  <2>2. History(c) \in Seq(Act)
    BY <2>1, NewestProperties DEF History
  <2> QED BY <1>1, <1>2, <2>2, StateFields DEF Patched
<1>3. CASE stage[c] = "evidence"
  <2>1. [call |-> c, level |-> LevelOf(result[c])] \in EvidenceRecord
    BY <1>3, LevelType DEF TypeInv, StagesFit, EvidenceRecord
  <2>2. Append(loaded[c].evidence, [call |-> c, level |-> LevelOf(result[c])]) \in Seq(EvidenceRecord)
    BY <1>1, <2>1, StateFields
  <2>3. Evidence(c) \in Seq(EvidenceRecord)
    BY <2>2, NewestProperties DEF Evidence
  <2> QED BY <1>1, <1>3, <2>3, StateFields DEF Patched
<1>4. CASE stage[c] = "scan"
  BY <1>1, <1>4, StateFields DEF Patched, TypeInv, StagesFit
<1> QED BY <1>2, <1>3, <1>4 DEF At

LEMMA TypeInvInit == Init => TypeInv
BY DEF Init, TypeInv, TypeOK, StagesFit, DefaultState, State, Result, Stage, Step

LEMMA TypeInvStep == TypeInv /\ [Next]_vars => TypeInv'
<1> SUFFICES ASSUME TypeInv, [Next]_vars PROVE TypeInv'
  OBVIOUS
<1> USE DEF TypeInv, TypeOK, StagesFit, Stage, Step, Result
<1>1. ASSUME NEW c \in Call, Begin(c) PROVE TypeInv'
  BY <1>1 DEF Begin, Enter
<1>2. ASSUME NEW c \in Call, Load(c) PROVE TypeInv'
  BY <1>2 DEF Load, At, Proceed, Report, Enter, NextStage, Fault
<1>3. ASSUME NEW c \in Call, LockAcquired(c) PROVE TypeInv'
  BY <1>3 DEF LockAcquired, At, Proceed
<1>4. ASSUME NEW c \in Call, LockTimesOut(c) \/ LockFails(c) PROVE TypeInv'
  BY <1>4 DEF LockTimesOut, LockFails, At, Report, Enter, NextStage, Fault
<1>5. ASSUME NEW c \in Call, Read(c) PROVE TypeInv'
  BY <1>5 DEF Read, At, Proceed, Report, Fault
<1>6. ASSUME NEW c \in Call, Write(c) PROVE TypeInv'
  <2>1. Patched(c) \in State
    BY <1>6, PatchType DEF Write
  <2> QED BY <1>6, <2>1 DEF Write, At, Proceed, Report, Fault
<1>7. ASSUME NEW c \in Call, Unlock(c) PROVE TypeInv'
  BY <1>7 DEF Unlock, At, Enter, NextStage
<1>8. ASSUME NEW c \in Call, Crash(c) PROVE TypeInv'
  BY <1>8 DEF Crash, Fault
<1>9. CASE Damage
  BY <1>9, StateFields DEF Damage, Fault
<1>10. CASE UNCHANGED vars
  BY <1>10 DEF vars
<1> QED BY <1>1, <1>2, <1>3, <1>4, <1>5, <1>6, <1>7, <1>8, <1>9, <1>10 DEF Next, Update

\* Every variable keeps its type: whatever a command writes over state.json is a state.
THEOREM StoreTypeCorrect == Spec => []TypeOK
<1>1. TypeInv => TypeOK
  BY DEF TypeInv
<1> QED BY <1>1, TypeInvInit, TypeInvStep, PTL DEF Spec

-----------------------------------------------------------------------------
(* The lock *)

\* Who reads or writes the file for an update holds the lock; and between its reading
\* and its writing the file is as it was read.
LockInv ==
  \A c \in Call :
    /\ \A s \in {"read", "write", "unlock"} : At(c, s) => stateLock = c
    /\ At(c, "write") => file.whole /\ current[c] = file

StoreInv == TypeInv /\ LockInv

LEMMA LockInvInit == Init => LockInv
BY DEF Init, LockInv, At

LEMMA LockInvStep == StoreInv /\ [Next]_vars => LockInv'
<1> SUFFICES ASSUME TypeInv, LockInv, [Next]_vars PROVE LockInv'
  BY DEF StoreInv
<1> USE DEF TypeInv, TypeOK, LockInv, At
<1>1. ASSUME NEW c \in Call, Begin(c) PROVE LockInv'
  BY <1>1 DEF Begin, Enter
<1>2. ASSUME NEW c \in Call, Load(c) PROVE LockInv'
  BY <1>2 DEF Load, Proceed, Enter, NextStage
<1>3. ASSUME NEW c \in Call, LockAcquired(c) PROVE LockInv'
  BY <1>3 DEF LockAcquired, Proceed
<1>4. ASSUME NEW c \in Call, LockTimesOut(c) PROVE LockInv'
  BY <1>4 DEF LockTimesOut, Enter, NextStage
<1>5. ASSUME NEW c \in Call, LockFails(c) PROVE LockInv'
  BY <1>5 DEF LockFails, Enter, NextStage
<1>6. ASSUME NEW c \in Call, Read(c) PROVE LockInv'
  BY <1>6 DEF Read, Proceed
<1>7. ASSUME NEW c \in Call, Write(c) PROVE LockInv'
  BY <1>7 DEF Write, Proceed
<1>8. ASSUME NEW c \in Call, Unlock(c) PROVE LockInv'
  BY <1>8 DEF Unlock, Enter, NextStage
<1>9. ASSUME NEW c \in Call, Crash(c) PROVE LockInv'
  BY <1>9 DEF Crash
<1>10. CASE Damage
  BY <1>10 DEF Damage
<1>11. CASE UNCHANGED vars
  BY <1>11 DEF vars
<1> QED BY <1>1, <1>2, <1>3, <1>4, <1>5, <1>6, <1>7, <1>8, <1>9, <1>10, <1>11 DEF Next, Update

LEMMA StoreInvInit == Init => StoreInv
BY TypeInvInit, LockInvInit DEF StoreInv

LEMMA StoreInvStep == StoreInv /\ [Next]_vars => StoreInv'
BY TypeInvStep, LockInvStep DEF StoreInv

\* The file changes by the write of a command that has just read it, or by damage.
LEMMA FileChanges ==
  ASSUME StoreInv, [Next]_vars, file' # file
  PROVE  \/ \E c \in Call : At(c, "write") /\ file.whole /\ current[c] = file /\ file' = Patched(c)
         \/ file' = [file EXCEPT !.whole = FALSE]
<1>1. ASSUME NEW c \in Call, Begin(c) \/ Crash(c) PROVE file' = file
  BY <1>1 DEF Begin, Crash
<1>2. ASSUME NEW c \in Call, Update(c), ~Write(c) PROVE file' = file
  BY <1>2 DEF Update, Load, LockAcquired, LockTimesOut, LockFails, Read, Unlock
<1>3. ASSUME NEW c \in Call, Write(c) PROVE At(c, "write") /\ file' \in {file, Patched(c)}
  BY <1>3 DEF Write
<1>4. CASE Damage
  BY <1>4 DEF Damage
<1>5. CASE UNCHANGED vars
  BY <1>5 DEF vars
<1> QED BY <1>1, <1>2, <1>3, <1>4, <1>5 DEF Next, StoreInv, LockInv

\* A state.json that cannot be parsed is never overwritten.
THEOREM CorruptKept == Spec => CorruptIsKept
<1>1. StoreInv /\ [Next]_vars => (~file.whole => ~file'.whole)
  <2> SUFFICES ASSUME StoreInv, [Next]_vars, ~file.whole, file' # file PROVE ~file'.whole
    OBVIOUS
  <2>1. file' = [file EXCEPT !.whole = FALSE]
    BY FileChanges
  <2> QED BY <2>1 DEF StoreInv, TypeInv, TypeOK, State
<1>2. StoreInv /\ [Next]_vars => [~file.whole => ~file'.whole]_vars
  BY <1>1
<1> QED BY <1>2, StoreInvInit, StoreInvStep, PTL DEF Spec, CorruptIsKept

\* An action that runs beside a scan does not lose its date: the patch of an action goes
\* over the state it read under the lock.
THEOREM ScanKept == Spec => ScanIsKept
<1> DEFINE Kept == \A d \in Doctor : file.scan = d /\ file'.scan # d =>
                     file'.scan \in Doctor /\ step[file'.scan] = "write"
<1>1. StoreInv /\ [Next]_vars => Kept
  <2> SUFFICES ASSUME StoreInv, [Next]_vars,
                      NEW d \in Doctor, file.scan = d, file'.scan # d
               PROVE  file'.scan \in Doctor /\ step[file'.scan] = "write"
    OBVIOUS
  <2>1. file \in State
    BY DEF StoreInv, TypeInv, TypeOK
  <2>2. file' # [file EXCEPT !.whole = FALSE]
    BY <2>1 DEF State
  <2>3. PICK c \in Call : At(c, "write") /\ current[c] = file /\ file' = Patched(c)
    BY <2>2, FileChanges
  <2>4. stage[c] = "scan"
    BY <2>1, <2>3 DEF At, Patched, State
  <2>5. c \in Doctor /\ file'.scan = c
    BY <2>1, <2>3, <2>4 DEF Patched, State, StoreInv, TypeInv, StagesFit
  <2> QED BY <2>3, <2>5 DEF At
<1>2. StoreInv /\ [Next]_vars => [Kept]_vars
  BY <1>1
<1> QED BY <1>2, StoreInvInit, StoreInvStep, PTL DEF Spec, ScanIsKept

-----------------------------------------------------------------------------
(* The lists, as facts about a state s and the places stg and stp of the calls *)

\* The call has yet to write its entry, so no list has one.
OwesHistory(c, stg, stp) == stg[c] = "ready" \/ (stg[c] = "history" /\ stp[c] # "unlock")
OwesEvidence(c, stg, stp) ==
  stg[c] \in {"ready", "history"} \/ (stg[c] = "evidence" /\ stp[c] # "unlock")

HistoryTrue(s, res) ==
  /\ \A m, n \in DOMAIN s.history : s.history[m] = s.history[n] => m = n
  /\ \A n \in DOMAIN s.history : res[s.history[n]] = "success"

EvidenceTrue(s, res) ==
  /\ \A m, n \in DOMAIN s.evidence : s.evidence[m].call = s.evidence[n].call => m = n
  /\ \A n \in DOMAIN s.evidence : LevelOf(res[s.evidence[n].call]) = s.evidence[n].level

NoneOwed(s, stg, stp) ==
  /\ \A n \in DOMAIN s.history : ~OwesHistory(s.history[n], stg, stp)
  /\ \A n \in DOMAIN s.evidence : ~OwesEvidence(s.evidence[n].call, stg, stp)

Sound(s, res, stg, stp) == HistoryTrue(s, res) /\ EvidenceTrue(s, res) /\ NoneOwed(s, stg, stp)

\* A list that was true stays true when calls only pay what they owe, and what a call
\* answered is settled while it owes both.
LEMMA SoundKept ==
  ASSUME NEW s \in State, NEW res, NEW stg, NEW stp, NEW res2, NEW stg2, NEW stp2,
         Sound(s, res, stg, stp),
         \A c \in Act : OwesHistory(c, stg2, stp2) => OwesHistory(c, stg, stp),
         \A c \in Act : OwesEvidence(c, stg2, stp2) => OwesEvidence(c, stg, stp),
         \A c \in Act : res2[c] # res[c] => OwesHistory(c, stg, stp) /\ OwesEvidence(c, stg, stp)
  PROVE  Sound(s, res2, stg2, stp2)
<1>1. \A n \in DOMAIN s.history : s.history[n] \in Act
  BY StateFields, ElementOfSeq, LenProperties
<1>2. \A n \in DOMAIN s.evidence : s.evidence[n] \in EvidenceRecord
  BY StateFields, ElementOfSeq, LenProperties
<1>3. \A n \in DOMAIN s.evidence : s.evidence[n].call \in Act
  BY <1>2 DEF EvidenceRecord
<1>4. HistoryTrue(s, res2)
  BY <1>1 DEF Sound, HistoryTrue, NoneOwed
<1>5. EvidenceTrue(s, res2)
  BY <1>3 DEF Sound, EvidenceTrue, NoneOwed
<1>6. NoneOwed(s, stg2, stp2)
  BY <1>1, <1>3 DEF Sound, NoneOwed
<1> QED BY <1>4, <1>5, <1>6 DEF Sound

\* An end of l, and e behind it.
EndAnd(part, l, e) ==
  \E shift \in Nat : \A n \in DOMAIN part :
    /\ n \in Nat
    /\ \/ n + shift \in DOMAIN l /\ part[n] = l[n + shift]
       \/ n + shift = Len(l) + 1 /\ part[n] = e

LEMMA AddedProperties ==
  ASSUME NEW S, NEW l \in Seq(S), NEW e \in S, NEW cap \in Nat \ {0}
  PROVE  EndAnd(Newest(Append(l, e), cap), l, e)
<1> DEFINE added == Append(l, e)
<1>1. /\ added \in Seq(S)
      /\ Len(l) \in Nat /\ DOMAIN l = 1 .. Len(l)
      /\ Len(added) = Len(l) + 1 /\ DOMAIN added = 1 .. Len(l) + 1
      /\ \A n \in 1 .. Len(l) : added[n] = l[n]
      /\ added[Len(l) + 1] = e
  BY AppendProperties, LenProperties
<1>2. DOMAIN Newest(added, cap) = 1 .. Len(Newest(added, cap))
      /\ Len(Newest(added, cap)) \in Nat
  BY <1>1, NewestProperties, LenProperties
<1> HIDE DEF added
<1>3. PICK shift \in Nat : \A n \in DOMAIN Newest(added, cap) :
        n + shift \in DOMAIN added /\ Newest(added, cap)[n] = added[n + shift]
  <2>1. EndOf(Newest(added, cap), added)
    BY <1>1, NewestProperties
  <2> QED BY <2>1 DEF EndOf
<1>4. \A n \in DOMAIN Newest(added, cap) :
        /\ n \in Nat
        /\ \/ n + shift \in DOMAIN l /\ Newest(added, cap)[n] = l[n + shift]
           \/ n + shift = Len(l) + 1 /\ Newest(added, cap)[n] = e
  BY <1>1, <1>2, <1>3
<1> QED BY <1>4 DEF added, EndAnd

\* Writing a call's entry behind a true list.
LEMMA HistoryAdded ==
  ASSUME NEW s \in State, NEW t \in State, NEW res, NEW stg, NEW stp \in [Call -> Step],
         Sound(s, res, stg, stp), Sound(t, res, stg, stp),
         NEW c \in Act, stg[c] = "history", stp[c] = "write", res[c] = "success"
  PROVE  Sound([t EXCEPT !.history = Newest(Append(s.history, c), HistoryCap)],
               res, stg, [stp EXCEPT ![c] = "unlock"])
<1> DEFINE new == Newest(Append(s.history, c), HistoryCap)
           u == [t EXCEPT !.history = new]
           stp2 == [stp EXCEPT ![c] = "unlock"]
<1>1. s.history \in Seq(Act) /\ t.evidence \in Seq(EvidenceRecord)
  BY StateFields
<1>2. PICK shift \in Nat : \A n \in DOMAIN new :
        /\ n \in Nat
        /\ \/ n + shift \in DOMAIN s.history /\ new[n] = s.history[n + shift]
           \/ n + shift = Len(s.history) + 1 /\ new[n] = c
  <2>1. EndAnd(new, s.history, c)
    BY <1>1, AddedProperties
  <2> HIDE DEF new
  <2> QED BY <2>1 DEF EndAnd
<1>3. u.history = new /\ u.evidence = t.evidence
  BY DEF State
<1>4. \A n \in DOMAIN s.history : s.history[n] # c
  BY DEF Sound, NoneOwed, OwesHistory
<1>5. \A d \in Act : OwesHistory(d, stg, stp2) => OwesHistory(d, stg, stp) /\ d # c
  BY DEF OwesHistory
<1>6. \A d \in Act : OwesEvidence(d, stg, stp2) => OwesEvidence(d, stg, stp)
  BY DEF OwesEvidence
<1>7. \A n \in DOMAIN s.history : s.history[n] \in Act
  BY <1>1, ElementOfSeq, LenProperties
<1>8. Len(s.history) + 1 \notin DOMAIN s.history /\ Len(s.history) \in Nat
      /\ DOMAIN s.history \subseteq Nat
  BY <1>1, LenProperties
<1> HIDE DEF new, stp2, u
<1>9. \A m, n \in DOMAIN new : new[m] = new[n] => m = n
  <2> SUFFICES ASSUME NEW m \in DOMAIN new, NEW n \in DOMAIN new, new[m] = new[n] PROVE m = n
    OBVIOUS
  <2>1. m + shift = n + shift
    BY <1>2, <1>4 DEF Sound, HistoryTrue
  <2> QED BY <1>2, <2>1
<1>10. \A n \in DOMAIN new : res[new[n]] = "success"
  BY <1>2 DEF Sound, HistoryTrue
<1>11. \A n \in DOMAIN new : ~OwesHistory(new[n], stg, stp2)
  BY <1>2, <1>5, <1>7 DEF Sound, NoneOwed
<1>12. \A n \in DOMAIN t.evidence : t.evidence[n].call \in Act
  <2>1. \A n \in DOMAIN t.evidence : t.evidence[n] \in EvidenceRecord
    BY <1>1, ElementOfSeq, LenProperties
  <2> QED BY <2>1 DEF EvidenceRecord
<1>13. \A n \in DOMAIN t.evidence : ~OwesEvidence(t.evidence[n].call, stg, stp2)
  BY <1>6, <1>12 DEF Sound, NoneOwed
<1>14. Sound(u, res, stg, stp2)
  BY <1>3, <1>9, <1>10, <1>11, <1>13 DEF Sound, HistoryTrue, EvidenceTrue, NoneOwed
<1> QED BY <1>14 DEF new, u, stp2

LEMMA EvidenceAdded ==
  ASSUME NEW s \in State, NEW t \in State, NEW res, NEW stg, NEW stp \in [Call -> Step],
         Sound(s, res, stg, stp), Sound(t, res, stg, stp),
         NEW c \in Act, stg[c] = "evidence", stp[c] = "write"
  PROVE  Sound([t EXCEPT !.evidence =
                  Newest(Append(s.evidence, [call |-> c, level |-> LevelOf(res[c])]), EvidenceCap)],
               res, stg, [stp EXCEPT ![c] = "unlock"])
<1> DEFINE entry == [call |-> c, level |-> LevelOf(res[c])]
           new == Newest(Append(s.evidence, entry), EvidenceCap)
           u == [t EXCEPT !.evidence = new]
           stp2 == [stp EXCEPT ![c] = "unlock"]
<1>1. s.evidence \in Seq(EvidenceRecord) /\ t.history \in Seq(Act)
  BY StateFields
<1>2. entry \in EvidenceRecord /\ entry.call = c /\ entry.level = LevelOf(res[c])
  BY LevelType DEF EvidenceRecord
<1> HIDE DEF entry
<1>3. PICK shift \in Nat : \A n \in DOMAIN new :
        /\ n \in Nat
        /\ \/ n + shift \in DOMAIN s.evidence /\ new[n] = s.evidence[n + shift]
           \/ n + shift = Len(s.evidence) + 1 /\ new[n] = entry
  <2>1. EndAnd(new, s.evidence, entry)
    BY <1>1, <1>2, AddedProperties
  <2> HIDE DEF new
  <2> QED BY <2>1 DEF EndAnd
<1>4. u.evidence = new /\ u.history = t.history
  BY DEF State
<1>5. \A n \in DOMAIN s.evidence : s.evidence[n].call # c
  BY DEF Sound, NoneOwed, OwesEvidence
<1>6. \A d \in Act : OwesEvidence(d, stg, stp2) => OwesEvidence(d, stg, stp) /\ d # c
  BY DEF OwesEvidence
<1>7. \A d \in Act : OwesHistory(d, stg, stp2) => OwesHistory(d, stg, stp)
  BY DEF OwesHistory
<1>8. \A n \in DOMAIN s.evidence : s.evidence[n].call \in Act
  <2>1. \A n \in DOMAIN s.evidence : s.evidence[n] \in EvidenceRecord
    BY <1>1, ElementOfSeq, LenProperties
  <2> QED BY <2>1 DEF EvidenceRecord
<1>9. Len(s.evidence) + 1 \notin DOMAIN s.evidence /\ Len(s.evidence) \in Nat
      /\ DOMAIN s.evidence \subseteq Nat
  BY <1>1, LenProperties
<1> HIDE DEF new, stp2, u
<1>10. \A m, n \in DOMAIN new : new[m].call = new[n].call => m = n
  <2> SUFFICES ASSUME NEW m \in DOMAIN new, NEW n \in DOMAIN new, new[m].call = new[n].call
               PROVE  m = n
    OBVIOUS
  <2>1. m + shift = n + shift
    BY <1>2, <1>3, <1>5 DEF Sound, EvidenceTrue
  <2> QED BY <1>3, <2>1
<1>11. \A n \in DOMAIN new : LevelOf(res[new[n].call]) = new[n].level
  BY <1>2, <1>3 DEF Sound, EvidenceTrue
<1>12. \A n \in DOMAIN new : ~OwesEvidence(new[n].call, stg, stp2)
  BY <1>2, <1>3, <1>6, <1>8 DEF Sound, NoneOwed
<1>13. \A n \in DOMAIN t.history : t.history[n] \in Act
  BY <1>1, ElementOfSeq, LenProperties
<1>14. \A n \in DOMAIN t.history : ~OwesHistory(t.history[n], stg, stp2)
  BY <1>7, <1>13 DEF Sound, NoneOwed
<1>15. Sound(u, res, stg, stp2)
  BY <1>4, <1>10, <1>11, <1>12, <1>14 DEF Sound, HistoryTrue, EvidenceTrue, NoneOwed
<1> QED BY <1>15 DEF new, u, stp2, entry

-----------------------------------------------------------------------------
(* The ledger *)

\* The file and every state a patch is computed from have true lists, and none of them
\* an entry that is still to be written; so the entry that is appended is the first.
LedgerInv ==
  /\ Sound(file, result, stage, step)
  /\ \A c \in Call : Sound(loaded[c], result, stage, step)
  /\ Len(file.history) <= HistoryCap /\ Len(file.evidence) <= EvidenceCap

Pays ==
  /\ \A c \in Act : OwesHistory(c, stage', step') => OwesHistory(c, stage, step)
  /\ \A c \in Act : OwesEvidence(c, stage', step') => OwesEvidence(c, stage, step)
  /\ \A c \in Act : result'[c] # result[c] =>
       OwesHistory(c, stage, step) /\ OwesEvidence(c, stage, step)

\* Steps that write nothing, and load the file if anything.
LEMMA QuietStep ==
  ASSUME StoreInv, LedgerInv, Pays, file' = file,
         \A c \in Call : loaded'[c] \in {loaded[c], file}
  PROVE  LedgerInv'
<1>1. file \in State /\ \A c \in Call : loaded[c] \in State
  BY DEF StoreInv, TypeInv, TypeOK
<1>2. Sound(file, result', stage', step')
  BY <1>1, SoundKept DEF LedgerInv, Pays
<1>3. \A c \in Call : Sound(loaded[c], result', stage', step')
  BY <1>1, SoundKept DEF LedgerInv, Pays
<1>4. \A c \in Call : Sound(loaded'[c], result', stage', step')
  BY <1>2, <1>3
<1> QED BY <1>2, <1>4 DEF LedgerInv

LEMMA WriteStep ==
  ASSUME StoreInv, LedgerInv, NEW c \in Call, Write(c)
  PROVE  LedgerInv'
<1>1. /\ At(c, "write") /\ current[c] = file
      /\ step' = [step EXCEPT ![c] = "unlock"]
      /\ UNCHANGED <<stage, result, loaded>>
  BY DEF Write, Proceed, StoreInv, LockInv
<1>2. file \in State /\ (\A d \in Call : loaded[d] \in State) /\ step \in [Call -> Step]
  BY DEF StoreInv, TypeInv, TypeOK
<1>3. step[c] = "write" /\ stage[c] \in {"history", "evidence", "scan"}
  BY <1>1 DEF At
<1>4. Pays
  BY <1>1, <1>2, <1>3 DEF Pays, OwesHistory, OwesEvidence
<1>5. \A d \in Call : Sound(loaded'[d], result', stage', step')
  BY <1>1, <1>2, <1>4, SoundKept DEF LedgerInv, Pays
<1>6. CASE file' = file
  BY <1>1, <1>4, <1>6, QuietStep
<1>7. CASE file' = Patched(c) /\ stage[c] = "history"
  <2>1. file' = [file EXCEPT !.history = History(c)] /\ c \in Act /\ result[c] = "success"
    BY <1>1, <1>7 DEF Patched, StoreInv, TypeInv, StagesFit
  <2>2. Sound(file', result, stage, step')
    <3>1. Sound(file, result, stage, step) /\ Sound(loaded[c], result, stage, step)
      BY DEF LedgerInv
    <3>2. Sound([file EXCEPT !.history = Newest(Append(loaded[c].history, c), HistoryCap)],
                result, stage, [step EXCEPT ![c] = "unlock"])
      BY <1>2, <1>3, <1>7, <2>1, <3>1, HistoryAdded, Zenon
    <3> QED BY <1>1, <2>1, <3>2, Zenon DEF History
  <2>3. Append(loaded[c].history, c) \in Seq(Act)
    BY <1>2, <2>1, StateFields
  <2>4. Len(History(c)) <= HistoryCap
    BY <2>3, NewestProperties DEF History
  <2>5. file'.history = History(c) /\ file'.evidence = file.evidence
    BY <1>2, <2>1 DEF State
  <2> QED BY <1>1, <1>5, <2>2, <2>4, <2>5 DEF LedgerInv
<1>8. CASE file' = Patched(c) /\ stage[c] = "evidence"
  <2>1. file' = [file EXCEPT !.evidence = Evidence(c)] /\ c \in Act
    BY <1>1, <1>8 DEF Patched, StoreInv, TypeInv, StagesFit
  <2>2. Sound(file', result, stage, step')
    <3>1. Sound(file, result, stage, step) /\ Sound(loaded[c], result, stage, step)
      BY DEF LedgerInv
    <3>2. Sound([file EXCEPT !.evidence =
                   Newest(Append(loaded[c].evidence, [call |-> c, level |-> LevelOf(result[c])]),
                          EvidenceCap)],
                result, stage, [step EXCEPT ![c] = "unlock"])
      BY <1>2, <1>3, <1>8, <2>1, <3>1, EvidenceAdded, Zenon
    <3> QED BY <1>1, <2>1, <3>2, Zenon DEF Evidence
  <2>3. [call |-> c, level |-> LevelOf(result[c])] \in EvidenceRecord
    BY <2>1, LevelType DEF EvidenceRecord
  <2>4. Append(loaded[c].evidence, [call |-> c, level |-> LevelOf(result[c])]) \in Seq(EvidenceRecord)
    BY <1>2, <2>3, StateFields
  <2>5. Len(Evidence(c)) <= EvidenceCap
    BY <2>4, NewestProperties DEF Evidence
  <2>6. file'.history = file.history /\ file'.evidence = Evidence(c)
    BY <1>2, <2>1 DEF State
  <2> QED BY <1>1, <1>5, <2>2, <2>5, <2>6 DEF LedgerInv
<1>9. CASE file' = Patched(c) /\ stage[c] = "scan"
  <2>1. file'.history = file.history /\ file'.evidence = file.evidence
    BY <1>1, <1>2, <1>9 DEF Patched, State
  <2>2. Sound(file, result', stage', step')
    BY <1>2, <1>4, SoundKept DEF LedgerInv, Pays
  <2>3. Sound(file', result', stage', step')
    BY <2>1, <2>2 DEF Sound, HistoryTrue, EvidenceTrue, NoneOwed
  <2> QED BY <1>5, <2>1, <2>3 DEF LedgerInv
<1> QED BY <1>3, <1>6, <1>7, <1>8, <1>9 DEF Write

LEMMA LedgerInvStep == StoreInv /\ LedgerInv /\ [Next]_vars => LedgerInv'
<1> SUFFICES ASSUME StoreInv, LedgerInv, [Next]_vars PROVE LedgerInv'
  OBVIOUS
<1>0. /\ stage \in [Call -> Stage] /\ step \in [Call -> Step]
      /\ result \in [Call -> Result] /\ loaded \in [Call -> State]
  BY DEF StoreInv, TypeInv, TypeOK
<1> USE <1>0 DEF Pays, OwesHistory, OwesEvidence, At
<1>1. ASSUME NEW c \in Call, Begin(c) PROVE LedgerInv'
  <2>1. Pays
    BY <1>1 DEF Begin, Enter
  <2> QED BY <1>1, <2>1, QuietStep DEF Begin
<1>2. ASSUME NEW c \in Call, Load(c) PROVE LedgerInv'
  <2>1. Pays
    BY <1>2 DEF Load, Proceed, Enter, NextStage
  <2>2. file' = file /\ \A d \in Call : loaded'[d] \in {loaded[d], file}
    BY <1>2 DEF Load
  <2> QED BY <2>1, <2>2, QuietStep
<1>3. ASSUME NEW c \in Call,
             LockAcquired(c) \/ LockTimesOut(c) \/ LockFails(c) \/ Read(c) \/ Unlock(c)
      PROVE  LedgerInv'
  <2>1. Pays
    BY <1>3 DEF LockAcquired, LockTimesOut, LockFails, Read, Unlock, Proceed, Enter, NextStage
  <2>2. UNCHANGED <<file, loaded>>
    BY <1>3 DEF LockAcquired, LockTimesOut, LockFails, Read, Unlock
  <2> QED BY <2>1, <2>2, QuietStep
<1>4. ASSUME NEW c \in Call, Crash(c) PROVE LedgerInv'
  BY <1>4, QuietStep DEF Crash
<1>5. CASE Damage
  <2>1. UNCHANGED <<loaded, result, stage, step>>
        /\ file'.history = file.history /\ file'.evidence = file.evidence
    BY <1>5 DEF Damage, StoreInv, TypeInv, TypeOK, State
  <2> QED BY <2>1 DEF LedgerInv, Sound, HistoryTrue, EvidenceTrue, NoneOwed
<1>6. CASE UNCHANGED vars
  BY <1>6, QuietStep DEF vars
<1> QED BY <1>1, <1>2, <1>3, <1>4, <1>5, <1>6, WriteStep DEF Next, Update

LEMMA LedgerInvInit == Init => LedgerInv
BY DEF Init, LedgerInv, Sound, HistoryTrue, EvidenceTrue, NoneOwed, DefaultState

\* Though lists are computed from states that other commands have replaced since, no
\* action appears twice, every entry is true and the caps hold.
THEOREM LedgerTrue == Spec => []LedgerIsTrue
<1>1. LedgerInv => LedgerIsTrue
  BY DEF LedgerInv, Sound, HistoryTrue, EvidenceTrue, LedgerIsTrue, Once
<1>2. StoreInv /\ LedgerInv /\ [Next]_vars => (StoreInv /\ LedgerInv)'
  BY StoreInvStep, LedgerInvStep
<1>3. Init => StoreInv /\ LedgerInv
  BY StoreInvInit, LedgerInvInit
<1> QED BY <1>1, <1>2, <1>3, PTL DEF Spec

=============================================================================
