------------------------------ MODULE StateStore ------------------------------
(***************************************************************************)
(* ~/.buffy/state.json (state/store.ts) and the commands that update it:     *)
(*                                                                         *)
(*   act     executeWithGates (core/pipeline.ts): after the gate answered, a  *)
(*           history entry when it succeeded, then an evidence record        *)
(*   doctor  the date of the scan (cli.ts)                                  *)
(*                                                                         *)
(* Every call is a process of its own.  An update is                         *)
(*                                                                         *)
(*   load -> lock -> read -> write -> unlock                                 *)
(*                                                                         *)
(* where "load" reads the file before updateState is called, to compute the  *)
(* list that goes into the patch, and "read" reads it again under the lock.  *)
(* The file is replaced by a rename, so a reader sees a whole version of it.  *)
(*                                                                         *)
(* Simplifications: an entry is its call, an evidence record its call and    *)
(* level; the other fields a scan writes go with lastScan; temporary files    *)
(* and copies of a corrupt file are left out, since nothing reads them.      *)
(***************************************************************************)
EXTENDS Naturals, Sequences, FiniteSets

CONSTANTS
  Act,         \* calls of executeWithGates that reached the executor
  Doctor,      \* calls of cmdDoctor or cmdGreeting
  NoCall,      \* no lock file; no scan yet
  HistoryCap,  \* how many actions the history keeps (50 in the code)
  EvidenceCap, \* how many records the evidence ledger keeps (200 in the code)
  Faults,      \* the kinds of fault that may happen
  MaxFaults    \* bound: how many of them, over a behaviour

Call == Act \cup Doctor
FaultKind == {"lock", "read", "write", "crash", "damage"}

ASSUME StateAssumption ==
  /\ Act \cap Doctor = {}
  /\ NoCall \notin Call
  /\ HistoryCap \in Nat \ {0}
  /\ EvidenceCap \in Nat \ {0}
  /\ Faults \subseteq FaultKind
  /\ MaxFaults \in Nat

VARIABLES
  file,      \* state.json
  stateLock, \* who created state.lock, or NoCall when there is no such file
  up,        \* up[c]: the process of c exists
  result,    \* result[c]: what the gate answered
  stage,     \* which update the call is at
  step,      \* and where in it
  loaded,    \* loaded[c]: the state the patch of c is computed from
  current,   \* current[c]: the state c read under the lock
  reported,  \* reported[c]: the updates whose failure c told the user
  faults     \* how many faults have happened

vars == <<file, stateLock, up, result, stage, step, loaded, current, reported, faults>>

Stage == {"ready", "history", "evidence", "scan", "done"}
Step == {"load", "lock", "read", "write", "unlock"}
Result == {"none", "success", "failed"}
Level == {"OBSERVED_EXECUTED", "NOT_VERIFIED"}

EvidenceRecord == [call : Act, level : Level]

State ==
  [whole : BOOLEAN, history : Seq(Act), evidence : Seq(EvidenceRecord),
   scan : Doctor \cup {NoCall}]

\* A missing file reads as DEFAULT_STATE.
DefaultState == [whole |-> TRUE, history |-> <<>>, evidence |-> <<>>, scan |-> NoCall]

At(c, s) == up[c] /\ stage[c] \in {"history", "evidence", "scan"} /\ step[c] = s

Fault(kind) ==
  /\ kind \in Faults
  /\ faults < MaxFaults
  /\ faults' = faults + 1

-----------------------------------------------------------------------------
(* The course of a call. *)

Enter(c, s) ==
  /\ stage' = [stage EXCEPT ![c] = s]
  /\ step' = [step EXCEPT ![c] = IF s = "scan" THEN "lock" ELSE "load"]

NextStage(c) == IF stage[c] = "history" THEN "evidence" ELSE "done"

Proceed(c, s) ==
  /\ step' = [step EXCEPT ![c] = s]
  /\ UNCHANGED stage

\* updateState or loadState throws: executeWithGates prints the error and goes on,
\* the other commands print it and exit.
Report(c) == reported' = [reported EXCEPT ![c] = @ \cup {stage[c]}]

Begin(c) ==
  /\ up[c]
  /\ stage[c] = "ready"
  /\ IF c \in Doctor
     THEN Enter(c, "scan") /\ UNCHANGED result
     ELSE \E r \in {"success", "failed"} :
            /\ result' = [result EXCEPT ![c] = r]
            /\ Enter(c, IF r = "success" THEN "history" ELSE "evidence")
  /\ UNCHANGED <<file, stateLock, up, loaded, current, reported, faults>>

-----------------------------------------------------------------------------
(* loadState, before updateState takes the lock. *)

Load(c) ==
  /\ At(c, "load")
  /\ \/ /\ file.whole
        /\ loaded' = [loaded EXCEPT ![c] = file]
        /\ Proceed(c, "lock")
        /\ UNCHANGED <<reported, faults>>
     \/ /\ ~file.whole
        /\ Report(c)
        /\ Enter(c, NextStage(c))
        /\ UNCHANGED <<loaded, faults>>
     \/ /\ Fault("read")
        /\ Report(c)
        /\ Enter(c, NextStage(c))
        /\ UNCHANGED loaded
  /\ UNCHANGED <<file, stateLock, up, result, current>>

-----------------------------------------------------------------------------
(* updateState *)

LockAcquired(c) ==
  /\ At(c, "lock")
  /\ stateLock = NoCall
  /\ stateLock' = c
  /\ Proceed(c, "read")
  /\ UNCHANGED <<file, up, result, loaded, current, reported, faults>>

\* Mutant: a waiter that never gives up.
LockWaitsForever(c) == FALSE

\* acquireStateLock gives up after five seconds.
LockTimesOut(c) ==
  /\ At(c, "lock")
  /\ stateLock # NoCall
  /\ Report(c)
  /\ Enter(c, NextStage(c))
  /\ UNCHANGED <<file, stateLock, up, result, loaded, current, faults>>

\* Creating the lock file fails, or writing the owner into it does and the file stays.
LockFails(c) ==
  /\ At(c, "lock")
  /\ stateLock = NoCall
  /\ Fault("lock")
  /\ stateLock' \in {NoCall, c}
  /\ Report(c)
  /\ Enter(c, NextStage(c))
  /\ UNCHANGED <<file, up, result, loaded, current>>

\* Mutant: a file that cannot be parsed read as the default state.
ReadDefaulting(c) ==
  /\ At(c, "read")
  /\ current' = [current EXCEPT ![c] = IF file.whole THEN file ELSE DefaultState]
  /\ Proceed(c, "write")
  /\ UNCHANGED <<file, stateLock, up, result, loaded, reported, faults>>

\* A corrupt or unreadable file makes updateState throw: it is not overwritten.
Read(c) ==
  /\ At(c, "read")
  /\ \/ /\ file.whole
        /\ current' = [current EXCEPT ![c] = file]
        /\ Proceed(c, "write")
        /\ UNCHANGED <<reported, faults>>
     \/ /\ ~file.whole
        /\ Report(c)
        /\ Proceed(c, "unlock")
        /\ UNCHANGED <<current, faults>>
     \/ /\ Fault("read")
        /\ Report(c)
        /\ Proceed(c, "unlock")
        /\ UNCHANGED current
  /\ UNCHANGED <<file, stateLock, up, result, loaded>>

LevelOf(r) == IF r = "success" THEN "OBSERVED_EXECUTED" ELSE "NOT_VERIFIED"

\* slice(-cap)
Newest(s, cap) == SubSeq(s, IF Len(s) > cap THEN Len(s) - cap + 1 ELSE 1, Len(s))

\* Mutant of History: the new list put after the one in the file.
HistoryTwice(c) == Newest(current[c].history \o Append(loaded[c].history, c), HistoryCap)

History(c) == Newest(Append(loaded[c].history, c), HistoryCap)

\* Mutant: the raw outcome recorded for the level.
EvidenceUnclassified(c) ==
  Newest(Append(loaded[c].evidence, [call |-> c, level |-> result[c]]), EvidenceCap)

Evidence(c) ==
  Newest(Append(loaded[c].evidence, [call |-> c, level |-> LevelOf(result[c])]), EvidenceCap)

\* Mutant: the patch put over the state loaded before the lock.
PatchedStale(c) ==
  CASE stage[c] = "history"  -> [loaded[c] EXCEPT !.history = History(c)]
    [] stage[c] = "evidence" -> [loaded[c] EXCEPT !.evidence = Evidence(c)]
    [] stage[c] = "scan"     -> [current[c] EXCEPT !.scan = c]

\* The patch replaces one field of the state read under the lock.
Patched(c) ==
  CASE stage[c] = "history"  -> [current[c] EXCEPT !.history = History(c)]
    [] stage[c] = "evidence" -> [current[c] EXCEPT !.evidence = Evidence(c)]
    [] stage[c] = "scan"     -> [current[c] EXCEPT !.scan = c]

\* Writing the temporary file and renaming it over state.json.
Write(c) ==
  /\ At(c, "write")
  /\ \/ /\ file' = Patched(c)
        /\ UNCHANGED <<reported, faults>>
     \/ /\ Fault("write")
        /\ Report(c)
        /\ UNCHANGED file
  /\ Proceed(c, "unlock")
  /\ UNCHANGED <<stateLock, up, result, loaded, current>>

Unlock(c) ==
  /\ At(c, "unlock")
  /\ stateLock' = NoCall
  /\ Enter(c, NextStage(c))
  /\ UNCHANGED <<file, up, result, loaded, current, reported, faults>>

-----------------------------------------------------------------------------
(* What happens around the program. *)

Crash(c) ==
  /\ up[c]
  /\ stage[c] # "done"
  /\ Fault("crash")
  /\ up' = [up EXCEPT ![c] = FALSE]
  /\ UNCHANGED <<file, stateLock, result, stage, step, loaded, current, reported>>

\* Somebody else breaks state.json, between two updates.
Damage ==
  /\ file.whole
  /\ \A c \in Call : ~At(c, "write")
  /\ Fault("damage")
  /\ file' = [file EXCEPT !.whole = FALSE]
  /\ UNCHANGED <<stateLock, up, result, stage, step, loaded, current, reported>>

-----------------------------------------------------------------------------
Init ==
  /\ file = DefaultState
  /\ stateLock = NoCall
  /\ up = [c \in Call |-> TRUE]
  /\ result = [c \in Call |-> "none"]
  /\ stage = [c \in Call |-> "ready"]
  /\ step = [c \in Call |-> "load"]
  /\ loaded = [c \in Call |-> DefaultState]
  /\ current = [c \in Call |-> DefaultState]
  /\ reported = [c \in Call |-> {}]
  /\ faults = 0

Update(c) ==
  \/ Load(c)
  \/ LockAcquired(c) \/ LockTimesOut(c) \/ LockFails(c)
  \/ Read(c) \/ Write(c) \/ Unlock(c)

Next ==
  \/ \E c \in Call : Begin(c) \/ Update(c) \/ Crash(c)
  \/ Damage

Spec == Init /\ [][Next]_vars

\* The system schedules every process, and no wait is longer than five seconds.
FairSpec == Spec /\ \A c \in Call : WF_vars(Update(c))

-----------------------------------------------------------------------------
(* What the store promises. *)

\* Every variable keeps its type; in particular what is written is a state.
TypeOK ==
  /\ file \in State
  /\ stateLock \in Call \cup {NoCall}
  /\ up \in [Call -> BOOLEAN]
  /\ result \in [Call -> Result]
  /\ stage \in [Call -> Stage]
  /\ step \in [Call -> Step]
  /\ loaded \in [Call -> State]
  /\ current \in [Call -> State]
  /\ reported \in [Call -> SUBSET Stage]
  /\ faults \in Nat

Once(s, Key(_)) ==
  \A m, n \in DOMAIN s : Key(s[m]) = Key(s[n]) => m = n

\* The lists tell no untruth, though they are computed from states that other calls
\* have replaced since: no action appears twice, a history entry is of an action that
\* succeeded, an evidence record has the level its outcome gives, and the caps hold.
LedgerIsTrue ==
  /\ Once(file.history, LAMBDA c : c)
  /\ Once(file.evidence, LAMBDA e : e.call)
  /\ \A n \in DOMAIN file.history : result[file.history[n]] = "success"
  /\ \A n \in DOMAIN file.evidence :
       LevelOf(result[file.evidence[n].call]) = file.evidence[n].level
  /\ Len(file.history) <= HistoryCap
  /\ Len(file.evidence) <= EvidenceCap

\* The date of a scan is not lost to an action that ran beside it: only another scan
\* replaces it.
ScanIsKept ==
  [][\A d \in Doctor : file.scan = d /\ file'.scan # d =>
       file'.scan \in Doctor /\ step[file'.scan] = "write"]_vars

\* A state.json that cannot be parsed is never overwritten, whatever was loaded before
\* it broke ("No sobrescribir archivo corrupto").
CorruptIsKept == [][~file.whole => ~file'.whole]_vars

\* Every command ends, whoever holds the lock or died with it.
EveryCommandEnds ==
  \A c \in Call : stage[c] # "ready" ~> (stage[c] = "done" \/ ~up[c])

=============================================================================
