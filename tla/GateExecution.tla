--------------------------- MODULE GateExecution ---------------------------
(***************************************************************************)
(* ActionGate.execute from the point where the request is checked and        *)
(* authorized (core/action-gate.ts steps 8 to 13) with the journal functions *)
(* it calls: beginKey, claimInflight, the executor, appendToJournal,        *)
(* finishKey and releaseInflight, run by any number of invocations in any   *)
(* number of processes over the shared files of JournalStore.  A call that   *)
(* steps 0 to 7 refuse leaves no trace and stays "ready".                   *)
(*                                                                         *)
(* A call of execute goes through stages; the stages that append to the     *)
(* journal go through the phases of a critical section:                     *)
(*                                                                         *)
(*   ready -> begin -> claim -> invoke -> executing -> log -> finish        *)
(*                      \-> abort                       \-> release -> done *)
(*                                                                         *)
(* "begin", "abort" and "finish" exist for a call with a key only.          *)
(* Everything from begin to invoke, and from log on, is synchronous code:   *)
(* two calls of one process interleave only while one awaits its executor.  *)
(***************************************************************************)
EXTENDS JournalStore

CONSTANTS
  Executable, \* the fingerprints whose action has a registered executor
  Confirm     \* those whose action the user has to confirm

ASSUME GateAssumption == Executable \subseteq Fingerprint /\ Confirm \subseteq Fingerprint

VARIABLES
  stage,          \* where each invocation stands
  phase,          \* and where in a stage that takes more than one step
  verdict,        \* what beginKey decided
  outcome,        \* what became of the executor
  journalWritten, \* what appendToJournal returned
  persisted,      \* what finishKey returned
  record,         \* the state of the call's record in ActionExecutionStore
  token           \* the state of its token in AuthorizationStore

sessionVars == <<record, token>>

gateVars == <<stage, phase, verdict, outcome, journalWritten, persisted, sessionVars>>

LockedStage == {"begin", "abort", "log", "finish"}
Stage == {"ready", "claim", "invoke", "executing", "release", "done", "rejected"}
           \cup LockedStage
Phase == {"lock", "read", "write", "unlock", "unlink"}
KeyVerdict == {"proceed", "cached", "in_progress", "needs_resolution", "key_conflict"}
Verdict == KeyVerdict \cup {"none", "error"}
Outcome == {"none", "no_executor", "running", "ok", "fail", "threw"}
RecordState == {"none", "started", "completed", "failed"}
TokenState == {"none", "claimed", "consumed"}

HasKey(i) == KeyOf[i] # NoKey
Up(i) == alive[ProcOf[i]]
At(i, s, p) == Up(i) /\ stage[i] = s /\ phase[i] = p

\* The executor of invocation i has been called.
Invoked(i) == outcome[i] \notin {"none", "no_executor"}

\* Synchronous code of another invocation of the same process is running.
InSync(j) == stage[j] \notin {"ready", "executing", "done", "rejected"}
EventLoopFree(i) ==
  \A j \in Invocation \ {i} : ProcOf[j] = ProcOf[i] => ~InSync(j)

GoTo(i, s) ==
  /\ stage' = [stage EXCEPT ![i] = s]
  /\ phase' = [phase EXCEPT ![i] = IF s = "release" THEN "read" ELSE "lock"]

Advance(i, p) ==
  /\ phase' = [phase EXCEPT ![i] = p]
  /\ UNCHANGED stage

-----------------------------------------------------------------------------
(* The session's stores, in memory: a record that has ended does not change, and   *)
(* only a claimed token is consumed.                                              *)

Settle(i, s) ==
  /\ record' = [record EXCEPT ![i] = IF @ = "started" THEN s ELSE @]
  /\ token' = [token EXCEPT ![i] = IF @ = "claimed" THEN "consumed" ELSE @]

-----------------------------------------------------------------------------
(* What follows each stage. *)

\* Mutant: the claim released whatever finishKey returned.
ReleasesRegardless(i) == TRUE

\* Whether the claim is released, by how the executor ended.
Releases(i) ==
  IF ~HasKey(i) \/ outcome[i] = "no_executor" THEN journalWritten[i]
  ELSE IF outcome[i] = "threw" THEN persisted[i] /\ journalWritten[i]
  ELSE persisted[i]

AfterLast(i) == IF Releases(i) THEN "release" ELSE "done"

NextStage(i) ==
  CASE stage[i] = "begin"  -> IF verdict[i] = "proceed" THEN "claim" ELSE "done"
    [] stage[i] = "abort"  -> "done"
    [] stage[i] = "log"    -> IF HasKey(i) THEN "finish" ELSE AfterLast(i)
    [] stage[i] = "finish" -> AfterLast(i)

\* The call answers without having called an executor.
AnswersUnrun(i) == stage[i] \in {"begin", "abort"} /\ NextStage(i) = "done"

\* Mutant: an answer that leaves record and token as they are.
SettleUnrunForgotten(i) == UNCHANGED sessionVars

SettleUnrun(i) == IF AnswersUnrun(i) THEN Settle(i, "failed") ELSE UNCHANGED sessionVars

-----------------------------------------------------------------------------
(* Entering the gate, and the lock of the four journal stages. *)

Start(i) ==
  /\ Up(i)
  /\ stage[i] = "ready"
  /\ EventLoopFree(i)
  /\ record' = [record EXCEPT ![i] = "started"]
  /\ token' = [token EXCEPT ![i] = IF FpOf[i] \in Confirm THEN "claimed" ELSE @]
  /\ GoTo(i, IF HasKey(i) THEN "begin" ELSE "claim")
  /\ UNCHANGED <<verdict, outcome, journalWritten, persisted, storeVars>>

\* Mutant: an O_CREAT open that does not fail on an existing lock file.
LockOpensAnyway(i) ==
  /\ Up(i)
  /\ stage[i] \in LockedStage
  /\ phase[i] = "lock"
  /\ lock' = i
  /\ Advance(i, IF stage[i] = "begin" THEN "read" ELSE "write")
  /\ UNCHANGED <<verdict, outcome, journalWritten, persisted, sessionVars,
                 alive, journal, tail, claim, reopened, faults>>

LockAcquired(i) ==
  /\ Up(i)
  /\ stage[i] \in LockedStage
  /\ phase[i] = "lock"
  /\ TakeLock(i)
  /\ Advance(i, IF stage[i] = "begin" THEN "read" ELSE "write")
  /\ UNCHANGED <<verdict, outcome, journalWritten, persisted, sessionVars,
                 alive, journal, tail, claim, reopened, faults>>

\* beginKey throws, and execute answers begin_error; the appends return false.
LockUnavailable(i) ==
  /\ Up(i)
  /\ stage[i] \in LockedStage
  /\ phase[i] = "lock"
  /\ LockTimesOut
  /\ verdict' = [verdict EXCEPT ![i] = IF stage[i] = "begin" THEN "error" ELSE @]
  /\ GoTo(i, NextStage(i))
  /\ SettleUnrun(i)
  /\ UNCHANGED <<outcome, journalWritten, persisted,
                 alive, journal, tail, claim, reopened, faults>>

\* execute catches what beginKey throws; nothing catches the other three, and the
\* promise of execute is rejected.
LockFails(i) ==
  /\ Up(i)
  /\ stage[i] \in LockedStage
  /\ phase[i] = "lock"
  /\ LockThrows(i)
  /\ verdict' = [verdict EXCEPT ![i] = IF stage[i] = "begin" THEN "error" ELSE @]
  /\ IF stage[i] = "begin"
     THEN GoTo(i, "done") /\ Settle(i, "failed")
     ELSE GoTo(i, "rejected") /\ UNCHANGED sessionVars
  /\ UNCHANGED <<outcome, journalWritten, persisted,
                 alive, journal, tail, claim, reopened>>

Unlock(i) ==
  /\ Up(i)
  /\ stage[i] \in LockedStage
  /\ phase[i] = "unlock"
  /\ FreeLock
  /\ GoTo(i, NextStage(i))
  /\ SettleUnrun(i)
  /\ UNCHANGED <<verdict, outcome, journalWritten, persisted,
                 alive, journal, tail, claim, reopened, faults>>

-----------------------------------------------------------------------------
(* beginKey *)

BeginRead(i) ==
  /\ At(i, "begin", "read")
  /\ \/ /\ verdict' = [verdict EXCEPT ![i] =
                         KeyState(KeyOf[i], FpOf[i], HostOf[ProcOf[i]])]
        /\ UNCHANGED faults
     \/ /\ Fault("read")
        /\ verdict' = [verdict EXCEPT ![i] = "error"]
  /\ Advance(i, IF verdict'[i] = "proceed" THEN "write" ELSE "unlock")
  /\ UNCHANGED <<outcome, journalWritten, persisted, sessionVars,
                 alive, lock, journal, tail, claim, reopened>>

BeginWrite(i) ==
  /\ At(i, "begin", "write")
  /\ \E written \in BOOLEAN :
       /\ WriteLine(KeyRecord("started", KeyOf[i], FpOf[i], i), written)
       /\ verdict' = [verdict EXCEPT ![i] = IF written THEN @ ELSE "error"]
  /\ Advance(i, "unlock")
  /\ UNCHANGED <<outcome, journalWritten, persisted, sessionVars,
                 alive, lock, claim, reopened>>

-----------------------------------------------------------------------------
(* claimInflight, the executor, and an invocation that loses the claim *)

Refused(i) ==
  IF HasKey(i)
  THEN GoTo(i, "abort") /\ UNCHANGED sessionVars
  ELSE GoTo(i, "done") /\ Settle(i, "failed")

\* Mutant: the claim published by a rename, which replaces an existing file.
ClaimByRename(i) ==
  /\ Up(i)
  /\ stage[i] = "claim"
  /\ claim' = [claim EXCEPT ![FpOf[i]] = i]
  /\ GoTo(i, "invoke")
  /\ UNCHANGED <<verdict, outcome, journalWritten, persisted, sessionVars,
                 alive, lock, journal, tail, reopened, faults>>

\* Publishing the claim by a hard link is atomic and fails on an existing claim.
ClaimInflight(i) ==
  /\ Up(i)
  /\ stage[i] = "claim"
  /\ \/ /\ claim[FpOf[i]] = Nobody
        /\ claim' = [claim EXCEPT ![FpOf[i]] = i]
        /\ GoTo(i, "invoke")
        /\ UNCHANGED <<sessionVars, faults>>
     \/ /\ claim[FpOf[i]] # Nobody
        /\ Refused(i)
        /\ UNCHANGED <<claim, faults>>
     \/ /\ Fault("claim")
        /\ Refused(i)
        /\ UNCHANGED claim
  /\ UNCHANGED <<verdict, outcome, journalWritten, persisted,
                 alive, lock, journal, tail, reopened>>

\* finishKey(key, ctx, 'aborted'): its result is not looked at.
AbortWrite(i) ==
  /\ At(i, "abort", "write")
  /\ \E written \in BOOLEAN :
       WriteLine(KeyRecord("aborted", KeyOf[i], FpOf[i], i), written)
  /\ Advance(i, "unlock")
  /\ UNCHANGED <<verdict, outcome, journalWritten, persisted, sessionVars,
                 alive, lock, claim, reopened>>

Invoke(i) ==
  /\ Up(i)
  /\ stage[i] = "invoke"
  /\ IF FpOf[i] \in Executable
     THEN /\ outcome' = [outcome EXCEPT ![i] = "running"]
          /\ GoTo(i, "executing")
          /\ UNCHANGED sessionVars
     ELSE /\ outcome' = [outcome EXCEPT ![i] = "no_executor"]
          /\ GoTo(i, "log")
          /\ Settle(i, "failed")
  /\ UNCHANGED <<verdict, journalWritten, persisted, storeVars>>

\* The awaited executor resolves with success true or false, or rejects.
ExecutorReturns(i) ==
  /\ Up(i)
  /\ stage[i] = "executing"
  /\ EventLoopFree(i)
  /\ \E o \in {"ok", "fail", "threw"} :
       /\ outcome' = [outcome EXCEPT ![i] = o]
       /\ Settle(i, IF o = "threw" THEN "failed" ELSE "completed")
  /\ GoTo(i, "log")
  /\ UNCHANGED <<verdict, journalWritten, persisted, storeVars>>

-----------------------------------------------------------------------------
(* appendToJournal, finishKey, releaseInflight *)

LogWrite(i) ==
  /\ At(i, "log", "write")
  /\ \E written \in BOOLEAN :
       /\ WriteLine(Phase1Record("execution", FpOf[i], i), written)
       /\ journalWritten' = [journalWritten EXCEPT ![i] = written]
  /\ Advance(i, "unlock")
  /\ UNCHANGED <<verdict, outcome, persisted, sessionVars, alive, lock, claim, reopened>>

\* Mutant: every terminal record a success, as the comment on finishKey words it.
TerminalTypeCompleted(i) == "completed"

TerminalType(i) == IF outcome[i] = "ok" THEN "completed" ELSE "failed"

FinishWrite(i) ==
  /\ At(i, "finish", "write")
  /\ \E written \in BOOLEAN :
       /\ WriteLine(KeyRecord(TerminalType(i), KeyOf[i], FpOf[i], i), written)
       /\ persisted' = [persisted EXCEPT ![i] = written]
  /\ Advance(i, "unlock")
  /\ UNCHANGED <<verdict, outcome, journalWritten, sessionVars,
                 alive, lock, claim, reopened>>

\* releaseInflight reads the claim and compares its identity ...
ReleaseRead(i) ==
  /\ At(i, "release", "read")
  /\ IF claim[FpOf[i]] = i THEN Advance(i, "unlink") ELSE GoTo(i, "done")
  /\ UNCHANGED <<verdict, outcome, journalWritten, persisted, sessionVars, storeVars>>

\* ... and then unlinks whatever file is at the claim's path.
ReleaseUnlink(i) ==
  /\ At(i, "release", "unlink")
  /\ claim' = [claim EXCEPT ![FpOf[i]] = Nobody]
  /\ GoTo(i, "done")
  /\ UNCHANGED <<verdict, outcome, journalWritten, persisted, sessionVars,
                 alive, lock, journal, tail, reopened, faults>>

-----------------------------------------------------------------------------
GateInit ==
  /\ stage = [i \in Invocation |-> "ready"]
  /\ phase = [i \in Invocation |-> "lock"]
  /\ verdict = [i \in Invocation |-> "none"]
  /\ outcome = [i \in Invocation |-> "none"]
  /\ journalWritten = [i \in Invocation |-> FALSE]
  /\ persisted = [i \in Invocation |-> FALSE]
  /\ record = [i \in Invocation |-> "none"]
  /\ token = [i \in Invocation |-> "none"]

GateTypeOK ==
  /\ stage \in [Invocation -> Stage]
  /\ phase \in [Invocation -> Phase]
  /\ verdict \in [Invocation -> Verdict]
  /\ outcome \in [Invocation -> Outcome]
  /\ journalWritten \in [Invocation -> BOOLEAN]
  /\ persisted \in [Invocation -> BOOLEAN]
  /\ record \in [Invocation -> RecordState]
  /\ token \in [Invocation -> TokenState]

LockStep(i) == LockAcquired(i) \/ LockUnavailable(i) \/ LockFails(i) \/ Unlock(i)

BeginStep(i) == BeginRead(i) \/ BeginWrite(i)

RunStep(i) == ClaimInflight(i) \/ AbortWrite(i) \/ Invoke(i) \/ ExecutorReturns(i)

EndStep(i) == LogWrite(i) \/ FinishWrite(i) \/ ReleaseRead(i) \/ ReleaseUnlink(i)

\* A step of a call already under way.
Continue(i) == LockStep(i) \/ BeginStep(i) \/ RunStep(i) \/ EndStep(i)

GateStep(i) == Start(i) \/ Continue(i)

Crash(p) == Die(p) /\ UNCHANGED gateVars

vars == <<storeVars, gateVars>>

Init == StoreInit /\ GateInit

Next ==
  \/ \E i \in Invocation : GateStep(i)
  \/ \E p \in Process : Crash(p)

Spec == Init /\ [][Next]_vars

\* The system schedules every process; an executor's promise settles (the ones
\* registered wait for commands with a time limit); a waiter for the lock never
\* depends on its holder.
FairSpec == Spec /\ \A i \in Invocation : WF_vars(Continue(i))

-----------------------------------------------------------------------------
(* What the gate promises. *)

\* Every variable keeps its type: the journal holds well-formed lines only, each
\* call of execute one of its stages.
TypeOK == StoreTypeOK /\ GateTypeOK

RunsOf(k) == {i \in Invocation : KeyOf[i] = k /\ Invoked(i)}

\* The guarantee of design-v3.md section 1: the executor is called at most once for
\* a key, plus once for each time an operator reopened it, whatever crashes, fails
\* or runs at the same time.
AtMostOnce ==
  \A k \in Key : Cardinality(RunsOf(k)) <= 1 + reopened[k]

Occupied(i) == stage[i] \in {"executing", "log", "finish"} /\ outcome[i] # "no_executor"

\* claimInflight lets one action per fingerprint run: from the call of the executor
\* to the last journal line about it, no other invocation of that action runs, not
\* even after the first one's process died.
OneRunPerFingerprint ==
  \A i, j \in Invocation :
    i # j /\ Occupied(i) /\ Occupied(j) => FpOf[i] # FpOf[j]

Recorded(i) == \E n \in DOMAIN journal : journal[n].exec = i /\ journal[n].type # "started"

CorruptAbout(i) ==
  \E n \in DOMAIN journal :
    /\ journal[n].type = "corrupt"
    /\ HasKey(i) => KeyOf[i] \in journal[n].mentions

\* An effect that may have happened is never forgotten: the claim of its action is
\* still there, or the journal has a line about how it ended; at worst that line
\* is corrupt, and then it blocks the invocation's key.
EffectIsRemembered ==
  \A i \in Invocation : Invoked(i) =>
    claim[FpOf[i]] = i \/ Recorded(i) \/ CorruptAbout(i)

\* A key stays bound to the fingerprint of its first record: whichever of two actions
\* that share a key comes first, beginKey never lets the other one past.
KeyBoundToFingerprint ==
  \A i, j \in Invocation :
    KeyOf[i] = KeyOf[j] /\ verdict[i] = "proceed" /\ verdict[j] = "proceed" =>
      FpOf[i] = FpOf[j]

\* A caller is told [cached] only about an action of the same key and fingerprint
\* that ran with success, or whose effect an operator confirmed.
CachedIsJustified ==
  \A i \in Invocation : verdict[i] = "cached" =>
    \/ \E j \in Invocation :
         KeyOf[j] = KeyOf[i] /\ FpOf[j] = FpOf[i] /\ outcome[j] = "ok"
    \/ \E n \in KeyLines(KeyOf[i]) : journal[n].type = "efecto_confirmado"

\* The session's record is fit to be evidence: it says completed only of a call whose
\* executor came back (an answer taken from the journal is "never counted as an
\* executed action"), and no answered call leaves its record open or a token that a
\* later call could still claim.
RecordIsEvidence ==
  \A i \in Invocation :
    /\ record[i] = "completed" <=> outcome[i] \in {"ok", "fail"}
    /\ stage[i] = "done" => record[i] \in {"completed", "failed"} /\ token[i] # "claimed"

\* Every call of execute comes to an answer, even when the holder of the journal lock
\* died or never releases it: a waiter gives up.
EventuallyAnswered ==
  \A i \in Invocation :
    stage[i] # "ready" ~> (stage[i] \in {"done", "rejected"} \/ ~Up(i))

=============================================================================
