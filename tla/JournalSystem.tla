---------------------------- MODULE JournalSystem ----------------------------
(***************************************************************************)
(* The whole execution journal: calls of ActionGate.execute, operators that  *)
(* resolve keys and claims, processes that die, and an operator who deletes  *)
(* a dead process's lock, over the same files.                              *)
(***************************************************************************)
EXTENDS GateExecution, JournalRecovery

systemVars == <<storeVars, gateVars, recoveryVars>>

SystemInit == StoreInit /\ GateInit /\ RecoveryInit

SystemNext ==
  \/ \E i \in Invocation : GateStep(i) /\ UNCHANGED recoveryVars
  \/ \E a \in Admin : AdminStep(a) /\ UNCHANGED gateVars
  \/ \E p \in Process : Crash(p) /\ UNCHANGED recoveryVars
  \/ DeleteStaleLock /\ UNCHANGED gateVars

SystemSpec == SystemInit /\ [][SystemNext]_systemVars

-----------------------------------------------------------------------------
(* What survives the operators. *)

\* Every variable keeps its type, and a session that began knows its command.
SystemTypeOK == TypeOK /\ RecoveryTypeOK

\* Between taking the lock and giving it back.
InGateSection(i) == stage[i] \in LockedStage /\ phase[i] # "lock"
InAdminSection(a) ==
  \/ step[a] \in {"read", "write", "unlock"}
  \/ step[a] \in {"check", "unlink"} /\ IsOp(a, "resolveKey")

\* Of the live actors at most one is in a critical section, and the file is its own.
LockHeld ==
  /\ \A i \in Invocation : Up(i) /\ InGateSection(i) => lock = i
  /\ \A a \in Admin : alive[ProcOf[a]] /\ InAdminSection(a) => lock = a

\* Nothing is decided before beginKey has the lock, nothing run before the claim.
InOrder ==
  \A i \in Invocation :
    /\ stage[i] \in {"ready", "begin", "claim", "abort", "invoke"} => outcome[i] = "none"
    /\ stage[i] = "executing" => outcome[i] = "running"
    /\ stage[i] = "ready" \/ (stage[i] = "begin" /\ phase[i] = "lock") =>
         verdict[i] = "none"

\* What beginKey read is still so when it writes the started line.
DecisionIsCurrent ==
  \A i \in Invocation : Up(i) /\ stage[i] = "begin" /\ phase[i] = "write" =>
    verdict[i] = "proceed" /\ Reopens(KeyOf[i])

\* The calls that beginKey let proceed and that have come to their executor, or to the
\* want of one, or still may.
Admitted(i) ==
  \/ outcome[i] # "none"
  \/ stage[i] = "begin" /\ phase[i] = "unlock" /\ verdict[i] = "proceed"
  \/ stage[i] \in {"claim", "invoke"}
  \/ stage[i] = "abort" /\ phase[i] \in {"lock", "write"}

AdmittedFor(k) == {i \in Invocation : KeyOf[i] = k /\ Admitted(i)}

\* A key whose journal invites a new attempt has room for one more.
AdmittedBounded ==
  \A k \in Key :
    /\ Cardinality(AdmittedFor(k)) <= 1 + reopened[k]
    /\ Reopens(k) => Cardinality(AdmittedFor(k)) <= reopened[k]

\* Why the guarantee holds: beginKey's read and write are one critical section, so the
\* calls it admits, not just those that ran, stay within what the operators reopened.
AdmissionInv == LockHeld /\ InOrder /\ DecisionIsCurrent /\ AdmittedBounded

\* The abstract specification, with the executors called under each key.
Ran == [k \in Key |-> RunsOf(k)]
Guarantee == INSTANCE KeyGuarantee WITH ran <- Ran

\* Every step of the journal is a step the guarantee allows, or changes nothing it
\* speaks of: the executor is called for a key only as often as it was opened.
KeepsGuarantee == Guarantee!Spec

\* What a caller was told is persisted stands: until an operator reopens the key, no
\* reader on any host derives that a new attempt may start or that the first is still
\* under way (finishKey's result, ActionResult.persisted) -- though other calls abort
\* and operators resolve around it, and though the record may have fallen on a fragment.
PersistedStands ==
  \A i \in Invocation : persisted[i] /\ reopened[KeyOf[i]] = 0 =>
    \A f \in Fingerprint \cup {NoFp}, p \in Process :
      KeyState(KeyOf[i], f, HostOf[p]) \notin {"proceed", "in_progress"}

Cached(k) ==
  /\ ~CorruptFor(k)
  /\ KeyLines(k) # {}
  /\ LastLine(k).type \in {"completed", "efecto_confirmado"}

\* On one host an answer is final: once the last line about a key says completed or
\* confirmed, no later line takes it back (section 8: only a key that needs
\* resolution is resolved) and the executor is not called for it again.
CachedIsFinal ==
  [][\A k \in Key : Cached(k) =>
       /\ Cached(k)' \/ CorruptFor(k)'
       /\ RunsOf(k)' = RunsOf(k)]_systemVars

\* An operator decides to free a claim only when its call will not run the executor any
\* more: it has returned, or its process is dead (resolveClaim: "never release a claim
\* whose owner is known to be alive").
OperatorAimsAtFinished ==
  \A a \in Admin : step[a] = "unlink" =>
    ~ \E i \in Invocation :
        i = target[a].exec /\ Up(i) /\ stage[i] \in {"claim", "invoke", "executing"}

\* Nobody deletes the claim of a call that is about to run its executor or is running
\* it: releaseInflight "never deletes a claim other than its own".
RunningKeepsItsClaim ==
  \A i \in Invocation :
    Up(i) /\ stage[i] \in {"invoke", "executing"} => claim[FpOf[i]] = i

=============================================================================
