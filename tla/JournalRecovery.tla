--------------------------- MODULE JournalRecovery ---------------------------
(***************************************************************************)
(* The operator's side of core/execution-journal.ts: resolveKey             *)
(* ("journal resolve --key"), resolveClaim ("journal resolve <fingerprint>") *)
(* and reconcileClaim, each a synchronous sequence of file operations that  *)
(* interleaves with the calls of execute of other processes:                *)
(*                                                                         *)
(*   resolveKey       lock -> read -> write -> check -> unlink -> unlock     *)
(*   resolveClaim     inspect -> lock -> write -> unlock -> check -> unlink  *)
(*   reconcileClaim   inspect -> check -> unlink                            *)
(*                                                                         *)
(* A session runs one command, which it draws from Command.                 *)
(***************************************************************************)
EXTENDS JournalStore

CONSTANTS
  Command,   \* the commands the operators may give
  NoCommand  \* what a session that has not begun holds

Op == {"resolveKey", "resolveClaim", "reconcileClaim"}

\* Of a command on a claim the key and the resolution do not matter; of one on a key,
\* the fingerprint.
ASSUME RecoveryAssumption ==
  /\ Command \subseteq
       [op : Op, key : Key, fp : Fingerprint, resolution : Resolution]
  /\ NoCommand \notin Command

VARIABLES
  command,  \* the command of each session that has begun
  step,     \* where each session stands
  target    \* the fingerprint and executionId it read and acts on

recoveryVars == <<command, step, target>>

Step == {"idle", "lock", "read", "write", "check", "unlink", "unlock", "done"}
NoTarget == [fp |-> NoFp, exec |-> Nobody]

AdminHost(a) == HostOf[ProcOf[a]]
Runs(a, s) == alive[ProcOf[a]] /\ step[a] = s
AdminGoTo(a, s) == step' = [step EXCEPT ![a] = s]
Aim(a, f, e) == target' = [target EXCEPT ![a] = [fp |-> f, exec |-> e]]
IsOp(a, op) == command[a].op = op

-----------------------------------------------------------------------------
(* Beginning a command. *)

Begins(a, c) ==
  /\ Runs(a, "idle")
  /\ command' = [command EXCEPT ![a] = c]
  /\ UNCHANGED storeVars

BeginResolveKey(a, c) ==
  /\ c.op = "resolveKey"
  /\ Begins(a, c)
  /\ AdminGoTo(a, "lock")
  /\ UNCHANGED target

\* Mutant: a claim released without asking whether its owner lives.
InspectClaimUnasked(a, c) ==
  /\ c.op = "resolveClaim"
  /\ Begins(a, c)
  /\ Aim(a, c.fp, claim[c.fp])
  /\ AdminGoTo(a, IF claim[c.fp] = Nobody THEN "done" ELSE "lock")

\* resolveClaim refuses when the claim's owner is known to be alive.
InspectClaim(a, c) ==
  /\ c.op = "resolveClaim"
  /\ Begins(a, c)
  /\ Aim(a, c.fp, claim[c.fp])
  /\ AdminGoTo(a, IF claim[c.fp] = Nobody \/ OwnerAlive(claim[c.fp], AdminHost(a))
                  THEN "done" ELSE "lock")

\* reconcileClaim asks for an 'execution' line of the claim's owner.
InspectForReconcile(a, c) ==
  /\ c.op = "reconcileClaim"
  /\ Begins(a, c)
  /\ Aim(a, c.fp, claim[c.fp])
  /\ AdminGoTo(a, IF \E n \in DOMAIN journal :
                       /\ journal[n].type = "execution"
                       /\ journal[n].exec = claim[c.fp]
                  THEN "check" ELSE "done")

-----------------------------------------------------------------------------
(* The lock. *)

AdminLock(a) ==
  /\ Runs(a, "lock")
  /\ \/ /\ TakeLock(a)
        /\ AdminGoTo(a, IF IsOp(a, "resolveKey") THEN "read" ELSE "write")
        /\ UNCHANGED faults
     \/ /\ LockTimesOut
        /\ AdminGoTo(a, "done")
        /\ UNCHANGED faults
     \/ /\ LockThrows(a)
        /\ AdminGoTo(a, "done")
  /\ UNCHANGED <<command, target, alive, journal, tail, claim, reopened>>

AdminUnlock(a) ==
  /\ Runs(a, "unlock")
  /\ FreeLock
  /\ AdminGoTo(a, IF IsOp(a, "resolveClaim") /\ target[a] # NoTarget
                  THEN "check" ELSE "done")
  /\ UNCHANGED <<command, target, alive, journal, tail, claim, reopened, faults>>

-----------------------------------------------------------------------------
(* resolveKey under the lock. *)

\* Mutant: a cached key resolved as well.
ResolvesCached(k, h) == KeyState(k, NoFp, h) \in {"needs_resolution", "cached"}

\* Only a key that needs resolution is resolved.
Resolvable(k, h) == KeyState(k, NoFp, h) = "needs_resolution"

\* deriveKeyState reports a journal it cannot read as needs_resolution, without a
\* last record; resolveKey does not look at ioError.
ReadKey(a) ==
  LET k == command[a].key IN
  /\ Runs(a, "read")
  /\ \/ /\ ~Resolvable(k, AdminHost(a))
        /\ AdminGoTo(a, "unlock")
        /\ UNCHANGED <<target, faults>>
     \/ /\ Resolvable(k, AdminHost(a))
        /\ AdminGoTo(a, "write")
        /\ IF CorruptFor(k) THEN Aim(a, NoFp, Nobody)
                            ELSE Aim(a, LastLine(k).fp, StartedExec(k))
        /\ UNCHANGED faults
     \/ /\ Fault("read")
        /\ AdminGoTo(a, "write")
        /\ Aim(a, NoFp, Nobody)
  /\ UNCHANGED <<command, alive, lock, journal, tail, claim, reopened>>

ResolutionLine(a) ==
  KeyRecord(command[a].resolution, command[a].key, target[a].fp, target[a].exec)

\* The line that lets the key run once more was written whole and can be read.
ReopensNow(a) ==
  /\ command[a].resolution = "efecto_ausente_confirmado"
  /\ journal' # journal
  /\ ~tail.torn

\* abandonada_sin_determinar keeps the claim.
FreesClaim(a) ==
  command[a].resolution # "abandonada_sin_determinar" /\ target[a].fp # NoFp

WriteKeyResolution(a) ==
  LET k == command[a].key IN
  /\ Runs(a, "write")
  /\ IsOp(a, "resolveKey")
  /\ \E written \in BOOLEAN :
       /\ WriteLine(ResolutionLine(a), written)
       /\ AdminGoTo(a, IF written /\ FreesClaim(a) THEN "check" ELSE "unlock")
  /\ reopened' = [reopened EXCEPT ![k] = @ + IF ReopensNow(a) THEN 1 ELSE 0]
  /\ UNCHANGED <<command, target, alive, lock, claim>>

\* resolveClaim's append: appendToJournal locks and unlocks around it.
WriteClaimResolution(a) ==
  /\ Runs(a, "write")
  /\ IsOp(a, "resolveClaim")
  /\ \E written \in BOOLEAN :
       /\ WriteLine(Phase1Record("claim_resolution", target[a].fp, target[a].exec), written)
       /\ target' = [target EXCEPT ![a] = IF written THEN @ ELSE NoTarget]
  /\ AdminGoTo(a, "unlock")
  /\ UNCHANGED <<command, alive, lock, claim, reopened>>

-----------------------------------------------------------------------------
(* Releasing the claim: re-read it, compare its identity, unlink the file. *)

AfterRelease(a) == IF IsOp(a, "resolveKey") THEN "unlock" ELSE "done"

SameClaim(a) == target[a].exec # Nobody /\ claim[target[a].fp] = target[a].exec

CheckClaim(a) ==
  /\ Runs(a, "check")
  /\ AdminGoTo(a, IF SameClaim(a) THEN "unlink" ELSE AfterRelease(a))
  /\ UNCHANGED <<command, target, storeVars>>

UnlinkClaim(a) ==
  /\ Runs(a, "unlink")
  /\ claim' = [claim EXCEPT ![target[a].fp] = Nobody]
  /\ AdminGoTo(a, AfterRelease(a))
  /\ UNCHANGED <<command, target, alive, lock, journal, tail, reopened, faults>>

\* Outside the program: an operator deletes the journal.lock of a dead process.
DeleteStaleLock ==
  /\ lock # Nobody
  /\ ~alive[ProcOf[lock]]
  /\ lock' = Nobody
  /\ UNCHANGED <<recoveryVars, alive, journal, tail, claim, reopened, faults>>

-----------------------------------------------------------------------------
RecoveryInit ==
  /\ command = [a \in Admin |-> NoCommand]
  /\ step = [a \in Admin |-> "idle"]
  /\ target = [a \in Admin |-> NoTarget]

RecoveryTypeOK ==
  /\ command \in [Admin -> Command \cup {NoCommand}]
  /\ step \in [Admin -> Step]
  /\ target \in [Admin -> [fp : Fingerprint \cup {NoFp}, exec : Invocation \cup {Nobody}]]
  /\ \A a \in Admin : step[a] # "idle" => command[a] \in Command
  /\ \A a \in Admin : step[a] = "read" => IsOp(a, "resolveKey")
  /\ \A a \in Admin : step[a] \in {"lock", "write"} /\ IsOp(a, "resolveClaim") =>
       target[a].fp \in Fingerprint /\ target[a].exec \in Invocation

BeginCommand(a) ==
  \E c \in Command :
    BeginResolveKey(a, c) \/ InspectClaim(a, c) \/ InspectForReconcile(a, c)

WriteResolution(a) == WriteKeyResolution(a) \/ WriteClaimResolution(a)

AdminStep(a) ==
  \/ BeginCommand(a)
  \/ AdminLock(a) \/ ReadKey(a) \/ WriteResolution(a)
  \/ CheckClaim(a) \/ UnlinkClaim(a) \/ AdminUnlock(a)

=============================================================================
