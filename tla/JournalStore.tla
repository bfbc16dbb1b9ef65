---------------------------- MODULE JournalStore ----------------------------
(***************************************************************************)
(* The files under ~/.buffy that every Buffy process shares and that        *)
(* core/execution-journal.ts reads and writes:                             *)
(*                                                                         *)
(*   journal.jsonl                append-only, one JSON record per line     *)
(*   journal.lock                 exclusive lock file, created with 'wx'    *)
(*   inflight/<fingerprint>.json  the claim of a running action             *)
(*                                                                         *)
(* An actor is one call of ActionGate.execute (an invocation) or one call   *)
(* of an operator's resolution command (an admin session).  An invocation   *)
(* is its own executionId and requestId: the code draws both at random.     *)
(*                                                                         *)
(* Simplifications: a record carries only the fields the code branches on;  *)
(* a process is its (hostname, bootId, pid, starttime), so PID reuse does   *)
(* not occur; what fsync promises is taken as kept.                         *)
(***************************************************************************)
EXTENDS Naturals, Sequences, FiniteSets, FiniteSetsExt

CONSTANTS
  Process,      \* processes that use the same BUFFY_DIR
  HostOf,       \* the host each process runs on
  Invocation,   \* calls of ActionGate.execute
  Admin,        \* calls of resolveKey, resolveClaim or reconcileClaim
  ProcOf,       \* the process of each actor
  Key,          \* idempotency keys
  NoKey,        \* a call, or a record, without a key
  KeyOf,        \* the key of each invocation
  Fingerprint,  \* hashes of (actionId, target, platform)
  NoFp,         \* the empty fingerprint
  FpOf,         \* the fingerprint of each invocation
  Nobody,       \* no lock file, no claim file, no executionId
  Faults,       \* the kinds of input/output fault that may happen
  MaxFaults,    \* bound: how many of them, over a behaviour
  Mortal        \* bound: the processes that may die

Actor == Invocation \cup Admin

FaultKind == {"lock", "claim", "read", "write", "torn", "late"}

ASSUME JournalAssumption ==
  /\ IsFiniteSet(Invocation)
  /\ Invocation \cap Admin = {}
  /\ Nobody \notin Actor
  /\ NoKey \notin Key
  /\ NoFp \notin Fingerprint
  /\ ProcOf \in [Actor -> Process]
  /\ KeyOf \in [Invocation -> Key \cup {NoKey}]
  /\ FpOf \in [Invocation -> Fingerprint]
  /\ DOMAIN HostOf = Process
  /\ Faults \subseteq FaultKind
  /\ MaxFaults \in Nat
  /\ Mortal \subseteq Process

VARIABLES
  alive,    \* alive[p]: process p exists
  lock,     \* who created journal.lock, or Nobody when there is no such file
  journal,  \* the complete lines of journal.jsonl
  tail,     \* what follows the last newline of journal.jsonl
  claim,    \* claim[f]: whose claim inflight/f.json holds, or Nobody
  reopened, \* history: how often an operator reopened each key
  faults    \* how many faults have happened

storeVars == <<alive, lock, journal, tail, claim, reopened, faults>>

-----------------------------------------------------------------------------
(* The records of the journal. *)

Resolution ==
  {"efecto_confirmado", "efecto_ausente_confirmado", "abandonada_sin_determinar"}

KeyRecordType == {"started", "completed", "failed", "aborted"} \cup Resolution

\* A corrupt line is one JSON.parse rejects; mentions holds the keys whose text
\* can be found in it.
KeyLine ==
  [type : KeyRecordType, key : Key, fp : Fingerprint \cup {NoFp},
   exec : Invocation \cup {Nobody}, mentions : {{}}]

Phase1Line ==
  [type : {"execution", "claim_resolution"}, key : {NoKey}, fp : Fingerprint,
   exec : Invocation, mentions : {{}}]

CorruptedLine ==
  [type : {"corrupt"}, key : {NoKey}, fp : {NoFp}, exec : {Nobody},
   mentions : SUBSET Key]

Record == KeyLine \cup Phase1Line \cup CorruptedLine

KeyRecord(t, k, f, e) ==
  [type |-> t, key |-> k, fp |-> f, exec |-> e, mentions |-> {}]

\* Mutant: a Phase 1 line written without its fingerprint.
Phase1RecordUnnamed(t, f, e) == KeyRecord(t, NoKey, NoFp, e)

Phase1Record(t, f, e) == KeyRecord(t, NoKey, f, e)

CorruptLine(ks) ==
  [type |-> "corrupt", key |-> NoKey, fp |-> NoFp, exec |-> Nobody, mentions |-> ks]

\* The journal ends in a newline, or in the fragment of a write that failed half way.
Clean == [torn |-> FALSE, mentions |-> {}]
Fragment(ks) == [torn |-> TRUE, mentions |-> ks]
Ending == [torn : BOOLEAN, mentions : SUBSET Key]

KeysIn(rec) == {rec.key} \ {NoKey}

-----------------------------------------------------------------------------
(* deriveKeyState: what the journal says about a key.  The trailing fragment *)
(* is ignored; a corrupt line before it that mentions the key blocks it.     *)

KeyLines(k) == {n \in DOMAIN journal : journal[n].key = k}

CorruptFor(k) == \E n \in DOMAIN journal : k \in journal[n].mentions

LastLine(k) == journal[Max(KeyLines(k))]

StartedLines(k) == {n \in KeyLines(k) : journal[n].type = "started"}

StartedExec(k) ==
  IF StartedLines(k) = {} THEN Nobody ELSE journal[Max(StartedLines(k))].exec

\* startedOwnerAlive and isClaimOwnerAlive as host h sees them: an owner on another
\* host cannot be checked and counts as dead.
OwnerAlive(e, h) == HostOf[ProcOf[e]] = h /\ alive[ProcOf[e]]

StateAfter ==
  [completed                 |-> "cached",
   failed                    |-> "needs_resolution",
   aborted                   |-> "proceed",
   efecto_confirmado         |-> "cached",
   efecto_ausente_confirmado |-> "proceed",
   abandonada_sin_determinar |-> "needs_resolution"]

LastState(k, h) ==
  IF LastLine(k).type # "started" THEN StateAfter[LastLine(k).type]
  ELSE IF OwnerAlive(LastLine(k).exec, h) THEN "in_progress"
  ELSE "needs_resolution"

Conflicts(k, f) == f # NoFp /\ \E n \in KeyLines(k) : journal[n].fp # f

\* Mutants of KeyState: corruption overlooked; the fingerprint not compared.
KeyStateIgnoringCorruption(k, f, h) ==
  IF KeyLines(k) = {} THEN "proceed"
  ELSE IF Conflicts(k, f) THEN "key_conflict"
  ELSE LastState(k, h)

KeyStateIgnoringFingerprint(k, f, h) ==
  IF CorruptFor(k) THEN "needs_resolution"
  ELSE IF KeyLines(k) = {} THEN "proceed"
  ELSE LastState(k, h)

KeyState(k, f, h) ==
  IF CorruptFor(k) THEN "needs_resolution"
  ELSE IF KeyLines(k) = {} THEN "proceed"
  ELSE IF Conflicts(k, f) THEN "key_conflict"
  ELSE LastState(k, h)

\* No corrupt line, and the last record lets a new attempt start, if any.
Reopens(k) ==
  /\ ~CorruptFor(k)
  /\ KeyLines(k) # {} =>
       LastLine(k).type \in {"aborted", "efecto_ausente_confirmado"}

-----------------------------------------------------------------------------
(* One input/output fault, within the bound. *)
Fault(kind) ==
  /\ kind \in Faults
  /\ faults < MaxFaults
  /\ faults' = faults + 1

-----------------------------------------------------------------------------
(* journal.lock.  A waiter retries for five seconds, then gives up; nothing  *)
(* ever deletes the lock of a dead process.                                  *)

TakeLock(a) == lock = Nobody /\ lock' = a

\* Mutant: a waiter that never gives up.
LockWaitsForever == FALSE

LockTimesOut == lock # Nobody /\ UNCHANGED lock

\* openSync fails, or it succeeds and writing the owner into the new file fails:
\* either way tryAcquireLock throws, and in the second case the file stays.
LockThrows(a) ==
  /\ lock = Nobody
  /\ Fault("lock")
  /\ lock' \in {Nobody, a}

FreeLock == lock' = Nobody

-----------------------------------------------------------------------------
(* An append.  A record written after a fragment shares the fragment's line,  *)
(* which is then corrupt.                                                     *)

Landed(rec) == IF tail.torn THEN CorruptLine(tail.mentions \cup KeysIn(rec)) ELSE rec

\* Mutant: what writeSync returns not looked at, a short write taken for a whole one.
WriteLineOnce(rec, written) ==
  \/ /\ written
     /\ journal' = Append(journal, Landed(rec))
     /\ tail' = Clean
     /\ UNCHANGED faults
  \/ /\ written
     /\ Fault("torn")
     /\ \E ks \in SUBSET KeysIn(rec) : tail' = Fragment(tail.mentions \cup ks)
     /\ UNCHANGED journal

\* written is what the caller is told: FALSE when opening the file or the first
\* writeSync fails, when a later writeSync fails ("torn"), or when closeSync does
\* after the whole line went out ("late").
WriteLine(rec, written) ==
  \/ /\ written
     /\ journal' = Append(journal, Landed(rec))
     /\ tail' = Clean
     /\ UNCHANGED faults
  \/ /\ ~written
     /\ Fault("late")
     /\ journal' = Append(journal, Landed(rec))
     /\ tail' = Clean
  \/ /\ ~written
     /\ Fault("write")
     /\ UNCHANGED <<journal, tail>>
  \/ /\ ~written
     /\ Fault("torn")
     /\ \E ks \in SUBSET KeysIn(rec) : tail' = Fragment(tail.mentions \cup ks)
     /\ UNCHANGED journal

-----------------------------------------------------------------------------
StoreInit ==
  /\ alive = [p \in Process |-> TRUE]
  /\ lock = Nobody
  /\ journal = <<>>
  /\ tail = Clean
  /\ claim = [f \in Fingerprint |-> Nobody]
  /\ reopened = [k \in Key |-> 0]
  /\ faults = 0

StoreTypeOK ==
  /\ alive \in [Process -> BOOLEAN]
  /\ lock \in Actor \cup {Nobody}
  /\ journal \in Seq(Record)
  /\ tail \in Ending
  /\ claim \in [Fingerprint -> Invocation \cup {Nobody}]
  /\ reopened \in [Key -> Nat]
  /\ faults \in Nat

\* A process ends, crashes or is killed: its files stay as they are.
Die(p) ==
  /\ p \in Mortal
  /\ alive[p]
  /\ alive' = [alive EXCEPT ![p] = FALSE]
  /\ UNCHANGED <<lock, journal, tail, claim, reopened, faults>>

=============================================================================
