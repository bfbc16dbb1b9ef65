# Buffy Next: verification project

TLA+ models of Buffy Next, a command line tool and MCP server that diagnoses a
machine and runs repair actions on it. TLC checks the models on small
instances; TLAPS proves the main results for every value of the constants.
`PROJECT.json` lists components, runs, mutants, the map from definitions to
source lines, findings, hazards and theorems.

Paths below are relative to the repository; `design-v3.md` stands for
`ai-context/reports/execution-journal-phase1/design-v3.md`.

## The system

Every command is a Node process of its own; an MCP server is a long-lived one,
and a program that uses the library may run several calls at once. Processes
share only the files under `~/.buffy`.

| part | state | operations | interacts with |
|---|---|---|---|
| execution journal (`src/core/execution-journal.ts`) | `journal.jsonl`, `journal.lock`, `inflight/<fingerprint>.json` | beginKey, finishKey, claimInflight, releaseInflight, appendToJournal, resolveKey, resolveClaim, reconcileClaim, lookups | called by the gate and by the operator's commands of `cli.ts` |
| ActionGate (`src/core/action-gate.ts`) | none of its own; the call's request, token, record and claim | execute | journal, both stores, the adapter, the prompt, a registered executor |
| AuthorizationStore, ActionExecutionStore | maps in memory, one pair for each gate | issue, claim, consume, expire; start, complete, fail | the gate; the pipeline reads the records as evidence |
| state store (`src/state/store.ts`) | `state.json`, `state.lock` | loadState, updateState, recordEvidence | pipeline (history, evidence), `cli.ts` (doctor, greeting) |
| action pipeline (`src/core/pipeline.ts`) | none | executeWithGates | gate, state store, evidence classifier |
| evidence classifier (`src/core/execution-evidence.ts`) | none | classifyEvidence | pipeline |
| freshness policy and gating (`src/core/freshness*.ts`) | age of each fact | classify, gate, measure again | diagnose, adapters |
| diagnose pipeline (`diagnose.ts`, `check-selector.ts`, `context-scorer.ts`, `fragment-splitter.ts`, `entity-modifier.ts`, `diagnostic-router.ts`, `action-mapper.ts`, `action-registry.ts`) | none | select and score checks, run them, map results to actions, route | adapters, freshness |
| telemetry (`src/core/telemetry.ts`) | arrays of 1000 entries, in memory | record, reduce, health | `cli.ts` |
| MCP server (`src/mcp.ts`) | calls in flight, whether the input has ended | handle a line, dispatch a tool, exit | ctx delegator, doctor |
| ctx delegator (`src/shared/ctx.ts`) | for each call a child process, its group, a timer, captured output | execCtx, execCtxCaptured | `cli.ts`, MCP |
| command line (`src/cli.ts`, `shared/cli-args.ts`) | arguments, exit code | dispatch, one function for each command | everything |
| adapters (`src/adapters/`, `shared/gpu.ts`) | the platform found | systemInfo, capabilities, privileges | doctor, diagnose, gate |
| doctor, context (`doctor.ts`, `context.ts`) | none | runDoctor, buildContext | adapters |
| model feasibility (`model-feasibility.ts`) | none | canExecute | no caller |
| installer (`src/install/`) | four files of another program | installAntigravity | `cli.ts`, the other program, the user |
| request hygiene (`security.ts`, `target-normalizer.ts`, `errors.ts`, ...) | none | sanitize, validate | the gate |
| presenter, MCP tool wrapper, rate limiter factory | none | wording, constants | the commands |

What is hard in it:

- **Concurrency.** Several processes update `~/.buffy` at once. The journal and
  `state.json` each have a lock file; a claim file is published by a hard link.
  Within a process, one call runs synchronously between two awaits.
- **Failure.** Any process may die between two file operations; any write may
  fail before, in or after the line. A dead process's lock file stays.
- **Time.** A lock is waited for five seconds, tokens live five minutes, facts
  thirty seconds to an hour, delegated commands have a timeout.
- **Signals.** `buffy ctx` runs a script in a process group of its own and forwards
  the signals it gets; one may come before, between or after anything.
- **Partial answers.** Every command an adapter or an executor runs may fail,
  time out or print nothing, and much of the code goes on without the answer.
- **Protocol.** A key lives through started, completed, failed, aborted and
  three resolutions, in any order that retries and operators produce.

What makes the parts correct: an action runs at most once for a key unless an
operator reopened it; at most one call runs for a fingerprint; no effect is
forgotten; answers and records are true; operators cannot break a call that
runs; the ledger in `state.json` neither lies nor loses entries in silence; a
command always ends; an MCP call is answered, and with the truth. A token is
good for one claim, for its own request, for five minutes; nothing starts without
its user's yes and its prerequisites. No stale fact is sent as current and no
selected one is lost; what is recommended is the best there is for what was seen;
no report claims what nobody measured. A script is not left behind in silence, and
an installation loses nothing of what others keep in its files.

## Modules

    GateAdmission         execute, steps 0 to 9, and both in-memory stores  MC_Admission
    JournalStore          files, records, derivation of a key's state, faults
      GateExecution       execute, steps 8 to 13, any number of calls       MC_Gate
      JournalRecovery     the operator's commands
        JournalSystem     both over the same files                          MC_System
          KeyGuarantee    the abstract promise, INSTANCEd by JournalSystem
    PrivateExecutors      the nine executors, the evidence classifier       MC_Executors
    StateStore            state.json                                        MC_State
    SystemFacts           from a measured system to facts
      FreshnessGate       diagnose and applyFreshnessGating, with time
      Telemetry           the stores in memory and the health status
        DiagnoseSession   both                                              MC_Diagnose
      QueryAnalysis       selection, fragments, entities, scoring
        DiagnosticRouter  what to check next
      ActionMapping       the catalog and the recommendation
      ModelFeasibility    canExecute
      HostReport          adapters, doctor, context
        Consultation      the four and HostReport over one machine          MC_Consultation
    CapturedScript        execCtxCaptured: child, timer, output
      McpServer           the stdio server over it                          MC_Mcp
    CliProcess            one process of buffy, execCtx with its signals
    Installer             the four files of installAntigravity
      CliSession          calls one after the other                         MC_Cli
    JournalSystem_proofs (GateExecution too), GateAdmission_proofs,
    StateStore_proofs, McpServer_proofs, PrivateExecutors_proofs,
    Consultation_proofs, DiagnoseSession_proofs, CliSession_proofs          proofs

**GateAdmission** has one place (`pc`) for each await of `execute` up to the
execution: capabilities, system information, the prompt; and one between issue and
claim, because a process may be suspended there and the token has a time to live.
`tokens` and `records` are the maps of the two stores; *guests* stand for other
code that holds them. `held`, `born`, `grants` and `consented` are history
variables: what the machine offered during the call, and what was granted when. The end of the
execution, which GateExecution models in detail, is one action here.

**JournalStore** translates the shared half of `execution-journal.ts`. `journal`
holds the lines that end in a newline, `tail` what follows the last one: an
append that stopped half way leaves a fragment, and the next record lands on the
fragment's line (`Landed`). A corrupt line carries the keys whose text can be
found in it, because that is what `corruptAffectsKey` asks. `KeyState` is
`deriveKeyState`, with the viewer's host as a parameter: an owner on another
host cannot be checked and counts as dead. `WriteLine(rec, written)` has the
four ways an append can go; `written` is what the caller is told, and "late" is
the case where the line is out but `closeSync` fails. `reopened` is a history
variable: how often an operator's `efecto_ausente_confirmado` was written for
the key.

**GateExecution** has one variable per local of `execute` that outlives a step:
`stage` and `phase` (where the call is), `verdict` (beginKey), `outcome` (the
executor), `journalWritten`, `persisted`, and the call's `record` and `token` in
the session's stores. One action stands for each file operation that another
process can see. `EventLoopFree` says that synchronous code of one process is
not interrupted by another call of it: two calls of a process interleave only
while one awaits its executor. `Releases` is the decision whether the claim goes,
which the code takes differently in its three endings.

**JournalRecovery** gives a session one command, `resolveKey`, `resolveClaim` or
`reconcileClaim`, with the code's order of lock, read, write, check and unlink.
The human who names an executionId to `resolveClaim` is taken to name the one
that the command's first read finds. `DeleteStaleLock` is what a person does
about the lock of a dead process; the program never does.

**JournalSystem** composes them and states what needs both. **KeyGuarantee** is
section 1 of `design-v3.md` without any mechanism: runs per key against
reopenings. The refinement mapping takes `ran[k]` to the calls under `k` whose
executor was called, and leaves `reopened` as it is.

**StateStore** models `updateState` with the `loadState` its callers make before
the lock (`loaded`) apart from the one inside (`current`), because the patch is
computed from the first and spread over the second.

**CapturedScript** follows each call of `execCtxCaptured` through the events that
may reach it: the child runs or cannot be started, prints, ends (leaving a
process behind or not), is killed by the timer; the pipes close. The promise
settles on the first of "error" and "close". **McpServer** gives each line of
the input to a handler of its own: `stage` and `answer` are what the client sees
of a request, `pending` and `stdinClosed` are the variables of `startMcpServer`,
and `Exits` is `maybeExit`. `Returns` is `handleToolCall`: a script's answer
needs its promise, the other tools need none. `buffy_verify` and
`buffy_continuity` treat their script alike and are one kind.

**SystemFacts** is `analyzeForQuery`: which facts a measured system gives for a set
of checks, with the severities at their limits. **FreshnessGate** stamps them and
follows `applyFreshnessGating` fact by fact, with an await of the adapter for each
one that is measured again; the caller may also bring facts of an earlier
diagnosis. Every fact carries two times: `observedAt`, its stamp, and `readAt`,
when the machine was really read. **Telemetry** has the bounded stores;
`everStale` remembers what they had to drop. **DiagnoseSession** records a
diagnosis when it has been answered.

**QueryAnalysis** takes a query as a sequence of words and a table (`Meaning`) of
what the regular expressions and dictionaries find in each kind of word; the
rest, from the intent gate to the entity search with its indices, is as in the
code. **ActionMapping** holds the catalog as data and chooses as `action-mapper.ts`
does. **HostReport** has the sources each adapter asks in turn, what it puts in
the place of a silent one, and the items of the doctor. **Consultation** asks a
query of a machine, examines it and assesses a model, and compares the results
with reference definitions that are not the algorithm: the closest entity by
distance, the best of each family by counting, the limits by monotony.

**PrivateExecutors** runs an executor command by command while the machine changes.
Of a result it keeps what it *claims* to be in order; `held` collects what was.
Then it classifies the evidence, of its own outcome or of any other input.

**CliProcess** dispatches a command line; `buffy ctx` is followed from the spawn
through the installation of the signal handlers to its end, with a script and a
helper in its group, either of which may ignore signals. **Installer** empties and
fills one file after the other; `owed` is what others count on, `excused` names
the files whose loss is a finding or a death in the middle of a write.
Another program that registers a server reads the list, empties the file and fills it
(`OtherCuts`, `OtherFills`; `rewriting` is what it is about to fill in), and may never
come to the second. A list that does not parse has whatever servers its text names;
`Merged` drops them, as the code does.
**CliSession** ends the process by signals between any two steps and calls it again.

Abstractions of the journal and the state file: a record has only the fields that code branches on;
fingerprints, keys and processes are model values; a process is its hostname,
bootId, pid and starttime together, so PID reuse does not occur; fsync keeps its
promise; an append that loses only its final newline counts as a fragment
(in the code such a last line still parses, until the next record joins it);
`state.json` is damaged from outside only between two updates.

## Runs

| run | what it is | states |
|---|---|---|
| `gate` | three calls, two of them one key, two processes, all six kinds of fault, at most two | 220 000 |
| `gate_live` | a key reused for another action that has no executor; fairness | 28 000 |
| `one_host` | the calls of `gate` and one operator's command, one host, p1 may die, one torn append | 969 000 |
| `two_hosts` | three calls with one key, one operator, two hosts, one fault (lock, read, torn) | 400 000 |
| `state_store` | two actions, one scan, one fault of any kind; ledger capped at one record | 67 000 |
| `mcp` | a verify, a search, an unknown tool, a method, a notification; fairness | 90 000 |
| `admission` | three calls of one gate, one token of other code; one tick to live, a clock of two, two changes of the machine | 687 000 |
| `diagnose` | two diagnoses or gatings over two machines, four ticks, stores of three entries | 1 884 000 |
| `consultation` | all queries up to four words of eleven kinds; five machines, three platforms; 540 hosts | 23 000 |
| `executors` | nine executors on each system, two changes of the machine; all inputs of the classifier | 67 000 |
| `cli` | 29 command lines; a script with a helper; two installations over 56 pairs of initial files, another program's write cut in two; fairness | 1 031 000 |
| `foreign_claim` | shows a finding | |

What the passing runs check:

- `AtMostOnce`: at most one run per key, plus one per reopening.
- `OneRunPerFingerprint`: from the call of the executor to the last line about
  it, no other call of that action runs, even after the first one's death.
  It holds while no operator intervenes; freeing claims is what operators do.
- `EffectIsRemembered`: once an executor was called, its claim, its line or a
  corrupt line that blocks the key is there.
- `RecordIsEvidence`: records say completed exactly of executors that returned;
  an answered call leaves nothing open.
- `KeyBoundToFingerprint`, `CachedIsJustified`: what a caller is told about a key
  is so.
- `EventuallyAnswered`: every call comes to an answer or its process dies.
- `CachedIsFinal`, `OperatorAimsAtFinished`: what operators may not undo. The
  first needs one host and a readable journal: on two hosts an operator may
  resolve the key of a live call, whose record then comes last
  (`two_hosts` shows what still holds); for the unreadable journal see the findings.
- `AdmissionInv`, `KeepsGuarantee`: the inductive invariant and the refinement that
  the proofs use.
- `PersistedStands`: once a call was told that its end is persisted, no reader on any
  host derives for its key that a new attempt may start or that one is under way,
  until an operator reopens the key. Torn writes are among the faults: the record
  itself may be lost on a fragment (a finding), and then the corrupt line blocks the
  key.
- `LedgerIsTrue`, `ScanIsKept`, `CorruptIsKept`, `EveryCommandEnds`: the state
  file under concurrent, failing and dying writers.
- `NoAnswerLost`, `AnswersAreHonest`, `EveryCallAnswered`, `ServerEnds`: the MCP
  server under scripts that fail, hang or print late, and an input that ends at
  any time. The last two except, in the formula, a call whose pipes a process left
  behind by the script holds for ever (`Held`): the timeout does not end that call, a
  finding.
- `GrantsAreBound`, `StartsAreJustified`: what a token is good for, and what a start
  rests on. The gate looks at the prerequisites before it asks the user and not
  again, so they are known to have held at some time, not at the start.
- `SentIsRecent`, `FactsAreAccounted`, `HealthFollowsNewest`: freshness. The first
  speaks of the moment the gating began: a fact that ages while others are
  refreshed is sent as it is. Facts about disks are excepted from the second
  (a finding).
- `SelectionIsJustified`, `RecommendationsAreTheBest`, `ReviewMeansSeen`,
  `DoctorIsHonest`, `FeasibilityIsMonotone`: the algorithms against references.
  What the adapters fill in (`FilledIn`) is a finding and excepted.
- `ClaimsWereTrue`, `EvidenceIsEarned`: what an executor tells was so at some time
  during the execution; no level rests on the executor's word alone. A driver and a
  disk nobody could look at are excepted (a finding).
- `NoOrphanUnawares`, `SignalledEnds`: signals. The first excepts the gap between
  spawn and handlers (a finding).
- `InstallKeepsTheRest`: the servers and the text of others survive installations that
  are cut off, fail, are repeated and cross other writers. Excused by name is a file
  left empty in the middle of a write, one that changed after it was read, `GEMINI.md`
  with its markers out of order, and a list of servers that did not parse when it was
  read, damaged or just being rewritten (findings). While another program has the list
  emptied, the servers are with that program.

**Bounds.** Two calls of one key are the least that can race, a third without a
key (or with the key for another action) meets both at the claim; two
processes, because calls of one process interleave otherwise than calls of two.
`MaxFaults` bounds faults over a behaviour: two in `gate`, so that a failed
append may meet a failed abort or a second failure of a retry; one elsewhere.
`Mortal` bounds which processes die; a process dies once. `HistoryCap` and
`EvidenceCap` replace 50 and 200; an evidence cap of one rotates at the second
record. One key suffices: keys share only the lock and the fingerprint's claim,
and a call without a key meets both. Symmetry is not used: the actors are told
apart by their processes and keys. In `mcp` two scripts are the least whose
ends can cross each other and the end of the input; each other kind of line
occurs once, because requests meet only in the counter. In `admission` calls meet
in the stores' sweeps, so one token of each kind and a second call suffice; a time to live of one
tick makes "in time", "at the limit" and "late" different. In `diagnose` the four
classes of ages are 0 to 3 ticks, and stores of three overflow with the facts of one
diagnosis. In `consultation` four words reach both sides of a modifier with
fragments and dropped words, though not the far end of the window (four words); the
machines have each value at a limit and next to it. In `cli` the
initial files have each form of the list, one of them broken with a server in its text, and
each order of the markers.

**Fairness.** `FairSpec` gives every call weak fairness of its next step once it
has begun. That is the operating system scheduling a live process; that the lock
wait is bounded by a clock (`acquireJournalLock`, five seconds), so a waiter's
step never depends on the holder; and that executors settle, because the
registered ones wait for commands with a time limit. Nothing is assumed of
deaths or faults. In McpServer, `FairSpec` says that timers fire, pending events
are delivered and a settled promise resumes its handler, which is Node's event
loop; it assumes nothing of scripts. In CliSession the same event loop, and a
process that got a signal it does not ignore dies of it; a script need never end
by itself. Nothing is assumed of what a script leaves behind either: it may
hold the pipes for ever. The other runs check safety only and need none. Deadlock is
off in every configuration: the calls end.

## Proofs

For any processes, hosts, keys, fingerprints, calls, commands, and any number of
faults, under the assumptions `JournalAssumption` (the constants are what they
are said to be; the set of invocations is finite, so that cardinalities make
sense), `GateAssumption`, `RecoveryAssumption`, `AdmissionAssumption` (tokens,
tools and privileges do not share names; times are numbers), `StateAssumption`
(the caps are positive, an action is not a scan), `ServerAssumption` (finitely many requests, of known kinds),
`FreshnessAssumption` (the order of the ages, and that times are numbers), `MeasurementAssumption` (what a system
reports has the form of `types.ts`; the id of a fact about a disk is none of the fixed ids,
because `diagnose.ts` makes it of a prefix and the mount) and `InstallerAssumption` (the two
files that were there before have the forms `antigravity.ts` tells apart, a broken list with any servers in its text; the user types no marker),
`ConsultationAssumption` (a host's memory and temperature are numbers or unknown) and `MeaningAssumption`
(what the dictionaries find of a word are checks and truth values). `Spec` is the module's own
specification; in JournalSystem_proofs it is the one of GateExecution, without operators:

| module | theorem | establishes |
|---|---|---|
| JournalSystem_proofs | GateTypeCorrect | `Spec => []TypeOK` |
| | OneRunCorrect | `Spec => []OneRunPerFingerprint` |
| | EffectRemembered | `Spec => []EffectIsRemembered` |
| | RecordIsTrue | `Spec => []RecordIsEvidence` |
| | SystemTypeCorrect | `SystemSpec => []SystemTypeOK` |
| | AdmissionCorrect | `SystemSpec => []AdmissionInv` |
| | AtMostOncePerKey | `SystemSpec => []AtMostOnce` |
| | ImplementsGuarantee | `SystemSpec => KeepsGuarantee` |
| | KeyBound | `Spec => []KeyBoundToFingerprint` |
| | CachedJustified | `Spec => []CachedIsJustified` |
| | PersistedWillStand | `SystemSpec => []PersistedStands` |
| | AimsCorrect | `SameHost`, `"read" \notin Faults` give `SystemSpec => []OperatorAimsAtFinished` |
| | AnswersFinal | from the same, `SystemSpec => CachedIsFinal` |
| GateAdmission_proofs | AdmissionTypeCorrect | `Spec => []TypeOK` |
| | GrantsBound | `Spec => []GrantsAreBound` |
| | StartsJustified | `Spec => []StartsAreJustified` |
| StateStore_proofs | StoreTypeCorrect | `Spec => []TypeOK` |
| | CorruptKept | `Spec => CorruptIsKept` |
| | ScanKept | `Spec => ScanIsKept` |
| | LedgerTrue | `Spec => []LedgerIsTrue` |
| McpServer_proofs | ServerTypeCorrect | `Spec => []TypeOK` |
| | ExitAfterLastAnswer | `Spec => []NoAnswerLost` |
| | AnswersHonest | `Spec => []AnswersAreHonest` |
| PrivateExecutors_proofs | ClaimsTrue | `Spec => []ClaimsWereTrue` |
| | EvidenceEarned | `Spec => []EvidenceIsEarned` |
| Consultation_proofs | FeasibilityMonotone | `Spec => []FeasibilityIsMonotone` |
| | DoctorHonest | `Spec => []DoctorIsHonest` |
| | ReviewSeen | `Spec => []ReviewMeansSeen` |
| | SelectionJustified | `Spec => []SelectionIsJustified` |
| | RecommendationsBest | `Spec => []RecommendationsAreTheBest` |
| DiagnoseSession_proofs | FreshAsSent | `Spec => []SentIsRecent` |
| | AllAccountedFor | `Spec => []FactsAreAccounted` |
| | ReportFollowsNewest | `Spec => []HealthFollowsNewest` |
| CliSession_proofs | NoOrphanUnaware | `Spec => []NoOrphanUnawares` |
| | InstallationKeepsTheRest | `Spec => []InstallKeepsTheRest` |

*At most once.* `AtMostOnce` is not inductive: a call that has written its
started line counts before its executor is called. `AdmissionInv` counts the
calls beginKey *admitted* instead (`Admitted`: they were let proceed, and have come to
their executor or the want of one, or still may). Its parts: live critical sections own the lock
(`LockHeld`; only a dead process's lock is ever deleted by hand, and lock files
of processes whose owner write failed are only orphans); a verdict of proceed
is still current when the line is written (`DecisionIsCurrent`, because the
journal changes only under the lock); and `AdmittedBounded`: the admitted calls
are at most one more than the reopenings, and at most as many while the journal
still invites a new attempt. Every append keeps the second clause because it
either puts something else last, or reopens and counts, or lands on a fragment
and makes the key's corruption block it.

*Refinement.* A step that calls an executor maps to `Run` (by `AdmittedBounded`
there is room), one that writes a readable `efecto_ausente_confirmado` to
`Reopen`, every other to a stutter.

*Persisted.* A key is `Shut` when it is corrupt or its last line is one after which no
attempt starts. `StandInv` says that a call told persisted had been admitted and left
its key shut. Only three lines open a shut key: a started or an aborted one, whose
writer is admitted, and of a key never reopened no two calls are (`AdmittedAlone`); and
an operator's `efecto_ausente_confirmado`, which counts as a reopening. On a fragment
even these keep it shut, being unreadable.

*One run per fingerprint, effects remembered.* The strengthening `ClaimInv` ties
the stages from invoke to finish to the claim; `EffectInv` adds what
`journalWritten` and `persisted` promise about the journal, which only grows.

*Records.* `RecordInv` says how far record and token have come at each stage.

*Verdicts.* A call that may proceed is about to write with the lock in its hands
(`LockOwned`) or its mark is in the journal (`Marked`: a line with its
fingerprint, or corruption of its key); the next reader of the key must agree with
every mark. `CompletedTrue` ties each completed line to a call that succeeded.

*Answers.* `OpenIsLast` is the heart: while a call that wrote its started line is alive
and has not written its ending, that line is the last about its key, or the key is
corrupt. The calls keep it because `beginKey` decides under the lock; the operators
because what `resolveKey` read is still so when it writes (`ReadIsCurrent`), and a
key whose last line is of a living owner is not resolved. That needs one host
(`SameHost`), or liveness cannot be told, and reads that succeed, or resolveKey writes
blindly: both are findings or limits shown by other runs. The same invariant gives
both theorems; TLC checked it with every other kind of fault first.

*Grants.* `GrantInv` ties a stored token to its purpose and its birth, says that
one still "issued" has let nobody through, and that before the issue there is
neither token nor grant: every operation of the store, sweeps included, moves a
token's state forward only (`KeptBy`), so a second claim finds it no longer issued.

*Starts.* `StartInv` says what is known at each place: at "issued" the user has
said yes, at "system" what capabilities told was there, from "ask" on every
prerequisite was there. A start by a claim needs a grant of the same token
(`ClaimGrants`), and grants and `held` only grow.

*The ledger.* `LockInv` ties the steps of an update to `state.lock`, and says that
between read and write the file is what was read. `LedgerInv` says that every
list, in the file and in every state a call has loaded, tells the truth and has no
entry of a call that still owes it; so what an update puts in front is the first of
its kind. Cutting a list at its cap keeps both.

*The server.* The type invariant carries `CallsAreCounted`: `pending` is the
cardinality of the running calls, which each step keeps by adding or removing one
element of a finite set; the exit asks for zero, so there is none. For honest
answers, `WellEnded` says that a script that ended well with nobody left printing
has all its output or none, also in what its promise settled to, and `TakenFrom`
that a settled promise does not change after the answer was taken from it.

*Executors.* `ExecutionInv`: while an executor runs, the answers so far are those to
the first commands of its plan (`InPlan`), each answer means what it says about what
the machine has shown since the start (`AnswersMean`), and what is the case now has
been seen (`machine \subseteq held`). At the return a claim rests on an answer of the
plan, plan by plan. The evidence classifier has no state: `EvidenceInv` is a case
distinction over `classify`, for every input.

*Consultation.* The run `consultation` is over a few words, machines and hosts; the
theorems are for all. `ConsultationInv` only says how each state came about (`AskInv`,
`AnswerInv`, `AssessInv`, `ExamineInv`: for some query, machine or host the state holds
what the functions of the code compute), so the weight is in lemmas about those
functions. `Places`: filtering keeps the chosen elements, each once, in their order, so
`[0]` after a filter is the first one chosen and positions compare. Fragments are pieces
of the query, and when there is one it is the whole query. The first look around a
modifier that finds an entity finds its closest (`FirstLook`). A lexicographic order on
finitely many candidates has a best one, and a family keeps it; a family left out had
three before it. For the doctor, both item lists are compared item by item; for
feasibility, a verdict is the worst of a set, and the set of a better machine is no
worse.

*Freshness.* `GateInv` is checked by TLC on the run `diagnose` before it is proved.
`Timing` says that the clock has not gone back since the gating began and that what is
read for a refresh is read after it; `Recent` is the property of lists that still
grow; `Progress` counts the facts before `position` into the four lists and finds a
place for each selected one; `Audit` relates the instrumentation's positions to those
lists with cardinalities. The facts a measurement gives come from a flattened
sequence of sequences; that its elements are theirs is an induction over the
length.

*Telemetry.* `TelemetryInv`: the store mirrors the newest `MaxStore` of `everStale`,
entry by entry (`Mirrors`); a diagnosis pushes a sequence of entries, so this too needs
an induction over it, and then the two counts of stale entries are cardinalities of
sets of positions that a shift maps onto each other.

*Processes.* `ProcessInv` adds to the property what leads to it: only a delegation has
a group, nothing has been sent before the end, a living script has no end
(`Delegation`); and the end itself, by exit code (`Farewell`).

*Installation.* `InstallInv`: what is *held* in memory between reading and
filling keeps what others have, or an excuse is recorded; so does what another program
is about to fill in (`rewriting`), and it has Buffy's entry when it was read after that
was written; files already filled keep
their entry and block (`ConfigInv`, `GuideInv`, `OwnFilesInv`). Its core are three facts
about `upsertSection` for every text: one with markers in order, or none, has
markers in order afterwards, the same text outside them, and the block
(`UpsertKeeps`); what the user appends changes neither block nor markers (`AppendKeeps`);
a block between two parts without markers before it is the first one (`FramedMeaning`).

Where a definition is recursive over a sequence (`FlattenSeq`, `PushedAll`, `Filtered`,
`SplitFragments`), the proofs use induction as a statement about *sets* of numbers
(`Induction`: a set that has 0 and with each number the next has all), which follows
from the well-foundedness of the order on `Nat`; the library's induction theorems take
operators, which the provers cannot instantiate.

Only model-checked: the liveness properties, which are out of this prover's reach, and
what the run `foreign_claim` refutes. Every invariant and every other action property of the
passing runs has a theorem.

## Findings

The run `foreign_claim` shows the one finding that takes an interleaving to see:
the removal of another call's claim. The others were met while modelling, mostly
where a property needed an exception, which its comment names; `PROJECT.json` quotes
the code and the comment, document or test it disagrees with. The most
consequential: two commands that end together lose an evidence record; a record
appended after a fragment is lost though reported as persisted; a key whose
journal cannot be read can be resolved; the timeout of a captured script does
not bound it when its children keep the pipes; a stale fact about a disk is
dropped also when asked for; a modifier's index is used in a shortened array,
which can reject a diagnosis; a broken or foreign `mcp_config.json` is
replaced, and unmatched markers in `GEMINI.md` eat text; executors report
success where every probe failed. Limits that `design-v3-notas.md` names (no unlocking
of a dead process's lock, no claim release by age) are modelled as they are and are
not findings.

## Not modelled, and what is left of the plan

Left: an abstract specification of one-time grants that GateAdmission implements and one
of a ledger that StateStore implements, as KeyGuarantee is for the journal (their
invariants are proved; the refinements are not stated). What `AimsCorrect`
and `AnswersFinal` exclude is not left: there the properties are false, as their
comments and the findings say.

Left out for good: regular expressions and dictionaries letter by letter
(`Meaning` says what they find; the tests of `check-selector` sample them); the
wording of presenter, steps and conclusions; `tool.ts`, a wrapper that formats a
diagnosis, and `rateLimiter.ts`, a factory of constants without a caller; averages of
latencies; `findActionsForIssue`, a constant table; `action-planner.ts`, a table of
previews; error classes, identity and the fixed registry of executors; the parsing of
what system commands print, of which only "answered or not" is kept; the MCP line
`null`, which ends the server by an unhandled rejection; a fact with an
unparseable or missing time stamp; experiments and scripts. `saveState`,
`markUnknown`, `recoverUnknowns`, `expireStale` and `cleanup` have no caller in the
program; all but the first are modelled as operations of whoever holds the store.
