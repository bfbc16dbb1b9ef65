-------------------------- MODULE PrivateExecutors --------------------------
(***************************************************************************)
(* The nine private executors of core/pipeline.ts, and the evidence that       *)
(* executeWithGates draws from what one of them returned                      *)
(* (core/execution-evidence.ts).  An executor asks the machine by commands,    *)
(* one after the other; meanwhile the machine changes.  A command fails when   *)
(* it cannot be run, exits with an error or takes too long; some failures are  *)
(* swallowed and the executor goes on without the answer.                     *)
(*                                                                         *)
(* Of a result is kept whether it is a success, and what it tells the user is *)
(* in order: its claims.  A command that answers nothing has failed too.  By   *)
(* which package manager a tool is installed makes no difference here.        *)
(***************************************************************************)
EXTENDS Naturals, Sequences, FiniteSets, SequencesExt

CONSTANT MaxChanges \* bound: how often the machine changes during an execution

ASSUME ExecutorAssumption == MaxChanges \in Nat

System == {"windows", "linux", "android"}

\* What may be in order with the machine.
Condition == {"tool", "plan", "shizuku", "driver", "processes", "cool", "ip", "dns", "gateway", "disk"}

ActionId ==
  {"install-tool", "change-power-plan", "check-shizuku", "check-gpu-driver",
   "check-driver-status", "list-processes", "check-system-temp", "check-network",
   "check-disk-space"}

VARIABLES
  pc,        \* "idle", "running", "returned" or "done"
  actionId, os, target, \* the request
  machine,   \* the conditions that hold
  changes,   \* how often they changed
  todo,      \* the commands that are left
  answers,   \* what each command told: good, bad or failed
  result,    \* success and claims
  evidence,  \* the level of the evidence, and what it was drawn from
  held       \* ghost: conditions that held at some time during the execution

vars == <<pc, actionId, os, target, machine, changes, todo, answers, result, evidence, held>>

-----------------------------------------------------------------------------
(* The commands of each executor. *)

\* A command, the condition it shows, and whether its failure is swallowed.
Swallowed(about) == [about |-> about, does |-> "look", caught |-> TRUE]
Fatal(about) == [about |-> about, does |-> "look", caught |-> FALSE]
Changing(about) == [about |-> about, does |-> "change", caught |-> FALSE]

\* On Windows the card is asked once; elsewhere again while it has no name.
GpuCommands(system) ==
  IF system = "windows" THEN <<Swallowed("driver")>>
                        ELSE <<Swallowed("driver"), Swallowed("driver")>>

Commands(action, system) ==
  CASE action = "install-tool" -> <<Changing("tool")>>
    [] action = "change-power-plan" -> <<Fatal("plan"), Changing("plan"), Fatal("plan")>>
    [] action = "check-shizuku" -> <<Fatal("shizuku")>>
    [] action = "check-gpu-driver" -> GpuCommands(system)
    [] action = "check-driver-status" ->
         IF system = "linux" THEN <<Swallowed("driver")>> ELSE <<Fatal("driver")>>
    [] action = "list-processes" -> <<Fatal("processes")>>
    [] action = "check-system-temp" -> <<Swallowed("cool")>>
    [] action = "check-network" -> <<Swallowed("ip"), Swallowed("dns"), Swallowed("gateway")>>
    [] action = "check-disk-space" -> <<Swallowed("disk")>>

-----------------------------------------------------------------------------
(* What each executor makes of the answers. *)

Result(success, claims) == [success |-> success, claims |-> claims]
Failure == Result(FALSE, {})

NoneBad(a) == \A n \in DOMAIN a : a[n] # "bad"

InstallToolResult == Result(TRUE, {"tool"})

\* Mutant: a probe that failed is not counted as a problem.
NetworkUnlessBad(a) ==
  Result(TRUE, IF NoneBad(a) THEN {"ip", "dns", "gateway"} ELSE {})

PowerPlanResult(a) == IF Last(a) = "good" THEN Result(TRUE, {"plan"}) ELSE Failure

ShizukuResult == Result(TRUE, {"shizuku"})

\* A card without a name is not generic, so its driver is in order.
DriverResult(a) == Result(TRUE, IF NoneBad(a) THEN {"driver"} ELSE {})

ProcessesResult == Result(TRUE, {"processes"})

\* A temperature that cannot be read is no claim, and a success.
TemperatureResult(a) == Result(TRUE, IF a[1] = "good" THEN {"cool"} ELSE {})

\* The problems found are told; the success is that of having looked.
NetworkResult(a) ==
  Result(TRUE, IF ToSet(a) = {"good"} THEN {"ip", "dns", "gateway"} ELSE {})

\* A disk that cannot be read is 0 % full, so in order.
DiskResult(a) == Result(TRUE, IF NoneBad(a) THEN {"disk"} ELSE {})

ResultOf(action, a) ==
  CASE action = "install-tool" -> InstallToolResult
    [] action = "change-power-plan" -> PowerPlanResult(a)
    [] action = "check-shizuku" -> ShizukuResult
    [] action \in {"check-gpu-driver", "check-driver-status"} -> DriverResult(a)
    [] action = "list-processes" -> ProcessesResult
    [] action = "check-system-temp" -> TemperatureResult(a)
    [] action = "check-network" -> NetworkResult(a)
    [] action = "check-disk-space" -> DiskResult(a)

-----------------------------------------------------------------------------
(* classifyEvidence. *)

NoPostcondition == [given |-> FALSE, matched |-> FALSE, source |-> "none"]
NoRecord == [given |-> FALSE, completed |-> FALSE, source |-> "none"]

\* EvidenceInput without its texts; an outcome of "none" and no attempts is the
\* path of a single record, which the program itself does not take.
EvidenceInputs ==
  [surface : {"self-action", "self-delivery", "external"},
   ledger : BOOLEAN, delivered : BOOLEAN,
   attempts : {<<>>, <<"success">>, <<"failed">>, <<"exception">>},
   finalOutcome : {"none", "success", "failed", "exception"},
   record : {NoRecord} \cup [given : {TRUE}, completed : BOOLEAN, source : {"action-gate"}],
   windowCoversAction : BOOLEAN,
   postcondition :
     {NoPostcondition} \cup [given : {TRUE}, matched : BOOLEAN, source : {"action-gate", "adapter"}]]

\* Mutant: a matched postcondition is enough.
MatchedAtAll(input, source) == input.postcondition.matched

Confirmed(input, source) == input.postcondition.matched /\ input.postcondition.source # source

Compound(input) == input.attempts # <<>> \/ input.finalOutcome # "none"

LevelOfCompound(input) ==
  IF input.finalOutcome # "success" THEN "NOT_VERIFIED"
  ELSE IF Confirmed(input, "action-gate") THEN "VERIFIED" ELSE "OBSERVED_EXECUTED"

LevelOfRecord(input) ==
  IF input.record.completed
    THEN IF Confirmed(input, input.record.source) THEN "VERIFIED" ELSE "OBSERVED_EXECUTED"
    ELSE IF input.windowCoversAction THEN "NOT_VERIFIED" ELSE "UNKNOWN_NO_EVIDENCE"

LevelOfDelivery(input) ==
  IF ~input.ledger THEN "UNKNOWN_CHANNEL_NOT_BUILT"
  ELSE IF input.delivered THEN "DELIVERED" ELSE "UNKNOWN_NO_EVIDENCE"

ClassifyEvidence(input) ==
  CASE input.surface = "external" -> "UNKNOWN_UNOBSERVABLE"
    [] input.surface = "self-delivery" -> LevelOfDelivery(input)
    [] input.surface = "self-action" /\ Compound(input) -> LevelOfCompound(input)
    [] OTHER -> LevelOfRecord(input)

\* What executeWithGates gives the classifier for one completed execution.
OutcomeOf(r) == IF r.success THEN "success" ELSE "failed"
EvidenceInputOf(r) ==
  [surface |-> "self-action", ledger |-> FALSE, delivered |-> FALSE,
   attempts |-> <<OutcomeOf(r)>>, finalOutcome |-> OutcomeOf(r), record |-> NoRecord,
   windowCoversAction |-> TRUE, postcondition |-> NoPostcondition]

-----------------------------------------------------------------------------
NoEvidence == [level |-> "none", input |-> <<>>]

Init ==
  /\ pc = "idle" /\ actionId = "none" /\ os = "none" /\ target = ""
  /\ machine \in {{}, Condition}
  /\ changes = 0 /\ todo = <<>> /\ answers = <<>>
  /\ result = Failure /\ evidence = NoEvidence
  /\ held = {}

\* The gate calls the executor; without a tool to install it is done at once.
Start(action, system, t) ==
  /\ pc = "idle"
  /\ actionId' = action /\ os' = system /\ target' = t
  /\ todo' = IF action = "install-tool" /\ t = "" THEN <<>> ELSE Commands(action, system)
  /\ pc' = IF todo' = <<>> THEN "returned" ELSE "running"
  /\ held' = machine
  /\ UNCHANGED <<machine, changes, answers, result, evidence>>

\* The next command answers; when it is the last the executor returns.
Answered(answer) ==
  /\ answers' = Append(answers, answer)
  /\ todo' = IF actionId = "check-gpu-driver" /\ answer # "failed" THEN <<>> ELSE Tail(todo)
  /\ IF todo' = <<>> THEN pc' = "returned" /\ result' = ResultOf(actionId, answers')
                      ELSE pc' = "running" /\ UNCHANGED result

\* Where Shizuku or the list of processes is not to be had, the command fails.
Graded == Condition \ {"shizuku", "processes"}
CommandLooks ==
  /\ pc = "running" /\ Head(todo).does = "look"
  /\ Head(todo).about \in machine \cup Graded
  /\ Answered(IF Head(todo).about \in machine THEN "good" ELSE "bad")
  /\ UNCHANGED <<actionId, os, target, machine, changes, evidence, held>>

\* A change that reports no error has had its effect, but for a power plan that the
\* machine keeps.
CommandChanges(effective) ==
  /\ pc = "running" /\ Head(todo).does = "change"
  /\ effective \/ Head(todo).about = "plan"
  /\ machine' = IF effective THEN machine \cup {Head(todo).about} ELSE machine
  /\ held' = held \cup machine'
  /\ Answered("good")
  /\ UNCHANGED <<actionId, os, target, changes, evidence>>

CommandFails ==
  /\ pc = "running"
  /\ IF Head(todo).caught THEN Answered("failed")
     ELSE /\ pc' = "returned"
          /\ todo' = <<>> /\ answers' = Append(answers, "failed")
          /\ result' = Failure
  /\ UNCHANGED <<actionId, os, target, machine, changes, evidence, held>>

MachineChanges(c) ==
  /\ pc = "running" /\ changes < MaxChanges
  /\ changes' = changes + 1
  /\ machine' = IF c \in machine THEN machine \ {c} ELSE machine \cup {c}
  /\ held' = held \cup machine'
  /\ UNCHANGED <<pc, actionId, os, target, todo, answers, result, evidence>>

EmitEvidence ==
  /\ pc = "returned"
  /\ pc' = "done"
  /\ evidence' = [level |-> ClassifyEvidence(EvidenceInputOf(result)), input |-> EvidenceInputOf(result)]
  /\ UNCHANGED <<actionId, os, target, machine, changes, todo, answers, result, held>>

\* The classifier called with any input, as its tests do.
Classify(input) ==
  /\ pc = "idle"
  /\ pc' = "done"
  /\ evidence' = [level |-> ClassifyEvidence(input), input |-> input]
  /\ UNCHANGED <<actionId, os, target, machine, changes, todo, answers, result, held>>

Next ==
  \/ \E action \in ActionId, system \in System, t \in {"", "git"} : Start(action, system, t)
  \/ CommandLooks \/ CommandFails
  \/ \E effective \in BOOLEAN : CommandChanges(effective)
  \/ \E c \in Condition : MachineChanges(c)
  \/ EmitEvidence
  \/ \E input \in EvidenceInputs : Classify(input)

Spec == Init /\ [][Next]_vars

-----------------------------------------------------------------------------
(* Properties. *)

\* What a result tells the user was so at some time during the execution, whatever
\* changed meanwhile and whichever commands failed.  The exceptions are a driver and
\* a disk whose every look failed: they are told to be in order (see the findings).
ClaimsWereTrue ==
  pc \in {"returned", "done"} =>
    \A c \in result.claims :
      c \in held \/ (c \in {"driver", "disk"} /\ ToSet(answers) = {"failed"})

\* Levels are earned (execution-evidence.ts:9-54): VERIFIED takes a postcondition
\* matched by somebody other than the executor; a final outcome that is not a
\* success is neither observed nor verified; what was not examined is not denied.
EvidenceIsEarned ==
  pc = "done" =>
    LET input == evidence.input
        level == evidence.level
    IN /\ level = "VERIFIED" =>
            input.postcondition.matched /\ input.postcondition.source = "adapter"
       /\ level \in {"VERIFIED", "OBSERVED_EXECUTED"} =>
            /\ input.surface = "self-action"
            /\ input.finalOutcome \in {"none", "success"}
            /\ input.finalOutcome = "success" \/ input.record.completed
       /\ level = "DELIVERED" => input.surface = "self-delivery" /\ input.delivered
       /\ level = "NOT_VERIFIED" => Compound(input) \/ input.windowCoversAction

=============================================================================
