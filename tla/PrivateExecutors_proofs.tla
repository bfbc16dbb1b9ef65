----------------------- MODULE PrivateExecutors_proofs -----------------------
(***************************************************************************)
(* What an executor claims was so, and what its evidence is called is         *)
(* earned, for every action, system and order of answers, however often the   *)
(* machine changes meanwhile.                                               *)
(***************************************************************************)
EXTENDS PrivateExecutors, SequenceTheorems, TLAPS

Command == [about : Condition, does : {"look", "change"}, caught : BOOLEAN]
AnswerOf == {"good", "bad", "failed"}

\* The type invariant.
TypeOK ==
  /\ pc \in {"idle", "running", "returned", "done"}
  /\ machine \in SUBSET Condition /\ held \in SUBSET Condition
  /\ todo \in Seq(Command) /\ answers \in Seq(AnswerOf)
  /\ result \in [success : BOOLEAN, claims : SUBSET Condition]

Plan == Commands(actionId, os)

\* The answers so far are those to the commands before the ones that are left.
InPlan ==
  /\ actionId \in ActionId /\ os \in System
  /\ todo # <<>>
  /\ Len(answers) + Len(todo) = Len(Plan)
  /\ \A n \in 1 .. Len(todo) : todo[n] = Plan[Len(answers) + n]

\* What an answer to a command means: a look that is good saw the condition, a
\* change that is good made it so, unless it is one of the power plan; bad is only
\* what can be graded, and a failure that is not swallowed is no answer.
Means(command, answer, seen) ==
  /\ answer = "good" /\ (command.does = "look" \/ command.about # "plan")
       => command.about \in seen
  /\ answer = "bad" => command.about \in Graded /\ command.does = "look"
  /\ answer = "failed" => command.caught

AnswersMean == \A n \in 1 .. Len(answers) : Means(Plan[n], answers[n], held)

Earned(input, level) ==
  /\ level = "VERIFIED" =>
       input.postcondition.matched /\ input.postcondition.source = "adapter"
  /\ level \in {"VERIFIED", "OBSERVED_EXECUTED"} =>
       /\ input.surface = "self-action"
       /\ input.finalOutcome \in {"none", "success"}
       /\ input.finalOutcome = "success" \/ input.record.completed
  /\ level = "DELIVERED" => input.surface = "self-delivery" /\ input.delivered
  /\ level = "NOT_VERIFIED" => Compound(input) \/ input.windowCoversAction

\* Before the return there are no claims, the machine as it is has been held, and
\* the answers mean what they say.
ExecutionInv ==
  /\ pc = "idle" => answers = <<>>
  /\ pc \in {"idle", "running"} => result = Failure
  /\ pc = "running" => InPlan /\ AnswersMean /\ machine \subseteq held

EvidenceInv == pc = "done" => Earned(evidence.input, evidence.level)

-----------------------------------------------------------------------------
(* The plans. *)

\* Every executor's commands are a sequence of commands, three at most.
LEMMA PlanIsSequence ==
  ASSUME NEW action \in ActionId, NEW system \in System
  PROVE  Commands(action, system) \in Seq(Command) /\ Commands(action, system) # <<>>
<1>1. \A about \in Condition :
        Swallowed(about) \in Command /\ Fatal(about) \in Command /\ Changing(about) \in Command
  BY DEF Swallowed, Fatal, Changing, Command
<1>2. \/ Commands(action, system) = <<Changing("tool")>>
      \/ Commands(action, system) = <<Fatal("plan"), Changing("plan"), Fatal("plan")>>
      \/ Commands(action, system) = <<Fatal("shizuku")>>
      \/ Commands(action, system) = <<Swallowed("driver")>>
      \/ Commands(action, system) = <<Swallowed("driver"), Swallowed("driver")>>
      \/ Commands(action, system) = <<Fatal("driver")>>
      \/ Commands(action, system) = <<Fatal("processes")>>
      \/ Commands(action, system) = <<Swallowed("cool")>>
      \/ Commands(action, system) = <<Swallowed("ip"), Swallowed("dns"), Swallowed("gateway")>>
      \/ Commands(action, system) = <<Swallowed("disk")>>
  BY DEF ActionId, Commands, GpuCommands
<1>3. /\ \A x \in Command : <<x>> \in Seq(Command) /\ <<x>> # <<>>
      /\ \A x, y \in Command : <<x, y>> \in Seq(Command) /\ <<x, y>> # <<>>
      /\ \A x, y, z \in Command : <<x, y, z>> \in Seq(Command) /\ <<x, y, z>> # <<>>
  OBVIOUS
<1>4. /\ Changing("tool") \in Command /\ Changing("plan") \in Command
      /\ \A about \in {"plan", "shizuku", "driver", "processes"} : Fatal(about) \in Command
      /\ \A about \in {"driver", "cool", "ip", "dns", "gateway", "disk"} : Swallowed(about) \in Command
  BY <1>1 DEF Condition
<1>5. QED
  BY <1>2, <1>3, <1>4

\* What an executor claims once its commands have answered follows from what the
\* answers mean, but for a driver or a disk that no command could tell about.
LEMMA ClaimsFollow ==
  ASSUME NEW action \in ActionId, NEW system \in System,
         NEW a \in Seq(AnswerOf), a # <<>>, NEW seen,
         \A n \in 1 .. Len(a) : Means(Commands(action, system)[n], a[n], seen),
         \/ Len(a) = Len(Commands(action, system))
         \/ action = "check-gpu-driver" /\ Len(a) <= Len(Commands(action, system)),
         NEW c \in ResultOf(action, a).claims
  PROVE  c \in seen \/ (c \in {"driver", "disk"} /\ ToSet(a) = {"failed"})
<1> DEFINE plan == Commands(action, system)
<1>n. Len(a) \in Nat \ {0} /\ \A n \in 1 .. Len(a) : a[n] \in AnswerOf
  OBVIOUS
<1>a. DOMAIN a = 1 .. Len(a)
  OBVIOUS
<1>f. ASSUME \A n \in 1 .. Len(a) : a[n] = "failed" PROVE ToSet(a) = {"failed"}
  <2>1. a[1] = "failed" /\ 1 \in DOMAIN a
    BY <1>f, <1>n, <1>a
  <2>2. QED
    BY <1>f, <1>a, <2>1 DEF ToSet
<1>1. CASE action = "install-tool"
  <2>1. plan = <<Changing("tool")>>
    BY <1>1 DEF Commands
  <2>2. c = "tool"
    BY <1>1 DEF ResultOf, InstallToolResult, Result
  <2>3. QED
    BY <1>1, <1>n, <2>1, <2>2 DEF Means, Changing, AnswerOf, Graded
<1>2. CASE action = "change-power-plan"
  <2>1. plan = <<Fatal("plan"), Changing("plan"), Fatal("plan")>>
    BY <1>2 DEF Commands
  <2>2. Len(a) = 3
    BY <1>2, <2>1
  <2>3. c = "plan" /\ a[3] = "good"
    BY <1>2, <2>2 DEF ResultOf, PowerPlanResult, Result, Failure, Last
  <2>4. QED
    BY <2>1, <2>2, <2>3 DEF Means, Fatal
<1>3. CASE action = "check-shizuku"
  <2>1. plan = <<Fatal("shizuku")>>
    BY <1>3 DEF Commands
  <2>2. c = "shizuku"
    BY <1>3 DEF ResultOf, ShizukuResult, Result
  <2>3. QED
    BY <1>3, <1>n, <2>1, <2>2 DEF Means, Fatal, AnswerOf, Graded
<1>4. CASE action \in {"check-gpu-driver", "check-driver-status"}
  <2>1. c = "driver" /\ \A n \in 1 .. Len(a) : a[n] # "bad"
    BY <1>4, <1>a DEF ResultOf, DriverResult, Result, NoneBad
  <2>2. \A n \in 1 .. Len(plan) : plan[n].about = "driver" /\ plan[n].does = "look"
    <3>1. \/ plan = <<Swallowed("driver")>> \/ plan = <<Fatal("driver")>>
          \/ plan = <<Swallowed("driver"), Swallowed("driver")>>
      BY <1>4 DEF Commands, GpuCommands
    <3>2. QED
      BY <3>1 DEF Swallowed, Fatal
  <2>3. Len(plan) \in Nat /\ Len(a) <= Len(plan)
    BY PlanIsSequence
  <2>4. CASE \E n \in 1 .. Len(a) : a[n] = "good"
    BY <2>1, <2>2, <2>3, <2>4, <1>n DEF Means
  <2>5. CASE \A n \in 1 .. Len(a) : a[n] # "good"
    BY <2>1, <2>5, <1>n, <1>f DEF AnswerOf
  <2>6. QED
    BY <2>4, <2>5
<1>5. CASE action = "list-processes"
  <2>1. plan = <<Fatal("processes")>>
    BY <1>5 DEF Commands
  <2>2. c = "processes"
    BY <1>5 DEF ResultOf, ProcessesResult, Result
  <2>3. QED
    BY <1>5, <1>n, <2>1, <2>2 DEF Means, Fatal, AnswerOf, Graded
<1>6. CASE action = "check-system-temp"
  <2>1. plan = <<Swallowed("cool")>>
    BY <1>6 DEF Commands
  <2>2. c = "cool" /\ a[1] = "good"
    BY <1>6 DEF ResultOf, TemperatureResult, Result
  <2>3. QED
    BY <1>6, <1>n, <2>1, <2>2 DEF Means, Swallowed
<1>7. CASE action = "check-network"
  <2>1. plan = <<Swallowed("ip"), Swallowed("dns"), Swallowed("gateway")>>
    BY <1>7 DEF Commands
  <2>2. Len(a) = 3
    BY <1>7, <2>1
  <2>3. c \in {"ip", "dns", "gateway"} /\ ToSet(a) = {"good"}
    BY <1>7 DEF ResultOf, NetworkResult, Result
  <2>4. \A n \in 1 .. 3 : a[n] = "good"
    <3>1. \A n \in DOMAIN a : a[n] \in ToSet(a)
      BY DEF ToSet
    <3>2. QED
      BY <3>1, <2>2, <2>3, <1>a
  <2>5. QED
    BY <2>1, <2>2, <2>3, <2>4 DEF Means, Swallowed
<1>8. CASE action = "check-disk-space"
  <2>1. plan = <<Swallowed("disk")>>
    BY <1>8 DEF Commands
  <2>2. c = "disk" /\ Len(a) = 1 /\ a[1] # "bad"
    BY <1>8, <2>1, <1>a DEF ResultOf, DiskResult, Result, NoneBad
  <2>3. QED
    BY <1>n, <1>f, <2>1, <2>2 DEF Means, Swallowed, AnswerOf
<1>9. QED
  BY <1>1, <1>2, <1>3, <1>4, <1>5, <1>6, <1>7, <1>8 DEF ActionId

\* For any input, as it is given to classifyEvidence.
LEMMA LevelIsEarned ==
  ASSUME NEW input \in EvidenceInputs
  PROVE  Earned(input, ClassifyEvidence(input))
<1>0. /\ input.postcondition \in {NoPostcondition}
           \cup [given : {TRUE}, matched : BOOLEAN, source : {"action-gate", "adapter"}]
      /\ input.record \in {NoRecord}
           \cup [given : {TRUE}, completed : BOOLEAN, source : {"action-gate"}]
      /\ input.windowCoversAction \in BOOLEAN
  BY DEF EvidenceInputs
<1>1. CASE input.surface = "external"
  <2>1. ClassifyEvidence(input) = "UNKNOWN_UNOBSERVABLE"
    BY <1>1 DEF ClassifyEvidence
  <2>2. QED
    BY <2>1 DEF Earned
<1>2. CASE input.surface = "self-delivery"
  <2>1. ClassifyEvidence(input) = LevelOfDelivery(input)
    BY <1>2 DEF ClassifyEvidence
  <2>2. QED
    BY <1>2, <2>1 DEF Earned, LevelOfDelivery
<1>3. CASE input.surface = "self-action" /\ Compound(input)
  <2>1. ClassifyEvidence(input) = LevelOfCompound(input)
    BY <1>3 DEF ClassifyEvidence
  <2>2. input.postcondition.matched \in BOOLEAN
        /\ (input.postcondition.matched /\ input.postcondition.source # "action-gate"
              => input.postcondition.source = "adapter")
    <3>1. CASE input.postcondition = NoPostcondition
      BY <3>1 DEF NoPostcondition
    <3>2. CASE input.postcondition \in
                 [given : {TRUE}, matched : BOOLEAN, source : {"action-gate", "adapter"}]
      BY <3>2
    <3>3. QED
      BY <1>0, <3>1, <3>2
  <2>3. QED
    BY <1>3, <2>1, <2>2 DEF Earned, LevelOfCompound, Confirmed
<1>4. CASE input.surface = "self-action" /\ ~Compound(input)
  <2>1. ClassifyEvidence(input) = LevelOfRecord(input)
    BY <1>4 DEF ClassifyEvidence
  <2>2. input.finalOutcome = "none"
    BY <1>4 DEF Compound
  <2>3. /\ input.record.completed => input.record.source = "action-gate"
        /\ input.postcondition.matched => input.postcondition.source \in {"action-gate", "adapter"}
        /\ input.record.completed \in BOOLEAN /\ input.windowCoversAction \in BOOLEAN
    <3>1. input.record.completed \in BOOLEAN
          /\ (input.record.completed => input.record.source = "action-gate")
      <4>1. CASE input.record = NoRecord
        BY <4>1 DEF NoRecord
      <4>2. CASE input.record \in [given : {TRUE}, completed : BOOLEAN, source : {"action-gate"}]
        BY <4>2
      <4>3. QED
        BY <1>0, <4>1, <4>2
    <3>2. input.postcondition.matched => input.postcondition.source \in {"action-gate", "adapter"}
      <4>1. CASE input.postcondition = NoPostcondition
        BY <4>1 DEF NoPostcondition
      <4>2. CASE input.postcondition \in
                   [given : {TRUE}, matched : BOOLEAN, source : {"action-gate", "adapter"}]
        BY <4>2
      <4>3. QED
        BY <1>0, <4>1, <4>2
    <3>3. QED
      BY <1>0, <3>1, <3>2
  <2>4. QED
    BY <1>4, <2>1, <2>2, <2>3 DEF Earned, LevelOfRecord, Confirmed
<1>5. QED
  BY <1>1, <1>2, <1>3, <1>4 DEF EvidenceInputs

\* What the program gives the classifier is such an input.
LEMMA ExecutionIsInput ==
  ASSUME NEW r \in [success : BOOLEAN, claims : SUBSET Condition]
  PROVE  EvidenceInputOf(r) \in EvidenceInputs
BY DEF EvidenceInputOf, OutcomeOf, EvidenceInputs

-----------------------------------------------------------------------------
(* The steps. *)

IInv == TypeOK /\ ExecutionInv /\ ClaimsWereTrue /\ EvidenceInv

LEMMA Initially == Init => IInv
<1> SUFFICES ASSUME Init PROVE IInv
  OBVIOUS
<1>1. TypeOK
  BY EmptySeq DEF Init, TypeOK, Failure, Result
<1>2. ExecutionInv
  BY DEF Init, ExecutionInv
<1>3. ClaimsWereTrue /\ EvidenceInv
  BY DEF Init, ClaimsWereTrue, EvidenceInv
<1>4. QED
  BY <1>1, <1>2, <1>3 DEF IInv

\* The result of answers has the type of a result.
LEMMA ResultIsTyped ==
  ASSUME NEW action \in ActionId, NEW a
  PROVE  ResultOf(action, a) \in [success : BOOLEAN, claims : SUBSET Condition]
<1>1. \A success \in BOOLEAN, claims \in SUBSET Condition :
        Result(success, claims) \in [success : BOOLEAN, claims : SUBSET Condition]
  BY DEF Result
<1>2. \E success \in BOOLEAN, claims \in SUBSET Condition : ResultOf(action, a) = Result(success, claims)
  <2>1. CASE action = "install-tool"
    BY <2>1 DEF ResultOf, InstallToolResult, Condition
  <2>2. CASE action = "change-power-plan"
    <3>1. ResultOf(action, a) = PowerPlanResult(a)
      BY <2>2 DEF ResultOf
    <3>2. QED
      BY <3>1 DEF PowerPlanResult, Failure, Condition
  <2>3. CASE action = "check-shizuku"
    BY <2>3 DEF ResultOf, ShizukuResult, Condition
  <2>4. CASE action \in {"check-gpu-driver", "check-driver-status"}
    <3>1. ResultOf(action, a) = DriverResult(a)
      BY <2>4 DEF ResultOf
    <3>2. QED
      BY <3>1 DEF DriverResult, Condition
  <2>5. CASE action = "list-processes"
    BY <2>5 DEF ResultOf, ProcessesResult, Condition
  <2>6. CASE action = "check-system-temp"
    <3>1. ResultOf(action, a) = TemperatureResult(a)
      BY <2>6 DEF ResultOf
    <3>2. QED
      BY <3>1 DEF TemperatureResult, Condition
  <2>7. CASE action = "check-network"
    <3>1. ResultOf(action, a) = NetworkResult(a)
      BY <2>7 DEF ResultOf
    <3>2. QED
      BY <3>1 DEF NetworkResult, Condition
  <2>8. CASE action = "check-disk-space"
    <3>1. ResultOf(action, a) = DiskResult(a)
      BY <2>8 DEF ResultOf
    <3>2. QED
      BY <3>1 DEF DiskResult, Condition
  <2>9. QED
    BY <2>1, <2>2, <2>3, <2>4, <2>5, <2>6, <2>7, <2>8 DEF ActionId
<1>3. QED
  BY <1>1, <1>2

\* A command's answer that means what it says keeps the invariant.
LEMMA AnsweredKeeps ==
  ASSUME IInv, pc = "running", NEW answer \in AnswerOf,
         Answered(answer), UNCHANGED <<actionId, os, target, evidence>>,
         machine' \in SUBSET Condition, held' \in SUBSET Condition,
         held \subseteq held', machine' \subseteq held',
         Means(Head(todo), answer, held')
  PROVE  IInv'
<1> DEFINE plan == Commands(actionId, os)
           done == answers'
           left == todo'
<1>0. TypeOK /\ ExecutionInv
  BY DEF IInv
<1>1. /\ actionId \in ActionId /\ os \in System
      /\ todo \in Seq(Command) /\ todo # <<>> /\ answers \in Seq(AnswerOf)
      /\ Len(answers) + Len(todo) = Len(plan)
      /\ \A n \in 1 .. Len(todo) : todo[n] = plan[Len(answers) + n]
      /\ \A n \in 1 .. Len(answers) : Means(plan[n], answers[n], held)
      /\ result \in [success : BOOLEAN, claims : SUBSET Condition] /\ result = Failure
  BY <1>0 DEF ExecutionInv, InPlan, AnswersMean, Plan, TypeOK
<1>2. /\ done = Append(answers, answer)
      /\ left = (IF actionId = "check-gpu-driver" /\ answer # "failed" THEN <<>> ELSE Tail(todo))
      /\ IF left = <<>> THEN pc' = "returned" /\ result' = ResultOf(actionId, done)
                         ELSE pc' = "running" /\ result' = result
      /\ actionId' = actionId /\ os' = os /\ evidence' = evidence
  BY DEF Answered
<1> HIDE DEF done, left
<1>3. /\ done \in Seq(AnswerOf) /\ Len(done) = Len(answers) + 1 /\ done # <<>>
      /\ done[Len(answers) + 1] = answer
      /\ \A n \in 1 .. Len(answers) : done[n] = answers[n]
  BY <1>1, <1>2, AppendProperties
<1>4. /\ Len(todo) \in Nat \ {0} /\ Len(answers) \in Nat /\ Len(plan) \in Nat
      /\ Head(todo) = todo[1] /\ Head(todo) = plan[Len(answers) + 1]
  BY <1>1
<1>5. \A n \in 1 .. Len(done) : Means(plan[n], done[n], held')
  <2>1. \A n \in 1 .. Len(answers) : Means(plan[n], done[n], held')
    BY <1>1, <1>3 DEF Means
  <2>2. QED
    BY <2>1, <1>3, <1>4
<1>6. /\ left \in Seq(Command)
      /\ left = <<>> => \/ Len(done) = Len(plan)
                        \/ actionId = "check-gpu-driver" /\ Len(done) <= Len(plan)
      /\ left # <<>> => /\ Len(done) + Len(left) = Len(plan)
                        /\ \A n \in 1 .. Len(left) : left[n] = plan[Len(done) + n]
  <2>1. CASE actionId = "check-gpu-driver" /\ answer # "failed"
    BY <2>1, <1>1, <1>2, <1>3, <1>4
  <2>2. CASE ~(actionId = "check-gpu-driver" /\ answer # "failed")
    <3>1. left = Tail(todo)
      BY <2>2, <1>2
    <3>2. left \in Seq(Command) /\ Len(left) = Len(todo) - 1
          /\ \A n \in 1 .. Len(left) : left[n] = todo[n + 1]
      BY <3>1, <1>1, HeadTailProperties
    <3>3. left = <<>> => Len(left) = 0
      OBVIOUS
    <3>4. Len(done) + Len(left) = Len(plan)
      <4> DEFINE a == Len(answers) b == Len(todo) c == Len(plan)
      <4>1. a \in Nat /\ b \in Nat /\ c \in Nat /\ a + b = c /\ Len(left) = b - 1 /\ Len(done) = a + 1
        BY <3>2, <1>1, <1>3, <1>4
      <4> HIDE DEF a, b, c
      <4>2. Len(done) + Len(left) = c
        BY <4>1
      <4>3. QED
        BY <4>2 DEF c
    <3>5. \A n \in 1 .. Len(left) : left[n] = plan[Len(done) + n]
      <4> TAKE n \in 1 .. Len(left)
      <4>1. n + 1 \in 1 .. Len(todo)
        BY <3>2, <1>4
      <4>2. todo[n + 1] = plan[Len(answers) + (n + 1)]
        BY <4>1, <1>1
      <4>3. Len(answers) + (n + 1) = Len(done) + n
        BY <4>1, <1>3, <1>4
      <4>4. QED
        BY <3>2, <4>2, <4>3
    <3>6. QED
      BY <3>2, <3>3, <3>4, <3>5, <1>3, <1>4
  <2>3. QED
    BY <2>1, <2>2
<1>7. TypeOK'
  BY <1>0, <1>1, <1>2, <1>3, <1>6, ResultIsTyped DEF TypeOK, done, left
<1>8. ExecutionInv'
  BY <1>1, <1>2, <1>3, <1>5, <1>6 DEF ExecutionInv, InPlan, AnswersMean, Plan, done, left
<1>9. ClaimsWereTrue'
  <2>1. SUFFICES ASSUME left = <<>>, NEW c \in ResultOf(actionId, done).claims
                 PROVE  c \in held' \/ (c \in {"driver", "disk"} /\ ToSet(done) = {"failed"})
    BY <1>2 DEF ClaimsWereTrue, done, left
  <2>2. QED
    BY <2>1, <1>1, <1>3, <1>5, <1>6, ClaimsFollow
<1>10. EvidenceInv'
  BY <1>2 DEF EvidenceInv
<1>11. QED
  BY <1>7, <1>8, <1>9, <1>10 DEF IInv

LEMMA StepKeeps == IInv /\ [Next]_vars => IInv'
<1> SUFFICES ASSUME IInv, [Next]_vars PROVE IInv'
  OBVIOUS
<1>0. TypeOK /\ ExecutionInv /\ ClaimsWereTrue /\ EvidenceInv
  BY DEF IInv
<1>1. ASSUME NEW action \in ActionId, NEW system \in System, NEW t, Start(action, system, t)
      PROVE  IInv'
  <2> DEFINE plan == Commands(action, system)
  <2>1. plan \in Seq(Command) /\ plan # <<>>
    BY PlanIsSequence
  <2>2. /\ pc = "idle" /\ answers = <<>> /\ result = Failure
        /\ actionId' = action /\ os' = system
        /\ (todo' = <<>> \/ todo' = plan) /\ pc' = (IF todo' = <<>> THEN "returned" ELSE "running")
        /\ held' = machine /\ machine' = machine
        /\ answers' = <<>> /\ result' = Failure /\ evidence' = evidence
    BY <1>0, <1>1 DEF Start, ExecutionInv
  <2> HIDE DEF plan
  <2>3. TypeOK'
    BY <1>0, <2>1, <2>2, EmptySeq DEF TypeOK
  <2>4. ExecutionInv'
    <3>1. Plan' = plan
      BY <2>2 DEF Plan, plan
    <3>2. todo' # <<>> => (InPlan /\ AnswersMean)'
      BY <2>1, <2>2, <3>1 DEF InPlan, AnswersMean
    <3>3. QED
      BY <2>2, <3>2 DEF ExecutionInv
  <2>5. ClaimsWereTrue' /\ EvidenceInv'
    BY <2>2 DEF ClaimsWereTrue, EvidenceInv, Failure, Result
  <2>6. QED
    BY <2>3, <2>4, <2>5 DEF IInv
<1>2. ASSUME CommandLooks PROVE IInv'
  <2> DEFINE answer == IF Head(todo).about \in machine THEN "good" ELSE "bad"
  <2>1. /\ pc = "running" /\ Head(todo).does = "look" /\ Head(todo).about \in machine \cup Graded
        /\ Answered(answer) /\ machine' = machine /\ held' = held
        /\ UNCHANGED <<actionId, os, target, evidence>>
    BY <1>2 DEF CommandLooks
  <2>2. machine \subseteq held /\ machine \in SUBSET Condition /\ held \in SUBSET Condition
    BY <1>0, <2>1 DEF ExecutionInv, TypeOK
  <2>3. answer \in AnswerOf /\ Means(Head(todo), answer, held')
    BY <2>1, <2>2 DEF Means, AnswerOf
  <2>4. QED
    BY <2>1, <2>2, <2>3, AnsweredKeeps
<1>3. ASSUME NEW effective \in BOOLEAN, CommandChanges(effective) PROVE IInv'
  <2>1. /\ pc = "running" /\ (effective \/ Head(todo).about = "plan")
        /\ Head(todo).does = "change"
        /\ machine' = (IF effective THEN machine \cup {Head(todo).about} ELSE machine)
        /\ held' = held \cup machine'
        /\ Answered("good") /\ UNCHANGED <<actionId, os, target, evidence>>
    BY <1>3 DEF CommandChanges
  <2>2. todo \in Seq(Command) /\ todo # <<>>
    BY <1>0, <2>1 DEF TypeOK, ExecutionInv, InPlan
  <2>3. Head(todo).about \in Condition
    <3>1. Head(todo) \in Command
      BY <2>2
    <3>2. QED
      BY <3>1 DEF Command
  <2>4. machine' \in SUBSET Condition /\ held' \in SUBSET Condition
    BY <1>0, <2>1, <2>3 DEF TypeOK
  <2>5. Means(Head(todo), "good", held')
    BY <2>1 DEF Means
  <2>6. QED
    BY <2>1, <2>4, <2>5, AnsweredKeeps DEF AnswerOf
<1>4. ASSUME CommandFails PROVE IInv'
  <2>1. pc = "running" /\ machine' = machine /\ held' = held
        /\ UNCHANGED <<actionId, os, target, evidence>>
    BY <1>4 DEF CommandFails
  <2>2. machine \subseteq held /\ machine \in SUBSET Condition /\ held \in SUBSET Condition
    BY <1>0, <2>1 DEF ExecutionInv, TypeOK
  <2>3. CASE Head(todo).caught
    <3>1. Answered("failed")
      BY <1>4, <2>3 DEF CommandFails
    <3>2. Means(Head(todo), "failed", held')
      BY <2>3 DEF Means
    <3>3. QED
      BY <2>1, <2>2, <3>1, <3>2, AnsweredKeeps DEF AnswerOf
  <2>4. CASE ~Head(todo).caught
    <3>1. pc' = "returned" /\ todo' = <<>> /\ answers' = Append(answers, "failed") /\ result' = Failure
      BY <1>4, <2>4 DEF CommandFails
    <3>2. TypeOK'
      BY <1>0, <2>1, <3>1 DEF TypeOK, AnswerOf, Failure, Result
    <3>3. ExecutionInv' /\ ClaimsWereTrue' /\ EvidenceInv'
      BY <2>1, <3>1 DEF ExecutionInv, ClaimsWereTrue, EvidenceInv, Failure, Result
    <3>4. QED
      BY <3>2, <3>3 DEF IInv
  <2>5. QED
    BY <2>3, <2>4
<1>5. ASSUME NEW c \in Condition, MachineChanges(c) PROVE IInv'
  <2>1. /\ pc = "running" /\ machine' \in {machine \ {c}, machine \cup {c}} /\ held' = held \cup machine'
        /\ UNCHANGED <<pc, actionId, os, todo, answers, result, evidence>>
    BY <1>5 DEF MachineChanges
  <2>2. TypeOK'
    BY <1>0, <2>1 DEF TypeOK
  <2>3. ExecutionInv'
    BY <1>0, <2>1 DEF ExecutionInv, InPlan, AnswersMean, Means, Plan
  <2>4. ClaimsWereTrue' /\ EvidenceInv'
    BY <2>1 DEF ClaimsWereTrue, EvidenceInv
  <2>5. QED
    BY <2>2, <2>3, <2>4 DEF IInv
<1>6. ASSUME EmitEvidence PROVE IInv'
  <2>1. /\ pc = "returned" /\ pc' = "done"
        /\ evidence' = [level |-> ClassifyEvidence(EvidenceInputOf(result)),
                        input |-> EvidenceInputOf(result)]
        /\ UNCHANGED <<actionId, os, machine, todo, answers, result, held>>
    BY <1>6 DEF EmitEvidence
  <2>2. EvidenceInv'
    <3>1. EvidenceInputOf(result) \in EvidenceInputs
      BY <1>0, ExecutionIsInput DEF TypeOK
    <3>2. QED
      BY <2>1, <3>1, LevelIsEarned DEF EvidenceInv
  <2>3. TypeOK' /\ ExecutionInv' /\ ClaimsWereTrue'
    BY <1>0, <2>1 DEF TypeOK, ExecutionInv, ClaimsWereTrue
  <2>4. QED
    BY <2>2, <2>3 DEF IInv
<1>7. ASSUME NEW input \in EvidenceInputs, Classify(input) PROVE IInv'
  <2>1. /\ pc = "idle" /\ pc' = "done"
        /\ evidence' = [level |-> ClassifyEvidence(input), input |-> input]
        /\ UNCHANGED <<actionId, os, machine, todo, answers, result, held>>
    BY <1>7 DEF Classify
  <2>2. EvidenceInv'
    BY <2>1, LevelIsEarned DEF EvidenceInv
  <2>3. result = Failure
    BY <1>0, <2>1 DEF ExecutionInv
  <2>4. TypeOK' /\ ExecutionInv' /\ ClaimsWereTrue'
    BY <1>0, <2>1, <2>3 DEF TypeOK, ExecutionInv, ClaimsWereTrue, Failure, Result
  <2>5. QED
    BY <2>2, <2>4 DEF IInv
<1>8. CASE UNCHANGED vars
  BY <1>0, <1>8 DEF vars, IInv, TypeOK, ExecutionInv, InPlan, AnswersMean, Plan,
                    ClaimsWereTrue, EvidenceInv
<1>9. QED
  BY <1>1, <1>2, <1>3, <1>4, <1>5, <1>6, <1>7, <1>8 DEF Next

LEMMA AlwaysIInv == Spec => []IInv
BY Initially, StepKeeps, PTL DEF Spec

-----------------------------------------------------------------------------
(* The theorems. *)

\* An executor tells the user only what was so at some time while it ran, however
\* often the machine changes and whichever commands fail, but for a driver or a disk
\* that no command could tell about (pipeline.ts, the nine private executors).
THEOREM ClaimsTrue == Spec => []ClaimsWereTrue
<1>1. IInv => ClaimsWereTrue
  BY DEF IInv
<1>2. QED
  BY <1>1, AlwaysIInv, PTL

\* The level of evidence is earned by what was observed, for any input of
\* classifyEvidence and for what an execution gives it (execution-evidence.ts).
THEOREM EvidenceEarned == Spec => []EvidenceIsEarned
<1>1. IInv => EvidenceIsEarned
  BY DEF IInv, EvidenceInv, Earned, EvidenceIsEarned
<1>2. QED
  BY <1>1, AlwaysIInv, PTL

=============================================================================
