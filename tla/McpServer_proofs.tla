-------------------------- MODULE McpServer_proofs --------------------------
(***************************************************************************)
(* Theorems about McpServer, for every set of requests and whatever the       *)
(* scripts do.                                                              *)
(***************************************************************************)
EXTENDS McpServer, FiniteSetTheorems, TLAPS

-----------------------------------------------------------------------------
(* The counter of calls in flight *)

LEMMA SettlesTyped ==
  ASSUME ScriptTypeOK, NEW c \in Call, NEW code \in ExitCode, NEW out \in Output,
         NEW late \in BOOLEAN, Resolve(c, code, out, late)
  PROVE  captured' \in [Call -> Captured \cup {Unsettled}]
<1>1. [code |-> code, output |-> out, timedOut |-> late] \in Captured
  BY DEF Captured
<1> QED BY <1>1 DEF ScriptTypeOK, Resolve

LEMMA ScriptTypeStep ==
  ASSUME ScriptTypeOK, NEW c \in Call, ScriptStep(c)
  PROVE  ScriptTypeOK'
<1> USE DEF ScriptTypeOK, ScriptState, Output, ExitCode, Captured, Unsettled, Settled, Resolve, Ends
<1>1. CASE Spawned(c)
  <2>1. captured' \in [Call -> Captured \cup {Unsettled}]
    <3>1. CASE UNCHANGED captured
      BY <3>1
    <3>2. CASE Resolve(c, "other", output[c], FALSE)
      BY <3>2, SettlesTyped
    <3> QED BY <1>1, <3>1, <3>2 DEF Spawned
  <2> QED BY <1>1, <2>1 DEF Spawned
<1>2. CASE Prints(c)
  BY <1>2 DEF Prints
<1>3. CASE ScriptEnds(c)
  BY <1>3 DEF ScriptEnds
<1>4. CASE LingererEnds(c)
  BY <1>4 DEF LingererEnds
<1>5. CASE TimerFires(c)
  BY <1>5 DEF TimerFires
<1>6. CASE Closes(c)
  BY <1>6 DEF Closes
<1> QED BY <1>1, <1>2, <1>3, <1>4, <1>5, <1>6 DEF ScriptStep

LEMMA StartScriptType ==
  ASSUME ScriptTypeOK, NEW c \in Call, StartScript(c),
         UNCHANGED <<output, exitCode, lingering, timedOut>>
  PROVE  ScriptTypeOK'
<1>1. CASE Resolve(c, "other", "none", FALSE) /\ UNCHANGED <<script, timer>>
  <2>1. captured' \in [Call -> Captured \cup {Unsettled}]
    BY <1>1, SettlesTyped DEF Output, ExitCode
  <2> QED BY <1>1, <2>1 DEF ScriptTypeOK
<1>2. CASE /\ script' = [script EXCEPT ![c] = "starting"]
           /\ timer' = [timer EXCEPT ![c] = "armed"]
           /\ UNCHANGED captured
  BY <1>2 DEF ScriptTypeOK, ScriptState
<1> QED BY <1>1, <1>2 DEF StartScript

CallsAreCounted == pending = Cardinality(Running)

TypeInv == TypeOK /\ CallsAreCounted

LEMMA RunningIsFinite == IsFiniteSet(Running) /\ Cardinality(Running) \in Nat
<1>1. Running \subseteq Request
  BY DEF Running
<1> QED BY <1>1, ServerAssumption, FS_Subset, FS_CardinalityType

LEMMA ReturnsType ==
  ASSUME TypeOK, NEW r \in Request, NEW a \in Returns(r)
  PROVE  a \in Answer
<1>1. FromScript(r) \in Answer
  BY DEF FromScript, ErrorText, Answer
<1>2. ErrorText \in Answer
  BY DEF ErrorText, Answer
<1>3. [isError |-> FALSE, content |-> "report"] \in Answer
  BY DEF Answer
<1> QED BY <1>1, <1>2, <1>3 DEF Returns

LEMMA TypeInvInit == Init => TypeInv
<1> SUFFICES ASSUME Init PROVE TypeInv
  OBVIOUS
<1>1. Running = {}
  BY DEF Init, Running
<1>2. TypeOK
  BY DEF Init, ScriptInit, TypeOK, ScriptTypeOK, ScriptState, Output, ExitCode, Stage
<1> QED BY <1>1, <1>2, FS_EmptySet DEF TypeInv, CallsAreCounted, Init

LEMMA BeginToolCallStep ==
  ASSUME TypeInv, NEW r \in Request, BeginToolCall(r)
  PROVE  TypeInv'
<1> USE DEF TypeInv, TypeOK, CallsAreCounted
<1>1. ScriptTypeOK'
  <2>1. CASE KindOf[r] \in ScriptTool
    <3>1. r \in Call
      BY <2>1, ServerAssumption
    <3> QED BY <2>1, <3>1, StartScriptType DEF BeginToolCall
  <2>2. CASE KindOf[r] \notin ScriptTool
    BY <2>2 DEF BeginToolCall, scriptVars, ScriptTypeOK
  <2> QED BY <2>1, <2>2
<1>2. stage' = [stage EXCEPT ![r] = "running"] /\ stage[r] = "unread"
  BY DEF BeginToolCall, Reads
<1>3. Running' = Running \cup {r} /\ r \notin Running
  BY <1>2 DEF Running
<1>4. Cardinality(Running') = Cardinality(Running) + 1
  BY <1>3, RunningIsFinite, FS_AddElement
<1>5. pending' = pending + 1
  BY DEF BeginToolCall, Enter
<1>6. pending' = Cardinality(Running')
  BY <1>4, <1>5
<1> QED BY <1>1, <1>2, <1>5, <1>6 DEF BeginToolCall, Stage

LEMMA RespondStep ==
  ASSUME TypeInv, NEW r \in Request, Respond(r)
  PROVE  TypeInv'
<1> USE DEF TypeInv, TypeOK, CallsAreCounted
<1>1. stage' = [stage EXCEPT ![r] = "answered"] /\ stage[r] = "running"
  BY DEF Respond
<1>2. Running' = Running \ {r} /\ r \in Running
  BY <1>1 DEF Running
<1>3. Cardinality(Running') = Cardinality(Running) - 1 /\ IsFiniteSet(Running')
  BY <1>2, RunningIsFinite, FS_RemoveElement
<1>4. Cardinality(Running') \in Nat
  BY <1>3, FS_CardinalityType
<1>5. pending' = pending - 1
  BY DEF Respond
<1>6. pending' = Cardinality(Running') /\ pending' \in Nat
  BY <1>3, <1>4, <1>5
<1>7. answer' \in [Request -> Answer \cup {NoAnswer}]
  BY ReturnsType DEF Respond
<1>8. ScriptTypeOK'
  BY DEF Respond, scriptVars, ScriptTypeOK
<1>9. stdinClosed' \in BOOLEAN /\ exited' \in BOOLEAN
  BY DEF Respond, Exits
<1> QED BY <1>1, <1>6, <1>7, <1>8, <1>9 DEF Stage

LEMMA TypeInvStep == TypeInv /\ [Next]_vars => TypeInv'
<1> SUFFICES ASSUME TypeInv, [Next]_vars PROVE TypeInv'
  OBVIOUS
<1> USE DEF TypeInv, TypeOK, CallsAreCounted
<1>1. ASSUME NEW r \in Request, ServerStep(r) PROVE TypeInv'
  <2>1. CASE IgnoreLine(r)
    <3>1. Running' = Running
      BY <2>1 DEF IgnoreLine, Reads, Running
    <3> QED BY <2>1, <3>1 DEF IgnoreLine, scriptVars, ScriptTypeOK, Stage
  <2>2. CASE AnswerMethod(r)
    <3>1. Running' = Running
      BY <2>2 DEF AnswerMethod, Reads, Running
    <3> QED BY <2>2, <3>1 DEF AnswerMethod, scriptVars, ScriptTypeOK, Stage, Answer
  <2> QED BY <1>1, <2>1, <2>2, BeginToolCallStep, RespondStep DEF ServerStep
<1>2. ASSUME NEW c \in Call, ScriptStep(c), UNCHANGED serverVars PROVE TypeInv'
  BY <1>2, ScriptTypeStep DEF serverVars, Running
<1>3. CASE StdinCloses
  BY <1>3 DEF StdinCloses, Exits, scriptVars, ScriptTypeOK, Running
<1>4. CASE UNCHANGED vars
  BY <1>4 DEF vars, serverVars, scriptVars, ScriptTypeOK, Running
<1> QED BY <1>1, <1>2, <1>3, <1>4 DEF Next

\* Every variable of the server and of its scripts keeps its type, and the counter is a
\* natural number: it is never decreased more often than it was increased.
THEOREM ServerTypeCorrect == Spec => []TypeOK
<1>1. TypeInv => TypeOK
  BY DEF TypeInv
<1> QED BY <1>1, TypeInvInit, TypeInvStep, PTL DEF Spec

-----------------------------------------------------------------------------
(* The exit *)

LEMMA NoAnswerLostStep == TypeInv /\ NoAnswerLost /\ [Next]_vars => NoAnswerLost'
<1> SUFFICES ASSUME TypeInv, TypeInv', NoAnswerLost, [Next]_vars PROVE NoAnswerLost'
  BY TypeInvStep
<1>1. ASSUME pending' = 0 PROVE Running' = {}
  <2>1. IsFiniteSet(Running)'
    BY RunningIsFinite, PTL
  <2> QED BY <1>1, <2>1, FS_EmptySet DEF TypeInv, CallsAreCounted
<1>2. ASSUME NEW r \in Request, ServerStep(r) PROVE NoAnswerLost'
  BY <1>1, <1>2 DEF ServerStep, IgnoreLine, AnswerMethod, BeginToolCall, Respond, Reads, Exits,
     NoAnswerLost
<1>3. CASE StdinCloses
  BY <1>1, <1>3 DEF StdinCloses, Exits, NoAnswerLost
<1>4. ASSUME NEW c \in Call, ~exited, ScriptStep(c), UNCHANGED serverVars PROVE NoAnswerLost'
  BY <1>4 DEF serverVars, NoAnswerLost
<1>5. CASE UNCHANGED vars
  BY <1>5 DEF vars, serverVars, NoAnswerLost, Running
<1> QED BY <1>2, <1>3, <1>4, <1>5 DEF Next

\* However lines, answers and the end of the input follow one another, the process does
\* not exit before the last call is answered.
THEOREM ExitAfterLastAnswer == Spec => []NoAnswerLost
<1>1. Init => NoAnswerLost
  BY DEF Init, NoAnswerLost
<1> QED BY <1>1, TypeInvInit, TypeInvStep, NoAnswerLostStep, PTL DEF Spec

-----------------------------------------------------------------------------
(* The answers *)

\* A script that ended well and left nobody printing has printed all or nothing, and so
\* has what its promise settled to.
WellEnded(c) ==
  /\ script[c] = "ended" /\ exitCode[c] = "zero" /\ ~lingering[c] => output[c] # "partial"
  /\ Settled(c) /\ captured[c].code = "zero" => captured[c].output # "partial"

\* An answer that is not an error was taken from what the promise settled to.
TakenFrom(r) ==
  stage[r] = "answered" /\ KindOf[r] \in ScriptTool =>
    Settled(r) /\ answer[r] = FromScript(r)

HonestInv ==
  /\ \A c \in Call : WellEnded(c)
  /\ \A r \in Request : TakenFrom(r)

LEMMA SettledForever ==
  ASSUME ScriptTypeOK, NEW c \in Call, NEW d \in Call, ScriptStep(c), Settled(d)
  PROVE  captured'[d] = captured[d]
BY DEF ScriptTypeOK, ScriptStep, Spawned, Prints, ScriptEnds, LingererEnds, TimerFires, Closes,
   Resolve, Settled

LEMMA WellEndedStep ==
  ASSUME ScriptTypeOK, NEW c \in Call, WellEnded(c), ScriptStep(c)
  PROVE  WellEnded(c)'
<1> USE DEF ScriptTypeOK, WellEnded, Settled, Resolve, Unsettled, Ends
<1>1. CASE Spawned(c)
  BY <1>1 DEF Spawned
<1>2. CASE Prints(c)
  BY <1>2 DEF Prints
<1>3. CASE ScriptEnds(c)
  BY <1>3 DEF ScriptEnds, ExitCode
<1>4. CASE LingererEnds(c)
  BY <1>4 DEF LingererEnds
<1>5. CASE TimerFires(c)
  BY <1>5 DEF TimerFires
<1>6. CASE Closes(c)
  BY <1>6 DEF Closes
<1> QED BY <1>1, <1>2, <1>3, <1>4, <1>5, <1>6 DEF ScriptStep

LEMMA OtherScript ==
  ASSUME ScriptTypeOK, NEW c \in Call, NEW d \in Call \ {c}, ScriptStep(c)
  PROVE  /\ script'[d] = script[d] /\ output'[d] = output[d] /\ exitCode'[d] = exitCode[d]
         /\ lingering'[d] = lingering[d] /\ captured'[d] = captured[d]
BY DEF ScriptTypeOK, ScriptStep, Spawned, Prints, ScriptEnds, LingererEnds, TimerFires, Closes,
   Resolve, Ends

LEMMA HonestInvStep == TypeInv /\ HonestInv /\ [Next]_vars => HonestInv'
<1> SUFFICES ASSUME TypeInv, HonestInv, [Next]_vars PROVE HonestInv'
  OBVIOUS
<1> USE DEF TypeInv, TypeOK
<1>1. ASSUME NEW c \in Call, ScriptStep(c), UNCHANGED serverVars PROVE HonestInv'
  <2>1. ASSUME NEW d \in Call PROVE WellEnded(d)'
    <3>1. CASE d = c
      BY <1>1, <3>1, WellEndedStep DEF HonestInv
    <3>2. CASE d # c
      BY <1>1, <3>2, OtherScript DEF HonestInv, WellEnded, Settled
    <3> QED BY <3>1, <3>2
  <2>2. ASSUME NEW r \in Request PROVE TakenFrom(r)'
    <3>1. CASE stage[r] = "answered" /\ KindOf[r] \in ScriptTool
      <4>1. r \in Call /\ Settled(r) /\ answer[r] = FromScript(r)
        BY <3>1, ServerAssumption DEF HonestInv, TakenFrom
      <4>2. captured'[r] = captured[r]
        BY <1>1, <4>1, SettledForever
      <4> QED BY <1>1, <4>1, <4>2 DEF TakenFrom, FromScript, Settled, serverVars
    <3>2. CASE ~(stage[r] = "answered" /\ KindOf[r] \in ScriptTool)
      BY <1>1, <3>2 DEF TakenFrom, serverVars
    <3> QED BY <3>1, <3>2
  <2> QED BY <2>1, <2>2 DEF HonestInv
<1>2. ASSUME UNCHANGED <<script, output, exitCode, lingering, captured>>,
             \A r \in Request : TakenFrom(r)'
      PROVE  HonestInv'
  BY <1>2 DEF HonestInv, WellEnded, Settled
<1>3. ASSUME NEW q \in Request, IgnoreLine(q) \/ AnswerMethod(q) PROVE HonestInv'
  <2>1. ASSUME NEW r \in Request PROVE TakenFrom(r)'
    BY <1>3 DEF IgnoreLine, AnswerMethod, Reads, HonestInv, TakenFrom, FromScript, Settled,
       scriptVars, ScriptTool
  <2> QED BY <1>2, <1>3, <2>1 DEF IgnoreLine, AnswerMethod, scriptVars
<1>4. ASSUME NEW q \in Request, BeginToolCall(q) PROVE HonestInv'
  <2>1. CASE KindOf[q] \notin ScriptTool
    <3>1. ASSUME NEW r \in Request PROVE TakenFrom(r)'
      BY <1>4, <2>1 DEF BeginToolCall, Reads, HonestInv, TakenFrom, FromScript, Settled, scriptVars
    <3> QED BY <1>2, <1>4, <2>1, <3>1 DEF BeginToolCall, scriptVars
  <2>2. CASE KindOf[q] \in ScriptTool
    <3>1. q \in Call /\ StartScript(q) /\ UNCHANGED <<output, exitCode, lingering, timedOut>>
      BY <1>4, <2>2, ServerAssumption DEF BeginToolCall
    <3>2. \A d \in Call : Settled(d) => captured'[d] = captured[d]
      BY <3>1 DEF StartScript, Resolve, Settled, ScriptTypeOK
    <3>3. ASSUME NEW d \in Call PROVE WellEnded(d)'
      BY <3>1 DEF StartScript, Resolve, HonestInv, WellEnded, Settled, ScriptTypeOK
    <3>4. ASSUME NEW r \in Request PROVE TakenFrom(r)'
      <4>1. CASE r = q
        BY <1>4, <4>1 DEF BeginToolCall, TakenFrom
      <4>2. CASE r # q /\ stage[r] = "answered" /\ KindOf[r] \in ScriptTool
        <5>1. r \in Call /\ Settled(r) /\ answer[r] = FromScript(r)
          BY <4>2, ServerAssumption DEF HonestInv, TakenFrom
        <5> QED BY <1>4, <3>2, <4>2, <5>1 DEF BeginToolCall, TakenFrom, FromScript, Settled
      <4>3. CASE r # q /\ ~(stage[r] = "answered" /\ KindOf[r] \in ScriptTool)
        BY <1>4, <4>3 DEF BeginToolCall, TakenFrom
      <4> QED BY <4>1, <4>2, <4>3
    <3> QED BY <3>3, <3>4 DEF HonestInv
  <2> QED BY <2>1, <2>2
<1>5. ASSUME NEW q \in Request, Respond(q) PROVE HonestInv'
  <2>1. ASSUME NEW r \in Request PROVE TakenFrom(r)'
    <3>1. CASE r = q /\ KindOf[r] \in ScriptTool
      <4>1. Settled(r) /\ answer'[r] = FromScript(r)
        <5>1. Returns(r) = IF Settled(r) THEN {FromScript(r)} ELSE {}
          BY <3>1 DEF Returns, ScriptTool
        <5>2. PICK a \in Returns(r) : answer' = [answer EXCEPT ![r] = a]
          BY <1>5, <3>1 DEF Respond
        <5> QED BY <5>1, <5>2
      <4>2. FromScript(r)' = FromScript(r) /\ Settled(r)' = Settled(r)
        BY <1>5 DEF Respond, FromScript, Settled, scriptVars
      <4> QED BY <4>1, <4>2 DEF TakenFrom
    <3>2. CASE r # q
      BY <1>5, <3>2 DEF Respond, HonestInv, TakenFrom, FromScript, Settled, scriptVars
    <3>3. CASE KindOf[r] \notin ScriptTool
      BY <3>3 DEF TakenFrom
    <3> QED BY <3>1, <3>2, <3>3
  <2> QED BY <1>2, <1>5, <2>1 DEF Respond, scriptVars
<1>6. ASSUME UNCHANGED <<stage, answer, scriptVars>> PROVE HonestInv'
  BY <1>6 DEF HonestInv, WellEnded, TakenFrom, FromScript, Settled, scriptVars
<1> QED BY <1>1, <1>3, <1>4, <1>5, <1>6 DEF Next, ServerStep, StdinCloses, vars, serverVars

\* No answer that is not an error comes from a script that was cut off, and none of a
\* search from one that failed or whose output is a part.
THEOREM AnswersHonest == Spec => []AnswersAreHonest
<1>1. Init => HonestInv
  BY DEF Init, ScriptInit, HonestInv, WellEnded, TakenFrom, Settled
<1>2. HonestInv => AnswersAreHonest
  <2> SUFFICES ASSUME HonestInv, NEW r \in Request, stage[r] = "answered",
                      KindOf[r] \in ScriptTool, ~answer[r].isError
               PROVE  /\ captured[r].output # "none" \/ KindOf[r] = "search"
                      /\ ~captured[r].timedOut
                      /\ KindOf[r] = "search" =>
                           captured[r].code = "zero" /\ captured[r].output # "partial"
    BY DEF AnswersAreHonest
  <2>1. r \in Call /\ Settled(r) /\ answer[r] = FromScript(r) /\ WellEnded(r)
    BY ServerAssumption DEF HonestInv, TakenFrom
  <2>2. ~captured[r].timedOut
    BY <2>1 DEF FromScript, ErrorText
  <2>3. CASE KindOf[r] = "verify"
    <3>1. captured[r].output # "none"
      BY <2>1, <2>2, <2>3 DEF FromScript, ErrorText
    <3> QED BY <2>2, <2>3, <3>1
  <2>4. CASE KindOf[r] = "search"
    <3>1. answer[r] = [isError |-> captured[r].code # "zero", content |-> "output"]
      BY <2>1, <2>2, <2>4 DEF FromScript
    <3>2. captured[r].code = "zero"
      <4> SUFFICES ASSUME captured[r].code # "zero" PROVE FALSE
        OBVIOUS
      <4>1. answer[r] = [isError |-> TRUE, content |-> "output"]
        BY <3>1, Zenon
      <4> QED BY <4>1
    <3> QED BY <2>1, <2>2, <2>4, <3>2 DEF WellEnded
  <2> QED BY <2>3, <2>4 DEF ScriptTool
<1> QED BY <1>1, <1>2, TypeInvInit, TypeInvStep, HonestInvStep, PTL DEF Spec

=============================================================================
