------------------------------ MODULE McpServer ------------------------------
(***************************************************************************)
(* The MCP server (mcp.ts): lines of JSON-RPC on its standard input, each    *)
(* handled by an asynchronous function of its own.  The answers of tools    *)
(* that run a script come when the script of CapturedScript settles; the     *)
(* server counts the calls it has not answered, and exits when its input has *)
(* ended and there is none.                                                *)
(*                                                                         *)
(* A request is of a kind:                                                  *)
(*   silent        a notification, a blank line, a line that is not JSON     *)
(*   method        initialize, tools/list, a method nobody knows            *)
(*   verify        buffy_verify and buffy_continuity, which do the same      *)
(*   search        buffy_search with a query                                *)
(*   blank_search  and without one                                         *)
(*   context       buffy_context                                            *)
(*   unknown       a tool that does not exist                               *)
(*                                                                         *)
(* Simplification: a line that is JSON is an object; the line "null" would    *)
(* end the process by the rejection that nobody handles.                     *)
(***************************************************************************)
EXTENDS CapturedScript

CONSTANTS
  Request, \* the lines a client may send, those that call a script being Call
  KindOf   \* the kind of each

Kind == {"silent", "method", "verify", "search", "blank_search", "context", "unknown"}
ToolCall == Kind \ {"silent", "method"}
ScriptTool == {"verify", "search"}

ASSUME ServerAssumption ==
  /\ IsFiniteSet(Request)
  /\ KindOf \in [Request -> Kind]
  /\ Call = {r \in Request : KindOf[r] \in ScriptTool}

VARIABLES
  stage,       \* what has become of each request
  answer,      \* the answer to each
  pending,     \* the counter of calls in flight
  stdinClosed, \* the input has ended
  exited       \* the process has exited

serverVars == <<stage, answer, pending, stdinClosed, exited>>
vars == <<scriptVars, serverVars>>

Stage == {"unread", "ignored", "running", "answered"}
Answer == [isError : BOOLEAN, content : {"method", "report", "output", "text"}]
NoAnswer == [content |-> "none"]

ErrorText == [isError |-> TRUE, content |-> "text"]

Running == {r \in Request : stage[r] = "running"}

Reads(r) == ~exited /\ ~stdinClosed /\ stage[r] = "unread"

-----------------------------------------------------------------------------
(* Reading a line. *)

IgnoreLine(r) ==
  /\ Reads(r)
  /\ KindOf[r] = "silent"
  /\ stage' = [stage EXCEPT ![r] = "ignored"]
  /\ UNCHANGED <<answer, pending, stdinClosed, exited, scriptVars>>

AnswerMethod(r) ==
  /\ Reads(r)
  /\ KindOf[r] = "method"
  /\ stage' = [stage EXCEPT ![r] = "answered"]
  /\ answer' = [answer EXCEPT ![r] = [isError |-> FALSE, content |-> "method"]]
  /\ UNCHANGED <<pending, stdinClosed, exited, scriptVars>>

\* Mutant: calls are not counted when they begin.
EnterUncounted == UNCHANGED pending

Enter == pending' = pending + 1

BeginToolCall(r) ==
  /\ Reads(r)
  /\ KindOf[r] \in ToolCall
  /\ stage' = [stage EXCEPT ![r] = "running"]
  /\ Enter
  /\ IF KindOf[r] \in ScriptTool
     THEN StartScript(r) /\ UNCHANGED <<output, exitCode, lingering, timedOut>>
     ELSE UNCHANGED scriptVars
  /\ UNCHANGED <<answer, stdinClosed, exited>>

-----------------------------------------------------------------------------
(* Answering a tool call. *)

\* Mutant: a timeout treated like any other end.
FromScriptUntimed(r) ==
  IF KindOf[r] = "verify"
  THEN IF captured[r].output = "none" THEN ErrorText
       ELSE [isError |-> FALSE, content |-> "output"]
  ELSE [isError |-> captured[r].code # "zero", content |-> "output"]

\* buffy_verify passes on whatever was printed, whatever the exit code.
FromScript(r) ==
  IF captured[r].timedOut THEN ErrorText
  ELSE IF KindOf[r] = "verify"
  THEN IF captured[r].output = "none" THEN ErrorText
       ELSE [isError |-> FALSE, content |-> "output"]
  ELSE [isError |-> captured[r].code # "zero", content |-> "output"]

\* What handleToolCall may return; a tool it does not know falls through to
\* buffy_context.
Returns(r) ==
  CASE KindOf[r] \in ScriptTool   -> IF Settled(r) THEN {FromScript(r)} ELSE {}
    [] KindOf[r] = "blank_search" -> {ErrorText}
    [] OTHER                      -> {[isError |-> FALSE, content |-> "report"], ErrorText}

\* Mutant: the process exits at the end of its input.
ExitsAtOnce(closed, inFlight) == closed

\* maybeExit
Exits(closed, inFlight) == closed /\ inFlight = 0

Respond(r) ==
  /\ ~exited
  /\ stage[r] = "running"
  /\ \E a \in Returns(r) : answer' = [answer EXCEPT ![r] = a]
  /\ stage' = [stage EXCEPT ![r] = "answered"]
  /\ pending' = pending - 1
  /\ exited' = Exits(stdinClosed, pending')
  /\ UNCHANGED <<stdinClosed, scriptVars>>

\* Mutant: nothing done about it when the input ends after the last answer.
StdinClosesUnnoticed ==
  /\ ~exited
  /\ ~stdinClosed
  /\ stdinClosed' = TRUE
  /\ UNCHANGED <<stage, answer, pending, exited, scriptVars>>

StdinCloses ==
  /\ ~exited
  /\ ~stdinClosed
  /\ stdinClosed' = TRUE
  /\ exited' = Exits(TRUE, pending)
  /\ UNCHANGED <<stage, answer, pending, scriptVars>>

-----------------------------------------------------------------------------
Init ==
  /\ ScriptInit
  /\ stage = [r \in Request |-> "unread"]
  /\ answer = [r \in Request |-> NoAnswer]
  /\ pending = 0
  /\ stdinClosed = FALSE
  /\ exited = FALSE

ServerStep(r) == IgnoreLine(r) \/ AnswerMethod(r) \/ BeginToolCall(r) \/ Respond(r)

Next ==
  \/ \E r \in Request : ServerStep(r)
  \/ \E c \in Call : ~exited /\ ScriptStep(c) /\ UNCHANGED serverVars
  \/ StdinCloses

Spec == Init /\ [][Next]_vars

ServerEvent(c) == ~exited /\ (TimerFires(c) \/ Closes(c)) /\ UNCHANGED serverVars

\* Timers fire, events are delivered, and the commands an adapter runs to make a
\* report have time limits of their own.  Nothing is assumed of scripts, of the
\* processes they start, or of the client.
FairSpec ==
  /\ Spec
  /\ \A r \in Request : WF_vars(Respond(r))
  /\ \A c \in Call : WF_vars(ServerEvent(c))

-----------------------------------------------------------------------------
(* What the server promises. *)

\* Every variable keeps its type.
TypeOK ==
  /\ ScriptTypeOK
  /\ stage \in [Request -> Stage]
  /\ answer \in [Request -> Answer \cup {NoAnswer}]
  /\ pending \in Nat
  /\ stdinClosed \in BOOLEAN
  /\ exited \in BOOLEAN

\* The server does not exit with a call in flight, however lines, answers and the end
\* of the input come in between each other (mcp.ts: without the count "the last
\* response is lost").
NoAnswerLost == exited => Running = {}

\* An answer that is not an error is worth having: no script was cut off by the timeout,
\* and a search ended well with all of its output.
AnswersAreHonest ==
  \A r \in Request :
    stage[r] = "answered" /\ KindOf[r] \in ScriptTool /\ ~answer[r].isError =>
      /\ captured[r].output # "none" \/ KindOf[r] = "search"
      /\ ~captured[r].timedOut
      /\ KindOf[r] = "search" =>
           captured[r].code = "zero" /\ captured[r].output # "partial"

\* A process that the script of a call left running has the pipes open, and the call
\* has no answer yet.
Held(r) == stage[r] = "running" /\ r \in Call /\ lingering[r]

\* A tool call is answered: the timeout ends a script that does not end by itself.  It
\* does not end what the script started, so the one exception is a call whose pipes such
\* a process holds for ever (shared/ctx.ts promises "bounded execution" without it).
EveryCallAnswered ==
  \A r \in Request : (stage[r] = "running" ~> stage[r] = "answered") \/ <>[]Held(r)

\* When its input has ended the server exits, unless such a call is never answered.
ServerEnds == (stdinClosed ~> exited) \/ \E r \in Call : <>[]Held(r)

=============================================================================
