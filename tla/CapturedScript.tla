--------------------------- MODULE CapturedScript ---------------------------
(***************************************************************************)
(* execCtxCaptured (shared/ctx.ts): a script of Buffy Context run as a child  *)
(* process whose output is captured, with a timeout.  Of each call, the      *)
(* promise settles on the first of the child's "error" and "close" events;    *)
(* "close" comes when the script has ended and nobody holds its pipes.        *)
(*                                                                         *)
(* Simplification: output is none, a part, or all that the script and the     *)
(* processes it started print; it is captured when it is written.             *)
(***************************************************************************)
EXTENDS Naturals, FiniteSets

CONSTANT
  Call \* calls of execCtxCaptured

VARIABLES
  script,    \* the child process
  output,    \* what has been captured of its output
  exitCode,  \* how it ended
  lingering, \* a process it started outlives it and holds its pipes
  timer,     \* the timeout
  timedOut,  \* the local variable timedOut
  captured   \* what the promise settled to

scriptVars == <<script, output, exitCode, lingering, timer, timedOut, captured>>

ScriptState == {"none", "starting", "running", "ended"}
Output == {"none", "partial", "whole"}

\* A child ended by a signal has no code, which counts as 1.
ExitCode == {"zero", "other"}

Captured == [code : ExitCode, output : Output, timedOut : BOOLEAN]
Unsettled == [code |-> "none"]

Settled(c) == captured[c] # Unsettled

\* A promise settles once: what a later event resolves it to is dropped.
Resolve(c, code, out, late) ==
  captured' =
    [captured EXCEPT ![c] =
       IF Settled(c) THEN @ ELSE [code |-> code, output |-> out, timedOut |-> late]]

-----------------------------------------------------------------------------
(* The call: no such script, or a child and a timer. *)
StartScript(c) ==
  \/ /\ Resolve(c, "other", "none", FALSE)
     /\ UNCHANGED <<script, timer>>
  \/ /\ script' = [script EXCEPT ![c] = "starting"]
     /\ timer' = [timer EXCEPT ![c] = "armed"]
     /\ UNCHANGED captured

\* The child runs, or spawn fails and the error event does not clear the timer.
Spawned(c) ==
  /\ script[c] = "starting"
  /\ \/ /\ script' = [script EXCEPT ![c] = "running"]
        /\ UNCHANGED captured
     \/ /\ script' = [script EXCEPT ![c] = "none"]
        /\ Resolve(c, "other", output[c], FALSE)
  /\ UNCHANGED <<output, exitCode, lingering, timer, timedOut>>

\* The script, or a process it started, prints.
Prints(c) ==
  /\ script[c] = "running" \/ lingering[c]
  /\ output[c] # "whole"
  /\ \E o \in {"partial", "whole"} : output' = [output EXCEPT ![c] = o]
  /\ UNCHANGED <<script, exitCode, lingering, timer, timedOut, captured>>

Ends(c, code) ==
  /\ script' = [script EXCEPT ![c] = "ended"]
  /\ exitCode' = [exitCode EXCEPT ![c] = code]
  /\ \E l \in BOOLEAN : lingering' = [lingering EXCEPT ![c] = l]

\* The script ends.  One that ends well leaves nothing unprinted, unless a process it
\* started is still to print it.
ScriptEnds(c) ==
  /\ script[c] = "running"
  /\ \E code \in ExitCode :
       /\ Ends(c, code)
       /\ code = "zero" /\ output[c] = "partial" => lingering'[c]
  /\ UNCHANGED <<output, timer, timedOut, captured>>

LingererEnds(c) ==
  /\ lingering[c]
  /\ lingering' = [lingering EXCEPT ![c] = FALSE]
  /\ output' = [output EXCEPT ![c] =
                  IF exitCode[c] = "zero" /\ @ = "partial" THEN "whole" ELSE @]
  /\ UNCHANGED <<script, exitCode, timer, timedOut, captured>>

\* Mutant: a script without a time limit.
TimerNeverFires(c) == FALSE

\* SIGKILL reaches the child only, not the processes it started.
TimerFires(c) ==
  /\ timer[c] = "armed"
  /\ timer' = [timer EXCEPT ![c] = "off"]
  /\ timedOut' = [timedOut EXCEPT ![c] = TRUE]
  /\ IF script[c] \in {"starting", "running"}
     THEN Ends(c, "other")
     ELSE UNCHANGED <<script, exitCode, lingering>>
  /\ UNCHANGED <<output, captured>>

\* The close event.
Closes(c) ==
  /\ script[c] = "ended"
  /\ ~lingering[c]
  /\ ~Settled(c)
  /\ Resolve(c, exitCode[c], output[c], timedOut[c])
  /\ timer' = [timer EXCEPT ![c] = "off"]
  /\ UNCHANGED <<script, output, exitCode, lingering, timedOut>>

-----------------------------------------------------------------------------
ScriptInit ==
  /\ script = [c \in Call |-> "none"]
  /\ output = [c \in Call |-> "none"]
  /\ exitCode = [c \in Call |-> "other"]
  /\ lingering = [c \in Call |-> FALSE]
  /\ timer = [c \in Call |-> "off"]
  /\ timedOut = [c \in Call |-> FALSE]
  /\ captured = [c \in Call |-> Unsettled]

ScriptTypeOK ==
  /\ script \in [Call -> ScriptState]
  /\ output \in [Call -> Output]
  /\ exitCode \in [Call -> ExitCode]
  /\ lingering \in [Call -> BOOLEAN]
  /\ timer \in [Call -> {"off", "armed"}]
  /\ timedOut \in [Call -> BOOLEAN]
  /\ captured \in [Call -> Captured \cup {Unsettled}]

ScriptStep(c) ==
  \/ Spawned(c) \/ Prints(c) \/ ScriptEnds(c) \/ LingererEnds(c)
  \/ TimerFires(c) \/ Closes(c)

=============================================================================
