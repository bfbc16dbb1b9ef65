----------------------------- MODULE CliProcess -----------------------------
(***************************************************************************)
(* One process of the command buffy (cli.ts): the command it finds in its     *)
(* arguments, the code it ends with, and, for buffy ctx, the script of Buffy   *)
(* Context it runs in a process group of its own (shared/ctx.ts, execCtx).     *)
(* Somebody may send the process SIGINT or SIGTERM at any time; it forwards    *)
(* them to the group and ends.                                              *)
(*                                                                         *)
(*   started -> spawned -> waiting -> ended                                  *)
(*      |  \--------\----------\-----> ended                                  *)
(*      \-> installing ------------> ended                                  *)
(*                                                                         *)
(* A command other than ctx and install is one step here: journal, act, serve  *)
(* and the state file have modules of their own.  A command is its first       *)
(* token, and its outcome (found, in order, no error) is an input.            *)
(***************************************************************************)
EXTENDS Naturals, Sequences, FiniteSets, SequencesExt

CONSTANTS
  ArgLists,  \* what the process may be called with
  Script     \* the names of the scripts the repository of Context has

Signal == {"SIGINT", "SIGTERM"}
\* Exit codes, as names.
ScriptCodes == {"0", "3"}
Alone == {"script"}
Group == {"script", "helper"}

VARIABLES
  args,      \* process.argv.slice(2)
  pc,        \* started, spawned, waiting, installing or ended
  exitCode,  \* the code the process ended with, or the signal that killed it
  group,     \* the processes of the script's group that live
  scriptEnd, \* how the script ended: a code, a signal, or still running
  pending,   \* signals the process has not yet handled
  sent,      \* the signals forwarded to the group
  deaf       \* the processes of the group that ignore signals

processVars == <<args, pc, exitCode, group, scriptEnd, pending, sent, deaf>>

None == "none"
Running == "running"

-----------------------------------------------------------------------------
(* What a call comes to. *)

Command == IF args = <<>> THEN "" ELSE args[1]
JsonMode == Contains(args, "--json")
ContextMode == Contains(args, "--context")
PositionalArgs == SelectSeq(args, LAMBDA a : a \notin {"--json", "--context", "--pilot", "--mcp"})

Contradictory == JsonMode /\ ContextMode
Delegates == ~Contradictory /\ Command = "ctx" /\ Len(args) >= 2 /\ args[2] \in Script

\* The target is the word after --target or what is joined to it.
TargetIndex == SelectInSeq(args, LAMBDA a : a = "--target")
Target ==
  IF TargetIndex = 0 THEN IF Contains(args, "--target=antigravity") THEN "antigravity" ELSE "none"
  ELSE IF TargetIndex < Len(args) THEN args[TargetIndex + 1] ELSE "none"
Installs == ~Contradictory /\ Command = "install" /\ Target = "antigravity"

JournalExit(well) ==
  IF well /\ (Len(args) = 1 \/ args[2] \in {"list", "resolve"}) THEN "0" ELSE "1"

\* cmdAct ends with 0 whatever the action came to, once it exists.
ActExit(well) == IF Len(args) >= 2 /\ well THEN "0" ELSE "1"

ExitOf(well) ==
  IF Contradictory THEN "1"
  ELSE CASE Command = "ctx" -> IF Len(args) = 1 THEN "0" ELSE "1"
         [] Command = "env" -> "0"
         [] Command = "journal" -> JournalExit(well)
         [] Command \in {"", "doctor", "capabilities", "setup", "metrics", "health",
                          "--version", "-V", "--help", "-h"} -> IF well THEN "0" ELSE "1"
         [] Command = "diagnose" -> IF Len(PositionalArgs) >= 2 /\ well THEN "0" ELSE "1"
         [] Command = "act" -> ActExit(well)
         [] Command = "serve" -> IF Contains(args, "--mcp") /\ well THEN "0" ELSE "1"
         [] OTHER -> "1"

-----------------------------------------------------------------------------
(* The process. *)

End(code) == pc' = "ended" /\ exitCode' = code

\* Everything but a delegation and an installation, up to its end.
RunCommand(well) ==
  /\ pc = "started" /\ ~Delegates /\ ~(Installs /\ well)
  /\ End(ExitOf(well))
  /\ UNCHANGED <<args, group, scriptEnd, pending, sent, deaf>>

StartInstalling ==
  /\ pc = "started" /\ Installs
  /\ pc' = "installing"
  /\ UNCHANGED <<args, exitCode, group, scriptEnd, pending, sent, deaf>>

EndInstalling(code) ==
  /\ pc = "installing"
  /\ End(code)
  /\ UNCHANGED <<args, group, scriptEnd, pending, sent, deaf>>

SpawnScript ==
  /\ pc = "started" /\ Delegates
  /\ pc' = "spawned"
  /\ group' = Alone
  /\ scriptEnd' = Running
  /\ UNCHANGED <<args, exitCode, pending, sent, deaf>>

\* The child cannot be started: the error event resolves with 1.
SpawnFails ==
  /\ pc = "started" /\ Delegates
  /\ End("1")
  /\ UNCHANGED <<args, group, scriptEnd, pending, sent, deaf>>

InstallHandlers ==
  /\ pc = "spawned"
  /\ pc' = "waiting"
  /\ UNCHANGED <<args, exitCode, group, scriptEnd, pending, sent, deaf>>

\* The close event: the code of the script, 1 when a signal ended it.  The handlers
\* are removed, so a signal that comes now is too late to forward.
Close ==
  /\ pc = "waiting" /\ scriptEnd # Running
  /\ End(IF scriptEnd \in Signal THEN "1" ELSE scriptEnd)
  /\ UNCHANGED <<args, group, scriptEnd, pending, sent, deaf>>

\* Before the handlers are there a signal kills the process.
ReceiveSignal(s) ==
  /\ pc # "ended" /\ s \notin pending
  /\ IF pc = "waiting" THEN pending' = pending \cup {s} /\ UNCHANGED <<pc, exitCode>>
                       ELSE End(s) /\ UNCHANGED pending
  /\ UNCHANGED <<args, group, scriptEnd, sent, deaf>>

ExitCodeOf(s) == IF s = "SIGINT" THEN "130" ELSE "143"

\* Mutant: only the script gets the signal, not its group.
ForwardToChild(s) ==
  /\ sent' = [sent EXCEPT !["script"] = s]
  /\ End(ExitCodeOf(s))

\* Mutant: the signal is not forwarded.
ForwardToNobody(s) ==
  /\ sent' = sent
  /\ End(ExitCodeOf(s))

\* kill(-pid) reaches all of the group that live, then the process exits.
ForwardToGroup(s) ==
  /\ sent' = [p \in Group |-> IF p \in group THEN s ELSE sent[p]]
  /\ End(ExitCodeOf(s))

Forward(s) ==
  /\ pc = "waiting" /\ s \in pending
  /\ ForwardToGroup(s)
  /\ UNCHANGED <<args, group, scriptEnd, pending, deaf>>

-----------------------------------------------------------------------------
(* The group. *)

\* The script runs another process, in the foreground or not; one that ignores
\* signals may still do so after one.
StartHelper ==
  /\ "script" \in group /\ "helper" \notin group
  /\ sent["script"] = None \/ "script" \in deaf
  /\ group' = group \cup {"helper"}
  /\ sent' = [sent EXCEPT !["helper"] = None]
  /\ UNCHANGED <<args, pc, exitCode, scriptEnd, pending, deaf>>

ScriptExits(code) ==
  /\ "script" \in group
  /\ group' = group \ {"script"}
  /\ scriptEnd' = code
  /\ UNCHANGED <<args, pc, exitCode, pending, sent, deaf>>

HelperExits ==
  /\ "helper" \in group
  /\ group' = group \ {"helper"}
  /\ UNCHANGED <<args, pc, exitCode, scriptEnd, pending, sent, deaf>>

DiesOfSignal(p) ==
  /\ p \in group \ deaf /\ sent[p] # None
  /\ group' = group \ {p}
  /\ scriptEnd' = IF p = "script" THEN sent[p] ELSE scriptEnd
  /\ UNCHANGED <<args, pc, exitCode, pending, sent, deaf>>

CliInit ==
  /\ args \in ArgLists
  /\ pc = "started" /\ exitCode = None
  /\ group = {} /\ scriptEnd = None
  /\ pending = {} /\ sent = [p \in Group |-> None]
  /\ deaf \in SUBSET Group

ProcessStep ==
  \/ \E well \in BOOLEAN : RunCommand(well)
  \/ SpawnScript \/ SpawnFails \/ InstallHandlers \/ Close
  \/ \E s \in Signal : Forward(s)

GroupStep ==
  \/ StartHelper \/ HelperExits
  \/ \E code \in ScriptCodes : ScriptExits(code)
  \/ \E p \in Group : DiesOfSignal(p)

-----------------------------------------------------------------------------
(* Properties. *)

\* When the process has ended with the code of a signal, every process of the group
\* that lives got that signal, or the script ignores it and may have started more;
\* and the group outlives the process only if it got a signal, if the script had
\* ended before, or if the signal came before the handlers (ctx.ts:98, "Sin
\* esto, un kill al padre deja al hijo").
NoOrphanUnawares ==
  pc = "ended" /\ group # {} =>
    \/ exitCode \in {"130", "143"} /\ (\A p \in group : sent[p] # None \/ "script" \in deaf)
    \/ exitCode \in Signal /\ \A p \in Group : sent[p] = None
    \/ exitCode \in {"0", "1", "3"} /\ "script" \notin group

\* A signal that comes while the script runs ends the process, and all of the group
\* that does not ignore it, unless the script ignores it and starts more, or ends with a
\* code of its own before the signal is forwarded: then what it left behind is not told.
SignalledEnds ==
  (pc = "waiting" /\ pending # {} /\ scriptEnd = Running)
    ~> (pc = "ended" /\ (group \subseteq deaf \/ "script" \in deaf \/ scriptEnd \in ScriptCodes))

=============================================================================
