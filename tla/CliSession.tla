----------------------------- MODULE CliSession -----------------------------
(***************************************************************************)
(* Calls of buffy one after the other (cli.ts): the process of CliProcess,    *)
(* which runs the steps of Installer when it is to install.  A signal ends it  *)
(* between any two of them.  Only an installation is called again: what the   *)
(* other commands leave behind is in other modules.                          *)
(***************************************************************************)
EXTENDS CliProcess, Installer

CONSTANT MaxCalls  \* bound

VARIABLE calls

vars == <<processVars, installVars, calls>>

SessionInit == CliInit /\ InstallInit /\ calls = 1

RunProcess == ProcessStep /\ UNCHANGED <<installVars, calls>>

Begin == StartInstalling /\ UNCHANGED <<installVars, calls>>

Write ==
  /\ pc = "installing"
  /\ InstallStep
  /\ UNCHANGED <<processVars, calls>>

Report ==
  /\ current > Len(FileOrder)
  /\ EndInstalling("0")
  /\ StopInstalling
  /\ UNCHANGED calls

\* A file or its directory cannot be read or written, or the list of servers cannot
\* take another.
WriteFails ==
  /\ current <= Len(FileOrder)
  /\ EndInstalling("1")
  /\ StopInstalling
  /\ UNCHANGED calls

Signalled(s) ==
  /\ ReceiveSignal(s)
  /\ IF pc = "installing" THEN StopInstalling ELSE UNCHANGED installVars
  /\ UNCHANGED calls

CallAgain ==
  /\ pc = "ended" /\ Installs /\ calls < MaxCalls
  /\ calls' = calls + 1
  /\ pc' = "started" /\ exitCode' = None
  /\ UNCHANGED <<args, group, scriptEnd, pending, sent, deaf, installVars>>

\* Others are looked at only when an installation may meet them.
Others == Installs /\ OthersStep /\ UNCHANGED <<processVars, calls>>

OwnStep == RunProcess \/ Begin \/ Write \/ Report \/ WriteFails

Next ==
  \/ OwnStep
  \/ \E s \in Signal : Signalled(s)
  \/ GroupStep /\ UNCHANGED <<installVars, calls>>
  \/ CallAgain
  \/ Others

\* The event loop runs, and a process that got a signal it does not ignore ends.
\* A script need never end by itself.
Fairness ==
  /\ WF_vars(OwnStep)
  /\ \A p \in Group : WF_vars(DiesOfSignal(p) /\ UNCHANGED <<installVars, calls>>)

Spec == SessionInit /\ [][Next]_vars /\ Fairness

-----------------------------------------------------------------------------
(* Properties. *)

\* Whatever installations are begun and however they end, the servers others have
\* registered and the text outside the first block of Buffy are there.  Excused is a
\* file that Buffy left empty, that changed after it was read or whose markers were out
\* of order, a list that did not parse when it was read, damaged or in another program's
\* rewriting (see the findings), and one that another program wrote over Buffy's.  An
\* installation that says it is done has registered Buffy, unless the file or its list
\* was an array, left its block once where there was none or one, and wrote its own two
\* files (antigravity.ts:65-103; the test "preserves existing MCP entries (merge, not
\* overwrite)").
BeingFilled(file) == phase = "fill" /\ File = file
BeingRewritten == rewriting # <<>> /\ files.config = EmptyConfig
Registered == files.config.form \in Unlisted \/ Buffy \in files.config.servers
InstallKeepsTheRest ==
  /\ \/ "config" \in excused \/ BeingFilled("config") \/ BeingRewritten
     \/ owed.config \subseteq files.config.servers
  /\ \/ "guide" \in excused \/ BeingFilled("guide")
     \/ WellFenced(files.guide) /\ UserText(files.guide) = owed.guide
  /\ pc = "ended" /\ exitCode = "0" /\ Installs =>
       /\ "config" \in excused \/ BeingRewritten \/ Registered
       /\ "guide" \in excused \/ \E n \in 0 .. Len(files.guide) - 3 :
            SubSeq(files.guide, n + 1, n + 3) = BuffyBlock
       /\ files.tool /\ files.instructions

=============================================================================
