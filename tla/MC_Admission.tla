---------------------------- MODULE MC_Admission ----------------------------
(***************************************************************************)
(* An instance of GateAdmission for TLC, on Windows, with definitions of the  *)
(* kind the tests of the gate use.                                         *)
(***************************************************************************)
EXTENDS GateAdmission, TLC

CONSTANTS c1, c2, c3, g1

Actions == {"tune", "install-tool", "odd-level"}

Definitions ==
  [a \in Actions |->
    [level |-> IF a = "odd-level" THEN "odd" ELSE "confirm",
     platforms |-> {"windows", "linux"},
     prerequisites |-> IF a = "tune" THEN {"powershell", "adb"} ELSE {}]]

NoParam == [given |-> FALSE, kept |-> "", tooLong |-> FALSE]
Param(s) == [given |-> TRUE, kept |-> s, tooLong |-> FALSE]
Ask(a, raw, prompt) == [action |-> a, raw |-> raw, goodKey |-> TRUE, prompt |-> prompt]

\* A call whose user answers, one with nobody to ask, one of an unknown level.
Asked ==
  c1 :> Ask("tune", NoParam, TRUE) @@
  c2 :> Ask("install-tool", Param("git"), FALSE) @@
  c3 :> Ask("odd-level", NoParam, TRUE)

Guests == g1 :> [actionId |-> "install-tool", target |-> "git", platform |-> "windows"]

=============================================================================
