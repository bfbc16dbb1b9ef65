------------------------------ MODULE MC_Gate ------------------------------
(***************************************************************************)
(* Instances of GateExecution for TLC.  Three calls of execute: two with     *)
(* the same key and the same action, the third varied by the configuration.  *)
(***************************************************************************)
EXTENDS GateExecution, TLC

CONSTANTS i1, i2, i3, p1, p2, k1, f1, f2, h1

\* i1 and i2 are in different processes; i3 runs beside i2, in the same one.
TwoProcesses == i1 :> p1 @@ i2 :> p2 @@ i3 :> p2
OneHost == p1 :> h1 @@ p2 :> h1

\* A retry of a key, and the same action without a key.
RetryAndKeyless == i1 :> k1 @@ i2 :> k1 @@ i3 :> NoKey
SameAction == i1 :> f1 @@ i2 :> f1 @@ i3 :> f1

\* A key reused for another action.
OneKey == i1 :> k1 @@ i2 :> k1 @@ i3 :> k1
OtherAction == i1 :> f1 @@ i2 :> f1 @@ i3 :> f2

=============================================================================
