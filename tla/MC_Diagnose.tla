----------------------------- MODULE MC_Diagnose -----------------------------
(***************************************************************************)
(* An instance of DiagnoseSession for TLC: a Linux machine that is quiet or   *)
(* busy, and three queries with a different share of the facts each.  The     *)
(* ages are those of the policy in its order: half a minute, one minute, five  *)
(* minutes and an hour become 0, 1, 2 and 3 ticks.                           *)
(***************************************************************************)
EXTENDS DiagnoseSession, TLC

Quiet == [cpu |-> 0, ram |-> 50, genericGpu |-> FALSE, temperature |-> 0,
          disks |-> <<[id |-> "storage-/", used |-> 40]>>, busiest |-> 5]
Busy == [cpu |-> 0, ram |-> 95, genericGpu |-> TRUE, temperature |-> 85,
         disks |-> <<[id |-> "storage-/", used |-> 97]>>, busiest |-> 60]

TwoSystems == {Quiet, Busy}
ThreeSelections == {{"cpu", "ram"}, {"temperature", "storage"}, {"gpu", "processes", "network"}}

Ages ==
  "memory" :> 0 @@ "temperature" :> 0 @@ "processes" :> 0 @@
  "cpu" :> 1 @@ "network" :> 1 @@ "gpu" :> 2 @@ "storage" :> 3

=============================================================================
