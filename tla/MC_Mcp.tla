------------------------------- MODULE MC_Mcp -------------------------------
(***************************************************************************)
(* Instances of McpServer for TLC.                                          *)
(***************************************************************************)
EXTENDS McpServer, TLC

CONSTANTS v1, s1, s0, c1, m1, n1, u1

Kinds ==
  v1 :> "verify" @@ s1 :> "search" @@ s0 :> "blank_search" @@ c1 :> "context" @@
  m1 :> "method" @@ n1 :> "silent" @@ u1 :> "unknown"

Of(S, map) == [x \in S |-> map[x]]
AllKinds == Of(Request, Kinds)

=============================================================================
