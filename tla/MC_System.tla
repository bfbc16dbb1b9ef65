----------------------------- MODULE MC_System -----------------------------
(***************************************************************************)
(* Instances of JournalSystem for TLC.                                      *)
(***************************************************************************)
EXTENDS JournalSystem, TLC

CONSTANTS i1, i2, i3, a1, a2, p1, p2, p3, k1, f1, h1, h2

Of(S, map) == [x \in S |-> map[x]]

\* The operator's sessions run in a process of their own.
ActorProcess == Of(Actor, i1 :> p1 @@ i2 :> p2 @@ i3 :> p2 @@ a1 :> p3 @@ a2 :> p3)
OneHost == p1 :> h1 @@ p2 :> h1 @@ p3 :> h1
OtherHost == p1 :> h1 @@ p2 :> h2 @@ p3 :> h2

RetryAndKeyless == Of(Invocation, i1 :> k1 @@ i2 :> k1 @@ i3 :> NoKey)
Retries == [i \in Invocation |-> k1]
SameAction == [i \in Invocation |-> f1]

KeyCommand(r) == [op |-> "resolveKey", key |-> k1, fp |-> f1, resolution |-> r]
ClaimCommand(op) == [op |-> op, key |-> k1, fp |-> f1, resolution |-> "efecto_confirmado"]

KeyCommands == {KeyCommand(r) : r \in Resolution}
AllCommands ==
  KeyCommands \cup {ClaimCommand("resolveClaim"), ClaimCommand("reconcileClaim")}

=============================================================================
