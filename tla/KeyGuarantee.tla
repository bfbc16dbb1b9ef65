---------------------------- MODULE KeyGuarantee ----------------------------
(***************************************************************************)
(* What the execution journal promises about an idempotency key (section 1   *)
(* of design-v3.md), with no journal, lock, claim or process in it: the      *)
(* executor runs for a key at most once, and once more for each time an      *)
(* operator confirmed that the effect of an earlier attempt is absent.       *)
(***************************************************************************)
EXTENDS Naturals, FiniteSets

CONSTANTS Key, Invocation

VARIABLES
  ran,     \* ran[k]: the invocations whose executor was called under key k
  reopened \* reopened[k]: how often an operator reopened k

Init ==
  /\ ran = [k \in Key |-> {}]
  /\ reopened = [k \in Key |-> 0]

Run(k, i) ==
  /\ i \notin ran[k]
  /\ Cardinality(ran[k]) <= reopened[k]
  /\ ran' = [ran EXCEPT ![k] = @ \cup {i}]
  /\ UNCHANGED reopened

Reopen(k) ==
  /\ reopened' = [reopened EXCEPT ![k] = @ + 1]
  /\ UNCHANGED ran

Next == \E k \in Key : Reopen(k) \/ \E i \in Invocation : Run(k, i)

Spec == Init /\ [][Next]_<<ran, reopened>>

=============================================================================
