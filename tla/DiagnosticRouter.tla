-------------------------- MODULE DiagnosticRouter --------------------------
(***************************************************************************)
(* What to check next (core/diagnostic-router.ts): the domain of the symptom, *)
(* the evidence that is missing for it, and the check that comes next.        *)
(*                                                                         *)
(* Each fact's id names the check it comes from, except that of the storage   *)
(* facts no category does; so a domain is observed when there is a fact of   *)
(* the check of that name.  No fact comes from a check named memory or        *)
(* performance.                                                             *)
(***************************************************************************)
EXTENDS QueryAnalysis

\* The patterns in the order they are tried.
SymptomOrder ==
  <<"network", "storage", "performance", "temperature", "memory", "gpu", "processes">>

\* The router's own OBSERVABLE_CHECKS; the network is not among them.
RouterObservable == {"cpu", "ram", "gpu", "storage", "temperature", "processes"}

Symptoms(query) == UNION {Meaning[w].symptoms : w \in ToSet(query)}

IdentifySymptomDomain(query) ==
  LET matching == Filtered(SymptomOrder, Symptoms(query))
  IN IF matching = <<>> THEN "unknown" ELSE matching[1]

Observed(domain, facts) == \E n \in DOMAIN facts : facts[n].check = domain

CriticalGap(domain, facts) ==
  domain # "unknown" /\ (domain \notin RouterObservable \/ ~Observed(domain, facts))

\* Mutant: what was selected counts as done.
NotRunNever(checks, facts) == {}

NotRun(checks, facts) == {c \in checks \cap RouterObservable : ~Observed(c, facts)}

\* The domains that may come next: of several checks not run the first selected.
NextDomains(domain, checks, facts) ==
  IF CriticalGap(domain, facts) THEN {domain}
  ELSE IF NotRun(checks, facts) # {} THEN NotRun(checks, facts)
  ELSE {"review"}

\* computeConclusions: the categories the supported conclusions name, how grave.
SupportedConclusions(facts) ==
  {<<facts[n].check, facts[n].severity>> : n \in {n \in DOMAIN facts : facts[n].severity # "unknown"}}

=============================================================================
