---------------------------- MODULE Consultation ----------------------------
(***************************************************************************)
(* The pure half of the program, composed as diagnose composes it             *)
(* (core/diagnose.ts 86-125): a query selects checks, the adapter's system    *)
(* answers them, the facts give actions and what to check next.  Beside it,   *)
(* what buffy doctor makes of the same machine, and the question whether a     *)
(* model can run.  The facts are new here: no gating changes them              *)
(* (FreshnessGate has the rest).                                             *)
(***************************************************************************)
EXTENDS DiagnosticRouter, ActionMapping, ModelFeasibility, HostReport

CONSTANTS
  Machines, \* what may be the case of the machine
  Silences, \* the sets of sources that may not answer the adapter
  Hosts,    \* what a model may have to run on
  MaxWords  \* bound: the words of a query

\* A host has amounts, or it is not known how much (core/types.ts).
ASSUME ConsultationAssumption ==
  /\ MaxWords \in Nat
  /\ Hosts \subseteq
       [ram : Nat \cup {Unknown}, cores : Nat, genericGpu : BOOLEAN, temperature : Nat \cup {Unknown}]

VARIABLES
  stage,     \* how far the consultation is
  query,
  domain,    \* the domain of its symptom
  selection, \* what the query selects
  facts,     \* what the machine shows of it
  platform,
  answer,    \* the recommended actions, and the domains that may come next
  assessed,  \* the model, the host and the verdict
  examined   \* the machine, the silent sources and the doctor's report

vars == <<stage, query, domain, selection, facts, platform, answer, assessed, examined>>

NoAnswer == [actions |-> <<>>, observability |-> "none", gap |-> FALSE, next |-> {}]

Init ==
  /\ stage = "idle"
  /\ query = <<>> /\ domain = "unknown" /\ selection = Selected({}, "high") /\ facts = <<>>
  /\ platform = "none" /\ answer = NoAnswer /\ assessed = <<>> /\ examined = <<>>

\* Selection and scoring: a throw rejects the diagnosis.  The router reads the query
\* again at the end; only its symptom matters then.
Ask(q) ==
  /\ stage = "idle"
  /\ query' = q
  /\ domain' = IdentifySymptomDomain(q)
  /\ IF AnalysisThrows(q)
       THEN stage' = "rejected" /\ UNCHANGED selection
       ELSE stage' = "selected" /\ selection' = ScoreContext(q, SelectChecks(q))
  /\ UNCHANGED <<facts, platform, answer, assessed, examined>>

Observe(name, machine, silent) ==
  /\ stage = "selected"
  /\ stage' = "observed"
  /\ facts' = AnalyzeForQuery(SystemInfo(name, machine, silent), selection.checks)
  /\ platform' = name
  /\ query' = <<>>
  /\ UNCHANGED <<domain, selection, answer, assessed, examined>>

Answer ==
  /\ stage = "observed"
  /\ stage' = "answered"
  /\ answer' = [actions |-> MapActions(facts, platform),
                observability |-> ComputeObservability(selection.checks, facts),
                gap |-> CriticalGap(domain, facts),
                next |-> NextDomains(domain, selection.checks, facts)]
  /\ UNCHANGED <<query, domain, selection, facts, platform, assessed, examined>>

Assess(model, host) ==
  /\ stage = "idle"
  /\ stage' = "assessed"
  /\ assessed' = [model |-> model, host |-> host, verdict |-> CanExecute(ModelSpecs[model], host)]
  /\ UNCHANGED <<query, domain, selection, facts, platform, answer, examined>>

\* createAdapter throws for a platform it does not know.
Detect(env) ==
  /\ stage = "idle"
  /\ platform' = DetectPlatform(env)
  /\ stage' = IF platform' = "unknown" THEN "rejected" ELSE "detected"
  /\ UNCHANGED <<query, domain, selection, facts, answer, assessed, examined>>

Examine(machine, silent) ==
  /\ stage = "detected"
  /\ stage' = "examined"
  /\ examined' = [machine |-> machine, silent |-> silent,
                  report |-> RunDoctor(platform, machine, silent)]
  /\ UNCHANGED <<query, domain, selection, facts, platform, answer, assessed>>

Queries == UNION {[1 .. n -> Word] : n \in 1 .. MaxWords}

Next ==
  \/ \E q \in Queries : Ask(q)
  \/ \E name \in PlatformName, machine \in Machines, silent \in Silences :
       Observe(name, machine, silent)
  \/ Answer
  \/ \E model \in DOMAIN ModelSpecs, host \in Hosts : Assess(model, host)
  \/ \E env \in Environment : Detect(env)
  \/ \E machine \in Machines, silent \in Silences : Examine(machine, silent)

Spec == Init /\ [][Next]_vars

-----------------------------------------------------------------------------
(* Properties. *)

\* The entity a modifier is about by its own description (entity-modifier.ts,
\* "Associates generic modifiers with their closest entity domain"): of the
\* entities no more than four words away none is closer.
Apart(m, n) == IF m < n THEN n - m ELSE m - n
EntityIndices(fragment) == {n \in DOMAIN fragment : Meaning[fragment[n]].entity # {}}
ClosestEntities(fragment, n) ==
  LET near == {m \in EntityIndices(fragment) : Apart(m, n) \in 1 .. WindowSize}
  IN {m \in near : \A k \in near : Apart(m, n) <= Apart(k, n)}
Plain(fragment) == \A n \in DOMAIN fragment : Meaning[fragment[n]].letters

\* A modifier selects the checks of its closest entity; a query of one fragment
\* loses no check its words select, and each check of a longer one is selected by
\* the words of some fragment or bound there.  The analysis throws only when words
\* without letters come with a modifier.
SelectionIsJustified ==
  /\ stage = "rejected" /\ platform = "none" =>
       \E n \in DOMAIN query : Meaning[query[n]].modifier
         /\ Cardinality({m \in DOMAIN query : ~Meaning[query[m]].letters}) >= 2
  /\ stage = "selected" =>
       LET fragments == SplitFragments(query)
       IN /\ \A f \in ToSet(fragments) : \A n \in ModifierIndices(f) :
               Plain(f) /\ ClosestEntities(f, n) # {} /\ SelectChecks(query) # {} =>
                 \E m \in ClosestEntities(f, n) : Meaning[f[m]].entity \subseteq selection.checks
          /\ Len(fragments) = 1 => SelectChecks(query) \subseteq selection.checks
          /\ \A c \in selection.checks : \E f \in ToSet(fragments) :
               c \in SelectChecks(f) \/ \E n \in EntityIndices(f) :
                 c \in Meaning[f[n]].entity /\ ModifierIndices(f) # {}

\* What is recommended: no two of a family, no more than three, each because of a
\* fact that is not ok; nothing is kept back when a family before the last that was
\* chosen has an eligible action; and nothing that is chosen has fewer of its
\* triggers reported than another eligible action of its family (action-mapper.ts).
EntryOf(id) == CHOOSE entry \in ToSet(ActionCatalog) : entry.id = id
Chosen == {EntryOf(answer.actions[n].id) : n \in DOMAIN answer.actions}
FamilyRank(family) == CHOOSE n \in DOMAIN FamilyOrder : FamilyOrder[n] = family
Alarming(entry) == {n \in MatchedChecks(entry, facts) : facts[n].severity # "ok"}
RecommendationsAreTheBest ==
  stage = "answered" =>
    /\ Cardinality(Chosen) = Len(answer.actions) /\ Len(answer.actions) <= MaxActions
    /\ \A a, b \in Chosen : a.family = b.family => a = b
    /\ \A a \in Chosen : Alarming(a) # {}
    /\ \A entry \in ToSet(ActionCatalog) :
         entry.minMatches = 1 /\ entry.minSeverity = "warning" /\ Alarming(entry) # {} =>
           \/ \E a \in Chosen :
                /\ a.family = entry.family
                /\ Cardinality(MatchedChecks(a, facts)) >= Cardinality(MatchedChecks(entry, facts))
           \/ /\ Len(answer.actions) = MaxActions
              /\ \A a \in Chosen : FamilyRank(a.family) < FamilyRank(entry.family)

\* The router sends to the review only when every selected check showed something
\* and the symptom's own domain did (diagnostic-router.ts:224, "All selected checks
\* have been performed"); a domain nobody can observe is never reviewed.
ReviewMeansSeen ==
  stage = "answered" /\ "review" \in answer.next =>
    /\ ~answer.gap
    /\ \A c \in selection.checks : \E n \in DOMAIN facts : facts[n].check = c
    /\ domain # "unknown" => \E n \in DOMAIN facts : facts[n].check = domain

\* What buffy doctor tells for the context is measured, but for what the adapters
\* fill in (see the findings): a processor and a card have a name and, but on Windows,
\* cores in any case, Windows and Android have memory, Android a disk.  The doctor and
\* a diagnosis of the same machine agree, each with limits of its own, where the doctor
\* does not say that it does not know (context.ts:14, doctor.ts:48-100).
FilledIn(measure) ==
  CASE measure \in {"model", "card"} -> TRUE
    [] measure = "cores" -> platform # "windows"
    [] measure = "memory" -> platform # "linux"
    [] measure = "disk" -> platform = "android-termux"
    [] measure = "temperature" -> FALSE
SeverityOf(items, ids) == {i.severity : i \in {i \in items : i.id \in ids}}
SameIds(check) ==
  CASE check = "ram" -> {"ram-usage", "ram-status"}
    [] check = "gpu" -> {"gpu-generic-driver", "gpu-driver", "gpu-driver-ok"}
    [] check = "storage" -> {Mount(platform)}
    [] check = "temperature" -> {"temperature-cpu", "temperature-status"}
DoctorIsHonest ==
  stage = "examined" =>
    LET report == examined.report
        diagnosed == ToSet(AnalyzeForQuery(report.system, CheckName))
    IN /\ \A measure \in report.observed :
            Measured(platform, measure, examined.silent) \/ FilledIn(measure)
       /\ \A check \in {"ram", "gpu", "storage", "temperature"} :
            SeverityOf(report.items, SameIds(check))
              \in {SeverityOf(diagnosed, SameIds(check)), {"unknown"}}
       /\ Item("ram-usage", "unknown") \in report.items =>
            ~Measured(platform, "memory", examined.silent)

\* A machine that is no worse in anything never gets a worse verdict, and a smaller
\* model that is offered instead fits in the memory the model would have needed.
Level(level) == CASE level = "fit" -> 2 [] level = "constrained" -> 1 [] level = "unfit" -> 0
NoWorse(host, other) ==
  /\ host.ram # Unknown /\ other.ram # Unknown
  /\ host.ram >= other.ram /\ host.cores >= other.cores
  /\ host.genericGpu => other.genericGpu
  /\ host.temperature <= other.temperature
FeasibilityIsMonotone ==
  stage = "assessed" =>
    /\ \A host \in Hosts : NoWorse(host, assessed.host) =>
         Level(CanExecute(ModelSpecs[assessed.model], host).level) >= Level(assessed.verdict.level)
    /\ (assessed.verdict.limits # NoLimits) <=> assessed.verdict.level = "constrained"
    /\ \A a \in assessed.verdict.alternatives : ModelSpecs[a].ram < ModelSpecs[assessed.model].ram

=============================================================================
