---------------------------- MODULE QueryAnalysis ----------------------------
(***************************************************************************)
(* Which checks a query selects: the words it contains (check-selector.ts),   *)
(* its fragments (fragment-splitter.ts), the entity a modifier is about       *)
(* (entity-modifier.ts) and how the two are combined (context-scorer.ts).     *)
(*                                                                         *)
(* A query is a sequence of words.  Of a word, Meaning tells what the regular *)
(* expressions and dictionaries find in it:                                  *)
(*   specific    the patterns of a domain it matches                         *)
(*   performance, signal   it matches the patterns of these                  *)
(*   greeting    alone, it is a query about nothing                          *)
(*   opensTalk   a query that begins with it is about nothing                *)
(*   conjunction, modifier, letters   it is one, it has letters              *)
(*   entity      the checks of the entity it names, {} when it names none    *)
(*   symptoms    the domains whose symptom it is (diagnostic-router.ts)       *)
(* Patterns that span two words are words of the model.                      *)
(***************************************************************************)
EXTENDS SystemFacts, FiniteSetsExt, Integers

CONSTANTS Word, Meaning

PerformanceChecks == {"cpu", "ram", "gpu", "temperature", "processes"}
DefaultDiagnosticChecks == PerformanceChecks \cup {"storage"}

SpecificChecks ==
  [cpu         |-> {"cpu", "processes"},
   network     |-> {"network"},
   storage     |-> {"storage"},
   temperature |-> {"temperature", "cpu", "processes"},
   ram         |-> {"ram", "processes"},
   gpu         |-> {"gpu"},
   permissions |-> {"processes"},
   tools       |-> {"gpu"},
   processes   |-> {"processes"}]

ASSUME MeaningAssumption ==
  \A w \in Word :
    /\ Meaning[w].specific \subseteq DOMAIN SpecificChecks
    /\ Meaning[w].entity \subseteq CheckName
    /\ {Meaning[w].modifier, Meaning[w].letters} \subseteq BOOLEAN

-----------------------------------------------------------------------------
(* selectChecks. *)

IsNonDiagnostic(query) ==
  \/ Len(query) = 1 /\ Meaning[query[1]].greeting
  \/ Meaning[query[1]].opensTalk

Matched(query) ==
  (UNION {UNION {SpecificChecks[p] : p \in Meaning[w].specific} : w \in ToSet(query)})
  \cup (IF \E w \in ToSet(query) : Meaning[w].performance THEN PerformanceChecks ELSE {})

HasDiagnosticIntent(query) == \E w \in ToSet(query) : Meaning[w].signal

\* The performance checks are added, whatever else matched.
SelectChecks(query) ==
  IF IsNonDiagnostic(query) THEN {}
  ELSE IF Matched(query) # {} THEN Matched(query)
  ELSE IF HasDiagnosticIntent(query) THEN DefaultDiagnosticChecks
  ELSE {}

-----------------------------------------------------------------------------
(* splitFragments.  A conjunction splits when there is space on both sides of *)
(* it that no earlier one has taken.                                         *)

SplitFragments(query) ==
  LET read[n \in 0 .. Len(query)] ==
        IF n = 0 THEN [done |-> <<>>, last |-> <<>>]
        ELSE IF Meaning[query[n]].conjunction /\ n < Len(query) /\ read[n - 1].last # <<>>
          THEN [done |-> Append(read[n - 1].done, read[n - 1].last), last |-> <<>>]
          ELSE [done |-> read[n - 1].done, last |-> Append(read[n - 1].last, query[n])]
  IN Append(read[Len(query)].done, read[Len(query)].last)

-----------------------------------------------------------------------------
(* bindEntityModifier. *)

WindowSize == 4

\* The words that have letters.  A token's index is its place among all words,
\* but it is used as a place among these.
Tokens(fragment) == Filtered(fragment, {w \in Word : Meaning[w].letters})
ModifierIndices(fragment) == {n \in DOMAIN fragment : Meaning[fragment[n]].modifier}

\* Mutant: the words before the modifier are not looked at.
LooksForward(tokens, n) ==
  {[turn |-> 2 * o, at |-> n + o] : o \in {o \in 1 .. WindowSize : n + o <= Len(tokens)}}

\* The places looked at for the modifier at index n, with their turn: at each
\* distance first back, then forward.  Back there is no upper limit.
Looks(tokens, n) ==
  {[turn |-> 2 * o - 1, at |-> n - o] : o \in 1 .. Min({WindowSize, n - 1})}
  \cup {[turn |-> 2 * o, at |-> n + o] : o \in {o \in 1 .. WindowSize : n + o <= Len(tokens)}}

\* The looks that end the search: an entity, or no token, which throws.
Decisive(tokens, n) ==
  {l \in Looks(tokens, n) : l.at > Len(tokens) \/ Meaning[tokens[l.at]].entity # {}}

First(looks) == CHOOSE l \in looks : \A m \in looks : l.turn <= m.turn

Throws(fragment) ==
  LET tokens == Tokens(fragment)
  IN \E n \in ModifierIndices(fragment) :
       /\ Decisive(tokens, n) # {}
       /\ First(Decisive(tokens, n)).at > Len(tokens)

BoundModifiers(fragment) ==
  {n \in ModifierIndices(fragment) : Decisive(Tokens(fragment), n) # {}}
EntityChecks(fragment) ==
  LET tokens == Tokens(fragment)
  IN UNION {Meaning[tokens[First(Decisive(tokens, n)).at]].entity : n \in BoundModifiers(fragment)}

-----------------------------------------------------------------------------
(* scoreContext. *)

\* With several fragments a bound entity replaces what the words select.
FragmentChecks(fragment) ==
  IF BoundModifiers(fragment) # {} THEN EntityChecks(fragment) ELSE SelectChecks(fragment)

Selected(checks, confidence) == [checks |-> checks, confidence |-> confidence]

ScoreContext(query, lexical) ==
  LET fragments == SplitFragments(query)
      whole == lexical \cup EntityChecks(fragments[1])
      parts == UNION {FragmentChecks(f) : f \in ToSet(fragments)}
      bound == \E f \in ToSet(fragments) : BoundModifiers(f) # {}
  IN IF lexical = {} THEN Selected({}, "high")
     ELSE IF Len(fragments) = 1
       THEN Selected(whole, IF whole = lexical THEN "high" ELSE "medium")
     ELSE Selected(parts,
            IF Cardinality(parts) < Cardinality(lexical) \/ (bound /\ parts # {})
              THEN "medium" ELSE "high")

\* The binding runs only for a query that selects something.
AnalysisThrows(query) ==
  SelectChecks(query) # {} /\ \E f \in ToSet(SplitFragments(query)) : Throws(f)

=============================================================================
