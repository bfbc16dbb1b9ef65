--------------------------- MODULE MC_Consultation ---------------------------
(***************************************************************************)
(* An instance of Consultation for TLC: one word of each kind that the        *)
(* patterns and dictionaries tell apart, machines at and around the limits.  *)
(***************************************************************************)
EXTENDS Consultation, TLC

Plainly ==
  [specific |-> {}, performance |-> FALSE, signal |-> FALSE, greeting |-> FALSE,
   opensTalk |-> FALSE, conjunction |-> FALSE, modifier |-> FALSE, letters |-> TRUE,
   entity |-> {}, symptoms |-> {}]

Meanings ==
  "wifi" :> [Plainly EXCEPT !.specific = {"network"}, !.entity = {"storage", "processes"},
                            !.symptoms = {"network"}] @@
  "lento" :> [Plainly EXCEPT !.performance = TRUE, !.signal = TRUE, !.modifier = TRUE,
                             !.symptoms = {"performance"}] @@
  "disco" :> [Plainly EXCEPT !.specific = {"storage"}, !.entity = {"storage"},
                             !.symptoms = {"storage"}] @@
  "ventilador" :> [Plainly EXCEPT !.specific = {"temperature"},
                                  !.entity = {"temperature", "cpu", "processes"}] @@
  "ram" :> [Plainly EXCEPT !.specific = {"ram"}, !.entity = {"ram", "processes"},
                           !.symptoms = {"memory"}] @@
  "video" :> [Plainly EXCEPT !.specific = {"gpu"}, !.symptoms = {"gpu"}] @@
  "algo" :> [Plainly EXCEPT !.signal = TRUE] @@
  "hola" :> [Plainly EXCEPT !.greeting = TRUE] @@
  "puedes" :> [Plainly EXCEPT !.opensTalk = TRUE] @@
  "y" :> [Plainly EXCEPT !.conjunction = TRUE] @@
  "123" :> [Plainly EXCEPT !.letters = FALSE]

Machine(cpu, ram, generic, temperature, used, busiest) ==
  [cpu |-> cpu, ram |-> ram, genericGpu |-> generic, temperature |-> temperature,
   used |-> used, busiest |-> busiest,
   tools |-> IF generic THEN {"ADB", "Shizuku (rish)"} ELSE {"Node.js", "ADB"},
   privileges |-> IF generic THEN {"shell", "shizuku"} ELSE {"shell", "root", "adb"}]

AllSources ==
  UNION {UNION {ToSet(Sources(p)[s]) : s \in DOMAIN Sources(p)} : p \in PlatformName}
\* Nobody is silent, everybody is, or what there is no second source for.
SomeSilences ==
  {{}, AllSources, {"meminfo", "os"}, {"df", "disk", "processor"}, {"thermal", "acpi"},
   {"lspci", "surfaceflinger"}, {"lspci", "drm", "video"}, {"command", "ps", "perfos"}}

FiveMachines ==
  {Machine(10, 40, FALSE, 0, 50, 5),
   Machine(80, 76, FALSE, 66, 86, 51),
   Machine(95, 91, TRUE, 81, 96, 90),
   Machine(79, 91, FALSE, 65, 50, 5),
   Machine(80, 40, TRUE, 81, 96, 5)}

HostMachines ==
  [ram : {-1, 10, 15, 22, 23, 40, 105, 400, 600}, cores : {1, 2, 3, 4, 7, 8},
   genericGpu : BOOLEAN, temperature : {-1, 74, 75, 89, 90}]

=============================================================================
