-------------------------- MODULE ModelFeasibility --------------------------
(***************************************************************************)
(* Whether a language model can run on a machine (core/model-feasibility.ts).  *)
(* Memory is counted in tenths of a GB; an amount or a temperature that is    *)
(* not known is Unknown.  The text of the reasons is left out.               *)
(***************************************************************************)
EXTENDS Integers, FiniteSets

Unknown == -1

Spec4(ram, cores, gpu, context) ==
  [ram |-> ram, cores |-> cores, gpu |-> gpu, maxContext |-> context]

ModelSpecs ==
  [gemma_2b_q4   |-> Spec4(15, 2, FALSE, 2048),
   gemma_2b_q8   |-> Spec4(25, 2, FALSE, 2048),
   qwen25_7b_q4  |-> Spec4(40, 4, FALSE, 4096),
   qwen25_7b_q8  |-> Spec4(70, 4, FALSE, 4096),
   llama_70b_q4  |-> Spec4(400, 8, TRUE, 8192)]

AlternativeModels == {"gemma_2b_q4", "gemma_2b_q8", "qwen25_7b_q4"}

-----------------------------------------------------------------------------
\* Half as much again is a fit; memory that is not known does not count against it.
CheckRAM(model, host) ==
  IF host.ram = Unknown \/ 2 * host.ram >= 3 * model.ram THEN "fit"
  ELSE IF host.ram >= model.ram THEN "constrained"
  ELSE "unfit"

CheckCPU(model, host) ==
  IF host.cores >= model.cores THEN "fit"
  ELSE IF host.cores >= model.cores - 1 THEN "constrained"
  ELSE "unfit"

CheckGPU(model, host) ==
  IF model.gpu /\ host.genericGpu THEN "unfit" ELSE "fit"

CheckTemperature(host) ==
  IF host.temperature >= 90 THEN "unfit"
  ELSE IF host.temperature >= 75 THEN "constrained"
  ELSE "fit"

Verdicts(model, host) ==
  {CheckRAM(model, host), CheckCPU(model, host), CheckGPU(model, host), CheckTemperature(host)}

\* Mutant: a verdict already lowered to constrained is not looked at again.
WorstOnce(levels) ==
  IF "constrained" \in levels THEN "constrained"
  ELSE IF "unfit" \in levels THEN "unfit" ELSE "fit"

Worst(levels) ==
  IF "unfit" \in levels THEN "unfit"
  ELSE IF "constrained" \in levels THEN "constrained" ELSE "fit"

\* Seven tenths of the model's context, one request at a time.
ExecutionLimits(model) == [maxContext |-> (7 * model.maxContext) \div 10, concurrency |-> 1]
NoLimits == [maxContext |-> 0, concurrency |-> 0]

CanExecute(model, host) ==
  LET level == Worst(Verdicts(model, host))
  IN [level |-> level,
      limits |-> IF level = "constrained" THEN ExecutionLimits(model) ELSE NoLimits,
      alternatives |->
        IF level = "unfit" THEN {a \in AlternativeModels : ModelSpecs[a].ram < model.ram} ELSE {}]

=============================================================================
