----------------------------- MODULE MCExecutor -----------------------------
(* Small pipelines for Executor: `build` compiles a source, `pack` packs    *)
(* what build left together with a second source.                           *)
EXTENDS Executor, TLC

CONSTANTS build, pack, src, conf, bin, pkg

ChainNeeds   == (build :> {}) @@ (pack :> {build})
ChainInputs  == (build :> {src}) @@ (pack :> {bin, conf})
ChainOutputs == (build :> {bin}) @@ (pack :> {pkg})

\* What a command writes depends on what it read.
ChainBuild(s, v) ==
  IF \A f \in DOMAIN v : v[f] = 1 THEN 1 ELSE 2

\* The runs are within the hypothesis under which TruthHolds is proved.
ASSUME QuietAssumption == Quiet
=============================================================================
