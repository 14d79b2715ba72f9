----------------------------- MODULE Production -----------------------------
(***************************************************************************)
(* What a producer does: a pipeline is loaded, which takes it apart        *)
(* (ExecutionDAG) and touches no file; `attest run` executes it in an      *)
(* order that StepOrder allows and leaves a receipt (Executor); `attest    *)
(* causal publish` brings one into the log (Publication).  They share no   *)
(* file that one of them writes while another runs, so that an invocation  *)
(* is of one of them, with the processes that interleave with it.          *)
(***************************************************************************)
EXTENDS Executor, ExecutionDAG, Publication

VARIABLE task  \* which it is

productionVars == <<task, vars, dagVars, publicationVars>>

Tasks == {"load", "run", "publish"}

\* Only the pipeline that is loaded differs from one start to another; the
\* workspace of `run` is one of which edits make the others.
ProductionInit ==
  /\ task \in Tasks
  /\ needs \in IF task = "load" THEN [Nodes -> NeedsLists]
                ELSE {[s \in Nodes |-> CHOOSE l \in NeedsLists : TRUE]}
  /\ DagInit /\ PublicationInit
  /\ Init /\ \A f \in Files \ Produced : ws[f] = CHOOSE x \in Content : TRUE

LoadPipeline == task = "load" /\ DagNext /\ UNCHANGED <<task, vars, publicationVars>>

RunPipeline == task = "run" /\ Next /\ UNCHANGED <<task, dagVars, publicationVars>>

RunPublish == task = "publish" /\ PublicationNext /\ UNCHANGED <<task, vars, dagVars>>

ProductionNext == LoadPipeline \/ RunPipeline \/ RunPublish

\* What runs keeps running, as each component says of itself.
ProductionSpec ==
  /\ ProductionInit /\ [][ProductionNext]_productionVars
  /\ WF_dagVars(LoadPipeline) /\ Fairness /\ PublicationFairness
=============================================================================
