--------------------------- MODULE ExecutorProofs ---------------------------
(***************************************************************************)
(* Proofs about Executor, for every pipeline, any number of processes and  *)
(* any number of runs and edits.                                           *)
(*                                                                         *)
(* First the type invariant, one lemma per action; then IInv, which adds   *)
(* to it the books of the loop (which steps are recorded, failed, skipped  *)
(* or still to come, and that needs come first), the place of the signing  *)
(* key, and what a chain of events on disk looks like while it grows; last *)
(* TruthInv, of one process and inputs that never come back to an earlier  *)
(* content (Quiet), for ReceiptTellsTheTruth.                              *)
(***************************************************************************)
EXTENDS Executor, TLAPS

\* The initial state is well typed.
LEMMA TypeInit == Init => TypeOK
  BY PipelineAssumption DEF Init, TypeOK, DiskOK, ProcsOK, ScopeOK, Labels, Produced

\* A run that ends with an exit code and no receipt leaves everything typed.
LEMMA FailType ==
  ASSUME TypeOK, NEW p \in Procs, NEW code \in {-1, 0, 1, 2}, Fail(p, code)
  PROVE  TypeOK'
  BY DEF TypeOK, DiskOK, ProcsOK, ScopeOK, Labels, Fail, End, disk, local, step

\* Starting a run (core.rs run_pipeline) keeps the types.
LEMMA StartRunType ==
  ASSUME TypeOK, NEW p \in Procs, StartRun(p)
  PROVE  TypeOK'
  <1> USE PipelineAssumption DEF StartRun, Goto, End, disk, local, step
  <1>1. DiskOK'
    BY DEF TypeOK, DiskOK, ProcsOK
  <1>2. ProcsOK'
    BY DEF TypeOK, ProcsOK, Labels
  <1>3. \A q \in Procs : ScopeOK(q)'
    BY DEF TypeOK, DiskOK, ProcsOK, ScopeOK, Manifest, Missing, ResultOf
  <1> QED BY <1>1, <1>2, <1>3 DEF TypeOK

\* The first half of the cache key keeps the types.
LEMMA ContentHashType ==
  ASSUME TypeOK, NEW p \in Procs, ContentHash(p)
  PROVE  TypeOK'
  <1> USE PipelineAssumption DEF ContentHash, Goto, End, disk, local, step
  <1>1. DiskOK'
    BY DEF TypeOK, DiskOK, ProcsOK
  <1>2. ProcsOK'
    BY DEF TypeOK, ProcsOK, Labels
  <1>3. \A q \in Procs : ScopeOK(q)'
    BY DEF TypeOK, DiskOK, ProcsOK, ScopeOK, Manifest, Missing, ResultOf
  <1> QED BY <1>1, <1>2, <1>3 DEF TypeOK

\* Hashing the inputs keeps the types: the manifest has every declared path.
LEMMA InputHashType ==
  ASSUME TypeOK, NEW p \in Procs, InputHash(p)
  PROVE  TypeOK'
  <1> USE PipelineAssumption DEF InputHash, Goto, End, disk, local, step
  <1>1. DiskOK'
    BY DEF TypeOK, DiskOK, ProcsOK
  <1>2. ProcsOK'
    BY DEF TypeOK, ProcsOK, Labels
  <1>3. \A q \in Procs : ScopeOK(q)'
    BY DEF TypeOK, DiskOK, ProcsOK, ScopeOK, Manifest, Missing, ResultOf
  <1> QED BY <1>1, <1>2, <1>3 DEF TypeOK

\* The cache lookup keeps the types.
LEMMA LookupType ==
  ASSUME TypeOK, NEW p \in Procs, Lookup(p)
  PROVE  TypeOK'
  <1> USE PipelineAssumption DEF Lookup, Goto, End, disk, local, step
  <1>1. DiskOK'
    BY DEF TypeOK, DiskOK, ProcsOK
  <1>2. ProcsOK'
    BY DEF TypeOK, ProcsOK, Labels
  <1>3. \A q \in Procs : ScopeOK(q)'
    BY DEF TypeOK, DiskOK, ProcsOK, ScopeOK, Manifest, Missing, ResultOf
  <1> QED BY <1>1, <1>2, <1>3 DEF TypeOK

\* A replayed result has the type of a fresh one.
LEMMA CacheHitType ==
  ASSUME TypeOK, NEW p \in Procs, CacheHit(p)
  PROVE  TypeOK'
  <1> USE PipelineAssumption DEF CacheHit, Goto, End, disk, local, step
  <1>1. DiskOK'
    BY DEF TypeOK, DiskOK, ProcsOK
  <1>2. ProcsOK'
    BY DEF TypeOK, ProcsOK, Labels
  <1>3. \A q \in Procs : ScopeOK(q)'
    <2>1. PICK r \in entry[p] :
            result' = [result EXCEPT ![p] = {[r EXCEPT !.cache_hit = TRUE]}]
      OBVIOUS
    <2>2. pc[p] = "match" /\ r \in ResultOf(cur[p])
      BY <2>1 DEF TypeOK, ProcsOK, ScopeOK
    <2>3. [r EXCEPT !.cache_hit = TRUE] \in ResultOf(cur[p])
      BY <2>2 DEF ResultOf
    <2> QED BY <2>1, <2>3 DEF TypeOK, ProcsOK, ScopeOK
  <1> QED BY <1>1, <1>2, <1>3 DEF TypeOK

\* A miss keeps the types.
LEMMA CacheMissType ==
  ASSUME TypeOK, NEW p \in Procs, CacheMiss(p)
  PROVE  TypeOK'
  <1> USE PipelineAssumption DEF CacheMiss, Goto, End, disk, local, step
  <1>1. DiskOK'
    BY DEF TypeOK, DiskOK, ProcsOK
  <1>2. ProcsOK'
    <2>1. held[p].executed \in Nat /\ held[p].in_capsule \in Nat
      BY DEF TypeOK, ProcsOK
    <2>2. held' \in [Procs -> [executed : Nat, in_capsule : Nat]]
      BY <2>1 DEF TypeOK, ProcsOK
    <2>3. pc' \in [Procs -> Labels]
      BY DEF TypeOK, ProcsOK, Labels
    <2> QED BY <2>2, <2>3 DEF TypeOK, ProcsOK
  <1>3. \A q \in Procs : ScopeOK(q)'
    BY DEF TypeOK, DiskOK, ProcsOK, ScopeOK, Manifest, Missing, ResultOf
  <1> QED BY <1>1, <1>2, <1>3 DEF TypeOK

\* The command of a step keeps the types of the workspace.
LEMMA ExecuteType ==
  ASSUME TypeOK, NEW p \in Procs, Execute(p)
  PROVE  TypeOK'
  <1> USE PipelineAssumption DEF Execute, Goto, End, disk, local, step
  <1>1. DiskOK'
    BY DEF TypeOK, DiskOK, ProcsOK
  <1>2. ProcsOK'
    BY DEF TypeOK, ProcsOK, Labels
  <1>3. \A q \in Procs : ScopeOK(q)'
    BY DEF TypeOK, DiskOK, ProcsOK, ScopeOK, Manifest, Missing, ResultOf
  <1> QED BY <1>1, <1>2, <1>3 DEF TypeOK

\* The second hash of the inputs keeps the types.
LEMMA RehashType ==
  ASSUME TypeOK, NEW p \in Procs, Rehash(p)
  PROVE  TypeOK'
  <1> USE PipelineAssumption DEF Rehash, Goto, End, disk, local, step
  <1>1. DiskOK'
    BY DEF TypeOK, DiskOK, ProcsOK
  <1>2. ProcsOK'
    BY DEF TypeOK, ProcsOK, Labels
  <1>3. \A q \in Procs : ScopeOK(q)'
    BY DEF TypeOK, DiskOK, ProcsOK, ScopeOK, Manifest, Missing, ResultOf
  <1> QED BY <1>1, <1>2, <1>3 DEF TypeOK

\* Hashing the outputs keeps the types: every declared output was there.
LEMMA HashOutputsType ==
  ASSUME TypeOK, NEW p \in Procs, HashOutputs(p)
  PROVE  TypeOK'
  <1> USE PipelineAssumption DEF HashOutputs, Goto, End, disk, local, step
  <1>1. DiskOK'
    BY DEF TypeOK, DiskOK, ProcsOK
  <1>2. ProcsOK'
    BY DEF TypeOK, ProcsOK, Labels
  <1>3. \A q \in Procs : ScopeOK(q)'
    <2> DEFINE r == [name |-> cur[p], input_hash |-> inHash[p],
                     output_hash |-> Manifest(Outputs[cur[p]]),
                     exit_code |-> status[p], capsule |-> cur[p] \in Capsules,
                     cache_hit |-> FALSE]
    <2>1. pc[p] = "outputs" /\ cur[p] \in Steps
      BY DEF TypeOK, ProcsOK, ScopeOK
    <2>2. Manifest(Outputs[cur[p]]) \in [Outputs[cur[p]] -> Content]
      BY <2>1 DEF TypeOK, DiskOK, Manifest, Missing
    <2>3. r \in ResultOf(cur[p])
      BY <2>1, <2>2 DEF TypeOK, ProcsOK, ScopeOK, ResultOf
    <2>4. result' = [result EXCEPT ![p] = {r}]
      OBVIOUS
    <2> HIDE DEF r
    <2> QED BY <2>3, <2>4 DEF TypeOK, ProcsOK, ScopeOK
  <1> QED BY <1>1, <1>2, <1>3 DEF TypeOK

\* The cache entry that is written has the type the lookup relies on.
LEMMA StoreResultType ==
  ASSUME TypeOK, NEW p \in Procs, StoreResult(p)
  PROVE  TypeOK'
  <1> USE PipelineAssumption DEF StoreResult, Goto, End, disk, local, step
  <1>1. DiskOK'
    <2> DEFINE now == Manifest(Inputs[cur[p]])
    <2>1. pc[p] = "store" /\ cur[p] \in Steps /\ result[p] \subseteq ResultOf(cur[p])
      BY DEF TypeOK, ProcsOK, ScopeOK
    <2>2. now \in [Inputs[cur[p]] -> Content]
      BY <2>1 DEF TypeOK, DiskOK, Manifest, Missing
    <2>3. \A c \in cache' : c \in cache \/
            \E r \in result[p] : c = [step |-> cur[p], inputs |-> now, result |-> r]
      OBVIOUS
    <2> HIDE DEF now
    <2>4. \A c \in cache' : /\ c.step \in Steps
                            /\ c.inputs \in [Inputs[c.step] -> Content]
                            /\ c.result \in ResultOf(c.step)
      BY <2>1, <2>2, <2>3 DEF TypeOK, DiskOK
    <2> QED BY <2>4 DEF TypeOK, DiskOK
  <1>2. ProcsOK'
    BY DEF TypeOK, ProcsOK, Labels
  <1>3. \A q \in Procs : ScopeOK(q)'
    BY DEF TypeOK, DiskOK, ProcsOK, ScopeOK, Manifest, Missing, ResultOf
  <1> QED BY <1>1, <1>2, <1>3 DEF TypeOK

\* A pushed result keeps the types of the results and the completed steps.
LEMMA PushResultType ==
  ASSUME TypeOK, NEW p \in Procs, PushResult(p)
  PROVE  TypeOK'
  <1> USE PipelineAssumption DEF PushResult, Goto, End, disk, local, step
  <1>1. DiskOK'
    BY DEF TypeOK, DiskOK, ProcsOK
  <1>2. ProcsOK'
    <2>1. PICK r \in result[p] :
            /\ results' = [results EXCEPT ![p] = Append(@, r)]
            /\ unsuccessful' = [unsuccessful EXCEPT ![p] =
                 IF r.exit_code # 0 THEN @ \cup {r.name} ELSE @]
      OBVIOUS
    <2>2. cur[p] \in Steps /\ r \in ResultOf(cur[p])
      BY <2>1 DEF TypeOK, ProcsOK, ScopeOK
    <2>3. r \in StepResult /\ r.name \in Steps
      BY <2>2 DEF StepResult, ResultOf
    <2>4. results' \in [Procs -> Seq(StepResult)]
      BY <2>1, <2>3 DEF TypeOK, ProcsOK
    <2>5. unsuccessful' \in [Procs -> SUBSET Steps]
      BY <2>1, <2>3 DEF TypeOK, ProcsOK
    <2> QED BY <2>2, <2>4, <2>5 DEF TypeOK, ProcsOK, Labels
  <1>3. \A q \in Procs : ScopeOK(q)'
    BY DEF TypeOK, DiskOK, ProcsOK, ScopeOK, Manifest, Missing, ResultOf
  <1> QED BY <1>1, <1>2, <1>3 DEF TypeOK

\* Loading the signing key keeps the types.
LEMMA LoadKeyType ==
  ASSUME TypeOK, NEW p \in Procs, LoadKey(p)
  PROVE  TypeOK'
  <1> USE PipelineAssumption DEF LoadKey, Goto, End, disk, local, step
  <1>1. DiskOK'
    BY DEF TypeOK, DiskOK, ProcsOK
  <1>2. ProcsOK'
    BY DEF TypeOK, ProcsOK, Labels
  <1>3. \A q \in Procs : ScopeOK(q)'
    BY DEF TypeOK, DiskOK, ProcsOK, ScopeOK, Manifest, Missing, ResultOf
  <1> QED BY <1>1, <1>2, <1>3 DEF TypeOK

\* Recording a causal event keeps the types of the ledger and the chain.
LEMMA RecordEventType ==
  ASSUME TypeOK, NEW p \in Procs, RecordEvent(p)
  PROVE  TypeOK'
  <1> USE PipelineAssumption DEF RecordEvent, Goto, End, disk, local, step
  <1> DEFINE r == results[p][Len(events[p]) + 1]
             id == EventId(p, r.name)
  <1>0. r \in StepResult /\ r.name \in Steps /\ id \in Nat \X Steps
    <2>1. results[p] \in Seq(StepResult) /\ events[p] \in Seq(Nat \X Steps)
      BY DEF TypeOK, ProcsOK
    <2>2. Len(events[p]) + 1 \in 1 .. Len(results[p])
      BY <2>1
    <2>3. r \in StepResult
      BY <2>1, <2>2
    <2>4. r.name \in Steps
      BY <2>3 DEF StepResult, ResultOf
    <2> QED BY <2>3, <2>4 DEF EventId, TypeOK, ProcsOK
  <1>1. DiskOK'
    <2> DEFINE signed == keyHeld[p]
               written == {events[p][i] : i \in DOMAIN events[p]}
               parents == {EventId(p, d) : d \in Needs[r.name]} \cap written
               e == [id |-> id, signed |-> signed, result |-> r,
                     parents |-> parents]
    <2>1. ledger' = ledger \cup {e}
      OBVIOUS
    <2>2. parents \subseteq Nat \X Steps
      BY <1>0 DEF EventId, TypeOK, ProcsOK
    <2>3. signed \in BOOLEAN
      BY DEF TypeOK, ProcsOK
    <2>4. e \in Event
      <3> HIDE DEF r, id, signed, parents
      <3> QED BY <1>0, <2>2, <2>3 DEF Event
    <2>5. ledger' \subseteq Event
      BY <2>1, <2>4 DEF TypeOK, DiskOK
    <2> QED BY <2>5 DEF TypeOK, DiskOK
  <1>2. ProcsOK'
    <2>1. events' = [events EXCEPT ![p] = Append(@, id)]
      OBVIOUS
    <2> HIDE DEF r, id
    <2>2. events' \in [Procs -> Seq(Nat \X Steps)]
      BY <1>0, <2>1 DEF TypeOK, ProcsOK
    <2> QED BY <2>2 DEF TypeOK, ProcsOK, Labels
  <1>3. \A q \in Procs : ScopeOK(q)'
    BY DEF TypeOK, DiskOK, ProcsOK, ScopeOK, Manifest, Missing, ResultOf
  <1> QED BY <1>1, <1>2, <1>3 DEF TypeOK

\* Writing the receipt keeps the types.
LEMMA PublishType ==
  ASSUME TypeOK, NEW p \in Procs, Publish(p)
  PROVE  TypeOK'
  <1> USE PipelineAssumption DEF Publish, Goto, End, disk, local, step
  <1>1. DiskOK'
    <2> DEFINE code == IF AnyFailed(p) THEN 1 ELSE 0
               stamped == mode[p] = "stamp"
               signed == keyHeld[p]
               rc == [run |-> run[p], steps |-> results[p],
                      causal_events |-> events[p], inputs |-> InputsRow(p),
                      signed |-> signed, stamped |-> stamped, exit |-> code]
    <2>1. InputsRow(p) \in {"enforced", "not-enforced"}
      BY DEF InputsRow
    <2>2. stamped \in BOOLEAN /\ code \in {0, 1}
      OBVIOUS
    <2>3. /\ run[p] \in Nat /\ results[p] \in Seq(StepResult)
          /\ events[p] \in Seq(Nat \X Steps) /\ signed \in BOOLEAN
      BY DEF TypeOK, ProcsOK
    <2>4. rc \in Receipt
      <3> HIDE DEF code, stamped, signed
      <3> QED BY <2>1, <2>2, <2>3 DEF Receipt
    <2>5. receipts' = receipts \cup {rc}
      OBVIOUS
    <2>6. receipts' \subseteq Receipt
      BY <2>4, <2>5 DEF TypeOK, DiskOK
    <2> QED BY <2>6 DEF TypeOK, DiskOK
  <1>2. ProcsOK'
    BY DEF TypeOK, ProcsOK, Labels
  <1>3. \A q \in Procs : ScopeOK(q)'
    BY DEF TypeOK, DiskOK, ProcsOK, ScopeOK, Manifest, Missing, ResultOf
  <1> QED BY <1>1, <1>2, <1>3 DEF TypeOK

\* Skipping a step keeps the types.
LEMMA SkipStepType ==
  ASSUME TypeOK, NEW p \in Procs, NEW s \in Steps, SkipStep(p, s)
  PROVE  TypeOK'
  <1> USE PipelineAssumption DEF SkipStep, Goto, End, disk, local, step
  <1>1. DiskOK'
    BY DEF TypeOK, DiskOK, ProcsOK
  <1>2. ProcsOK'
    BY DEF TypeOK, ProcsOK, Labels
  <1>3. \A q \in Procs : ScopeOK(q)'
    BY DEF TypeOK, DiskOK, ProcsOK, ScopeOK, Manifest, Missing, ResultOf
  <1> QED BY <1>1, <1>2, <1>3 DEF TypeOK

\* Taking a step up keeps the types.
LEMMA TakeStepType ==
  ASSUME TypeOK, NEW p \in Procs, NEW s \in Steps, TakeStep(p, s)
  PROVE  TypeOK'
  <1> USE PipelineAssumption DEF TakeStep, Goto, End, disk, local, step
  <1>1. DiskOK'
    BY DEF TypeOK, DiskOK, ProcsOK
  <1>2. ProcsOK'
    BY DEF TypeOK, ProcsOK, Labels
  <1>3. \A q \in Procs : ScopeOK(q)'
    BY DEF TypeOK, DiskOK, ProcsOK, ScopeOK, Manifest, Missing, ResultOf
  <1> QED BY <1>1, <1>2, <1>3 DEF TypeOK

\* The return of a command keeps the types.
LEMMA ReturnType ==
  ASSUME TypeOK, NEW p \in Procs, NEW code \in {0, 1}, NEW W \in SUBSET Files, Return(p, code, W)
  PROVE  TypeOK'
  <1> USE PipelineAssumption DEF Return, Goto, End, disk, local, step
  <1>1. DiskOK'
    <2>1. Build(cur[p], seen[p]) \in Content
      BY DEF TypeOK, ProcsOK, ScopeOK
    <2>2. ws' \in [Files -> Content \cup {Absent}]
      BY <2>1 DEF TypeOK, DiskOK
    <2> QED BY <2>2 DEF TypeOK, DiskOK
  <1>2. ProcsOK'
    BY DEF TypeOK, ProcsOK, Labels
  <1>3. \A q \in Procs : ScopeOK(q)'
    BY DEF TypeOK, DiskOK, ProcsOK, ScopeOK, Manifest, Missing, ResultOf
  <1> QED BY <1>1, <1>2, <1>3 DEF TypeOK

\* The environment touches the workspace and its counter of edits only.
LEMMA EditType ==
  ASSUME TypeOK, NEW f \in Files, NEW c \in Content \cup {Absent},
         EditSource(f, c) \/ CleanOutput(f)
  PROVE  TypeOK'
  <1> USE DEF EditSource, CleanOutput, local, step
  <1>1. DiskOK'
    BY DEF TypeOK, DiskOK
  <1>2. ProcsOK'
    BY DEF TypeOK, ProcsOK
  <1>3. \A q \in Procs : ScopeOK(q)'
    BY DEF TypeOK, ScopeOK
  <1> QED BY <1>1, <1>2, <1>3 DEF TypeOK

\* The ways a run ends without a receipt.
EndsWithout(p) == \E code \in {-1, 1, 2} : Fail(p, code)

\* Every error path, and a crash, ends a run without a receipt.
LEMMA FailingSteps ==
  ASSUME NEW p \in Procs,
         \/ InputMissing(p) \/ SnapshotRefused(p) \/ InputsChanged(p)
         \/ OutputMissing(p) \/ StoreRefused(p) \/ KeyRefused(p)
         \/ TokenRefused(p) \/ OperationalError(p) \/ Crash(p)
  PROVE  EndsWithout(p) /\ pc[p] # "idle"
  BY DEF EndsWithout, InputMissing, SnapshotRefused, InputsChanged,
         OutputMissing, StoreRefused, KeyRefused, TokenRefused,
         OperationalError, Crash

\* What a step of the specification can be.
LEMMA NextCases ==
  ASSUME Next
  PROVE  \/ \E p \in Procs :
              \/ EndsWithout(p) /\ pc[p] # "idle"
              \/ StartRun(p) \/ ContentHash(p) \/ InputHash(p) \/ Lookup(p)
              \/ CacheHit(p) \/ CacheMiss(p) \/ Execute(p) \/ Rehash(p)
              \/ HashOutputs(p) \/ StoreResult(p) \/ PushResult(p)
              \/ LoadKey(p) \/ RecordEvent(p) \/ Publish(p)
              \/ \E s \in Steps : SkipStep(p, s) \/ TakeStep(p, s)
              \/ \E code \in {0, 1}, W \in SUBSET Files : Return(p, code, W)
         \/ \E f \in Files, c \in Content \cup {Absent} :
              EditSource(f, c) \/ CleanOutput(f)
  <1>1. CASE \E f \in Files, c \in Content \cup {Absent} : EditSource(f, c)
    BY <1>1
  <1>2. CASE \E f \in Files : CleanOutput(f)
    BY <1>2
  <1>3. CASE \E p \in Procs : StartRun(p) \/ Progress(p) \/ OperationalError(p)
                                \/ Crash(p)
    <2>1. PICK p \in Procs : StartRun(p) \/ Progress(p) \/ OperationalError(p)
                               \/ Crash(p)
      BY <1>3
    <2>2. CASE Iteration(p)
      BY <2>2, FailingSteps DEF Iteration
    <2>3. CASE Closing(p)
      BY <2>3, FailingSteps DEF Closing
    <2>4. CASE StartRun(p) \/ OperationalError(p) \/ Crash(p)
      BY <2>4, FailingSteps
    <2> QED BY <2>1, <2>2, <2>3, <2>4 DEF Progress
  <1> QED BY <1>1, <1>2, <1>3 DEF Next

\* One step of the specification preserves the types.
LEMMA TypeNext == TypeOK /\ [Next]_vars => TypeOK'
  <1> SUFFICES ASSUME TypeOK, [Next]_vars PROVE TypeOK'
    OBVIOUS
  <1>1. CASE UNCHANGED vars
    BY <1>1 DEF TypeOK, DiskOK, ProcsOK, ScopeOK, vars, disk, local, step
  <1>2. CASE Next
    BY <1>2, NextCases, FailType, EditType, StartRunType, ContentHashType,
       InputHashType, LookupType, CacheHitType, CacheMissType, ExecuteType,
       RehashType, HashOutputsType, StoreResultType, PushResultType,
       LoadKeyType, RecordEventType, PublishType, SkipStepType, TakeStepType,
       ReturnType, Zenon DEF EndsWithout
  <1> QED BY <1>1, <1>2

\* Type correctness: whatever the pipeline and however many runs and edits
\* interleave, a result, a cache entry or a receipt commits to files that
\* existed when they were hashed, for every declared path.
THEOREM TypeCorrect == Spec => []TypeOK
  BY TypeInit, TypeNext, PTL DEF Spec

----------------------------------------------------------------------------
(* The books of the loop.                                                  *)

\* Appending a result adds its step to the succeeded ones iff it succeeded.
LEMMA SucceededAppend ==
  ASSUME NEW rs \in Seq(StepResult), NEW r \in StepResult
  PROVE  Succeeded(Append(rs, r)) =
           Succeeded(rs) \cup (IF r.exit_code = 0 THEN {r.name} ELSE {})
  <1> DEFINE t == Append(rs, r)
  <1>1. /\ DOMAIN t = DOMAIN rs \cup {Len(rs) + 1}
        /\ \A i \in DOMAIN rs : t[i] = rs[i]
        /\ t[Len(rs) + 1] = r
    OBVIOUS
  <1> HIDE DEF t
  <1>2. Succeeded(t) = Succeeded(rs) \cup (IF r.exit_code = 0 THEN {r.name} ELSE {})
    BY <1>1 DEF Succeeded
  <1> QED BY <1>2 DEF t

\* A result all of whose needs have succeeded may be appended.
LEMMA SolidAppend ==
  ASSUME NEW rs \in Seq(StepResult), NEW r \in StepResult, Solid(rs),
         Needs[r.name] \subseteq Succeeded(rs)
  PROVE  Solid(Append(rs, r))
  <1> DEFINE t == Append(rs, r)
  <1>1. /\ DOMAIN t = 1 .. Len(rs) + 1
        /\ DOMAIN rs = 1 .. Len(rs)
        /\ Len(rs) \in Nat
        /\ \A i \in DOMAIN rs : t[i] = rs[i]
        /\ t[Len(rs) + 1] = r
    OBVIOUS
  <1> HIDE DEF t
  <1>2. ASSUME NEW i \in DOMAIN t, NEW d \in Needs[t[i].name]
        PROVE  \E j \in 1 .. i - 1 : t[j].name = d /\ t[j].exit_code = 0
    <2>1. CASE i \in DOMAIN rs
      <3>1. PICK j \in 1 .. i - 1 : rs[j].name = d /\ rs[j].exit_code = 0
        BY <1>1, <1>2, <2>1 DEF Solid
      <3>2. j \in DOMAIN rs
        BY <1>1, <2>1
      <3> QED BY <1>1, <3>1, <3>2
    <2>2. CASE i = Len(rs) + 1
      <3>1. PICK j \in DOMAIN rs : rs[j].name = d /\ rs[j].exit_code = 0
        BY <1>1, <1>2, <2>2 DEF Succeeded
      <3>2. j \in 1 .. i - 1
        BY <1>1, <2>2
      <3> QED BY <1>1, <3>1, <3>2
    <2> QED BY <1>1, <2>1, <2>2
  <1> QED BY <1>2 DEF Solid, t

\* An action inside the iteration of process p that leaves the loop's
\* variables alone.
LEMMA BookFrame ==
  ASSUME TypeOK, NEW p \in Procs, NEW l,
         \A q \in Procs : Book(q),
         pc[p] \notin {"idle", "next", "record"},
         l \notin {"idle", "next", "record"},
         pc' = [pc EXCEPT ![p] = l],
         UNCHANGED <<todo, cur, completed, unsuccessful, results>>
  PROVE  \A q \in Procs : Book(q)'
  <1> SUFFICES ASSUME NEW q \in Procs PROVE Book(q)'
    OBVIOUS
  <1>1. CASE q = p
    <2>1. Pending(p)' = Pending(p) /\ pc'[p] # "record" /\ pc[p] # "idle"
      BY DEF Pending, TypeOK, ProcsOK
    <2> QED BY <1>1, <2>1 DEF Book, AnyFailed, Solid, Succeeded
  <1>2. CASE q # p
    <2>1. pc'[q] = pc[q] /\ Pending(q)' = Pending(q)
      BY <1>2 DEF Pending, TypeOK, ProcsOK
    <2>2. AnyFailed(q)' = AnyFailed(q) /\ Succeeded(results[q])' = Succeeded(results[q])
          /\ Solid(results[q])' = Solid(results[q])
      BY DEF AnyFailed, Solid, Succeeded
    <2> QED BY <2>1, <2>2 DEF Book
  <1> QED BY <1>1, <1>2

\* What is not touched keeps its books.
LEMMA BookSame ==
  ASSUME NEW q \in Procs, Book(q), pc'[q] = pc[q], todo'[q] = todo[q],
         cur'[q] = cur[q], completed'[q] = completed[q],
         unsuccessful'[q] = unsuccessful[q], results'[q] = results[q]
  PROVE  Book(q)'
  <1>1. Pending(q)' = Pending(q)
    BY DEF Pending
  <1> QED BY <1>1 DEF Book, AnyFailed, Solid, Succeeded

\* A skipped step: the books of the loop stay right.
LEMMA BookSkip ==
  ASSUME TypeOK, NEW p \in Procs, NEW s \in Steps, Book(p), SkipStep(p, s)
  PROVE  Book(p)'
  <1>1. /\ pc[p] = "next" /\ pc'[p] = "next"
        /\ unsuccessful'[p] = unsuccessful[p] \cup {s}
        /\ completed'[p] = completed[p] \cup {s}
        /\ todo'[p] = todo[p] \ {s}
        /\ s \in todo[p]
        /\ results'[p] = results[p]
        /\ unsuccessful[p] # {}
    BY DEF TypeOK, ProcsOK, SkipStep, Sortable, disk, local, step
  <1>2. Pending(p) = {} /\ Pending(p)' = {}
    BY <1>1 DEF Pending
  <1>3. AnyFailed(p) /\ AnyFailed(p)'
    BY <1>1 DEF Book, AnyFailed
  <1>4. Solid(results[p]) /\ Solid(results[p])'
    BY <1>1 DEF Book, Solid
  <1>5. Succeeded(results[p])' = Succeeded(results[p])
    BY <1>1 DEF Succeeded
  <1> QED BY <1>1, <1>2, <1>3, <1>4, <1>5 DEF Book

\* A step taken up: the books of the loop stay right.
LEMMA BookTake ==
  ASSUME TypeOK, NEW p \in Procs, NEW s \in Steps, Book(p), TakeStep(p, s)
  PROVE  Book(p)'
  <1>1. /\ pc[p] = "next" /\ pc'[p] = "key"
        /\ unsuccessful'[p] = unsuccessful[p]
        /\ completed'[p] = completed[p]
        /\ todo'[p] = todo[p] \ {s}
        /\ s \in todo[p]
        /\ cur'[p] = s
        /\ results'[p] = results[p]
        /\ Needs[s] \cap unsuccessful[p] = {}
        /\ Needs[s] \subseteq completed[p]
    BY DEF TypeOK, ProcsOK, TakeStep, Goto, Sortable, disk, local, step
  <1>2. Pending(p) = {} /\ Pending(p)' = {s}
    BY <1>1 DEF Pending
  <1>3. AnyFailed(p)' = AnyFailed(p)
    BY <1>1 DEF AnyFailed
  <1>4. Solid(results[p]) /\ Solid(results[p])'
    BY <1>1 DEF Book, Solid
  <1>5. Succeeded(results[p])' = Succeeded(results[p])
    BY <1>1 DEF Succeeded
  <1>6. Needs[s] \subseteq Succeeded(results[p])
    BY <1>1 DEF Book
  <1> QED BY <1>1, <1>2, <1>3, <1>4, <1>5, <1>6 DEF Book

\* A pushed result: the books of the loop stay right.
LEMMA BookPush ==
  ASSUME TypeOK, NEW p \in Procs, Book(p), PushResult(p)
  PROVE  Book(p)'
  <1>1. PICK r \in result[p] :
          /\ results' = [results EXCEPT ![p] = Append(@, r)]
          /\ unsuccessful' = [unsuccessful EXCEPT ![p] =
               IF r.exit_code # 0 THEN @ \cup {r.name} ELSE @]
    BY DEF PushResult
  <1>2. /\ pc[p] = "push" /\ pc'[p] = "next"
        /\ cur[p] \in Steps
        /\ r \in ResultOf(cur[p])
        /\ completed'[p] = completed[p] \cup {cur[p]}
        /\ todo'[p] = todo[p]
        /\ unsuccessful'[p] = IF r.exit_code # 0 THEN unsuccessful[p] \cup {r.name}
                                                 ELSE unsuccessful[p]
        /\ results'[p] = Append(results[p], r)
        /\ results[p] \in Seq(StepResult)
    BY <1>1 DEF TypeOK, ProcsOK, ScopeOK, PushResult, Goto, disk, local, step
  <1>3. r \in StepResult /\ r.name = cur[p] /\ r.exit_code \in {0, 1}
    BY <1>2 DEF StepResult, ResultOf
  <1>4. Pending(p) = {cur[p]} /\ Pending(p)' = {}
    BY <1>2 DEF Pending
  <1>5. Succeeded(results[p])' =
          Succeeded(results[p]) \cup (IF r.exit_code = 0 THEN {cur[p]} ELSE {})
    <2>1. Succeeded(results[p])' = Succeeded(Append(results[p], r))
      BY <1>2 DEF Succeeded
    <2> QED BY <1>2, <1>3, <2>1, SucceededAppend
  <1>6. Solid(results[p])'
    <2> DEFINE t == Append(results[p], r)
    <2>1. Solid(t)
      BY <1>2, <1>3, <1>4, SolidAppend DEF Book
    <2>2. results'[p] = t
      BY <1>2
    <2> HIDE DEF t
    <2> QED BY <2>1, <2>2 DEF Solid
  <1>7. unsuccessful'[p] # {} => AnyFailed(p)'
    <2>1. /\ Len(results[p]) + 1 \in DOMAIN Append(results[p], r)
          /\ Append(results[p], r)[Len(results[p]) + 1] = r
          /\ \A i \in DOMAIN results[p] :
               /\ i \in DOMAIN Append(results[p], r)
               /\ Append(results[p], r)[i] = results[p][i]
      BY <1>2, <1>3
    <2>2. CASE r.exit_code # 0
      BY <1>2, <2>1, <2>2 DEF AnyFailed
    <2>3. CASE r.exit_code = 0
      BY <1>2, <2>1, <2>3 DEF AnyFailed, Book
    <2> QED BY <2>2, <2>3
  <1> QED BY <1>2, <1>3, <1>4, <1>5, <1>6, <1>7 DEF Book

\* A new run starts with empty books.
LEMMA BookStart ==
  ASSUME TypeOK, NEW p \in Procs, StartRun(p)
  PROVE  Book(p)'
  <1>1. /\ pc'[p] = "next" /\ todo'[p] = Steps /\ completed'[p] = {}
        /\ unsuccessful'[p] = {} /\ results'[p] = <<>>
    BY DEF TypeOK, ProcsOK, StartRun, Goto
  <1>2. Pending(p)' = {}
    BY <1>1 DEF Pending
  <1>3. Succeeded(results[p])' = {} /\ Solid(results[p])'
    BY <1>1 DEF Succeeded, Solid
  <1> QED BY <1>1, <1>2, <1>3 DEF Book

\* Loading the key, when the loop is over, leaves the books as they are.
LEMMA BookLoadKey ==
  ASSUME TypeOK, NEW p \in Procs, Book(p), LoadKey(p)
  PROVE  Book(p)'
  <1>1. /\ pc[p] = "next" /\ pc'[p] = "record" /\ todo[p] = {}
        /\ todo'[p] = todo[p] /\ completed'[p] = completed[p]
        /\ unsuccessful'[p] = unsuccessful[p] /\ results'[p] = results[p]
    BY DEF TypeOK, ProcsOK, LoadKey, Goto, disk, local, step
  <1>2. Pending(p) = {} /\ Pending(p)' = {}
    BY <1>1 DEF Pending
  <1> QED BY <1>1, <1>2 DEF Book, AnyFailed, Solid, Succeeded

\* Every step of the specification keeps the books of every process.
LEMMA BookNext ==
  ASSUME TypeOK, \A q \in Procs : Book(q), [Next]_vars
  PROVE  \A q \in Procs : Book(q)'
  <1> USE DEF TypeOK, ProcsOK
  <1>1. CASE UNCHANGED vars
    BY <1>1, BookSame DEF vars, disk, local, step
  <1>2. ASSUME NEW f \in Files, NEW c \in Content \cup {Absent},
               EditSource(f, c) \/ CleanOutput(f)
        PROVE  \A q \in Procs : Book(q)'
    BY <1>2, BookSame DEF EditSource, CleanOutput, local, step
  <1>3. ASSUME NEW p \in Procs, EndsWithout(p) \/ Publish(p)
        PROVE  \A q \in Procs : Book(q)'
    <2>1. pc' = [pc EXCEPT ![p] = "idle"] /\ UNCHANGED <<local, cur, results>>
      BY <1>3 DEF EndsWithout, Publish, Fail, End, step
    <2>2. Book(p)'
      BY <2>1 DEF Book
    <2> QED BY <2>1, <2>2, BookSame DEF local
  <1>4. ASSUME NEW p \in Procs,
               \/ ContentHash(p) \/ InputHash(p) \/ Lookup(p) \/ CacheHit(p)
               \/ CacheMiss(p) \/ Execute(p) \/ Rehash(p) \/ HashOutputs(p)
               \/ StoreResult(p)
               \/ \E code \in {0, 1}, W \in SUBSET Files : Return(p, code, W)
        PROVE  \A q \in Procs : Book(q)'
    <2>1. /\ pc[p] \notin {"idle", "next", "record"}
          /\ \E l : /\ l \notin {"idle", "next", "record"}
                    /\ pc' = [pc EXCEPT ![p] = l]
          /\ UNCHANGED <<todo, cur, completed, unsuccessful, results>>
      BY <1>4 DEF ContentHash, InputHash, Lookup, CacheHit, CacheMiss, Execute,
           Rehash, HashOutputs, StoreResult, Return, Goto, local, step
    <2> QED BY <2>1, BookFrame
  <1>5. ASSUME NEW p \in Procs, RecordEvent(p)
        PROVE  \A q \in Procs : Book(q)'
    BY <1>5, BookSame DEF RecordEvent, local, step
  <1>6. ASSUME NEW p \in Procs,
               \/ StartRun(p) \/ PushResult(p) \/ LoadKey(p)
               \/ \E s \in Steps : SkipStep(p, s) \/ TakeStep(p, s)
        PROVE  \A q \in Procs : Book(q)'
    <2>1. Book(p)'
      BY <1>6, BookStart, BookPush, BookLoadKey, BookSkip, BookTake
    <2>2. ASSUME NEW q \in Procs, q # p
          PROVE  /\ pc'[q] = pc[q] /\ todo'[q] = todo[q] /\ cur'[q] = cur[q]
                 /\ completed'[q] = completed[q]
                 /\ unsuccessful'[q] = unsuccessful[q]
                 /\ results'[q] = results[q]
      BY <1>6, <2>2 DEF StartRun, PushResult, LoadKey, SkipStep, TakeStep, Goto,
           local, step
    <2> QED BY <2>1, <2>2, BookSame
  <1> QED
    <2>1. CASE Next
      BY <2>1, NextCases, <1>2, <1>3, <1>4, <1>5, <1>6
    <2> QED BY <1>1, <2>1

----------------------------------------------------------------------------
(* The ledger.                                                             *)

\* A chain stays a chain as the ledger grows.
LEMMA ChainedGrows ==
  ASSUME NEW L, NEW M, NEW n, NEW rs, NEW es, NEW signed,
         Chained(L, n, rs, es, signed), L \subseteq M
  PROVE  Chained(M, n, rs, es, signed)
  BY DEF Chained

\* One more event, whose parents are the needs that have one, extends it.
LEMMA ChainedAppend ==
  ASSUME NEW L, NEW M, NEW n \in Nat, NEW rs \in Seq(StepResult),
         NEW es \in Seq(Nat \X Steps), NEW b, NEW k, NEW r, NEW id, NEW parents,
         Chained(L, n, rs, es, b), Solid(rs), Len(es) < Len(rs),
         k = Len(es) + 1, r = rs[k], id = <<n, r.name>>,
         parents = {<<n, d>> : d \in Needs[r.name]} \cap {es[i] : i \in DOMAIN es},
         M = L \cup
           {[id |-> id, signed |-> b, result |-> r, parents |-> parents]}
  PROVE  Chained(M, n, rs, Append(es, id), b)
  <1> DEFINE t == Append(es, id)
             e == [id |-> id, signed |-> b, result |-> r, parents |-> parents]
  <1>1. k \in Nat /\ DOMAIN es = 1 .. k - 1 /\ k \in 1 .. Len(rs)
          /\ DOMAIN rs = 1 .. Len(rs) /\ Len(rs) \in Nat
    OBVIOUS
  <1>2. \A d \in Needs[r.name] : \E i \in 1 .. k - 1 : rs[i].name = d
    BY <1>1 DEF Solid
  <1>3. \A i \in 1 .. k - 1 : es[i] = <<n, rs[i].name>>
    BY <1>1 DEF Chained
  <1>4. parents = {<<n, d>> : d \in Needs[r.name]}
    <2>1. ASSUME NEW d \in Needs[r.name]
          PROVE  <<n, d>> \in {es[i] : i \in DOMAIN es}
      <3>1. PICK i \in 1 .. k - 1 : rs[i].name = d
        BY <1>2
      <3>2. es[i] = <<n, d>> /\ i \in DOMAIN es
        BY <1>1, <1>3, <3>1
      <3> QED BY <3>2
    <2> QED BY <2>1
  <1>5. /\ DOMAIN t = 1 .. k
        /\ \A i \in 1 .. k - 1 : t[i] = es[i]
        /\ t[k] = id
    <2> id \in Nat \X Steps
      <3>1. r \in StepResult
        BY <1>1
      <3> QED BY <3>1 DEF StepResult, ResultOf
    <2> QED BY <1>1
  <1> HIDE DEF t
  <1>6. parents \subseteq {t[i] : i \in 1 .. k - 1}
    <2> SUFFICES ASSUME NEW x \in parents
                 PROVE  x \in {t[i] : i \in 1 .. k - 1}
      OBVIOUS
    <2>1. PICK i \in 1 .. k - 1 : x = es[i]
      BY <1>1
    <2>2. x = t[i]
      BY <1>5, <2>1
    <2> QED BY <2>2
  <1>7. ASSUME NEW i \in 1 .. k - 1
        PROVE  /\ t[i] = <<n, rs[i].name>>
               /\ \E f \in L :
                    /\ f.id = t[i] /\ f.result = rs[i] /\ f.signed = b
                    /\ f.parents = {<<n, d>> : d \in Needs[rs[i].name]}
                    /\ f.parents \subseteq {t[m] : m \in 1 .. i - 1}
    <2>1. PICK f \in L :
            /\ f.id = es[i] /\ f.result = rs[i] /\ f.signed = b
            /\ f.parents = {<<n, d>> : d \in Needs[rs[i].name]}
            /\ f.parents \subseteq {es[m] : m \in 1 .. i - 1}
      BY <1>1 DEF Chained
    <2>2. {es[m] : m \in 1 .. i - 1} = {t[m] : m \in 1 .. i - 1}
      <3>1. \A m \in 1 .. i - 1 : t[m] = es[m]
        BY <1>1, <1>5
      <3> QED BY <3>1
    <2>3. t[i] = es[i] /\ es[i] = <<n, rs[i].name>>
      BY <1>1, <1>5 DEF Chained
    <2> QED BY <2>1, <2>2, <2>3
  <1>8. /\ e \in M /\ e.id = t[k] /\ e.result = rs[k] /\ e.signed = b
        /\ e.parents = {<<n, d>> : d \in Needs[rs[k].name]}
        /\ e.parents \subseteq {t[m] : m \in 1 .. k - 1}
        /\ t[k] = <<n, rs[k].name>>
    BY <1>4, <1>5, <1>6
  <1>9. \A i \in 1 .. k : i = k \/ i \in 1 .. k - 1
    BY <1>1
  <1>10. Chained(M, n, rs, t, b)
    BY <1>5, <1>7, <1>8, <1>9 DEF Chained
  <1> QED BY <1>10 DEF t

\* The next turn of record_causal_events.
LEMMA RecordExtends ==
  ASSUME TypeOK, NEW p \in Procs, Book(p), Recorded(p), RecordEvent(p)
  PROVE  Recorded(p)'
  <1> DEFINE n == run[p]
             rs == results[p]
             es == events[p]
             b == keyHeld[p]
             k == Len(es) + 1
             r == rs[k]
             id == <<n, r.name>>
             parents == {<<n, d>> : d \in Needs[r.name]}
                          \cap {es[i] : i \in DOMAIN es}
  <1>1. /\ pc[p] = "record" /\ pc'[p] = "record"
        /\ n \in Nat /\ rs \in Seq(StepResult) /\ es \in Seq(Nat \X Steps)
        /\ Len(es) < Len(rs)
        /\ Solid(rs) /\ Chained(ledger, n, rs, es, b)
    BY DEF TypeOK, ProcsOK, RecordEvent, Recorded, Book
  <1>2. /\ ledger' = ledger \cup
             {[id |-> id, signed |-> b, result |-> r, parents |-> parents]}
        /\ events'[p] = Append(es, id)
        /\ results'[p] = rs /\ run'[p] = n /\ keyHeld'[p] = b
    BY DEF TypeOK, ProcsOK, RecordEvent, EventId, local
  <1>3. Chained(ledger', n, rs, Append(es, id), b)
    BY <1>1, <1>2, ChainedAppend
  <1>4. Len(Append(es, id)) <= Len(rs)
    BY <1>1
  <1> HIDE DEF n, rs, es, b, id
  <1>5. Chained(ledger', run'[p], results'[p], events'[p], keyHeld'[p])
    BY <1>2, <1>3
  <1> QED BY <1>1, <1>2, <1>4, <1>5 DEF Recorded

\* What a process has recorded survives the steps of others: the ledger grows.
LEMMA RecordedSame ==
  ASSUME NEW q \in Procs, Recorded(q), pc'[q] = pc[q], run'[q] = run[q],
         results'[q] = results[q], events'[q] = events[q],
         keyHeld'[q] = keyHeld[q], ledger \subseteq ledger'
  PROVE  Recorded(q)'
  <1>1. pc[q] = "record" =>
          Chained(ledger', run'[q], results'[q], events'[q], keyHeld'[q])
    BY ChainedGrows DEF Recorded
  <1> QED BY <1>1 DEF Recorded

\* Every step of the specification keeps what has been recorded.
LEMMA RecordedNext ==
  ASSUME TypeOK, \A q \in Procs : Book(q) /\ Recorded(q), [Next]_vars
  PROVE  \A q \in Procs : Recorded(q)'
  <1> USE DEF TypeOK, ProcsOK
  <1>1. CASE UNCHANGED vars
    BY <1>1, RecordedSame DEF vars, disk, local, step
  <1>2. ASSUME NEW f \in Files, NEW c \in Content \cup {Absent},
               EditSource(f, c) \/ CleanOutput(f)
        PROVE  \A q \in Procs : Recorded(q)'
    BY <1>2, RecordedSame DEF EditSource, CleanOutput, local, step
  <1>3. ASSUME NEW p \in Procs, EndsWithout(p) \/ Publish(p)
        PROVE  \A q \in Procs : Recorded(q)'
    <2>1. /\ pc' = [pc EXCEPT ![p] = "idle"]
          /\ keyHeld' = [keyHeld EXCEPT ![p] = FALSE]
          /\ UNCHANGED <<run, results, events, ledger>>
      BY <1>3 DEF EndsWithout, Publish, Fail, End, disk, local
    <2>2. Recorded(p)'
      BY <2>1 DEF Recorded
    <2> QED BY <2>1, <2>2, RecordedSame
  <1>4. ASSUME NEW p \in Procs,
               \/ ContentHash(p) \/ InputHash(p) \/ Lookup(p) \/ CacheHit(p)
               \/ CacheMiss(p) \/ Execute(p) \/ Rehash(p) \/ HashOutputs(p)
               \/ StoreResult(p) \/ PushResult(p)
               \/ \E s \in Steps : SkipStep(p, s) \/ TakeStep(p, s)
               \/ \E code \in {0, 1}, W \in SUBSET Files : Return(p, code, W)
        PROVE  \A q \in Procs : Recorded(q)'
    <2>1. /\ pc[p] \notin {"idle", "record"} /\ pc'[p] \notin {"idle", "record"}
          /\ \A q \in Procs : q # p => pc'[q] = pc[q] /\ results'[q] = results[q]
          /\ UNCHANGED <<run, events, keyHeld, ledger>>
      BY <1>4 DEF ContentHash, InputHash, Lookup, CacheHit, CacheMiss, Execute,
           Rehash, HashOutputs, StoreResult, PushResult, SkipStep, TakeStep,
           Return, Goto, disk, local
    <2>2. Recorded(p)'
      BY <2>1 DEF Recorded
    <2> QED BY <2>1, <2>2, RecordedSame
  <1>5. ASSUME NEW p \in Procs, StartRun(p) \/ LoadKey(p)
        PROVE  \A q \in Procs : Recorded(q)'
    <2>0. events'[p] = <<>> /\ results'[p] \in Seq(StepResult) /\ UNCHANGED ledger
      <3>1. CASE StartRun(p)
        BY <3>1 DEF StartRun, disk
      <3>2. CASE LoadKey(p)
        BY <3>2 DEF LoadKey, Goto, Recorded, disk
      <3> QED BY <1>5, <3>1, <3>2
    <2>1. \A q \in Procs : q # p => /\ pc'[q] = pc[q] /\ run'[q] = run[q]
                                    /\ results'[q] = results[q]
                                    /\ events'[q] = events[q]
                                    /\ keyHeld'[q] = keyHeld[q]
      BY <1>5 DEF StartRun, LoadKey, Goto, local
    <2>2. Chained(ledger', run'[p], results'[p], <<>>, keyHeld'[p])
      BY DEF Chained
    <2>3. Recorded(p)'
      BY <2>0, <2>2 DEF Recorded
    <2> QED BY <2>0, <2>1, <2>3, RecordedSame
  <1>6. ASSUME NEW p \in Procs, RecordEvent(p)
        PROVE  \A q \in Procs : Recorded(q)'
    <2>1. /\ ledger \subseteq ledger'
          /\ \A q \in Procs : q # p => events'[q] = events[q]
          /\ UNCHANGED <<pc, run, results, keyHeld>>
      BY <1>6 DEF RecordEvent, local
    <2>2. Recorded(p)'
      BY <1>6, RecordExtends
    <2> QED BY <2>1, <2>2, RecordedSame
  <1> QED
    <2>1. CASE Next
      BY <2>1, NextCases, <1>2, <1>3, <1>4, <1>5, <1>6
    <2> QED BY <1>1, <2>1

----------------------------------------------------------------------------
(* What a receipt promises.                                                *)

\* A process that holds the key stands at the recording of the events.
KeyLate == \A p \in Procs : keyHeld[p] => pc[p] = "record"

\* The inductive invariant of Executor.
IInv ==
  /\ TypeOK
  /\ Bookkeeping
  /\ KeyLate
  /\ OnSolidFoundation
  /\ CausalChainComplete
  /\ ExitZeroMeansComplete

\* The invariant holds initially.
LEMMA IInvInit == Init => IInv
  <1> SUFFICES ASSUME Init PROVE IInv
    OBVIOUS
  <1>1. TypeOK
    BY TypeInit
  <1>2. Bookkeeping /\ KeyLate
    BY DEF Init, Bookkeeping, Book, Recorded, KeyLate
  <1>3. OnSolidFoundation /\ CausalChainComplete /\ ExitZeroMeansComplete
    BY DEF Init, OnSolidFoundation, CausalChainComplete, ExitZeroMeansComplete
  <1> QED BY <1>1, <1>2, <1>3 DEF IInv

\* The receipt that Publish adds is solid, chained and, with exit code 0,
\* complete.
LEMMA PublishedReceipt ==
  ASSUME IInv, NEW p \in Procs, Publish(p)
  PROVE  /\ Solid(results[p])
         /\ Len(events[p]) = Len(results[p])
         /\ Chained(ledger, run[p], results[p], events[p], keyHeld[p])
         /\ ~AnyFailed(p) => Succeeded(results[p]) = Steps
  <1>1. pc[p] = "record" /\ Len(events[p]) = Len(results[p])
    BY DEF Publish
  <1>2. Book(p) /\ Recorded(p)
    BY DEF IInv, Bookkeeping
  <1>3. Pending(p) = {}
    BY <1>1 DEF Pending
  <1> QED BY <1>1, <1>2, <1>3 DEF Book, Recorded

\* Every step preserves the invariant.
LEMMA IInvNext == IInv /\ [Next]_vars => IInv'
  <1> SUFFICES ASSUME IInv, [Next]_vars PROVE IInv'
    OBVIOUS
  <1>0. TypeOK /\ Bookkeeping
    BY DEF IInv
  <1>1. TypeOK'
    BY <1>0, TypeNext
  <1>2. Bookkeeping'
    BY <1>0, BookNext, RecordedNext DEF Bookkeeping
  <1>3. ASSUME NEW p \in Procs, Publish(p)
        PROVE  KeyLate' /\ OnSolidFoundation' /\ CausalChainComplete'
                 /\ ExitZeroMeansComplete'
    <2> DEFINE code == IF AnyFailed(p) THEN 1 ELSE 0
               rc == [run |-> run[p], steps |-> results[p],
                      causal_events |-> events[p], inputs |-> InputsRow(p),
                      signed |-> keyHeld[p], stamped |-> mode[p] = "stamp",
                      exit |-> code]
    <2>1. /\ receipts' = receipts \cup {rc}
          /\ pc' = [pc EXCEPT ![p] = "idle"]
          /\ keyHeld' = [keyHeld EXCEPT ![p] = FALSE]
          /\ exit' = [exit EXCEPT ![p] = code]
          /\ ledger' = ledger /\ run' = run
      BY <1>3 DEF Publish, End, local
    <2>2. /\ rc.steps = results[p] /\ rc.causal_events = events[p]
          /\ rc.run = run[p] /\ rc.signed = keyHeld[p]
      BY Zenon
    <2>3. /\ Solid(results[p])
          /\ Len(events[p]) = Len(results[p])
          /\ Chained(ledger, run[p], results[p], events[p], keyHeld[p])
          /\ ~AnyFailed(p) => Succeeded(results[p]) = Steps
      BY <1>3, PublishedReceipt
    <2> HIDE DEF rc
    <2>4. KeyLate'
      BY <1>0, <2>1 DEF IInv, KeyLate, TypeOK, ProcsOK
    <2>5. OnSolidFoundation'
      <3>1. \A x \in receipts' : Solid(x.steps)
        BY <2>1, <2>2, <2>3 DEF IInv, OnSolidFoundation
      <3> QED BY <3>1 DEF OnSolidFoundation, Solid
    <2>6. CausalChainComplete'
      <3>1. /\ Len(rc.causal_events) = Len(rc.steps)
            /\ Chained(ledger', rc.run, rc.steps, rc.causal_events, rc.signed)
        BY <2>1, <2>2, <2>3
      <3>2. \A x \in receipts' :
              /\ Len(x.causal_events) = Len(x.steps)
              /\ Chained(ledger', x.run, x.steps, x.causal_events, x.signed)
        BY <2>1, <3>1 DEF IInv, CausalChainComplete
      <3> QED BY <3>2 DEF CausalChainComplete
    <2>7. ExitZeroMeansComplete'
      <3> SUFFICES ASSUME NEW q \in Procs, exit'[q] = 0
                   PROVE  \E x \in receipts' : /\ x.run = run'[q]
                                               /\ Succeeded(x.steps) = Steps
        BY DEF ExitZeroMeansComplete, Succeeded
      <3>1. CASE q = p
        <4>1. ~AnyFailed(p)
          BY <1>0, <2>1, <3>1 DEF TypeOK, ProcsOK
        <4> QED BY <2>1, <2>2, <2>3, <3>1, <4>1
      <3>2. CASE q # p
        BY <1>0, <2>1, <3>2 DEF IInv, ExitZeroMeansComplete, TypeOK, ProcsOK
      <3> QED BY <3>1, <3>2
    <2> QED BY <2>4, <2>5, <2>6, <2>7
  <1>4. ASSUME receipts' = receipts, ledger \subseteq ledger'
        PROVE  OnSolidFoundation' /\ CausalChainComplete'
    <2>1. OnSolidFoundation'
      BY <1>4 DEF IInv, OnSolidFoundation, Solid
    <2>2. \A x \in receipts :
            /\ Len(x.causal_events) = Len(x.steps)
            /\ Chained(ledger', x.run, x.steps, x.causal_events, x.signed)
      BY <1>4, ChainedGrows DEF IInv, CausalChainComplete
    <2> QED BY <1>4, <2>1, <2>2 DEF CausalChainComplete
  <1>5. ASSUME receipts' = receipts,
               \A q \in Procs : exit'[q] # 0 \/ (exit'[q] = exit[q] /\ run'[q] = run[q])
        PROVE  ExitZeroMeansComplete'
    BY <1>5 DEF IInv, ExitZeroMeansComplete, Succeeded
  <1>6. ASSUME \A q \in Procs :
                 keyHeld'[q] => pc'[q] = "record"
        PROVE  KeyLate'
    BY <1>6 DEF KeyLate
  <1>7. ASSUME NEW p \in Procs, EndsWithout(p)
        PROVE  IInv'
    <2>1. PICK code \in {-1, 1, 2} : Fail(p, code)
      BY <1>7 DEF EndsWithout
    <2>2. /\ UNCHANGED <<receipts, ledger, run>>
          /\ exit' = [exit EXCEPT ![p] = code]
          /\ pc' = [pc EXCEPT ![p] = "idle"]
          /\ keyHeld' = [keyHeld EXCEPT ![p] = FALSE]
      BY <2>1 DEF Fail, End, disk, local
    <2>3. ExitZeroMeansComplete'
      BY <1>0, <1>5, <2>2 DEF TypeOK, ProcsOK
    <2>4. KeyLate'
      BY <1>0, <2>2 DEF IInv, KeyLate, TypeOK, ProcsOK
    <2> QED BY <1>1, <1>2, <1>4, <2>2, <2>3, <2>4 DEF IInv
  <1>8. ASSUME NEW p \in Procs,
               \/ StartRun(p) \/ ContentHash(p) \/ InputHash(p) \/ Lookup(p)
               \/ CacheHit(p) \/ CacheMiss(p) \/ Execute(p) \/ Rehash(p)
               \/ HashOutputs(p) \/ StoreResult(p) \/ PushResult(p)
               \/ LoadKey(p) \/ RecordEvent(p)
               \/ \E s \in Steps : SkipStep(p, s) \/ TakeStep(p, s)
               \/ \E c \in {0, 1}, W \in SUBSET Files : Return(p, c, W)
        PROVE  IInv'
    <2>1. receipts' = receipts /\ ledger \subseteq ledger'
      BY <1>8 DEF StartRun, ContentHash, InputHash, Lookup, CacheHit, CacheMiss,
           Execute, Rehash, HashOutputs, StoreResult, PushResult, LoadKey,
           RecordEvent, SkipStep, TakeStep, Return, disk
    <2>2. \A q \in Procs : exit'[q] # 0 \/ (exit'[q] = exit[q] /\ run'[q] = run[q])
      <3>1. CASE StartRun(p)
        <4>1. /\ exit' = [exit EXCEPT ![p] = -1]
              /\ run' = [run EXCEPT ![p] = runs + 1]
          BY <3>1 DEF StartRun
        <4>2. exit'[p] # 0
          BY <1>0, <4>1 DEF TypeOK, ProcsOK
        <4>3. \A q \in Procs : q # p => exit'[q] = exit[q] /\ run'[q] = run[q]
          BY <1>0, <4>1 DEF TypeOK, ProcsOK
        <4> QED BY <4>2, <4>3
      <3>2. CASE ~StartRun(p)
        BY <1>8, <3>2 DEF ContentHash, InputHash, Lookup, CacheHit, CacheMiss,
             Execute, Rehash, HashOutputs, StoreResult, PushResult, LoadKey,
             RecordEvent, SkipStep, TakeStep, Return, local
      <3> QED BY <3>1, <3>2
    <2>3. KeyLate'
      <3>1. CASE LoadKey(p)
        BY <1>0, <3>1 DEF IInv, KeyLate, TypeOK, ProcsOK, LoadKey, Goto
      <3>2. CASE RecordEvent(p)
        BY <3>2 DEF IInv, KeyLate, RecordEvent
      <3>3. CASE ~LoadKey(p) /\ ~RecordEvent(p)
        <4>1. /\ keyHeld' = keyHeld /\ pc[p] # "record"
              /\ pc' = pc \/ \E l : pc' = [pc EXCEPT ![p] = l]
          BY <1>8, <3>3 DEF StartRun, ContentHash, InputHash, Lookup, CacheHit,
               CacheMiss, Execute, Rehash, HashOutputs, StoreResult, PushResult,
               SkipStep, TakeStep, Return, Goto
        <4> QED BY <1>0, <4>1 DEF IInv, KeyLate, TypeOK, ProcsOK
      <3> QED BY <3>1, <3>2, <3>3
    <2> QED BY <1>1, <1>2, <1>4, <1>5, <2>1, <2>2, <2>3 DEF IInv
  <1>9. ASSUME UNCHANGED <<receipts, ledger, exit, run, keyHeld, pc>>
        PROVE  IInv'
    <2>1. KeyLate'
      BY <1>9 DEF IInv, KeyLate
    <2> QED BY <1>1, <1>2, <1>4, <1>5, <1>9, <2>1 DEF IInv
  <1>10. CASE UNCHANGED vars
    BY <1>9, <1>10 DEF vars, disk, local
  <1>11. CASE Next
    <2>1. ASSUME NEW f \in Files, NEW c \in Content \cup {Absent},
                 EditSource(f, c) \/ CleanOutput(f)
          PROVE  IInv'
      BY <1>9, <2>1 DEF EditSource, CleanOutput, local
    <2>2. ASSUME NEW p \in Procs, Publish(p)
          PROVE  IInv'
      BY <1>1, <1>2, <1>3, <2>2 DEF IInv
    <2> QED BY <1>7, <1>8, <1>11, <2>1, <2>2, NextCases
  <1> QED BY <1>10, <1>11

\* The inductive invariant holds in every reachable state, for every pipeline.
THEOREM InvariantHolds == Spec => []IInv
  BY IInvInit, IInvNext, PTL DEF Spec

\* No receipt, of any pipeline and under any interleaving of runs, crashes and
\* edits, records a step on a need that is not recorded as succeeded before it.
THEOREM FoundationHolds == Spec => []OnSolidFoundation
  <1>1. IInv => OnSolidFoundation
    BY DEF IInv
  <1> QED BY <1>1, InvariantHolds, PTL

\* The key is in no process that still has a step to run.
THEOREM SigningBoundaryHolds == Spec => []SigningBoundary
  <1>1. IInv => SigningBoundary
    BY DEF IInv, SigningBoundary, KeyLate, Bookkeeping, Book
  <1> QED BY <1>1, InvariantHolds, PTL

\* Exit code 0 always comes with a receipt in which every step succeeded.
THEOREM ExitZeroHolds == Spec => []ExitZeroMeansComplete
  <1>1. IInv => ExitZeroMeansComplete
    BY DEF IInv
  <1> QED BY <1>1, InvariantHolds, PTL

\* The causal chain of every receipt is complete and closed.
THEOREM CausalChainHolds == Spec => []CausalChainComplete
  <1>1. IInv => CausalChainComplete
    BY DEF IInv
  <1> QED BY <1>1, InvariantHolds, PTL

----------------------------------------------------------------------------
(* What a receipt says happened.  The double hashing of executor.run finds *)
(* every change of an input that is still there when it hashes again; what *)
(* it cannot find is a change that was undone in between, and what another *)
(* run writes into the same workspace.  Quiet excludes the two.            *)

\* A command that ran is behind the result r.
Truthful(r) ==
  [step |-> r.name, read |-> r.input_hash, exit_code |-> r.exit_code,
   left |-> r.output_hash] \in executions

\* A result that may be put in a receipt, and one that may be replayed.
Sayable(r) == Truthful(r) /\ (r.cache_hit => r.exit_code = 0)
Replayable(r) == Truthful(r) /\ r.exit_code = 0

\* File f held v and has left it for good.
Moved(f, v) == ws[f] = Absent \/ (f \notin Produced /\ ws[f] > v)

\* From the first hash of the inputs to the second: an input is as it was
\* hashed, or it never will be again; and so is what the command reads of it.
InputsKept(p) ==
  /\ pc[p] \in {"lookup", "match", "exec"} /\ cur[p] \notin Capsules =>
       \A f \in Inputs[cur[p]] : ws[f] = inHash[p][f] \/ Moved(f, inHash[p][f])
  /\ pc[p] \in {"running", "rehash"} /\ cur[p] \notin Capsules =>
       /\ seen[p] \in [Inputs[cur[p]] -> Content \cup {Absent}]
       /\ \A f \in Inputs[cur[p]] : seen[p][f] = inHash[p][f] \/ Moved(f, inHash[p][f])
  /\ pc[p] \in {"running", "rehash"} /\ cur[p] \in Capsules => seen[p] = inHash[p]
  /\ pc[p] = "outputs" => seen[p] = inHash[p]

\* What the command left of an output is still there, or the output is gone.
OutputsKept(p) ==
  pc[p] \in {"rehash", "outputs"} =>
    \E left \in [Outputs[cur[p]] -> Content \cup {Absent}] :
      /\ [step |-> cur[p], read |-> seen[p], exit_code |-> status[p],
          left |-> left] \in executions
      /\ \A f \in Outputs[cur[p]] : ws[f] = left[f] \/ ws[f] = Absent

\* Every result a process holds, and every one on disk.
ResultsTrue(p) ==
  /\ pc[p] = "match" => \A r \in entry[p] : Replayable(r)
  /\ pc[p] = "store" => \A r \in result[p] : Replayable(r)
  /\ pc[p] = "push" => \A r \in result[p] : Sayable(r)
  /\ pc[p] # "idle" => \A i \in DOMAIN results[p] : Sayable(results[p][i])

DiskTrue ==
  /\ \A c \in cache : Replayable(c.result)
  /\ \A rc \in receipts : \A i \in DOMAIN rc.steps : Sayable(rc.steps[i])

TruthInv ==
  /\ DiskTrue
  /\ \A p \in Procs : InputsKept(p) /\ OutputsKept(p) /\ ResultsTrue(p)

\* With one process, a step of that process is all there is to look at.
LEMMA TruthOf ==
  ASSUME Quiet, NEW p \in Procs, DiskTrue',
         InputsKept(p)', OutputsKept(p)', ResultsTrue(p)'
  PROVE  TruthInv'
  BY DEF Quiet, TruthInv

\* Commands that ran stay in the history.
LEMMA TruthGrows ==
  ASSUME executions \subseteq executions'
  PROVE  \A r : /\ Truthful(r) => Truthful(r)'
                /\ Sayable(r) => Sayable(r)'
                /\ Replayable(r) => Replayable(r)'
  BY DEF Truthful, Sayable, Replayable

\* A step that writes neither the cache nor a receipt.
LEMMA DiskTrueSame ==
  ASSUME TruthInv, executions \subseteq executions',
         cache' = cache, receipts' = receipts
  PROVE  DiskTrue'
  BY TruthGrows DEF TruthInv, DiskTrue

\* A step to or from a point between two steps of the pipeline.
LEMMA TruthBetween ==
  ASSUME Quiet, TruthInv, NEW p \in Procs,
         UNCHANGED <<cache, receipts, executions>>,
         pc'[p] \in {"idle", "next", "key", "hash", "record"},
         pc'[p] # "idle" =>
           results'[p] = <<>> \/ (pc[p] # "idle" /\ results'[p] = results[p])
  PROVE  TruthInv'
  <1>1. DiskTrue'
    BY DiskTrueSame
  <1>2. InputsKept(p)' /\ OutputsKept(p)'
    BY DEF InputsKept, OutputsKept
  <1>3. \A r : Sayable(r) => Sayable(r)'
    BY TruthGrows
  <1>4. ResultsTrue(p)'
    BY <1>3 DEF ResultsTrue, TruthInv
  <1> QED BY <1>1, <1>2, <1>4, TruthOf

\* Hashing the inputs: the hash is of what is there.
LEMMA InputHashTrue ==
  ASSUME TypeOK, Quiet, TruthInv, NEW p \in Procs, InputHash(p)
  PROVE  TruthInv'
  <1>1. /\ UNCHANGED <<ws, cache, receipts, executions, cur, results>>
        /\ pc[p] = "hash" /\ pc'[p] = "lookup"
        /\ inHash'[p] = Manifest(Inputs[cur[p]])
    BY DEF TypeOK, ProcsOK, InputHash, Goto, disk
  <1>2. DiskTrue' /\ OutputsKept(p)'
    BY <1>1, DiskTrueSame DEF OutputsKept
  <1>3. InputsKept(p)'
    BY <1>1 DEF InputsKept, Manifest
  <1>4. \A r : Sayable(r) => Sayable(r)'
    BY <1>1, TruthGrows
  <1>5. ResultsTrue(p)'
    BY <1>1, <1>4 DEF ResultsTrue, TruthInv
  <1> QED BY <1>2, <1>3, <1>5, TruthOf

\* Between the two hashes nothing a process does by itself touches its inputs:
\* the lookup, the miss.
LEMMA LookupTrue ==
  ASSUME TypeOK, Quiet, TruthInv, NEW p \in Procs, Lookup(p)
  PROVE  TruthInv'
  <1>1. /\ UNCHANGED <<ws, cache, receipts, executions, cur, inHash, results>>
        /\ pc[p] = "lookup" /\ pc'[p] = "match"
        /\ \A r \in entry'[p] : \E c \in cache : r = c.result
    BY DEF TypeOK, ProcsOK, Lookup, Goto, disk
  <1>2. DiskTrue' /\ OutputsKept(p)'
    BY <1>1, DiskTrueSame DEF OutputsKept
  <1>3. InputsKept(p)'
    BY <1>1 DEF InputsKept, TruthInv, Moved
  <1>4. \A r : (Sayable(r) => Sayable(r)') /\ (Replayable(r) => Replayable(r)')
    BY <1>1, TruthGrows
  <1>5. ResultsTrue(p)'
    <2>1. \A r \in entry'[p] : Replayable(r)
      BY <1>1 DEF TruthInv, DiskTrue
    <2> QED BY <1>1, <1>4, <2>1 DEF ResultsTrue, TruthInv
  <1> QED BY <1>2, <1>3, <1>5, TruthOf

\* A miss.
LEMMA CacheMissTrue ==
  ASSUME TypeOK, Quiet, TruthInv, NEW p \in Procs, CacheMiss(p)
  PROVE  TruthInv'
  <1>1. /\ UNCHANGED <<ws, cache, receipts, executions, cur, inHash, results>>
        /\ pc[p] = "match" /\ pc'[p] = "exec"
    BY DEF TypeOK, ProcsOK, CacheMiss, Goto, disk, step
  <1>2. DiskTrue' /\ OutputsKept(p)'
    BY <1>1, DiskTrueSame DEF OutputsKept
  <1>3. InputsKept(p)'
    BY <1>1 DEF InputsKept, TruthInv, Moved
  <1>4. \A r : Sayable(r) => Sayable(r)'
    BY <1>1, TruthGrows
  <1>5. ResultsTrue(p)'
    BY <1>1, <1>4 DEF ResultsTrue, TruthInv
  <1> QED BY <1>2, <1>3, <1>5, TruthOf

\* A hit replays a result of a command that ran and succeeded.
LEMMA CacheHitTrue ==
  ASSUME TypeOK, Quiet, TruthInv, NEW p \in Procs, CacheHit(p)
  PROVE  TruthInv'
  <1>1. /\ UNCHANGED <<cache, receipts, executions, results>>
        /\ pc[p] = "match" /\ pc'[p] = "push"
    BY DEF TypeOK, ProcsOK, CacheHit, Goto, disk
  <1>2. PICK r \in entry[p] : result'[p] = {[r EXCEPT !.cache_hit = TRUE]}
    BY DEF CacheHit, TypeOK
  <1>3. DiskTrue' /\ OutputsKept(p)' /\ InputsKept(p)'
    BY <1>1, DiskTrueSame DEF OutputsKept, InputsKept
  <1>4. \A x : Sayable(x) => Sayable(x)'
    BY <1>1, TruthGrows
  <1> DEFINE h == [r EXCEPT !.cache_hit = TRUE]
  <1>5. r \in ResultOf(cur[p]) /\ Replayable(r)
    BY <1>1 DEF TypeOK, ScopeOK, TruthInv, ResultsTrue
  <1>6. /\ h.name = r.name /\ h.input_hash = r.input_hash
        /\ h.exit_code = r.exit_code /\ h.output_hash = r.output_hash
    BY <1>5 DEF ResultOf
  <1> HIDE DEF h
  <1>7. Sayable(h)
    BY <1>5, <1>6 DEF Sayable, Replayable, Truthful
  <1>8. result'[p] = {h}
    BY <1>2 DEF h
  <1>9. ResultsTrue(p)'
    BY <1>1, <1>4, <1>7, <1>8 DEF ResultsTrue, TruthInv
  <1> QED BY <1>3, <1>9, TruthOf

\* The command starts: what it reads is what was hashed, or a later hash will
\* differ.
LEMMA ExecuteTrue ==
  ASSUME TypeOK, Quiet, TruthInv, NEW p \in Procs, Execute(p)
  PROVE  TruthInv'
  <1>1. /\ UNCHANGED <<ws, cache, receipts, executions, cur, inHash, results>>
        /\ pc[p] = "exec" /\ pc'[p] = "running"
        /\ seen'[p] = Manifest(Inputs[cur[p]])
        /\ cur[p] \in Capsules => Manifest(Inputs[cur[p]]) = inHash[p]
    BY DEF TypeOK, ProcsOK, Execute, Goto, disk
  <1>2. DiskTrue' /\ OutputsKept(p)'
    BY <1>1, DiskTrueSame DEF OutputsKept
  <1>3. seen'[p] \in [Inputs[cur[p]] -> Content \cup {Absent}]
    <2>1. cur[p] \in Steps
      BY <1>1 DEF TypeOK, ScopeOK
    <2> QED BY <1>1, <2>1, PipelineAssumption DEF Manifest, TypeOK, DiskOK
  <1>4. cur[p] \notin Capsules => \A f \in Inputs[cur[p]] :
          seen'[p][f] = inHash[p][f] \/ Moved(f, inHash[p][f])
    BY <1>1 DEF InputsKept, TruthInv, Manifest
  <1>5. InputsKept(p)'
    BY <1>1, <1>3, <1>4 DEF InputsKept, Moved
  <1>6. \A r : Sayable(r) => Sayable(r)'
    BY <1>1, TruthGrows
  <1>7. ResultsTrue(p)'
    BY <1>1, <1>6 DEF ResultsTrue, TruthInv
  <1> QED BY <1>2, <1>5, <1>7, TruthOf

\* The command returns: it wrote outputs, none of which is an input of a step
\* outside a capsule, and what it read and left is history.
LEMMA ReturnTrue ==
  ASSUME TypeOK, Quiet, TruthInv, NEW p \in Procs, NEW code \in {0, 1},
         NEW W \in SUBSET Files, Return(p, code, W)
  PROVE  TruthInv'
  <1> DEFINE left == [f \in Outputs[cur[p]] |-> ws'[f]]
             e == [step |-> cur[p], read |-> seen[p], exit_code |-> code, left |-> left]
  <1>1. /\ UNCHANGED <<cache, receipts, cur, inHash, seen, results>>
        /\ pc[p] = "running" /\ pc'[p] = "rehash"
        /\ W \subseteq Outputs[cur[p]]
        /\ status'[p] = code
        /\ executions' = executions \cup {e}
        /\ \A f \in Files \ W : ws'[f] = ws[f]
    BY DEF TypeOK, ProcsOK, Return, Goto
  <1>2. cur[p] \in Steps /\ Inputs[cur[p]] \subseteq Files /\ Outputs[cur[p]] \subseteq Files
    BY <1>1, PipelineAssumption DEF TypeOK, ScopeOK
  <1>3. TypeOK'
    BY ReturnType
  <1>4. DiskTrue'
    BY <1>1, DiskTrueSame
  <1>5. InputsKept(p)'
    <2>1. CASE cur[p] \in Capsules
      BY <1>1, <2>1 DEF InputsKept, TruthInv
    <2>2. CASE cur[p] \notin Capsules
      <3>1. \A f \in Inputs[cur[p]] : ws'[f] = ws[f]
        BY <1>1, <1>2, <2>2 DEF Quiet
      <3> QED BY <1>1, <2>2, <3>1 DEF InputsKept, TruthInv, Moved
    <2> QED BY <2>1, <2>2
  <1>6. left \in [Outputs[cur[p]] -> Content \cup {Absent}]
    BY <1>2, <1>3 DEF TypeOK, DiskOK
  <1>7. \A f \in Outputs[cur[p]] : ws'[f] = left[f]
    OBVIOUS
  <1>8. OutputsKept(p)'
    <2> HIDE DEF left
    <2>1. e \in executions'
      BY <1>1
    <2> QED BY <1>1, <1>6, <1>7, <2>1 DEF OutputsKept
  <1>9. \A r : Sayable(r) => Sayable(r)'
    BY <1>1, TruthGrows
  <1>10. ResultsTrue(p)'
    BY <1>1, <1>9 DEF ResultsTrue, TruthInv
  <1> QED BY <1>4, <1>5, <1>8, <1>10, TruthOf

\* The second hash: inputs that are as they were hashed at first were read so.
LEMMA RehashTrue ==
  ASSUME TypeOK, Quiet, TruthInv, NEW p \in Procs, Rehash(p)
  PROVE  TruthInv'
  <1>1. /\ UNCHANGED <<ws, cache, receipts, executions, cur, inHash, seen, status, results>>
        /\ pc[p] = "rehash" /\ pc'[p] = "outputs"
        /\ \A f \in Inputs[cur[p]] : ws[f] # Absent
        /\ Manifest(Inputs[cur[p]]) = inHash[p]
    BY DEF TypeOK, ProcsOK, Rehash, Goto, disk, step, Missing
  <1>2. DiskTrue'
    BY <1>1, DiskTrueSame
  <1>3. OutputsKept(p)'
    <2>1. OutputsKept(p)
      BY DEF TruthInv
    <2> QED BY <1>1, <2>1 DEF OutputsKept
  <1>4. seen[p] = inHash[p]
    <2>1. CASE cur[p] \in Capsules
      BY <1>1, <2>1 DEF InputsKept, TruthInv
    <2>2. CASE cur[p] \notin Capsules
      <3>1. /\ cur[p] \in Steps /\ Inputs[cur[p]] \subseteq Files
            /\ inHash[p] \in [Inputs[cur[p]] -> Content]
        BY <1>1, PipelineAssumption DEF TypeOK, ScopeOK
      <3>2. /\ seen[p] \in [Inputs[cur[p]] -> Content \cup {Absent}]
            /\ \A f \in Inputs[cur[p]] :
                 seen[p][f] = inHash[p][f] \/ Moved(f, inHash[p][f])
        BY <1>1, <2>2 DEF InputsKept, TruthInv
      <3>3. ASSUME NEW f \in Inputs[cur[p]] PROVE seen[p][f] = inHash[p][f]
        <4>1. ws[f] = inHash[p][f] /\ ws[f] # Absent
          BY <1>1 DEF Manifest
        <4>2. inHash[p][f] \in Int
          BY <3>1, PipelineAssumption
        <4>3. ~Moved(f, inHash[p][f])
          BY <4>1, <4>2 DEF Moved
        <4> QED BY <3>2, <4>3
      <3> QED BY <3>1, <3>2, <3>3
    <2> QED BY <2>1, <2>2
  <1>5. InputsKept(p)'
    BY <1>1, <1>4 DEF InputsKept
  <1>6. \A r : Sayable(r) => Sayable(r)'
    BY <1>1, TruthGrows
  <1>7. ResultsTrue(p)'
    BY <1>1, <1>6 DEF ResultsTrue, TruthInv
  <1> QED BY <1>2, <1>3, <1>5, <1>7, TruthOf

\* The outputs are hashed: each is there, so it is what the command left.
LEMMA HashOutputsTrue ==
  ASSUME TypeOK, Quiet, TruthInv, NEW p \in Procs, HashOutputs(p)
  PROVE  TruthInv'
  <1> DEFINE out == Manifest(Outputs[cur[p]])
             capsule == cur[p] \in Capsules
             r == [name |-> cur[p], input_hash |-> inHash[p], output_hash |-> out,
                   exit_code |-> status[p], capsule |-> capsule, cache_hit |-> FALSE]
  <1>1. /\ UNCHANGED <<cache, receipts, executions, results>>
        /\ pc[p] = "outputs" /\ pc'[p] \in {"store", "push"}
        /\ pc'[p] = "store" => status[p] = 0
        /\ \A f \in Outputs[cur[p]] : ws[f] # Absent
        /\ result'[p] = {r}
    BY DEF TypeOK, ProcsOK, HashOutputs, Goto, disk, Missing
  <1>2. DiskTrue' /\ InputsKept(p)' /\ OutputsKept(p)'
    BY <1>1, DiskTrueSame DEF InputsKept, OutputsKept
  <1>3. seen[p] = inHash[p]
    BY <1>1 DEF InputsKept, TruthInv
  <1>4. PICK left \in [Outputs[cur[p]] -> Content \cup {Absent}] :
          /\ [step |-> cur[p], read |-> seen[p], exit_code |-> status[p],
              left |-> left] \in executions
          /\ \A f \in Outputs[cur[p]] : ws[f] = left[f] \/ ws[f] = Absent
    BY <1>1 DEF OutputsKept, TruthInv
  <1>5. out = left
    BY <1>1, <1>4 DEF Manifest
  <1> HIDE DEF out, capsule
  <1>6. /\ r.name = cur[p] /\ r.input_hash = inHash[p] /\ r.output_hash = out
        /\ r.exit_code = status[p] /\ r.cache_hit = FALSE
    OBVIOUS
  <1> HIDE DEF r
  <1>7. Sayable(r) /\ (status[p] = 0 => Replayable(r))
    BY <1>3, <1>4, <1>5, <1>6 DEF Sayable, Replayable, Truthful
  <1>8. \A x : (Sayable(x) => Sayable(x)') /\ (Replayable(x) => Replayable(x)')
    BY <1>1, TruthGrows
  <1>9. ResultsTrue(p)'
    BY <1>1, <1>7, <1>8 DEF ResultsTrue, TruthInv
  <1> QED BY <1>2, <1>9, TruthOf

\* Under whichever key it is filed, a cache entry holds a result that may be
\* replayed.
LEMMA StoreResultTrue ==
  ASSUME TypeOK, Quiet, TruthInv, NEW p \in Procs, StoreResult(p)
  PROVE  TruthInv'
  <1>1. /\ UNCHANGED <<receipts, executions, result, results>>
        /\ pc[p] = "store" /\ pc'[p] = "push"
        /\ \A c \in cache' : c \in cache \/ \E r \in result[p] : c.result = r
    BY DEF TypeOK, ProcsOK, StoreResult, Goto, step
  <1>2. \A x : (Sayable(x) => Sayable(x)') /\ (Replayable(x) => Replayable(x)')
    BY <1>1, TruthGrows
  <1>3. \A r \in result[p] : Replayable(r)
    BY <1>1 DEF ResultsTrue, TruthInv
  <1>4. \A c \in cache' : Replayable(c.result)
    BY <1>1, <1>3 DEF DiskTrue, TruthInv
  <1>5. DiskTrue'
    BY <1>1, <1>2, <1>4 DEF DiskTrue, TruthInv
  <1>6. InputsKept(p)' /\ OutputsKept(p)'
    BY <1>1 DEF InputsKept, OutputsKept
  <1>7. \A r \in result[p] : Sayable(r)
    BY <1>3 DEF Sayable, Replayable
  <1>8. ResultsTrue(p)'
    BY <1>1, <1>2, <1>7 DEF ResultsTrue, TruthInv
  <1> QED BY <1>5, <1>6, <1>8, TruthOf

\* The result joins step_results.
LEMMA PushResultTrue ==
  ASSUME TypeOK, Quiet, TruthInv, NEW p \in Procs, PushResult(p)
  PROVE  TruthInv'
  <1>1. /\ UNCHANGED <<cache, receipts, executions>>
        /\ pc[p] = "push" /\ pc'[p] = "next"
    BY DEF TypeOK, ProcsOK, PushResult, Goto, disk
  <1>2. PICK r \in result[p] : results'[p] = Append(results[p], r)
    BY DEF PushResult, TypeOK, ProcsOK
  <1>3. DiskTrue' /\ InputsKept(p)' /\ OutputsKept(p)'
    BY <1>1, DiskTrueSame DEF InputsKept, OutputsKept
  <1>4. \A x : Sayable(x) => Sayable(x)'
    BY <1>1, TruthGrows
  <1>5. Sayable(r) /\ \A i \in DOMAIN results[p] : Sayable(results[p][i])
    BY <1>1 DEF ResultsTrue, TruthInv
  <1>6. results[p] \in Seq(StepResult)
    BY DEF TypeOK, ProcsOK
  <1>7. \A i \in DOMAIN results'[p] :
          results'[p][i] = r \/ (i \in DOMAIN results[p] /\ results'[p][i] = results[p][i])
    BY <1>2, <1>6
  <1>8. \A i \in DOMAIN results'[p] : Sayable(results'[p][i])
    BY <1>5, <1>7
  <1>9. ResultsTrue(p)'
    BY <1>1, <1>4, <1>8 DEF ResultsTrue
  <1> QED BY <1>3, <1>9, TruthOf

\* The receipt says what step_results says.
LEMMA PublishTrue ==
  ASSUME TypeOK, Quiet, TruthInv, NEW p \in Procs, Publish(p)
  PROVE  TruthInv'
  <1>1. /\ UNCHANGED <<cache, executions>>
        /\ pc[p] = "record" /\ pc'[p] = "idle"
        /\ \A rc \in receipts' : rc \in receipts \/ rc.steps = results[p]
    BY DEF TypeOK, ProcsOK, Publish, End
  <1>2. \A x : (Sayable(x) => Sayable(x)') /\ (Replayable(x) => Replayable(x)')
    BY <1>1, TruthGrows
  <1>3. \A i \in DOMAIN results[p] : Sayable(results[p][i])
    BY <1>1 DEF ResultsTrue, TruthInv
  <1>4. DiskTrue'
    BY <1>1, <1>2, <1>3 DEF DiskTrue, TruthInv
  <1>5. InputsKept(p)' /\ OutputsKept(p)' /\ ResultsTrue(p)'
    BY <1>1 DEF InputsKept, OutputsKept, ResultsTrue
  <1> QED BY <1>4, <1>5, TruthOf

\* An edit of a source, or the removal of a product, takes a file away from
\* what was hashed for good: the contents of a file that may not be brought
\* back only go up.
LEMMA EditTrue ==
  ASSUME TypeOK, Quiet, TruthInv, NEW g \in Files, NEW c \in Content \cup {Absent},
         EditSource(g, c) \/ CleanOutput(g)
  PROVE  TruthInv'
  <1>1. /\ UNCHANGED <<cache, receipts, executions, pc, cur, inHash, seen, entry,
                       status, result, results>>
        /\ \A f \in Files \ {g} : ws'[f] = ws[f]
        /\ g \in Produced => ws'[g] = Absent
        /\ g \notin Produced =>
             \/ g \in Restorable
             \/ /\ ws[g] # Absent
                /\ ws'[g] = Absent \/ (ws'[g] \in Content /\ ws'[g] > ws[g])
    BY DEF TypeOK, DiskOK, EditSource, CleanOutput, step
  <1>2. DiskTrue'
    BY <1>1, DiskTrueSame
  <1>3. \A x : (Sayable(x) => Sayable(x)') /\ (Replayable(x) => Replayable(x)')
    BY <1>1, TruthGrows
  <1> SUFFICES ASSUME NEW p \in Procs
               PROVE  InputsKept(p)' /\ OutputsKept(p)' /\ ResultsTrue(p)'
    BY <1>2 DEF TruthInv
  <1>4. ResultsTrue(p)'
    BY <1>1, <1>3 DEF ResultsTrue, TruthInv
  <1>5. OutputsKept(p)'
    <2> SUFFICES ASSUME pc[p] \in {"rehash", "outputs"} PROVE OutputsKept(p)'
      BY <1>1 DEF OutputsKept
    <2>1. PICK left \in [Outputs[cur[p]] -> Content \cup {Absent}] :
            /\ [step |-> cur[p], read |-> seen[p], exit_code |-> status[p],
                left |-> left] \in executions
            /\ \A f \in Outputs[cur[p]] : ws[f] = left[f] \/ ws[f] = Absent
      BY DEF OutputsKept, TruthInv
    <2>2. cur[p] \in Steps /\ Outputs[cur[p]] \subseteq Files /\ Outputs[cur[p]] \subseteq Produced
      BY PipelineAssumption DEF TypeOK, ScopeOK, Produced
    <2>3. \A f \in Outputs[cur[p]] : ws'[f] = left[f] \/ ws'[f] = Absent
      BY <1>1, <2>1, <2>2
    <2> QED BY <1>1, <2>1, <2>3 DEF OutputsKept
  <1>6. InputsKept(p)'
    <2>1. ASSUME pc[p] \in {"lookup", "match", "exec", "running", "rehash"},
                 cur[p] \notin Capsules, NEW f \in Inputs[cur[p]]
          PROVE  /\ ws[f] = inHash[p][f] => ws'[f] = inHash[p][f] \/ Moved(f, inHash[p][f])'
                 /\ Moved(f, inHash[p][f]) => Moved(f, inHash[p][f])'
      <3>1. /\ cur[p] \in Steps /\ Inputs[cur[p]] \subseteq Files
            /\ inHash[p] \in [Inputs[cur[p]] -> Content]
        BY <2>1, PipelineAssumption DEF TypeOK, ScopeOK
      <3>2. inHash[p][f] \in Content /\ inHash[p][f] \in Int /\ f \in Files
        BY <2>1, <3>1, PipelineAssumption
      <3>3. f \notin Restorable
        BY <2>1, <3>1 DEF Quiet
      <3>4. CASE f # g
        BY <1>1, <3>2, <3>4 DEF Moved, Produced
      <3>5. CASE f = g
        <4>1. ws[f] \in Content \cup {Absent} /\ ws'[f] \in Content \cup {Absent}
          BY <3>2, EditType DEF TypeOK, DiskOK
        <4>2. CASE f \in Produced
          BY <1>1, <3>5, <4>2 DEF Moved
        <4>3. CASE f \notin Produced
          <5>1. ws[f] \in Int /\ (ws'[f] = Absent \/ (ws'[f] \in Int /\ ws'[f] > ws[f]))
            BY <1>1, <3>3, <3>5, <4>1, <4>3, PipelineAssumption
          <5>2. Absent \notin Content
            BY PipelineAssumption
          <5>3. CASE ws'[f] = Absent
            BY <5>3 DEF Moved
          <5>4. CASE ws'[f] \in Int /\ ws'[f] > ws[f]
            <6>1. ws[f] = inHash[p][f] \/ Moved(f, inHash[p][f]) => ws'[f] > inHash[p][f]
              BY <1>1, <3>2, <3>3, <3>5, <4>3, <5>1, <5>4 DEF Moved
            <6>2. f \notin Produced'
              BY <4>3 DEF Produced
            <6> QED BY <1>1, <6>1, <6>2 DEF Moved
          <5> QED BY <5>1, <5>3, <5>4
        <4> QED BY <4>2, <4>3
      <3> QED BY <3>4, <3>5
    <2>2. InputsKept(p)
      BY DEF TruthInv
    <2> QED BY <1>1, <2>1, <2>2 DEF InputsKept
  <1> QED BY <1>4, <1>5, <1>6

\* Every step keeps what receipts, cache and processes hold true.
LEMMA TruthNext == TypeOK /\ Quiet /\ TruthInv /\ [Next]_vars => TruthInv'
  <1> SUFFICES ASSUME TypeOK, Quiet, TruthInv, [Next]_vars PROVE TruthInv'
    OBVIOUS
  <1>1. CASE UNCHANGED vars
    <2>1. UNCHANGED <<ws, cache, receipts, executions, pc, cur, inHash, seen, entry,
                      status, result, results>>
      BY <1>1 DEF vars, disk, local, step
    <2>2. DiskTrue'
      BY <2>1, DiskTrueSame
    <2>3. \A x : (Sayable(x) => Sayable(x)') /\ (Replayable(x) => Replayable(x)')
      BY <2>1, TruthGrows
    <2>4. \A p \in Procs : ResultsTrue(p)'
      BY <2>1, <2>3 DEF ResultsTrue, TruthInv
    <2>5. \A p \in Procs : InputsKept(p)'
      BY <2>1 DEF InputsKept, TruthInv, Moved
    <2>6. \A p \in Procs : OutputsKept(p)'
      BY <2>1 DEF OutputsKept, TruthInv
    <2> QED BY <2>2, <2>4, <2>5, <2>6 DEF TruthInv
  <1>2. CASE Next
    <2>1. ASSUME NEW p \in Procs, EndsWithout(p) PROVE TruthInv'
      <3>1. UNCHANGED <<cache, receipts, executions>> /\ pc'[p] = "idle"
        BY <2>1 DEF EndsWithout, Fail, End, disk, TypeOK, ProcsOK
      <3> QED BY <3>1, TruthBetween
    <2>2. ASSUME NEW p \in Procs, StartRun(p) PROVE TruthInv'
      <3>1. UNCHANGED <<cache, receipts, executions>> /\ pc'[p] = "next" /\ results'[p] = <<>>
        BY <2>2 DEF StartRun, Goto, disk, TypeOK, ProcsOK
      <3> QED BY <3>1, TruthBetween
    <2>3. ASSUME NEW p \in Procs,
                 \/ ContentHash(p) \/ LoadKey(p) \/ RecordEvent(p)
                 \/ \E s \in Steps : SkipStep(p, s) \/ TakeStep(p, s)
          PROVE  TruthInv'
      <3>1. /\ UNCHANGED <<cache, receipts, executions, results>>
            /\ pc'[p] \in {"next", "key", "hash", "record"} /\ pc[p] # "idle"
        BY <2>3 DEF ContentHash, LoadKey, RecordEvent, SkipStep, TakeStep, Goto, disk,
             TypeOK, ProcsOK
      <3> QED BY <3>1, TruthBetween
    <2> QED BY <1>2, <2>1, <2>2, <2>3, NextCases, InputHashTrue, LookupTrue, CacheHitTrue,
         CacheMissTrue, ExecuteTrue, ReturnTrue, RehashTrue, HashOutputsTrue,
         StoreResultTrue, PushResultTrue, PublishTrue, EditTrue, Zenon
  <1> QED BY <1>1, <1>2

\* A receipt tells the truth, for every pipeline and any number of runs, edits,
\* crashes and cache hits, as long as the workspace is quiet: every result in
\* it is that of a command that ran, read the recorded inputs and left the
\* recorded outputs, and a replayed one is a success.
THEOREM TruthHolds == ASSUME Quiet PROVE Spec => []ReceiptTellsTheTruth
  <1>1. Init => TruthInv
    BY DEF Init, TruthInv, DiskTrue, InputsKept, OutputsKept, ResultsTrue
  <1>2. TypeOK /\ TruthInv /\ [Next]_vars => TruthInv'
    BY TruthNext
  <1>3. TruthInv => ReceiptTellsTheTruth
    BY DEF TruthInv, DiskTrue, Sayable, Truthful, ReceiptTellsTheTruth
  <1> QED BY <1>1, <1>2, <1>3, TypeCorrect, PTL DEF Spec

=============================================================================
