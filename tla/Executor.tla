------------------------------ MODULE Executor ------------------------------
(***************************************************************************)
(* `attest run`: src/executor/mod.rs (Executor::run) as it is driven by    *)
(* AttestCore::run_pipeline in src/core.rs.                                *)
(*                                                                         *)
(* A process takes the pipeline's steps in a topological order.  For each  *)
(* step it computes the cache key, hashes the declared inputs, consults    *)
(* the cache, and on a miss runs the command, hashes the inputs again,     *)
(* hashes the outputs and stores the result.  When no step is left it      *)
(* loads the signing key, writes one ledger event per result, signs the    *)
(* receipt and publishes it.  The workspace, the cache, the ledger and the *)
(* receipts directory are files: nothing locks them, so every read of one  *)
(* is a step of its own, and an editor (or another `attest run`) may come  *)
(* between any two.                                                        *)
(*                                                                         *)
(* A hash is modelled by what it commits to: the manifest of a set of      *)
(* paths is the function from those paths to their contents.               *)
(***************************************************************************)
EXTENDS Integers, Sequences, FiniteSets

CONSTANTS
  Procs,        \* concurrent `attest run` processes over one workspace
  Steps,        \* the step names of the pipeline
  Needs,        \* Step.needs
  Inputs,       \* Step.inputs: declared input files of each step
  Outputs,      \* Step.outputs
  Cached,       \* the steps with `cache: true`
  Capsules,     \* the steps with a `capsule:`
  Files,        \* the files of the workspace
  Content,      \* what a file may hold
  Absent,       \* stands for a file that is not there
  None,         \* a local that is not set yet
  Build(_, _),  \* Build(s, v): what the command of s writes having read v
  Modes,        \* the flags of the runs: {"plain", "sign", "stamp"}
  Restorable,   \* the files the editor may bring an earlier content back to
  MaxRuns,      \* bound: runs started
  MaxEdits      \* bound: edits of the workspace

ASSUME PipelineAssumption ==
  /\ Absent \notin Content
  /\ \A s \in Steps : \A v \in [Inputs[s] -> Content \cup {Absent}] :
       Build(s, v) \in Content
  /\ Content \subseteq Int
  /\ Needs \in [Steps -> SUBSET Steps]
  /\ Inputs \in [Steps -> SUBSET Files]
  /\ Outputs \in [Steps -> SUBSET Files]
  /\ Cached \subseteq Steps
  /\ Capsules \subseteq Steps
  /\ Modes \subseteq {"plain", "sign", "stamp"}
  /\ Restorable \subseteq Files
  /\ MaxRuns \in Nat
  /\ MaxEdits \in Nat

VARIABLES
  ws,           \* the workspace: content of every file
  cache,        \* .attest/cache: set of entries [step, inputs, result]
  ledger,       \* .attest/causal_ledger/events: set of events
  receipts,     \* .attest/receipts: set of published receipts
  pc,           \* where each process stands in Executor::run
  mode,         \* the flags the process was started with
  run,          \* a number for the run the process is in (an invocation id)
  todo,         \* steps of execution_order the loop has not reached
  cur,          \* step_name of the current iteration
  completed,    \* completed_steps
  unsuccessful, \* unsuccessful_steps
  key,          \* content_hash: the inputs part of the cache key
  inHash,       \* input_hash: the hash taken before the step runs
  seen,         \* what the command of the current step reads
  entry,        \* cached_entry while it is examined: a set of at most one result
  status,       \* execution_result.exit_code of the command that ran
  result,       \* step_result of the current iteration: a set of at most one
  results,      \* step_results, in execution order
  held,         \* inputs_held: executed and in_capsule
  keyHeld,      \* whether the signing key is in this process
  events,       \* ids of the ledger events this run wrote, in order
  exit,         \* exit code of the last run: 0, 1, 2, or -1 (none, killed)
  executions,   \* history: what each command that ran read and left behind
  runs,         \* number of runs started so far
  edits         \* number of edits so far

disk  == <<ws, cache, ledger, receipts>>
local == <<mode, run, todo, completed, unsuccessful, held>>
step  == <<cur, key, inHash, seen, entry, status, result>>
vars  == <<disk, pc, local, step, results, keyHeld, events, exit,
           executions, runs, edits>>

----------------------------------------------------------------------------
(* Manifests (src/hashing.rs).                                             *)

\* A declared path that does not exist is an error, never a silent skip.
Missing(F) == \E f \in F : ws[f] = Absent

\* What hash_inputs / hash_outputs of a set of declared paths commit to.
Manifest(F) == [f \in F |-> ws[f]]

\* What may be recorded of step s: the hashes commit to files that exist.
ResultOf(s) ==
  [name : {s}, input_hash : [Inputs[s] -> Content],
   output_hash : [Outputs[s] -> Content], exit_code : {0, 1},
   capsule : BOOLEAN, cache_hit : BOOLEAN]

StepResult == UNION {ResultOf(s) : s \in Steps}

----------------------------------------------------------------------------
(* Control of one process.                                                 *)

Goto(p, from, to) ==
  /\ pc[p] = from
  /\ pc' = [pc EXCEPT ![p] = to]

\* The process ends: Err or an early `return Ok(code)` in run_pipeline.  Its
\* memory, the key included, is gone.
End(p, code) ==
  /\ pc' = [pc EXCEPT ![p] = "idle"]
  /\ exit' = [exit EXCEPT ![p] = code]
  /\ keyHeld' = [keyHeld EXCEPT ![p] = FALSE]

Fail(p, code) ==
  /\ End(p, code)
  /\ UNCHANGED <<disk, local, step, results, events, executions, runs, edits>>

\* Fault: the key is loaded when the run starts.
StartRunWithKey(p) ==
  /\ Goto(p, "idle", "next")
  /\ runs < MaxRuns
  /\ runs' = runs + 1
  /\ run' = [run EXCEPT ![p] = runs + 1]
  /\ \E m \in Modes : /\ mode' = [mode EXCEPT ![p] = m]
                      /\ keyHeld' = [keyHeld EXCEPT ![p] = m # "plain"]
  /\ todo' = [todo EXCEPT ![p] = Steps]
  /\ completed' = [completed EXCEPT ![p] = {}]
  /\ unsuccessful' = [unsuccessful EXCEPT ![p] = {}]
  /\ held' = [held EXCEPT ![p] = [executed |-> 0, in_capsule |-> 0]]
  /\ results' = [results EXCEPT ![p] = <<>>]
  /\ events' = [events EXCEPT ![p] = <<>>]
  /\ exit' = [exit EXCEPT ![p] = -1]
  /\ UNCHANGED <<disk, step, executions, edits>>

\* Pipeline::load, ExecutionDAG::build and topological_sort succeeded (they
\* are modelled in ExecutionDAG): every step is still to be reached.
StartRun(p) ==
  /\ Goto(p, "idle", "next")
  /\ runs < MaxRuns
  /\ runs' = runs + 1
  /\ run' = [run EXCEPT ![p] = runs + 1]
  /\ \E m \in Modes : mode' = [mode EXCEPT ![p] = m]
  /\ todo' = [todo EXCEPT ![p] = Steps]
  /\ completed' = [completed EXCEPT ![p] = {}]
  /\ unsuccessful' = [unsuccessful EXCEPT ![p] = {}]
  /\ held' = [held EXCEPT ![p] = [executed |-> 0, in_capsule |-> 0]]
  /\ results' = [results EXCEPT ![p] = <<>>]
  /\ events' = [events EXCEPT ![p] = <<>>]
  /\ exit' = [exit EXCEPT ![p] = -1]
  /\ UNCHANGED <<disk, step, keyHeld, executions, edits>>

\* The steps topological_sort may put next: those none of whose needs is
\* still to come.  HashMap iteration order decides between them.
Sortable(p) == {s \in todo[p] : Needs[s] \cap todo[p] = {}}

\* Fault: a skipped step is not counted as unsuccessful.
SkipStepQuietly(p, s) ==
  /\ pc[p] = "next"
  /\ s \in Sortable(p)
  /\ Needs[s] \cap unsuccessful[p] # {}
  /\ completed' = [completed EXCEPT ![p] = @ \cup {s}]
  /\ todo' = [todo EXCEPT ![p] = @ \ {s}]
  /\ UNCHANGED <<disk, pc, mode, run, unsuccessful, held, step, results, keyHeld,
                 events, exit, executions, runs, edits>>

\* A step one of whose needs did not succeed is left out of the receipt, and
\* its own dependents are skipped in turn.
SkipStep(p, s) ==
  /\ pc[p] = "next"
  /\ s \in Sortable(p)
  /\ Needs[s] \cap unsuccessful[p] # {}
  /\ unsuccessful' = [unsuccessful EXCEPT ![p] = @ \cup {s}]
  /\ completed' = [completed EXCEPT ![p] = @ \cup {s}]
  /\ todo' = [todo EXCEPT ![p] = @ \ {s}]
  /\ UNCHANGED <<disk, pc, mode, run, held, step, results, keyHeld, events,
                 exit, executions, runs, edits>>

\* The loop turns to step s and, in a poll of 10 ms, waits until each of its
\* needs is in completed_steps.
TakeStep(p, s) ==
  /\ Goto(p, "next", "key")
  /\ s \in Sortable(p)
  /\ Needs[s] \cap unsuccessful[p] = {}
  /\ Needs[s] \subseteq completed[p]
  /\ cur' = [cur EXCEPT ![p] = s]
  /\ todo' = [todo EXCEPT ![p] = @ \ {s}]
  /\ UNCHANGED <<disk, mode, run, completed, unsuccessful, held, key, inHash,
                 seen, entry, status, result, results, keyHeld, events, exit,
                 executions, runs, edits>>

----------------------------------------------------------------------------
(* One iteration of the loop.                                              *)

\* compute_content_hash: the cache key, from the inputs as they are now.
ContentHash(p) ==
  /\ Goto(p, "key", "hash")
  /\ ~Missing(Inputs[cur[p]])
  /\ key' = [key EXCEPT ![p] = Manifest(Inputs[cur[p]])]
  /\ UNCHANGED <<disk, local, cur, inHash, seen, entry, status, result, results,
                 keyHeld, events, exit, executions, runs, edits>>

\* compute_input_hash, before anything runs: a second reading of the inputs.
InputHash(p) ==
  /\ Goto(p, "hash", "lookup")
  /\ ~Missing(Inputs[cur[p]])
  /\ inHash' = [inHash EXCEPT ![p] = Manifest(Inputs[cur[p]])]
  /\ UNCHANGED <<disk, local, cur, key, seen, entry, status, result, results,
                 keyHeld, events, exit, executions, runs, edits>>

\* A missing input is reported as exit code 1 and no receipt is written.
InputMissing(p) ==
  /\ pc[p] \in {"key", "hash", "rehash"}
  /\ Missing(Inputs[cur[p]])
  /\ Fail(p, 1)

\* get_cached_entry under the key computed above; `cache: false` steps do
\* not consult the cache.
Lookup(p) ==
  /\ Goto(p, "lookup", "match")
  /\ entry' = [entry EXCEPT ![p] =
       {e.result : e \in {c \in cache : /\ cur[p] \in Cached
                                        /\ c.step = cur[p]
                                        /\ c.inputs = key[p]}}]
  /\ UNCHANGED <<disk, local, cur, key, inHash, seen, status, result, results,
                 keyHeld, events, exit, executions, runs, edits>>

\* outputs_still_match: an entry whose outputs are not on disk is a miss.
StillMatches(p, r) ==
  /\ ~Missing(Outputs[cur[p]])
  /\ Manifest(Outputs[cur[p]]) = r.output_hash

\* A hit replays the stored result as it is, with the input hash it carries.
CacheHit(p) ==
  /\ Goto(p, "match", "push")
  /\ \E r \in entry[p] :
       /\ StillMatches(p, r)
       /\ result' = [result EXCEPT ![p] = {[r EXCEPT !.cache_hit = TRUE]}]
  /\ UNCHANGED <<disk, local, cur, key, inHash, seen, entry, status, results,
                 keyHeld, events, exit, executions, runs, edits>>

\* A miss: InputGuard::hold, and the counters behind the receipt's `inputs`
\* row.
CacheMiss(p) ==
  /\ Goto(p, "match", "exec")
  /\ \A r \in entry[p] : ~StillMatches(p, r)
  /\ held' = [held EXCEPT ![p] =
       [executed |-> @.executed + 1,
        in_capsule |-> IF cur[p] \in Capsules THEN @.in_capsule + 1
                                              ELSE @.in_capsule]]
  /\ UNCHANGED <<disk, mode, run, todo, completed, unsuccessful, step, results,
                 keyHeld, events, exit, executions, runs, edits>>

\* Fault: the snapshot is not compared with input_hash.
ExecuteUnchecked(p) ==
  /\ Goto(p, "exec", "running")
  /\ seen' = [seen EXCEPT ![p] = Manifest(Inputs[cur[p]])]
  /\ UNCHANGED <<disk, local, cur, key, inHash, entry, status, result, results,
                 keyHeld, events, exit, executions, runs, edits>>

\* The command starts.  Outside a capsule it reads the workspace; inside one
\* it reads a snapshot, which must hash to input_hash.
Execute(p) ==
  /\ Goto(p, "exec", "running")
  /\ cur[p] \in Capsules => Manifest(Inputs[cur[p]]) = inHash[p]
  /\ seen' = [seen EXCEPT ![p] = Manifest(Inputs[cur[p]])]
  /\ UNCHANGED <<disk, local, cur, key, inHash, entry, status, result, results,
                 keyHeld, events, exit, executions, runs, edits>>

\* InputSnapshot::take refuses: the inputs changed, or one is gone.
SnapshotRefused(p) ==
  /\ pc[p] = "exec"
  /\ cur[p] \in Capsules
  /\ Manifest(Inputs[cur[p]]) # inHash[p]
  /\ Fail(p, 2)

\* The command ends with some exit code having written some of its outputs,
\* and the guard is dropped.  What it read and what it leaves is history.  (A
\* command that rewrites its own inputs is, for the hash that follows, the
\* same as an editor that does so while it runs: EditSource.)
Return(p, code, written) ==
  LET s == cur[p] IN
  /\ Goto(p, "running", "rehash")
  /\ written \subseteq Outputs[s]
  /\ ws' = [f \in Files |-> IF f \in written THEN Build(s, seen[p]) ELSE ws[f]]
  /\ status' = [status EXCEPT ![p] = code]
  /\ executions' = executions \cup
       {[step |-> s, read |-> seen[p], exit_code |-> code,
         left |-> [f \in Outputs[s] |-> ws'[f]]]}
  /\ UNCHANGED <<cache, ledger, receipts, local, cur, key, inHash, seen, entry,
                 result, results, keyHeld, events, exit, runs, edits>>

\* Fault: the second hash of the inputs is not compared with the first.
RehashUnchecked(p) ==
  /\ Goto(p, "rehash", "outputs")
  /\ UNCHANGED <<disk, local, step, results, keyHeld, events, exit,
                 executions, runs, edits>>

\* The inputs are hashed again after the step.
Rehash(p) ==
  /\ Goto(p, "rehash", "outputs")
  /\ ~Missing(Inputs[cur[p]])
  /\ Manifest(Inputs[cur[p]]) = inHash[p]
  /\ UNCHANGED <<disk, local, step, results, keyHeld, events, exit,
                 executions, runs, edits>>

\* "modified its own declared inputs while running": no receipt.
InputsChanged(p) ==
  /\ pc[p] = "rehash"
  /\ ~Missing(Inputs[cur[p]])
  /\ Manifest(Inputs[cur[p]]) # inHash[p]
  /\ Fail(p, 2)

\* outputs_with_artifacts; only successful results of cacheable steps go on
\* to create_cache_entry.
HashOutputs(p) ==
  /\ Goto(p, "outputs",
          IF cur[p] \in Cached /\ status[p] = 0 THEN "store" ELSE "push")
  /\ ~Missing(Outputs[cur[p]])
  /\ result' = [result EXCEPT ![p] =
       {[name |-> cur[p], input_hash |-> inHash[p],
         output_hash |-> Manifest(Outputs[cur[p]]), exit_code |-> status[p],
         capsule |-> cur[p] \in Capsules, cache_hit |-> FALSE]}]
  /\ UNCHANGED <<disk, local, cur, key, inHash, seen, entry, status, results,
                 keyHeld, events, exit, executions, runs, edits>>

\* A declared output that is not there ends the run with exit code 1.
OutputMissing(p) ==
  /\ pc[p] = "outputs"
  /\ Missing(Outputs[cur[p]])
  /\ Fail(p, 1)

\* create_cache_entry computes the content hash anew, a third reading of the
\* inputs, and cache_entry writes the result under it.
StoreResult(p) ==
  LET now == Manifest(Inputs[cur[p]])
      others == {c \in cache : c.step # cur[p] \/ c.inputs # now}
  IN
  /\ Goto(p, "store", "push")
  /\ ~Missing(Inputs[cur[p]])
  /\ cache' = others \cup
       {[step |-> cur[p], inputs |-> now, result |-> r] : r \in result[p]}
  /\ UNCHANGED <<ws, ledger, receipts, local, step, results, keyHeld, events,
                 exit, executions, runs, edits>>

StoreRefused(p) ==
  /\ pc[p] = "store"
  /\ Missing(Inputs[cur[p]])
  /\ Fail(p, 1)

\* Fault: a failed step is left out of the receipt, as a skipped one is.
PushSuccessOnly(p) ==
  /\ Goto(p, "push", "next")
  /\ \E r \in result[p] :
       /\ results' = [results EXCEPT ![p] =
            IF r.exit_code = 0 THEN Append(@, r) ELSE @]
       /\ unsuccessful' = [unsuccessful EXCEPT ![p] =
            IF r.exit_code # 0 THEN @ \cup {r.name} ELSE @]
  /\ completed' = [completed EXCEPT ![p] = @ \cup {cur[p]}]
  /\ UNCHANGED <<disk, mode, run, todo, held, step, keyHeld, events, exit,
                 executions, runs, edits>>

\* Fault: a failure does not stop the steps that depend on it.
PushForgetful(p) ==
  /\ Goto(p, "push", "next")
  /\ \E r \in result[p] : results' = [results EXCEPT ![p] = Append(@, r)]
  /\ completed' = [completed EXCEPT ![p] = @ \cup {cur[p]}]
  /\ UNCHANGED <<disk, mode, run, todo, unsuccessful, held, step, keyHeld,
                 events, exit, executions, runs, edits>>

\* Fault: only steps that executed are marked completed.
PushHitUnmarked(p) ==
  /\ Goto(p, "push", "next")
  /\ \E r \in result[p] :
       /\ results' = [results EXCEPT ![p] = Append(@, r)]
       /\ unsuccessful' = [unsuccessful EXCEPT ![p] =
            IF r.exit_code # 0 THEN @ \cup {r.name} ELSE @]
       /\ completed' = [completed EXCEPT ![p] =
            IF r.cache_hit THEN @ ELSE @ \cup {cur[p]}]
  /\ UNCHANGED <<disk, mode, run, todo, held, step, keyHeld, events, exit,
                 executions, runs, edits>>

\* The end of the iteration.
PushResult(p) ==
  /\ Goto(p, "push", "next")
  /\ \E r \in result[p] :
       /\ results' = [results EXCEPT ![p] = Append(@, r)]
       /\ unsuccessful' = [unsuccessful EXCEPT ![p] =
            IF r.exit_code # 0 THEN @ \cup {r.name} ELSE @]
  /\ completed' = [completed EXCEPT ![p] = @ \cup {cur[p]}]
  /\ UNCHANGED <<disk, mode, run, todo, held, step, keyHeld, events, exit,
                 executions, runs, edits>>

----------------------------------------------------------------------------
(* After the last step.                                                    *)

\* load_signing_key: the authority enters the process here and not before.
LoadKey(p) ==
  /\ Goto(p, "next", "record")
  /\ todo[p] = {}
  /\ keyHeld' = [keyHeld EXCEPT ![p] = mode[p] # "plain"]
  /\ UNCHANGED <<disk, local, step, results, events, exit, executions, runs,
                 edits>>

\* A loader that fails fails the run, with no receipt written.
KeyRefused(p) ==
  /\ pc[p] = "next"
  /\ todo[p] = {}
  /\ mode[p] # "plain"
  /\ Fail(p, 2)

\* Fault: the id of an event does not depend on the run.
EventIdOfStep(p, s) == <<0, s>>

EventId(p, s) == <<run[p], s>>

\* Fault: an event's parents are sought among earlier runs' events as well, the
\* first one written for the step being taken.
RecordEventStale(p) ==
  LET r  == results[p][Len(events[p]) + 1]
      id == EventId(p, r.name)
      first(d) == {e.id : e \in {x \in ledger : x.result.name = d /\
                     \A y \in ledger : y.result.name = d => x.id[1] <= y.id[1]}}
  IN
  /\ pc[p] = "record"
  /\ Len(events[p]) < Len(results[p])
  /\ ledger' = ledger \cup
       {[id |-> id, signed |-> keyHeld[p], result |-> r,
         parents |-> UNION {first(d) : d \in Needs[r.name]}]}
  /\ events' = [events EXCEPT ![p] = Append(@, id)]
  /\ UNCHANGED <<ws, cache, receipts, pc, local, step, results, keyHeld, exit,
                 executions, runs, edits>>

\* The next turn of record_causal_events: the event of a result points at
\* the events this run has written for the needs of its step.
RecordEvent(p) ==
  LET r  == results[p][Len(events[p]) + 1]
      id == EventId(p, r.name)
      written == {events[p][i] : i \in DOMAIN events[p]}
  IN
  /\ pc[p] = "record"
  /\ Len(events[p]) < Len(results[p])
  /\ ledger' = ledger \cup
       {[id |-> id, signed |-> keyHeld[p], result |-> r,
         parents |-> {EventId(p, d) : d \in Needs[r.name]} \cap written]}
  /\ events' = [events EXCEPT ![p] = Append(@, id)]
  /\ UNCHANGED <<ws, cache, receipts, pc, local, step, results, keyHeld, exit,
                 executions, runs, edits>>

\* The `inputs` row of the isolation report.
InputsRow(p) ==
  IF held[p].executed # 0 /\ held[p].in_capsule = held[p].executed
  THEN "enforced" ELSE "not-enforced"

AnyFailed(p) == \E i \in DOMAIN results[p] : results[p][i].exit_code # 0

\* The receipt is assembled, signed, timestamped and written under a new
\* name; run_pipeline returns 1 if any step in it failed.
Publish(p) ==
  LET code == IF AnyFailed(p) THEN 1 ELSE 0 IN
  /\ pc[p] = "record"
  /\ Len(events[p]) = Len(results[p])
  /\ receipts' = receipts \cup
       {[run |-> run[p], steps |-> results[p], causal_events |-> events[p],
         inputs |-> InputsRow(p), signed |-> keyHeld[p],
         stamped |-> mode[p] = "stamp", exit |-> code]}
  /\ End(p, code)
  /\ UNCHANGED <<ws, cache, ledger, local, step, results, events, executions,
                 runs, edits>>

\* timestamp_if_requested: no token, no receipt.
TokenRefused(p) ==
  /\ pc[p] = "record"
  /\ Len(events[p]) = Len(results[p])
  /\ mode[p] = "stamp"
  /\ Fail(p, 2)

----------------------------------------------------------------------------
(* The rest of the world.                                                  *)

\* The process is killed: nothing of it survives but what is on disk.
Crash(p) ==
  /\ pc[p] # "idle"
  /\ Fail(p, -1)

\* Some call to the file system, the container runtime or the shell fails:
\* the `?` operators of run and run_pipeline return Err, exit code 2.
OperationalError(p) ==
  /\ pc[p] # "idle"
  /\ Fail(p, 2)

Produced == UNION {Outputs[s] : s \in Steps}

\* Someone edits or deletes a source file.  The permission bits InputGuard
\* drops do not stop an editor that replaces the file.
EditSource(f, c) ==
  /\ f \in Files \ Produced
  /\ edits < MaxEdits
  /\ c # ws[f]
  /\ f \in Restorable \/ (ws[f] # Absent /\ (c # Absent => c > ws[f]))
  /\ ws' = [ws EXCEPT ![f] = c]
  /\ edits' = edits + 1
  /\ UNCHANGED <<cache, ledger, receipts, pc, local, step, results, keyHeld,
                 events, exit, executions, runs>>

\* Someone deletes a build product.
CleanOutput(f) ==
  /\ f \in Produced
  /\ edits < MaxEdits
  /\ ws[f] # Absent
  /\ ws' = [ws EXCEPT ![f] = Absent]
  /\ edits' = edits + 1
  /\ UNCHANGED <<cache, ledger, receipts, pc, local, step, results, keyHeld,
                 events, exit, executions, runs>>

----------------------------------------------------------------------------
Init ==
  /\ ws \in [Files -> Content \cup {Absent}]
  /\ \A f \in Files : ws[f] = Absent <=> f \in Produced
  /\ cache = {} /\ ledger = {} /\ receipts = {} /\ executions = {}
  /\ pc = [p \in Procs |-> "idle"]
  /\ mode = [p \in Procs |-> "plain"]
  /\ run = [p \in Procs |-> 0]
  /\ todo = [p \in Procs |-> {}]
  /\ cur = [p \in Procs |-> None]
  /\ completed = [p \in Procs |-> {}]
  /\ unsuccessful = [p \in Procs |-> {}]
  /\ key = [p \in Procs |-> None]
  /\ inHash = [p \in Procs |-> None]
  /\ seen = [p \in Procs |-> None]
  /\ entry = [p \in Procs |-> {}]
  /\ status = [p \in Procs |-> 0]
  /\ result = [p \in Procs |-> {}]
  /\ results = [p \in Procs |-> <<>>]
  /\ held = [p \in Procs |-> [executed |-> 0, in_capsule |-> 0]]
  /\ keyHeld = [p \in Procs |-> FALSE]
  /\ events = [p \in Procs |-> <<>>]
  /\ exit = [p \in Procs |-> -1]
  /\ runs = 0
  /\ edits = 0

Iteration(p) ==
  \/ \E s \in Steps : SkipStep(p, s) \/ TakeStep(p, s)
  \/ ContentHash(p) \/ InputHash(p) \/ InputMissing(p)
  \/ Lookup(p) \/ CacheHit(p) \/ CacheMiss(p)
  \/ Execute(p) \/ SnapshotRefused(p)
  \/ \E code \in {0, 1}, written \in SUBSET Files : Return(p, code, written)
  \/ Rehash(p) \/ InputsChanged(p) \/ HashOutputs(p) \/ OutputMissing(p)
  \/ StoreResult(p) \/ StoreRefused(p) \/ PushResult(p)

Closing(p) ==
  LoadKey(p) \/ KeyRefused(p) \/ RecordEvent(p) \/ Publish(p) \/ TokenRefused(p)

\* What a started process does by itself.
Progress(p) == Iteration(p) \/ Closing(p)

Next ==
  \/ \E p \in Procs : StartRun(p) \/ Progress(p) \/ OperationalError(p) \/ Crash(p)
  \/ \E f \in Files, c \in Content \cup {Absent} : EditSource(f, c)
  \/ \E f \in Files : CleanOutput(f)

\* A process that can take its next step takes it; nothing is promised of
\* the user who starts runs or of the editor.
Fairness == \A p \in Procs : WF_vars(Progress(p))

Spec == Init /\ [][Next]_vars /\ Fairness

----------------------------------------------------------------------------
(* Properties.                                                             *)

Labels == {"idle", "next", "key", "hash", "lookup", "match", "exec",
           "running", "rehash", "outputs", "store", "push", "record"}

Event == [id : Nat \X Steps, signed : BOOLEAN, result : StepResult,
          parents : SUBSET (Nat \X Steps)]

Receipt == [run : Nat, steps : Seq(StepResult),
            causal_events : Seq(Nat \X Steps),
            inputs : {"enforced", "not-enforced"}, signed : BOOLEAN,
            stamped : BOOLEAN, exit : {0, 1}]

DiskOK ==
  /\ ws \in [Files -> Content \cup {Absent}]
  /\ \A c \in cache : /\ c.step \in Steps
                      /\ c.inputs \in [Inputs[c.step] -> Content]
                      /\ c.result \in ResultOf(c.step)
  /\ ledger \subseteq Event
  /\ receipts \subseteq Receipt

ProcsOK ==
  /\ pc \in [Procs -> Labels]
  /\ mode \in [Procs -> {"plain", "sign", "stamp"}]
  /\ run \in [Procs -> Nat]
  /\ todo \in [Procs -> SUBSET Steps]
  /\ completed \in [Procs -> SUBSET Steps]
  /\ unsuccessful \in [Procs -> SUBSET Steps]
  /\ status \in [Procs -> {0, 1}]
  /\ results \in [Procs -> Seq(StepResult)]
  /\ held \in [Procs -> [executed : Nat, in_capsule : Nat]]
  /\ keyHeld \in [Procs -> BOOLEAN]
  /\ events \in [Procs -> Seq(Nat \X Steps)]
  /\ exit \in [Procs -> {-1, 0, 1, 2}]
  /\ runs \in Nat
  /\ edits \in Nat

\* What is in scope in each part of an iteration.
ScopeOK(p) ==
  /\ pc[p] \notin {"idle", "next", "record"} => cur[p] \in Steps
  /\ pc[p] \in {"hash", "lookup"} => key[p] \in [Inputs[cur[p]] -> Content]
  /\ pc[p] \in {"lookup", "match", "exec", "running", "rehash", "outputs"} =>
       inHash[p] \in [Inputs[cur[p]] -> Content]
  /\ pc[p] = "running" => seen[p] \in [Inputs[cur[p]] -> Content \cup {Absent}]
  /\ pc[p] = "match" => entry[p] \subseteq ResultOf(cur[p])
  /\ pc[p] \in {"store", "push"} => result[p] \subseteq ResultOf(cur[p])

\* Types.  A recorded hash commits to every declared path and to files that
\* exist: hash_inputs and hash_outputs never skip one that is missing.
TypeOK ==
  /\ DiskOK
  /\ ProcsOK
  /\ cur \in [Procs -> Steps \cup {None}]
  /\ DOMAIN key = Procs /\ DOMAIN inHash = Procs /\ DOMAIN seen = Procs
  /\ DOMAIN entry = Procs /\ DOMAIN result = Procs
  /\ \A p \in Procs : ScopeOK(p)

Succeeded(rs) == {rs[i].name : i \in {j \in DOMAIN rs : rs[j].exit_code = 0}}

\* Every need of a result is among the earlier ones, with success.
Solid(rs) ==
  \A i \in DOMAIN rs : \A d \in Needs[rs[i].name] :
    \E j \in 1 .. i - 1 : rs[j].name = d /\ rs[j].exit_code = 0

\* "A signed receipt of what actually happened": every result in a receipt,
\* replayed from the cache or not, is that of a command that really ran,
\* read exactly the recorded inputs, left exactly the recorded outputs and
\* ended with the recorded exit code (the double hashing of executor.run); and
\* a failure is one of the run the receipt is about, never a replayed one.
ReceiptTellsTheTruth ==
  \A rc \in receipts : \A i \in DOMAIN rc.steps :
    /\ [step |-> rc.steps[i].name, read |-> rc.steps[i].input_hash,
        exit_code |-> rc.steps[i].exit_code, left |-> rc.steps[i].output_hash]
         \in executions
    /\ rc.steps[i].cache_hit => rc.steps[i].exit_code = 0

\* One process, and the inputs of a step outside a capsule are neither brought
\* back to an earlier content nor written by the step itself.  (The inputs of a
\* capsule step may be: it reads a snapshot.)
Quiet ==
  /\ \A p, q \in Procs : p = q
  /\ \A s \in Steps \ Capsules : Inputs[s] \cap (Restorable \cup Outputs[s]) = {}

\* No receipt records work built on a failed foundation: every need of a
\* recorded step is recorded before it, with success (unsuccessful_steps).
OnSolidFoundation == \A rc \in receipts : Solid(rc.steps)

\* Exit code 0 is only ever returned with a receipt on disk in which every
\* step of the pipeline succeeded, although skipped steps are left out of
\* the receipt and run_pipeline looks only at the ones that are in it.
ExitZeroMeansComplete ==
  \A p \in Procs : exit[p] = 0 =>
    \E rc \in receipts : rc.run = run[p] /\ Succeeded(rc.steps) = Steps

\* The signing boundary: a process that holds the key has no step left to
\* reach, so nothing the project controls runs beside the key.
SigningBoundary ==
  \A p \in Procs : keyHeld[p] => todo[p] = {} /\ pc[p] = "record"

\* The ids es name, in order, events of the ledger L for the results rs of run
\* n, whose parents are the events of exactly the steps waited for, each of
\* them earlier in es.
Chained(L, n, rs, es, signed) ==
  \A i \in DOMAIN es :
    /\ es[i] = <<n, rs[i].name>>
    /\ \E e \in L :
         /\ e.id = es[i]
         /\ e.result = rs[i]
         /\ e.signed = signed
         /\ e.parents = {<<n, d>> : d \in Needs[rs[i].name]}
         /\ e.parents \subseteq {es[j] : j \in 1 .. i - 1}

\* A receipt's causal chain is all there: one event per step, in the order of
\* the steps, signed iff the receipt is, and no parent outside the receipt
\* (record_causal_events leaves out the parent of a need without an event).
CausalChainComplete ==
  \A rc \in receipts :
    /\ Len(rc.causal_events) = Len(rc.steps)
    /\ Chained(ledger, rc.run, rc.steps, rc.causal_events, rc.signed)

\* A run that started ends, with a receipt or without: the loop never waits
\* for a step that is not going to complete.
RunsTerminate == \A p \in Procs : pc[p] # "idle" ~> pc[p] = "idle"

\* The step the iteration is about.
Pending(p) == IF pc[p] \in {"next", "record"} THEN {} ELSE {cur[p]}

\* The books of the loop, from which the invariants above follow: a step is
\* still to come, in hand, succeeded, or failed or skipped; a skip goes back
\* to a failure that is in step_results; and a step in hand stands on
\* results that succeeded.
Book(p) ==
  pc[p] # "idle" =>
    /\ completed[p] = unsuccessful[p] \cup Succeeded(results[p])
    /\ Steps = todo[p] \cup Pending(p) \cup completed[p]
    /\ unsuccessful[p] # {} => AnyFailed(p)
    /\ \A s \in Pending(p) : Needs[s] \subseteq Succeeded(results[p])
    /\ Solid(results[p])
    /\ pc[p] = "record" => todo[p] = {}

\* What record_causal_events has done so far.
Recorded(p) ==
  /\ pc[p] \notin {"idle", "record"} => events[p] = <<>>
  /\ pc[p] = "record" =>
       /\ Len(events[p]) <= Len(results[p])
       /\ Chained(ledger, run[p], results[p], events[p], keyHeld[p])

\* Every run that is under way keeps its books and has recorded its events up
\* to where it stands.
Bookkeeping == \A p \in Procs : Book(p) /\ Recorded(p)

\* compute_content_hash: "the same hash recorded in receipts, so the cache
\* key can never disagree with verification".
CacheKeyAgrees == \A c \in cache : c.inputs = c.result.input_hash

\* README: the `inputs` row "says `enforced` only when every step ran in a
\* capsule".
EnforcedMeansCapsules ==
  \A rc \in receipts : rc.inputs = "enforced" =>
    \A i \in DOMAIN rc.steps : rc.steps[i].capsule

============================================================================
