---------------------------- MODULE ExecutionDAG ----------------------------
(***************************************************************************)
(* src/pipeline/dag.rs: from the `needs:` lists of a pipeline to the order *)
(* its steps run in (build, check_cycles, topological_sort), and the       *)
(* analysis that validate_comprehensive reports on (analyze).              *)
(*                                                                         *)
(* The vectors in `edges` and `nodes` are filled while iterating over one  *)
(* ordered map, pipeline.steps: Keys is its order.  The first queue of the *)
(* sort comes from a HashMap, in_degree: its order is a choice.            *)
(* An operator under "Fault:" is a plausible slip in the definition that   *)
(* follows it; none is part of the specification.                          *)
(***************************************************************************)
EXTENDS Integers, Sequences, FiniteSets, FiniteSetsExt, Functions

CONSTANTS
  Nodes,       \* the keys of pipeline.steps
  Keys,        \* the order in which that map is iterated
  NeedsLists   \* the `needs:` lists a step may have

ASSUME NeedsAssumption ==
  /\ IsFiniteSet(Nodes)
  /\ Keys \in Seq(Nodes)
  /\ \A s \in Nodes : \E i \in DOMAIN Keys : Keys[i] = s
  /\ \A i, j \in DOMAIN Keys : Keys[i] = Keys[j] => i = j
  /\ \A l \in NeedsLists : IsFiniteSet(DOMAIN l)

VARIABLES
  needs,       \* Step.needs of every step: may repeat a name, or name no step
  phase,       \* where ExecutionDAG::build, topological_sort, analyze stand
  visited,     \* check_cycles: the steps the search has entered
  recStack,    \* rec_stack
  stack,       \* the recursion of has_cycle_util: [node, ahead] frames
  path,        \* build_cycle_path: path
  open,        \* in_degree: the places in needs[s] not yet discounted
  queue,       \* Kahn's queue
  sorted,      \* the order so far
  depth,       \* analyze: node_depths
  remaining,   \* find_parallelizable_groups: remaining_nodes
  groups       \* groups

search   == <<visited, recStack, stack, path>>
kahn     == <<open, queue, sorted>>
analysis == <<depth, remaining, groups>>
dagVars     == <<needs, phase, search, kahn, analysis>>

Deps(s) == {needs[s][i] : i \in DOMAIN needs[s]}

\* edges[d] without repetitions: get_dependents.
Dependents(d) == {s \in Nodes : d \in Deps(s)}

\* The orders in which a set may be iterated.
Orders(S) == Bijection(1 .. Cardinality(S), S)

Index(s) == CHOOSE i \in DOMAIN Keys : Keys[i] = s

\* The member of S that comes first in a vector filled in the order of Keys.
FirstOf(S) == CHOOSE s \in S : \A t \in S : Index(s) <= Index(t)

\* S in the order of Keys.
KeyOrders(S) ==
  {o \in Orders(S) : \A i, j \in DOMAIN o : i < j => Index(o[i]) < Index(o[j])}

\* The dependencies have no cycle: every set of steps has one that needs none
\* of the others.
Acyclic ==
  \A S \in SUBSET Nodes : S # {} => \E s \in S : Deps(s) \cap S = {}

----------------------------------------------------------------------------
DagInit ==
  /\ needs \in [Nodes -> NeedsLists]
  /\ phase = "build"
  /\ visited = {} /\ recStack = {} /\ stack = <<>> /\ path = <<>>
  /\ open = [s \in Nodes |-> DOMAIN needs[s]]
  /\ queue = <<>> /\ sorted = <<>>
  /\ depth = <<>> /\ remaining = {} /\ groups = <<>>

\* build: every dependency is a step; edges are in place.
BuildDag ==
  /\ phase = "build"
  /\ \A s \in Nodes : Deps(s) \subseteq Nodes
  /\ phase' = "cycles"
  /\ UNCHANGED <<needs, search, kahn, analysis>>

\* "depends on unknown step".
UnknownStep ==
  /\ phase = "build"
  /\ \E s \in Nodes : ~ Deps(s) \subseteq Nodes
  /\ phase' = "unknown"
  /\ UNCHANGED <<needs, search, kahn, analysis>>

\* has_cycle_util enters n.
Enter(n, rest) ==
  /\ visited' = visited \cup {n}
  /\ recStack' = recStack \cup {n}
  /\ stack' = Append(rest, [node |-> n, ahead |-> Dependents(n)])
  /\ UNCHANGED path

\* check_cycles starts a search at the next step not seen yet.
SearchFrom ==
  /\ phase = "cycles"
  /\ stack = <<>>
  /\ visited # Nodes
  /\ Enter(FirstOf(Nodes \ visited), <<>>)
  /\ UNCHANGED <<needs, phase, kahn, analysis>>

\* has_cycle_util turns to the next neighbour of the step on top of the
\* recursion.  A neighbour listed twice is found visited the second time.
Neighbour == FirstOf(stack[Len(stack)].ahead)

Visiting ==
  /\ phase = "cycles"
  /\ stack # <<>>
  /\ stack[Len(stack)].ahead # {}

Passed == [stack EXCEPT ![Len(stack)].ahead = @ \ {Neighbour}]

\* Fault: a step seen before is taken for a cycle.
FoundSeen ==
  /\ Visiting
  /\ Neighbour \in visited
  /\ phase' = "path"
  /\ path' = <<Neighbour>>
  /\ UNCHANGED <<needs, visited, recStack, stack, kahn, analysis>>

FoundCycle ==
  /\ Visiting
  /\ Neighbour \in recStack
  /\ phase' = "path"
  /\ path' = <<Neighbour>>
  /\ UNCHANGED <<needs, visited, recStack, stack, kahn, analysis>>

PassSeen ==
  /\ Visiting
  /\ Neighbour \in visited \ recStack
  /\ stack' = Passed
  /\ UNCHANGED <<needs, phase, visited, recStack, path, kahn, analysis>>

Descend ==
  /\ Visiting
  /\ Neighbour \notin visited
  /\ Enter(Neighbour, Passed)
  /\ UNCHANGED <<needs, phase, kahn, analysis>>

\* Fault: follows dependents that are not on the recursion stack.
CyclePathAnywhere ==
  LET onStack == Dependents(path[Len(path)])
      next    == FirstOf(onStack)
      closes  == onStack # {} /\ next = path[1]
      stops   == onStack = {} \/ closes \/ Len(path) > Cardinality(Nodes)
  IN
  /\ phase = "path"
  /\ phase' = IF stops THEN "cycle" ELSE "path"
  /\ path' = IF ~stops \/ closes THEN Append(path, next) ELSE path
  /\ UNCHANGED <<needs, visited, recStack, stack, kahn, analysis>>

\* build_cycle_path: from the last step of the path to its first dependent on
\* the recursion stack, until it closes, has nowhere to go or is too long.
CyclePath ==
  LET onStack == Dependents(path[Len(path)]) \cap recStack
      next    == FirstOf(onStack)
      closes  == onStack # {} /\ next = path[1]
      stops   == onStack = {} \/ closes \/ Len(path) > Cardinality(Nodes)
  IN
  /\ phase = "path"
  /\ phase' = IF stops THEN "cycle" ELSE "path"
  /\ path' = IF ~stops \/ closes THEN Append(path, next) ELSE path
  /\ UNCHANGED <<needs, visited, recStack, stack, kahn, analysis>>

\* has_cycle_util returns.
Leave ==
  LET top == stack[Len(stack)] IN
  /\ phase = "cycles"
  /\ stack # <<>>
  /\ top.ahead = {}
  /\ recStack' = recStack \ {top.node}
  /\ stack' = SubSeq(stack, 1, Len(stack) - 1)
  /\ UNCHANGED <<needs, phase, visited, path, kahn, analysis>>

\* topological_sort counts the incoming edges and queues the steps with none.
StartSort ==
  /\ phase = "cycles"
  /\ stack = <<>>
  /\ visited = Nodes
  /\ phase' = "sort"
  /\ open' = [s \in Nodes |-> DOMAIN needs[s]]
  /\ queue' \in Orders({s \in Nodes : DOMAIN needs[s] = {}})
  /\ sorted' = <<>>
  /\ UNCHANGED <<needs, search, analysis>>

\* Fault: an edge listed twice is discounted once.
PopOnce ==
  LET current == Head(queue)
      left(s) == {i \in open[s] : needs[s][i] # current \/
                    \E j \in open[s] : j < i /\ needs[s][j] = current}
  IN
  /\ phase = "sort"
  /\ queue # <<>>
  /\ sorted' = Append(sorted, current)
  /\ open' = [s \in Nodes |-> left(s)]
  /\ \E o \in KeyOrders({s \in Nodes : open[s] # {} /\ left(s) = {}}) :
       queue' = Tail(queue) \o o
  /\ UNCHANGED <<needs, phase, search, analysis>>

\* Fault: a step is queued once any of its dependencies is done.
PopEager ==
  LET current == Head(queue)
      left(s) == {i \in open[s] : needs[s][i] # current}
  IN
  /\ phase = "sort"
  /\ queue # <<>>
  /\ sorted' = Append(sorted, current)
  /\ open' = [s \in Nodes |-> left(s)]
  /\ \E o \in KeyOrders({s \in Nodes : left(s) # open[s]}) :
       queue' = Tail(queue) \o o
  /\ UNCHANGED <<needs, phase, search, analysis>>

\* One turn of the loop: the front of the queue is emitted, every edge that
\* leaves it is discounted, and a step whose count reaches 0 is queued.
Pop ==
  LET current == Head(queue)
      left(s) == {i \in open[s] : needs[s][i] # current}
  IN
  /\ phase = "sort"
  /\ queue # <<>>
  /\ sorted' = Append(sorted, current)
  /\ open' = [s \in Nodes |-> left(s)]
  /\ \E o \in KeyOrders({s \in Nodes : open[s] # {} /\ left(s) = {}}) :
       queue' = Tail(queue) \o o
  /\ UNCHANGED <<needs, phase, search, analysis>>

\* The loop ended; "Pipeline contains cycles" if a step is left over.
SortDone ==
  /\ phase = "sort"
  /\ queue = <<>>
  /\ phase' = IF Len(sorted) = Cardinality(Nodes) THEN "depths" ELSE "bailed"
  /\ UNCHANGED <<needs, search, kahn, analysis>>

----------------------------------------------------------------------------
(* analyze.                                                                *)

\* Fault: the depth of the shallowest dependency counts.
DepthShallowest ==
  LET k == Cardinality(DOMAIN depth) + 1
      n == sorted[k]
      known == {IF d \in DOMAIN depth THEN depth[d] ELSE 0 : d \in Deps(n)}
      new == IF Deps(n) = {} THEN 0 ELSE Min(known) + 1
  IN
  /\ phase = "depths"
  /\ k <= Len(sorted)
  /\ depth' = [m \in DOMAIN depth \cup {n} |-> IF m = n THEN new ELSE depth[m]]
  /\ UNCHANGED <<needs, phase, search, kahn, remaining, groups>>

\* The depth of the next step of the order: one more than the deepest of its
\* dependencies, taking 0 for one that has no depth yet.
Depth ==
  LET k == Cardinality(DOMAIN depth) + 1
      n == sorted[k]
      known == {IF d \in DOMAIN depth THEN depth[d] ELSE 0 : d \in Deps(n)}
      new == IF Deps(n) = {} THEN 0 ELSE Max(known) + 1
  IN
  /\ phase = "depths"
  /\ k <= Len(sorted)
  /\ depth' = [m \in DOMAIN depth \cup {n} |-> IF m = n THEN new ELSE depth[m]]
  /\ UNCHANGED <<needs, phase, search, kahn, remaining, groups>>

StartGroups ==
  /\ phase = "depths"
  /\ Cardinality(DOMAIN depth) = Len(sorted)
  /\ phase' = "groups"
  /\ remaining' = Range(sorted)
  /\ UNCHANGED <<needs, search, kahn, depth, groups>>

\* Fault: only the steps without dependencies are ready.
GroupRoots ==
  LET group == {n \in remaining : Deps(n) = {}} IN
  /\ phase = "groups"
  /\ remaining # {}
  /\ remaining' = remaining \ group
  /\ groups' = IF group = {} THEN groups ELSE Append(groups, group)
  /\ UNCHANGED <<needs, phase, search, kahn, depth>>

\* One turn of find_parallelizable_groups.
Group ==
  LET group == {n \in remaining : Deps(n) \cap remaining = {}} IN
  /\ phase = "groups"
  /\ remaining # {}
  /\ remaining' = remaining \ group
  /\ groups' = IF group = {} THEN groups ELSE Append(groups, group)
  /\ UNCHANGED <<needs, phase, search, kahn, depth>>

AnalysisDone ==
  /\ phase = "groups"
  /\ remaining = {}
  /\ phase' = "done"
  /\ UNCHANGED <<needs, search, kahn, analysis>>

----------------------------------------------------------------------------
Final == {"unknown", "cycle", "bailed", "done"}

DagNext ==
  \/ BuildDag \/ UnknownStep
  \/ SearchFrom \/ FoundCycle \/ PassSeen \/ Descend \/ CyclePath \/ Leave
  \/ StartSort \/ Pop \/ SortDone
  \/ Depth \/ StartGroups \/ Group \/ AnalysisDone

\* Sequential code: it keeps running until it returns.
DagSpec == DagInit /\ [][DagNext]_dagVars /\ WF_dagVars(DagNext)

----------------------------------------------------------------------------
(* Properties.                                                             *)

\* Types; rec_stack holds exactly the calls that have not returned.
DagTypeOK ==
  /\ needs \in [Nodes -> NeedsLists]
  /\ phase \in {"build", "cycles", "path", "sort", "depths", "groups"} \cup Final
  /\ visited \subseteq Nodes
  /\ recStack = {stack[i].node : i \in DOMAIN stack}
  /\ \A i \in DOMAIN stack : stack[i].node \in Nodes /\ stack[i].ahead \subseteq Nodes
  /\ path \in Seq(Nodes)
  /\ DOMAIN open = Nodes
  /\ \A s \in Nodes : open[s] \subseteq DOMAIN needs[s]
  /\ queue \in Seq(Nodes)
  /\ sorted \in Seq(Nodes)
  /\ DOMAIN depth \subseteq Nodes
  /\ \A n \in DOMAIN depth : depth[n] \in Nat
  /\ remaining \subseteq Nodes
  /\ \A i \in DOMAIN groups : groups[i] \subseteq Nodes

\* check_cycles refuses exactly the pipelines with a cycle, in whatever order
\* the maps are iterated and although `visited` is shared by the searches.
CycleVerdict ==
  /\ phase = "cycle" => ~Acyclic
  /\ phase \in {"sort", "depths", "groups", "done"} => Acyclic

\* A pipeline that passed check_cycles is always sorted: the second error of
\* topological_sort is never reached.
SortSucceeds == phase # "bailed"

\* The count of an edge is taken off at most once: when a step is emitted, each
\* place that names it is still counted, so `*degree -= 1` never wraps.
NoUnderflow ==
  phase = "sort" /\ queue # <<>> =>
    \A s \in Nodes : \A i \in DOMAIN needs[s] :
      needs[s][i] = Head(queue) => i \in open[s]

\* The two halves of the analysis agree: the k-th parallel group is the set of
\* the steps of depth k - 1, and every step is in one.
GroupsAreDepths ==
  phase = "done" =>
    /\ DOMAIN depth = Nodes
    /\ \A k \in DOMAIN groups : groups[k] = {n \in Nodes : depth[n] = k - 1}
    /\ UNION Range(groups) = Nodes

\* Once begun, search, sort and analysis return, whatever the `needs:` lists.
Terminates == phase # "build" ~> phase \in Final

\* The order of the steps is one StepOrder allows: topological_sort never emits
\* a step twice, or before a step it needs.  (A name that is no step stops
\* build before the sort.)
Order == INSTANCE StepOrder WITH
           Steps <- Nodes,
           deps <- [s \in Nodes |-> Deps(s) \cap Nodes], emitted <- sorted

EmitsInOrder == Order!Spec

\* The path in the "Cycle detected" error is a cycle: it closes, and each of
\* its steps is needed by the next one.
PathIsCycle ==
  phase = "cycle" =>
    /\ Len(path) > 1
    /\ path[1] = path[Len(path)]
    /\ \A i \in 1 .. Len(path) - 1 : path[i] \in Deps(path[i + 1])
=============================================================================
