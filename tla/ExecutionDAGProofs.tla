------------------------- MODULE ExecutionDAGProofs -------------------------
(***************************************************************************)
(* Proofs about ExecutionDAG for every pipeline: check_cycles answers      *)
(* exactly, the sort of a pipeline it let pass uses every step, counts     *)
(* never wrap, the order implements StepOrder, a path that is reported is  *)
(* a cycle, and the two analyses agree.                                    *)
(*                                                                         *)
(* The argument has two halves.  SearchInv is the depth-first search: the  *)
(* recursion is a path of dependents, whatever is behind a frame is        *)
(* finished, and the finished steps are closed under dependents and hold   *)
(* no cycle.  SortInv is Kahn's loop: a place in a `needs:` list is still  *)
(* counted iff the step it names has not been emitted, and the steps with  *)
(* nothing left to count are exactly the queued and the emitted ones.      *)
(*                                                                         *)
(* On them rest PathInv, the path that a cycle is reported with, and       *)
(* AnalysisInv, the depths and the parallel groups of a sorted pipeline.   *)
(***************************************************************************)
EXTENDS ExecutionDAG, FiniteSetTheorems, TLAPS

\* Types of the part of the state the proofs are about.
Frames == [node : Nodes, ahead : SUBSET Nodes]

StateOK ==
  /\ needs \in [Nodes -> NeedsLists]
  /\ stack \in Seq(Frames)
  /\ visited \in SUBSET Nodes
  /\ recStack \in SUBSET visited
  /\ open \in [Nodes -> SUBSET UNION {DOMAIN needs[s] : s \in Nodes}]
  /\ queue \in Seq(Nodes)
  /\ sorted \in Seq(Nodes)

Known == phase \notin {"build", "unknown"} => \A s \in Nodes : Deps(s) \subseteq Nodes

----------------------------------------------------------------------------
(* The search.                                                             *)

Finished == visited \ recStack

OnStack == recStack = {stack[i].node : i \in DOMAIN stack}

Distinct == \A i, j \in DOMAIN stack : stack[i].node = stack[j].node => i = j

\* Each call was made for a dependent of its caller.
Linked ==
  \A i \in DOMAIN stack :
    i + 1 \in DOMAIN stack => stack[i + 1].node \in Dependents(stack[i].node)

AheadOK == \A i \in DOMAIN stack : stack[i].ahead \subseteq Dependents(stack[i].node)

\* A dependent already passed is finished, or it is the call under way.
Behind ==
  \A i \in DOMAIN stack : \A d \in Dependents(stack[i].node) \ stack[i].ahead :
    \/ d \in Finished
    \/ i + 1 \in DOMAIN stack /\ d = stack[i + 1].node

Closed == \A d \in Finished : Dependents(d) \subseteq Finished

\* No cycle among the finished steps.
FinishedAcyclic ==
  \A S \in SUBSET Finished : S # {} => \E s \in S : Deps(s) \cap S = {}

SearchInv ==
  /\ OnStack /\ Distinct /\ Linked /\ AheadOK
  /\ Behind /\ Closed /\ FinishedAcyclic

Verdict ==
  /\ phase \in {"path", "cycle"} => ~Acyclic
  /\ phase \in {"sort", "depths", "groups", "done"} => Acyclic

----------------------------------------------------------------------------
(* The sort.                                                               *)

NothingSorted ==
  phase \in {"build", "unknown", "cycles", "path", "cycle"} =>
    queue = <<>> /\ sorted = <<>>

\* A place is counted as long as the step it names is not emitted.
Counted ==
  \A s \in Nodes : \A i \in DOMAIN needs[s] :
    i \in open[s] <=> needs[s][i] \notin Range(sorted)

OpenOK == \A s \in Nodes : open[s] \subseteq DOMAIN needs[s]

\* What has nothing left to count is queued or emitted, and only that.
Ready == \A s \in Nodes : open[s] = {} <=> s \in Range(queue) \cup Range(sorted)

OnceEach ==
  /\ IsInjective(queue)
  /\ IsInjective(sorted)
  /\ Range(queue) \cap Range(sorted) = {}

SortInv == phase = "sort" => OpenOK /\ Counted /\ Ready /\ OnceEach

NotBailed == phase # "bailed"

IInv == StateOK /\ Known /\ SearchInv /\ Verdict /\ NothingSorted /\ SortInv /\ NotBailed

----------------------------------------------------------------------------
(* Helpers.                                                                *)

\* A set of numbers with a member has a least one.
LEMMA LeastOf ==
  ASSUME NEW T \in SUBSET Nat, T # {}
  PROVE  \E x \in T : \A y \in T : x <= y
<1> DEFINE R == OpToRel(<, Nat)
<1>1. IsWellFoundedOn(R, Nat)
  BY NatLessThanWellFounded
<1>2. \A x, y \in Nat : x < y => <<x, y>> \in R
  BY DEF OpToRel
<1> HIDE DEF R
<1>3. PICK x \in T : \A y \in T : ~ (<<y, x>> \in R)
  BY <1>1, WFMin, Zenon
<1>4. ASSUME NEW y \in T PROVE x <= y
  <2>1. x \in Nat /\ y \in Nat
    OBVIOUS
  <2>2. ~(y < x)
    BY <1>2, <1>3, <2>1, Zenon
  <2> QED BY <2>1, <2>2
<1> QED BY <1>4

\* A step has one place in Keys, its own.
LEMMA OwnIndex ==
  \A s, t \in Nodes : Index(s) \in Nat /\ (Index(s) = Index(t) => s = t)
<1>1. \A s \in Nodes : Index(s) \in DOMAIN Keys /\ Keys[Index(s)] = s
  BY NeedsAssumption DEF Index
<1> QED BY <1>1, NeedsAssumption

\* FirstOf picks a member of the set, and no other comes before it.
LEMMA FirstOfLeast ==
  \A S \in SUBSET Nodes : S # {} =>
    FirstOf(S) \in S /\ \A t \in S : Index(FirstOf(S)) <= Index(t)
<1> SUFFICES ASSUME NEW S \in SUBSET Nodes, S # {}
             PROVE  FirstOf(S) \in S /\ \A t \in S : Index(FirstOf(S)) <= Index(t)
  OBVIOUS
<1> DEFINE T == {Index(s) : s \in S}
<1>1. T \in SUBSET Nat /\ T # {}
  BY OwnIndex
<1> HIDE DEF T
<1>2. \E x \in T : \A y \in T : x <= y
  BY <1>1, LeastOf
<1>3. \E s \in S : \A t \in S : Index(s) <= Index(t)
  BY <1>2 DEF T
<1> QED BY <1>3 DEF FirstOf

LEMMA FirstOfIn == \A S \in SUBSET Nodes : S # {} => FirstOf(S) \in S
BY FirstOfLeast, Zenon

\* What no other member comes before is the one FirstOf picks.
LEMMA FirstIs ==
  ASSUME NEW S \in SUBSET Nodes, NEW x \in S, \A t \in S : Index(x) <= Index(t)
  PROVE  FirstOf(S) = x
<1> DEFINE f == FirstOf(S)
<1>1. f \in S /\ Index(f) <= Index(x)
  BY FirstOfLeast
<1> HIDE DEF f
<1>2. Index(f) = Index(x)
  BY <1>1, OwnIndex
<1>3. f = x
  BY <1>1, <1>2, OwnIndex
<1> QED BY <1>3 DEF f

\* The range of a sequence with one more element.
LEMMA RangeAppend ==
  ASSUME NEW S, NEW q \in Seq(S), NEW x \in S
  PROVE  /\ Range(Append(q, x)) = Range(q) \cup {x}
         /\ IsInjective(q) /\ x \notin Range(q) => IsInjective(Append(q, x))
<1> DEFINE a == Append(q, x)
<1>1. /\ DOMAIN a = 1 .. Len(q) + 1 /\ DOMAIN q = 1 .. Len(q) /\ Len(q) \in Nat
      /\ \A i \in 1 .. Len(q) : a[i] = q[i]
      /\ a[Len(q) + 1] = x
  OBVIOUS
<1> HIDE DEF a
<1>2. Range(a) = Range(q) \cup {x}
  BY <1>1 DEF Range
<1>3. IsInjective(q) /\ x \notin Range(q) => IsInjective(a)
  BY <1>1 DEF Range, IsInjective
<1> QED BY <1>2, <1>3 DEF a

\* Taking the front off a queue without repetitions.
LEMMA RangeTail ==
  ASSUME NEW S, NEW q \in Seq(S), q # <<>>, IsInjective(q)
  PROVE  /\ Tail(q) \in Seq(S)
         /\ Head(q) \in S
         /\ Head(q) \in Range(q)
         /\ Range(Tail(q)) = Range(q) \ {Head(q)}
         /\ IsInjective(Tail(q))
<1> DEFINE t == Tail(q)
           h == Head(q)
<1>1. /\ DOMAIN t = 1 .. Len(q) - 1 /\ DOMAIN q = 1 .. Len(q) /\ Len(q) \in Nat \ {0}
      /\ \A i \in 1 .. Len(q) - 1 : t[i] = q[i + 1]
      /\ h = q[1] /\ t \in Seq(S) /\ h \in S
  OBVIOUS
<1> HIDE DEF t, h
<1>2. Range(t) \subseteq Range(q) \ {h}
  <2> SUFFICES ASSUME NEW i \in DOMAIN t PROVE t[i] \in Range(q) \ {h}
    BY DEF Range
  <2>1. t[i] = q[i + 1] /\ i + 1 \in DOMAIN q /\ 1 \in DOMAIN q /\ i + 1 # 1
    BY <1>1
  <2> QED BY <2>1, <1>1 DEF Range, IsInjective
<1>3. Range(q) \ {h} \subseteq Range(t)
  <2> SUFFICES ASSUME NEW i \in DOMAIN q, q[i] # h PROVE q[i] \in Range(t)
    BY DEF Range
  <2>1. i - 1 \in DOMAIN t /\ t[i - 1] = q[i]
    BY <1>1
  <2> QED BY <2>1 DEF Range
<1>4. IsInjective(t)
  <2> SUFFICES ASSUME NEW i \in DOMAIN t, NEW j \in DOMAIN t, t[i] = t[j] PROVE i = j
    BY DEF IsInjective
  <2>1. i + 1 \in DOMAIN q /\ j + 1 \in DOMAIN q /\ q[i + 1] = q[j + 1]
    BY <1>1
  <2>2. i + 1 = j + 1
    BY <2>1 DEF IsInjective
  <2> QED BY <2>2, <1>1
<1>5. h \in Range(q)
  BY <1>1 DEF Range
<1> QED BY <1>1, <1>2, <1>3, <1>4, <1>5 DEF t, h

\* Appending one sequence without repetitions to another.
LEMMA RangeConcat ==
  ASSUME NEW S, NEW q \in Seq(S), NEW o \in Seq(S)
  PROVE  /\ Range(q \o o) = Range(q) \cup Range(o)
         /\ IsInjective(q) /\ IsInjective(o) /\ Range(q) \cap Range(o) = {}
              => IsInjective(q \o o)
<1> DEFINE c == q \o o
<1>1. /\ DOMAIN c = 1 .. Len(q) + Len(o) /\ DOMAIN q = 1 .. Len(q) /\ DOMAIN o = 1 .. Len(o)
      /\ Len(q) \in Nat /\ Len(o) \in Nat
      /\ \A i \in 1 .. Len(q) : c[i] = q[i]
      /\ \A i \in Len(q) + 1 .. Len(q) + Len(o) : c[i] = o[i - Len(q)]
  OBVIOUS
<1> HIDE DEF c
<1>2. Range(c) \subseteq Range(q) \cup Range(o)
  <2> SUFFICES ASSUME NEW i \in DOMAIN c PROVE c[i] \in Range(q) \cup Range(o)
    BY DEF Range
  <2>1. CASE i <= Len(q)
    BY <2>1, <1>1 DEF Range
  <2>2. CASE i > Len(q)
    <3>1. i - Len(q) \in DOMAIN o /\ c[i] = o[i - Len(q)]
      BY <2>2, <1>1
    <3> QED BY <3>1 DEF Range
  <2> QED BY <2>1, <2>2, <1>1
<1>3. Range(q) \subseteq Range(c)
  BY <1>1 DEF Range
<1>4. Range(o) \subseteq Range(c)
  <2> SUFFICES ASSUME NEW i \in DOMAIN o PROVE o[i] \in Range(c)
    BY DEF Range
  <2>1. i + Len(q) \in DOMAIN c /\ c[i + Len(q)] = o[i]
    BY <1>1
  <2> QED BY <2>1 DEF Range
<1>5. ASSUME IsInjective(q), IsInjective(o), Range(q) \cap Range(o) = {}
      PROVE  IsInjective(c)
  <2> SUFFICES ASSUME NEW i \in DOMAIN c, NEW j \in DOMAIN c, c[i] = c[j] PROVE i = j
    BY DEF IsInjective
  <2>1. i \in Nat /\ j \in Nat
    BY <1>1
  <2>2. CASE i <= Len(q) /\ j <= Len(q)
    BY <2>2, <1>1, <1>5 DEF IsInjective
  <2>3. CASE i > Len(q) /\ j > Len(q)
    <3>1. i - Len(q) \in DOMAIN o /\ j - Len(q) \in DOMAIN o
          /\ o[i - Len(q)] = o[j - Len(q)]
      BY <2>3, <1>1
    <3>2. i - Len(q) = j - Len(q)
      BY <3>1, <1>5 DEF IsInjective
    <3> QED BY <3>2, <1>1
  <2>4. CASE (i <= Len(q) /\ j > Len(q)) \/ (i > Len(q) /\ j <= Len(q))
    <3>1. \A m, n \in DOMAIN c : ~(m <= Len(q) /\ n > Len(q) /\ c[m] = c[n])
      <4> SUFFICES ASSUME NEW m \in DOMAIN c, NEW n \in DOMAIN c,
                          m <= Len(q), n > Len(q)
                   PROVE  c[m] # c[n]
        OBVIOUS
      <4>1. m \in DOMAIN q /\ c[m] = q[m]
        BY <1>1
      <4>2. n - Len(q) \in DOMAIN o /\ c[n] = o[n - Len(q)]
        BY <1>1
      <4> QED BY <4>1, <4>2, <1>5 DEF Range
    <3> QED BY <3>1, <2>4
  <2> QED BY <2>1, <2>2, <2>3, <2>4, <1>1
<1> QED BY <1>2, <1>3, <1>4, <1>5 DEF c

\* An order of a set of steps is a sequence of its members, each once.
LEMMA OrderOf ==
  ASSUME NEW S \in SUBSET Nodes, NEW o \in Orders(S)
  PROVE  o \in Seq(Nodes) /\ Range(o) = S /\ IsInjective(o)
<1>1. Cardinality(S) \in Nat
  BY NeedsAssumption, FS_Subset, FS_CardinalityType
<1>2. o \in [1 .. Cardinality(S) -> S] /\ IsInjective(o)
      /\ \A t \in S : \E i \in 1 .. Cardinality(S) : o[i] = t
  BY DEF Orders, Bijection, Injection, Surjection
<1>3. o \in Seq(Nodes)
  BY <1>1, <1>2
<1>4. Range(o) = S
  BY <1>2 DEF Range
<1> QED BY <1>2, <1>3, <1>4
----------------------------------------------------------------------------
(* The search.                                                             *)

\* `needs` never changes, and neither does what is derived from it.
LEMMA SameNeeds ==
  ASSUME needs' = needs
  PROVE  /\ \A s \in Nodes : Deps(s)' = Deps(s)
         /\ \A d : Dependents(d)' = Dependents(d)
         /\ Acyclic' <=> Acyclic
<1>1. \A s : Deps(s)' = Deps(s)
  BY DEF Deps
<1>2. \A d : Dependents(d)' = Dependents(d)
  BY <1>1 DEF Dependents
<1>3. Acyclic' <=> Acyclic
  BY <1>1 DEF Acyclic
<1> QED BY <1>1, <1>2, <1>3

\* A step that leaves the search alone.
LEMMA SearchSame ==
  ASSUME SearchInv, needs' = needs, visited' = visited, recStack' = recStack,
         stack' = stack
  PROVE  SearchInv'
<1>1. /\ \A s \in Nodes : Deps(s)' = Deps(s)
      /\ \A d : Dependents(d)' = Dependents(d)
  BY SameNeeds
<1>2. Finished' = Finished
  BY DEF Finished
<1>3. OnStack' /\ Distinct'
  BY DEF SearchInv, OnStack, Distinct
<1>4. Linked' /\ AheadOK'
  BY <1>1 DEF SearchInv, Linked, AheadOK
<1>5. Behind' /\ Closed'
  BY <1>1, <1>2 DEF SearchInv, Behind, Closed
<1>6. FinishedAcyclic'
  <2>1. \A s : Deps(s)' = Deps(s)
    BY DEF Deps
  <2> QED BY <2>1, <1>2 DEF SearchInv, FinishedAcyclic
<1> QED BY <1>3, <1>4, <1>5, <1>6 DEF SearchInv

\* The frames are calls for steps.
LEMMA NodesAreSteps ==
  ASSUME StateOK
  PROVE  \A i \in DOMAIN stack : stack[i].node \in Nodes
<1> SUFFICES ASSUME NEW i \in DOMAIN stack PROVE stack[i].node \in Nodes
  OBVIOUS
<1>1. stack \in Seq(Frames)
  BY DEF StateOK
<1>2. stack[i] \in Frames
  BY <1>1
<1> QED BY <1>2 DEF Frames

\* A call is made: the search grows by one frame whose node was not visited.
LEMMA Grows ==
  ASSUME StateOK, SearchInv, needs' = needs,
         NEW n \in Nodes \ visited,
         visited' = visited \cup {n}, recStack' = recStack \cup {n},
         stack' \in Seq(Frames), Len(stack') = Len(stack) + 1,
         \A i \in DOMAIN stack : stack'[i].node = stack[i].node,
         \A i \in DOMAIN stack : stack'[i].ahead \subseteq stack[i].ahead,
         \A i \in DOMAIN stack : \A d \in stack[i].ahead \ stack'[i].ahead :
            i = Len(stack) /\ d = n,
         stack'[Len(stack) + 1].node = n,
         stack'[Len(stack) + 1].ahead = Dependents(n),
         stack # <<>> => n \in Dependents(stack[Len(stack)].node)
  PROVE  SearchInv'
<1>1. /\ \A s \in Nodes : Deps(s)' = Deps(s)
      /\ \A d : Dependents(d)' = Dependents(d)
  BY SameNeeds
<1>2. Finished' = Finished
  BY DEF Finished, StateOK
<1>3. /\ Len(stack) \in Nat /\ DOMAIN stack = 1 .. Len(stack)
      /\ DOMAIN stack' = 1 .. Len(stack) + 1
      /\ (stack # <<>> => Len(stack) \in DOMAIN stack)
  BY DEF StateOK
<1>4. OnStack'
  BY <1>3 DEF SearchInv, OnStack
<1>5. Distinct'
  <2>1. \A i \in DOMAIN stack : stack[i].node # n
    BY DEF SearchInv, OnStack, StateOK
  <2> QED BY <2>1, <1>3 DEF SearchInv, Distinct
<1>6. Linked'
  <2> SUFFICES ASSUME NEW i \in DOMAIN stack', i + 1 \in DOMAIN stack'
               PROVE  stack'[i + 1].node \in Dependents(stack'[i].node)
    BY <1>1 DEF Linked
  <2>1. i \in DOMAIN stack
    BY <1>3
  <2>2. CASE i + 1 \in DOMAIN stack
    BY <2>1, <2>2 DEF SearchInv, Linked
  <2>3. CASE i = Len(stack)
    BY <2>1, <2>3, <1>3
  <2> QED BY <2>1, <2>2, <2>3, <1>3
<1>7. AheadOK'
  BY <1>1, <1>3 DEF SearchInv, AheadOK
<1>8. Behind'
  <2> SUFFICES ASSUME NEW i \in DOMAIN stack',
                      NEW d \in Dependents(stack'[i].node) \ stack'[i].ahead
               PROVE  \/ d \in Finished
                      \/ i + 1 \in DOMAIN stack' /\ d = stack'[i + 1].node
    BY <1>1, <1>2 DEF Behind
  <2>1. i \in DOMAIN stack
    BY <1>3
  <2>2. CASE d \in stack[i].ahead
    BY <2>1, <2>2, <1>3
  <2>3. CASE d \notin stack[i].ahead
    <3>1. \/ d \in Finished
          \/ i + 1 \in DOMAIN stack /\ d = stack[i + 1].node
      BY <2>1, <2>3 DEF SearchInv, Behind
    <3> QED BY <3>1, <1>3
  <2> QED BY <2>2, <2>3
<1>9. Closed'
  BY <1>1, <1>2 DEF SearchInv, Closed
<1>10. FinishedAcyclic'
  <2>1. \A s : Deps(s)' = Deps(s)
    BY DEF Deps
  <2> QED BY <2>1, <1>2 DEF SearchInv, FinishedAcyclic
<1> QED BY <1>4, <1>5, <1>6, <1>7, <1>8, <1>9, <1>10 DEF SearchInv

\* Dependents are steps.
LEMMA DependentsAreSteps == \A d : Dependents(d) \subseteq Nodes
BY DEF Dependents

\* A new search.
LEMMA SearchFromInv ==
  ASSUME StateOK, SearchInv, SearchFrom
  PROVE  SearchInv' /\ StateOK'
<1> DEFINE n == FirstOf(Nodes \ visited)
<1>1. n \in Nodes \ visited
  BY FirstOfIn DEF SearchFrom, StateOK
<1>2. /\ needs' = needs /\ stack = <<>>
      /\ visited' = visited \cup {n} /\ recStack' = recStack \cup {n}
      /\ stack' = Append(<<>>, [node |-> n, ahead |-> Dependents(n)])
      /\ UNCHANGED <<open, queue, sorted>>
  BY DEF SearchFrom, Enter, kahn
<1> HIDE DEF n
<1>3. [node |-> n, ahead |-> Dependents(n)] \in Frames
  BY <1>1, DependentsAreSteps DEF Frames
<1>4. /\ stack' \in Seq(Frames) /\ Len(stack') = 1 /\ Len(stack) = 0 /\ DOMAIN stack = {}
      /\ stack'[1] = [node |-> n, ahead |-> Dependents(n)]
  BY <1>2, <1>3
<1>5. SearchInv'
  BY <1>1, <1>2, <1>4, Grows
<1>6. StateOK'
  BY <1>1, <1>2, <1>4 DEF StateOK
<1> QED BY <1>5, <1>6

\* The neighbour the search turns to, and the frame it leaves behind.
LEMMA NeighbourFacts ==
  ASSUME StateOK, SearchInv, Visiting
  PROVE  /\ Len(stack) \in DOMAIN stack
         /\ Neighbour \in stack[Len(stack)].ahead
         /\ Neighbour \in Dependents(stack[Len(stack)].node)
         /\ Neighbour \in Nodes
         /\ Passed \in Seq(Frames) /\ Len(Passed) = Len(stack)
         /\ DOMAIN Passed = DOMAIN stack
         /\ \A i \in DOMAIN stack :
              /\ Passed[i].node = stack[i].node
              /\ Passed[i].ahead = IF i = Len(stack) THEN stack[i].ahead \ {Neighbour}
                                                      ELSE stack[i].ahead
<1>1. Len(stack) \in DOMAIN stack
  BY DEF StateOK, Visiting
<1>2. stack[Len(stack)] \in Frames
  BY <1>1 DEF StateOK
<1>3. Neighbour \in stack[Len(stack)].ahead
  BY <1>2, FirstOfIn DEF Neighbour, Visiting, Frames
<1>4. Neighbour \in Dependents(stack[Len(stack)].node) /\ Neighbour \in Nodes
  BY <1>1, <1>3, DependentsAreSteps DEF SearchInv, AheadOK
<1> DEFINE k == Len(stack)
           f == [stack[k] EXCEPT !.ahead = @ \ {Neighbour}]
<1>5. f \in Frames /\ f.node = stack[k].node /\ f.ahead = stack[k].ahead \ {Neighbour}
  BY <1>2 DEF Frames
<1>6. Passed = [stack EXCEPT ![k] = f]
  BY DEF Passed
<1> HIDE DEF f
<1>7. /\ Passed \in Seq(Frames) /\ Len(Passed) = k /\ DOMAIN Passed = DOMAIN stack
      /\ \A i \in DOMAIN stack : Passed[i] = IF i = k THEN f ELSE stack[i]
  BY <1>1, <1>5, <1>6 DEF StateOK
<1> QED BY <1>1, <1>3, <1>4, <1>5, <1>7

\* A call for a neighbour not seen before.
LEMMA DescendInv ==
  ASSUME StateOK, SearchInv, Descend
  PROVE  SearchInv' /\ StateOK'
<1> DEFINE n == Neighbour
           P == Passed
<1>0. Visiting
  BY DEF Descend
<1>1. n \in Nodes \ visited
  BY <1>0, NeighbourFacts DEF Descend
<1>2. /\ needs' = needs
      /\ visited' = visited \cup {n} /\ recStack' = recStack \cup {n}
      /\ stack' = Append(P, [node |-> n, ahead |-> Dependents(n)])
      /\ UNCHANGED <<open, queue, sorted>>
  BY DEF Descend, Enter, kahn
<1>3. /\ Len(stack) \in DOMAIN stack
      /\ n \in Dependents(stack[Len(stack)].node)
      /\ P \in Seq(Frames) /\ Len(P) = Len(stack) /\ DOMAIN P = DOMAIN stack
      /\ \A i \in DOMAIN stack :
              /\ P[i].node = stack[i].node
              /\ P[i].ahead = IF i = Len(stack) THEN stack[i].ahead \ {n} ELSE stack[i].ahead
  BY <1>0, NeighbourFacts, Zenon
<1> HIDE DEF n, P
<1>4. [node |-> n, ahead |-> Dependents(n)] \in Frames
  BY <1>1, DependentsAreSteps DEF Frames
<1>5. /\ stack' \in Seq(Frames) /\ Len(stack') = Len(stack) + 1
      /\ \A i \in DOMAIN stack : stack'[i] = P[i]
      /\ stack'[Len(stack) + 1] = [node |-> n, ahead |-> Dependents(n)]
  BY <1>2, <1>3, <1>4 DEF StateOK
<1>6. /\ \A i \in DOMAIN stack : stack'[i].node = stack[i].node
      /\ \A i \in DOMAIN stack : stack'[i].ahead \subseteq stack[i].ahead
      /\ \A i \in DOMAIN stack : \A d \in stack[i].ahead \ stack'[i].ahead :
            i = Len(stack) /\ d = n
      /\ stack'[Len(stack) + 1].node = n
      /\ stack'[Len(stack) + 1].ahead = Dependents(n)
  <2>1. \A i \in DOMAIN stack : stack'[i].node = stack[i].node
    BY <1>3, <1>5, Zenon
  <2>2. \A i \in DOMAIN stack :
          stack'[i].ahead = IF i = Len(stack) THEN stack[i].ahead \ {n} ELSE stack[i].ahead
    BY <1>3, <1>5, Zenon
  <2>3. \A i \in DOMAIN stack : stack'[i].ahead \subseteq stack[i].ahead
    BY <2>2
  <2>4. \A i \in DOMAIN stack : \A d \in stack[i].ahead \ stack'[i].ahead :
            i = Len(stack) /\ d = n
    BY <2>2
  <2>5. /\ stack'[Len(stack) + 1].node = n
        /\ stack'[Len(stack) + 1].ahead = Dependents(n)
    BY <1>5
  <2> QED BY <2>1, <2>3, <2>4, <2>5
<1>7. SearchInv'
  BY <1>1, <1>2, <1>3, <1>5, <1>6, Grows, Zenon
<1>8. StateOK'
  BY <1>1, <1>2, <1>5 DEF StateOK
<1> QED BY <1>7, <1>8
\* A neighbour seen before is passed.
LEMMA PassSeenInv ==
  ASSUME StateOK, SearchInv, PassSeen
  PROVE  SearchInv' /\ StateOK'
<1> DEFINE n == Neighbour
<1>0. Visiting
  BY DEF PassSeen
<1>1. /\ needs' = needs /\ visited' = visited /\ recStack' = recStack
      /\ stack' = Passed /\ UNCHANGED <<open, queue, sorted>>
      /\ n \in Finished
  BY DEF PassSeen, kahn, Finished
<1>2. /\ Len(stack) \in DOMAIN stack
      /\ stack' \in Seq(Frames) /\ Len(stack') = Len(stack) /\ DOMAIN stack' = DOMAIN stack
      /\ \A i \in DOMAIN stack : stack'[i].node = stack[i].node
      /\ \A i \in DOMAIN stack :
           stack'[i].ahead = IF i = Len(stack) THEN stack[i].ahead \ {n} ELSE stack[i].ahead
  BY <1>0, <1>1, NeighbourFacts, Zenon
<1> HIDE DEF n
<1>3. /\ \A s \in Nodes : Deps(s)' = Deps(s)
      /\ \A d : Dependents(d)' = Dependents(d)
  BY <1>1, SameNeeds
<1>4. Finished' = Finished
  BY <1>1 DEF Finished
<1>5. OnStack' /\ Distinct'
  BY <1>1, <1>2 DEF SearchInv, OnStack, Distinct
<1>6. Linked'
  BY <1>2, <1>3 DEF SearchInv, Linked
<1>7. AheadOK'
  BY <1>2, <1>3 DEF SearchInv, AheadOK
<1>8. Behind'
  <2> SUFFICES ASSUME NEW i \in DOMAIN stack,
                      NEW d \in Dependents(stack[i].node) \ stack'[i].ahead
               PROVE  \/ d \in Finished
                      \/ i + 1 \in DOMAIN stack /\ d = stack[i + 1].node
    BY <1>2, <1>3, <1>4 DEF Behind
  <2>1. CASE d = n
    BY <2>1, <1>1
  <2>2. CASE d # n
    <3>1. d \notin stack[i].ahead
      BY <2>2, <1>2
    <3> QED BY <3>1 DEF SearchInv, Behind
  <2> QED BY <2>1, <2>2
<1>9. Closed'
  BY <1>3, <1>4 DEF SearchInv, Closed
<1>10. FinishedAcyclic'
  <2>1. \A s : Deps(s)' = Deps(s)
    BY <1>1 DEF Deps
  <2> QED BY <2>1, <1>4 DEF SearchInv, FinishedAcyclic
<1>11. StateOK'
  BY <1>1, <1>2 DEF StateOK
<1> QED BY <1>5, <1>6, <1>7, <1>8, <1>9, <1>10, <1>11 DEF SearchInv

\* A call returns: its node is finished.  Nothing finished needs it back, so
\* it needs nothing that is finished, and no cycle can pass through it.
LEMMA LeaveInv ==
  ASSUME StateOK, SearchInv, Known, Leave
  PROVE  SearchInv' /\ StateOK'
<1> DEFINE k == Len(stack)
           n == stack[k].node
<1>1. /\ needs' = needs /\ visited' = visited /\ recStack' = recStack \ {n}
      /\ stack' = SubSeq(stack, 1, k - 1) /\ UNCHANGED <<open, queue, sorted>>
      /\ stack # <<>> /\ stack[k].ahead = {} /\ phase = "cycles"
  BY DEF Leave, kahn
<1>2. /\ k \in Nat \ {0} /\ DOMAIN stack = 1 .. k /\ k \in DOMAIN stack
      /\ stack' \in Seq(Frames) /\ Len(stack') = k - 1 /\ DOMAIN stack' = 1 .. k - 1
      /\ \A i \in 1 .. k - 1 : stack'[i] = stack[i]
  <2>1. stack \in Seq(Frames)
    BY DEF StateOK
  <2>2. k \in Nat \ {0} /\ DOMAIN stack = 1 .. k /\ k \in DOMAIN stack
    BY <2>1, <1>1
  <2>3. stack' = [i \in 1 .. k - 1 |-> stack[i]]
    BY <1>1, <2>1, <2>2
  <2>4. \A i \in 1 .. k - 1 : stack[i] \in Frames
    BY <2>1, <2>2
  <2> HIDE DEF k
  <2>5. stack' \in [1 .. k - 1 -> Frames] /\ k - 1 \in Nat
    BY <2>2, <2>3, <2>4
  <2> QED BY <2>2, <2>3, <2>5
<1>3. n \in recStack /\ n \in Nodes
  BY <1>2 DEF SearchInv, OnStack, StateOK, Frames
<1>4. Dependents(n) \subseteq Finished
  BY <1>1, <1>2 DEF SearchInv, Behind
<1>5. Finished' = Finished \cup {n} /\ n \notin Finished
  BY <1>1, <1>3 DEF Finished, StateOK
<1>6. \A s : Deps(s)' = Deps(s)
  BY <1>1 DEF Deps
<1>7. \A d : Dependents(d)' = Dependents(d)
  BY <1>1, SameNeeds
<1>8. OnStack'
  <2>1. \A i \in 1 .. k - 1 : stack[i].node # n
    BY <1>2 DEF SearchInv, Distinct
  <2>2. recStack = {stack[i].node : i \in 1 .. k}
    BY <1>2 DEF SearchInv, OnStack
  <2>3. recStack \ {n} = {stack[i].node : i \in 1 .. k - 1}
    BY <2>1, <2>2, <1>2
  <2>4. {stack'[i].node : i \in 1 .. k - 1} = {stack[i].node : i \in 1 .. k - 1}
    BY <1>2
  <2> QED BY <2>3, <2>4, <1>1, <1>2 DEF OnStack
<1>9. Distinct'
  BY <1>2 DEF SearchInv, Distinct
<1>10. Linked'
  BY <1>2, <1>7 DEF SearchInv, Linked
<1>11. AheadOK'
  BY <1>2, <1>7 DEF SearchInv, AheadOK
<1>12. Behind'
  <2> SUFFICES ASSUME NEW i \in 1 .. k - 1,
                      NEW d \in Dependents(stack[i].node) \ stack[i].ahead
               PROVE  \/ d \in Finished'
                      \/ i + 1 \in 1 .. k - 1 /\ d = stack[i + 1].node
    BY <1>2, <1>7 DEF Behind
  <2>1. \/ d \in Finished
        \/ i + 1 \in DOMAIN stack /\ d = stack[i + 1].node
    BY <1>2 DEF SearchInv, Behind
  <2> QED BY <2>1, <1>2, <1>5
<1>13. Closed'
  BY <1>4, <1>5, <1>7 DEF SearchInv, Closed
<1>14. FinishedAcyclic'
  <2> SUFFICES ASSUME NEW S \in SUBSET (Finished \cup {n}), S # {}
               PROVE  \E s \in S : Deps(s) \cap S = {}
    BY <1>5, <1>6 DEF FinishedAcyclic
  <2>1. CASE n \notin S
    BY <2>1 DEF SearchInv, FinishedAcyclic
  <2>2. CASE n \in S
    <3>1. ASSUME NEW d \in Deps(n) \cap S PROVE FALSE
      <4>1. d \in Nodes
        BY <1>1, <1>3 DEF Known
      <4>2. n \in Dependents(d)
        BY <1>3 DEF Dependents
      <4>3. CASE d = n
        BY <4>2, <4>3, <1>4, <1>5
      <4>4. CASE d \in Finished
        BY <4>2, <4>4, <1>5 DEF SearchInv, Closed
      <4> QED BY <4>3, <4>4
    <3> QED BY <3>1, <2>2
  <2> QED BY <2>1, <2>2
<1>15. StateOK'
  BY <1>1, <1>2, <1>3, <1>8 DEF StateOK, OnStack
<1> QED BY <1>8, <1>9, <1>10, <1>11, <1>12, <1>13, <1>14, <1>15 DEF SearchInv

\* The error is raised for a real cycle: the frames from the one of the
\* neighbour up to the top each need one of the others.
LEMMA FoundCycleIsOne ==
  ASSUME StateOK, SearchInv, FoundCycle
  PROVE  ~Acyclic
<1> DEFINE k == Len(stack)
           n == Neighbour
<1>1. /\ k \in DOMAIN stack /\ k \in Nat /\ DOMAIN stack = 1 .. k
      /\ n \in Dependents(stack[k].node)
  BY NeighbourFacts DEF FoundCycle, StateOK
<1>2. PICK j \in DOMAIN stack : stack[j].node = n
  BY DEF FoundCycle, SearchInv, OnStack
<1> HIDE DEF k, n
<1> DEFINE S == {stack[i].node : i \in j .. k}
<1>3. S \subseteq Nodes /\ S # {}
  <2>1. j \in j .. k /\ \A i \in j .. k : i \in DOMAIN stack
    BY <1>1, <1>2
  <2>2. \A i \in DOMAIN stack : stack[i].node \in Nodes
    BY NodesAreSteps
  <2> QED BY <2>1, <2>2
<1>4. ASSUME NEW i \in j .. k PROVE Deps(stack[i].node) \cap S # {}
  <2>1. CASE i = j
    <3>1. stack[k].node \in Deps(stack[i].node)
      BY <2>1, <1>1, <1>2 DEF Dependents
    <3>2. k \in j .. k
      BY <1>1, <1>2
    <3> QED BY <3>1, <3>2
  <2>2. CASE i # j
    <3>1. i - 1 \in j .. k /\ i - 1 \in DOMAIN stack /\ (i - 1) + 1 \in DOMAIN stack
          /\ (i - 1) + 1 = i
      BY <2>2, <1>1, <1>2
    <3>2. stack[i].node \in Dependents(stack[i - 1].node)
      BY <3>1 DEF SearchInv, Linked
    <3>3. stack[i - 1].node \in Deps(stack[i].node)
      BY <3>2 DEF Dependents
    <3> QED BY <3>1, <3>3
  <2> QED BY <2>1, <2>2
<1>5. \A s \in S : ~(Deps(s) \cap S = {})
  BY <1>4
<1> HIDE DEF S
<1> QED BY <1>3, <1>5 DEF Acyclic
----------------------------------------------------------------------------
(* The sort.                                                               *)

\* Once every step is finished there is no cycle.
LEMMA SearchedAll ==
  ASSUME StateOK, SearchInv, stack = <<>>, visited = Nodes
  PROVE  Acyclic
<1>1. recStack = {}
  BY DEF SearchInv, OnStack
<1>2. Finished = Nodes
  BY <1>1 DEF Finished
<1> QED BY <1>2 DEF SearchInv, FinishedAcyclic, Acyclic

\* The first queue holds the steps with nothing to count.
LEMMA StartSortInv ==
  ASSUME StateOK, StartSort
  PROVE  StateOK' /\ SortInv'
<1> DEFINE Z == {s \in Nodes : DOMAIN needs[s] = {}}
<1>1. /\ needs' = needs /\ queue' \in Orders(Z) /\ sorted' = <<>>
      /\ open' = [s \in Nodes |-> DOMAIN needs[s]]
      /\ UNCHANGED <<visited, recStack, stack>>
  BY DEF StartSort, search
<1>2. queue' \in Seq(Nodes) /\ Range(queue') = Z /\ IsInjective(queue')
  <2>1. Z \in SUBSET Nodes
    OBVIOUS
  <2> HIDE DEF Z
  <2> QED BY <1>1, <2>1, OrderOf
<1>3. Range(sorted') = {} /\ IsInjective(sorted') /\ sorted' \in Seq(Nodes)
  BY <1>1 DEF Range, IsInjective
<1>4. StateOK'
  <2>1. open' \in [Nodes -> SUBSET UNION {DOMAIN needs[s] : s \in Nodes}]
    BY <1>1
  <2> QED BY <2>1, <1>1, <1>2, <1>3 DEF StateOK
<1>5. OpenOK' /\ Counted'
  BY <1>1, <1>3 DEF OpenOK, Counted
<1>6. Ready' /\ OnceEach'
  BY <1>1, <1>2, <1>3 DEF Ready, OnceEach
<1> QED BY <1>4, <1>5, <1>6 DEF SortInv

\* One turn of Kahn's loop.
LEMMA PopInv ==
  ASSUME StateOK, SortInv, Pop
  PROVE  /\ StateOK' /\ SortInv'
         /\ Head(queue) \in Nodes \ Range(sorted)
         /\ open[Head(queue)] = {}
<1> DEFINE h == Head(queue)
           left(s) == {i \in open[s] : needs[s][i] # h}
           N == {s \in Nodes : open[s] # {} /\ left(s) = {}}
<1>1. /\ phase = "sort" /\ queue # <<>> /\ needs' = needs
      /\ sorted' = Append(sorted, h)
      /\ open' = [s \in Nodes |-> left(s)]
      /\ UNCHANGED <<phase, visited, recStack, stack>>
  BY DEF Pop, search
<1>2. PICK o \in Orders(N) : queue' = Tail(queue) \o o
  BY DEF Pop, KeyOrders
<1>3. OpenOK /\ Counted /\ Ready /\ OnceEach
  BY <1>1 DEF SortInv
<1>4. queue \in Seq(Nodes) /\ sorted \in Seq(Nodes) /\ IsInjective(queue) /\ IsInjective(sorted)
  BY <1>3 DEF StateOK, OnceEach
<1>5. /\ Tail(queue) \in Seq(Nodes) /\ h \in Nodes /\ h \in Range(queue)
      /\ Range(Tail(queue)) = Range(queue) \ {h} /\ IsInjective(Tail(queue))
  BY <1>1, <1>4, RangeTail
<1>6. o \in Seq(Nodes) /\ Range(o) = N /\ IsInjective(o)
  <2>1. N \in SUBSET Nodes
    OBVIOUS
  <2> HIDE DEF N
  <2> QED BY <2>1, OrderOf
<1>7. h \notin Range(sorted)
  BY <1>3, <1>5 DEF OnceEach
<1>8. open[h] = {}
  BY <1>3, <1>5 DEF Ready
<1> HIDE DEF h
<1>9. sorted' \in Seq(Nodes) /\ Range(sorted') = Range(sorted) \cup {h} /\ IsInjective(sorted')
  BY <1>1, <1>4, <1>5, <1>7, RangeAppend
<1>10. \A s \in N : s \notin Range(queue) /\ s \notin Range(sorted)
  BY <1>3 DEF Ready
<1>11. /\ queue' \in Seq(Nodes)
       /\ Range(queue') = (Range(queue) \ {h}) \cup N
       /\ IsInjective(queue')
  <2>1. Range(Tail(queue)) \cap Range(o) = {}
    BY <1>5, <1>6, <1>10
  <2> DEFINE t == Tail(queue)
  <2> HIDE DEF N, t
  <2>2. t \in Seq(Nodes) /\ IsInjective(t) /\ Range(t) = Range(queue) \ {h}
        /\ queue' = t \o o /\ Range(t) \cap Range(o) = {}
    BY <1>2, <1>5, <2>1 DEF t
  <2>3. t \o o \in Seq(Nodes)
    BY <2>2, <1>6
  <2>4. Range(t \o o) = Range(t) \cup Range(o) /\ IsInjective(t \o o)
    <3>1. /\ t \in Seq(Nodes) /\ o \in Seq(Nodes) /\ IsInjective(t) /\ IsInjective(o)
          /\ Range(t) \cap Range(o) = {}
      BY <2>2, <1>6
    <3>2. Range(t \o o) = Range(t) \cup Range(o)
      BY <3>1, RangeConcat
    <3>3. IsInjective(t \o o)
      BY <3>1, RangeConcat, Zenon
    <3> QED BY <3>2, <3>3
  <2> QED BY <2>2, <2>3, <2>4, <1>6
<1>12. StateOK'
  <2>1. open' \in [Nodes -> SUBSET UNION {DOMAIN needs[s] : s \in Nodes}]
    BY <1>1, <1>3 DEF OpenOK
  <2> QED BY <2>1, <1>1, <1>9, <1>11 DEF StateOK
<1>13. OpenOK'
  BY <1>1, <1>3 DEF OpenOK
<1>14. Counted'
  BY <1>1, <1>3, <1>9 DEF Counted
<1>15. Ready'
  <2> SUFFICES ASSUME NEW s \in Nodes
               PROVE  left(s) = {} <=> s \in Range(queue') \cup Range(sorted')
    BY <1>1 DEF Ready
  <2>1. open[s] = {} <=> s \in Range(queue) \cup Range(sorted)
    BY <1>3 DEF Ready
  <2>2. left(s) = {} <=> open[s] = {} \/ s \in N
    OBVIOUS
  <2> QED BY <2>1, <2>2, <1>5, <1>9, <1>11
<1>16. OnceEach'
  <2>1. Range(queue) \cap Range(sorted) = {}
    BY <1>3 DEF OnceEach
  <2>2. h \notin N
    BY <1>8
  <2>3. Range(queue') \cap Range(sorted') = {}
    BY <2>1, <2>2, <1>9, <1>10, <1>11
  <2> QED BY <2>3, <1>9, <1>11 DEF OnceEach
<1> QED BY <1>5, <1>7, <1>8, <1>12, <1>13, <1>14, <1>15, <1>16 DEF SortInv, h

\* The loop ends with every step emitted: among the steps left over one would
\* need none of the others, so nothing of it would be left to count.
LEMMA SortUsesAll ==
  ASSUME StateOK, Known, Verdict, SortInv, SortDone
  PROVE  phase' = "depths" /\ Range(sorted) = Nodes /\ IsInjective(sorted)
<1>1. phase = "sort" /\ queue = <<>> /\ OpenOK /\ Counted /\ Ready /\ OnceEach /\ Acyclic
  BY DEF SortDone, SortInv, Verdict
<1>2. Range(queue) = {}
  BY <1>1 DEF Range
<1> DEFINE S == Nodes \ Range(sorted)
<1>3. S = {}
  <2> SUFFICES ASSUME S # {} PROVE FALSE
    OBVIOUS
  <2>1. PICK s \in S : Deps(s) \cap S = {}
    BY <1>1 DEF Acyclic
  <2>2. Deps(s) \subseteq Range(sorted)
    BY <2>1, <1>1 DEF Known
  <2>3. \A i \in DOMAIN needs[s] : needs[s][i] \in Range(sorted)
    BY <2>2 DEF Deps
  <2>4. open[s] = {}
    BY <2>3, <1>1 DEF Counted, OpenOK
  <2> QED BY <2>4, <1>1, <1>2 DEF Ready
<1>4. sorted \in [1 .. Len(sorted) -> Nodes] /\ Len(sorted) \in Nat
  BY DEF StateOK
<1>5. sorted \in Bijection(1 .. Len(sorted), Nodes)
  BY <1>1, <1>3, <1>4 DEF Bijection, Injection, Surjection, OnceEach, Range
<1>6. Cardinality(Nodes) = Len(sorted)
  BY <1>4, <1>5, FS_CountingElements DEF ExistsBijection
<1>7. Range(sorted) = Nodes
  BY <1>3, <1>4 DEF Range
<1> QED BY <1>1, <1>6, <1>7 DEF SortDone, OnceEach

----------------------------------------------------------------------------
(* The invariant.                                                          *)

\* The invariant holds before build.
LEMMA IInvInit == DagInit => IInv
<1> SUFFICES ASSUME DagInit PROVE IInv
  OBVIOUS
<1>1. StateOK
  BY DEF DagInit, StateOK
<1>2. Finished = {} /\ DOMAIN stack = {} /\ recStack = {}
  BY DEF DagInit, Finished
<1>3. SearchInv
  BY <1>2 DEF SearchInv, OnStack, Distinct, Linked, AheadOK, Behind, Closed, FinishedAcyclic
<1> QED BY <1>1, <1>3 DEF DagInit, IInv, Known, Verdict, NothingSorted, SortInv, NotBailed

\* A step that leaves search and sort alone.
LEMMA AnalysisStep ==
  ASSUME IInv, needs' = needs, UNCHANGED <<visited, recStack, stack, kahn>>,
         phase' # "sort" \/ phase' = phase
  PROVE  StateOK' /\ SearchInv' /\ SortInv'
<1>1. StateOK'
  BY DEF IInv, StateOK, kahn
<1>2. SearchInv'
  BY SearchSame DEF IInv
<1>3. SortInv'
  <2>1. UNCHANGED <<needs, open, queue, sorted>>
    BY DEF kahn
  <2> QED BY <2>1 DEF IInv, SortInv, OpenOK, Counted, Ready, OnceEach
<1> QED BY <1>1, <1>2, <1>3

\* Every step of the code keeps the invariant.
LEMMA IInvNext == IInv /\ [DagNext]_dagVars => IInv'
<1> SUFFICES ASSUME IInv, [DagNext]_dagVars PROVE IInv'
  OBVIOUS
<1> USE DEF IInv
<1>1. needs' = needs
  BY DEF DagNext, dagVars, BuildDag, UnknownStep, SearchFrom, FoundCycle, PassSeen, Descend,
         CyclePath, Leave, StartSort, Pop, SortDone, Depth, StartGroups, Group, AnalysisDone
<1>2. \A s : Deps(s)' = Deps(s)
  BY <1>1 DEF Deps
<1>3. Acyclic' <=> Acyclic
  BY <1>1, SameNeeds
<1>4. CASE BuildDag
  <2>1. StateOK' /\ SearchInv' /\ SortInv'
    BY <1>1, <1>4, AnalysisStep DEF BuildDag, search
  <2> QED BY <2>1, <1>2, <1>4
          DEF BuildDag, kahn, Known, Verdict, NothingSorted, NotBailed
<1>5. CASE UnknownStep
  <2>1. StateOK' /\ SearchInv' /\ SortInv'
    BY <1>1, <1>5, AnalysisStep DEF UnknownStep, search
  <2> QED BY <2>1, <1>2, <1>5
          DEF UnknownStep, kahn, Known, Verdict, NothingSorted, NotBailed
<1>6. CASE SearchFrom
  <2>1. StateOK' /\ SearchInv'
    BY <1>6, SearchFromInv
  <2> QED BY <2>1, <1>2, <1>6
          DEF SearchFrom, kahn, Known, Verdict, NothingSorted, SortInv, NotBailed
<1>7. CASE FoundCycle
  <2>1. StateOK' /\ SearchInv' /\ SortInv'
    BY <1>1, <1>7, AnalysisStep DEF FoundCycle
  <2>2. ~Acyclic'
    BY <1>3, <1>7, FoundCycleIsOne
  <2>3. phase = "cycles" /\ phase' = "path"
    BY <1>7 DEF FoundCycle, Visiting
  <2> QED BY <2>1, <2>2, <2>3, <1>2, <1>7
          DEF FoundCycle, kahn, Known, Verdict, NothingSorted, NotBailed
<1>8. CASE PassSeen
  <2>1. StateOK' /\ SearchInv'
    BY <1>8, PassSeenInv
  <2> QED BY <2>1, <1>2, <1>8
          DEF PassSeen, Visiting, kahn, Known, Verdict, NothingSorted, SortInv, NotBailed
<1>9. CASE Descend
  <2>1. StateOK' /\ SearchInv'
    BY <1>9, DescendInv
  <2> QED BY <2>1, <1>2, <1>9
          DEF Descend, Visiting, kahn, Known, Verdict, NothingSorted, SortInv, NotBailed
<1>10. CASE CyclePath
  <2>0. phase = "path" /\ phase' \in {"path", "cycle"}
    BY <1>10 DEF CyclePath
  <2>1. StateOK' /\ SearchInv' /\ SortInv'
    BY <2>0, <1>1, <1>10, AnalysisStep DEF CyclePath
  <2> QED BY <2>0, <2>1, <1>2, <1>3, <1>10
          DEF CyclePath, kahn, Known, Verdict, NothingSorted, NotBailed
<1>11. CASE Leave
  <2>1. StateOK' /\ SearchInv'
    BY <1>11, LeaveInv
  <2> QED BY <2>1, <1>2, <1>11
          DEF Leave, kahn, Known, Verdict, NothingSorted, SortInv, NotBailed
<1>12. CASE StartSort
  <2>1. StateOK' /\ SortInv'
    BY <1>12, StartSortInv
  <2>2. SearchInv'
    BY <1>1, <1>12, SearchSame DEF StartSort, search
  <2>3. Acyclic'
    BY <1>3, <1>12, SearchedAll DEF StartSort
  <2> QED BY <2>1, <2>2, <2>3, <1>2, <1>12
          DEF StartSort, Known, Verdict, NothingSorted, NotBailed
<1>13. CASE Pop
  <2>1. StateOK' /\ SortInv'
    BY <1>13, PopInv
  <2>2. SearchInv'
    BY <1>1, <1>13, SearchSame DEF Pop, search
  <2> QED BY <2>1, <2>2, <1>2, <1>3, <1>13
          DEF Pop, Known, Verdict, NothingSorted, NotBailed
<1>14. CASE SortDone
  <2>0. phase = "sort" /\ phase' = "depths"
    BY <1>14, SortUsesAll DEF SortDone
  <2>1. StateOK' /\ SearchInv' /\ SortInv'
    BY <2>0, <1>1, <1>14, AnalysisStep DEF SortDone, search
  <2> QED BY <2>0, <2>1, <1>2, <1>3 DEF Known, Verdict, NothingSorted, NotBailed
<1>15. CASE Depth \/ StartGroups \/ Group \/ AnalysisDone
  <2>0. phase \in {"depths", "groups"} /\ phase' \in {"depths", "groups", "done"}
    BY <1>15 DEF Depth, StartGroups, Group, AnalysisDone
  <2>1. UNCHANGED <<visited, recStack, stack, kahn>>
    BY <1>15 DEF Depth, StartGroups, Group, AnalysisDone, search
  <2>2. StateOK' /\ SearchInv' /\ SortInv'
    BY <2>0, <2>1, <1>1, AnalysisStep
  <2> QED BY <2>0, <2>2, <1>2, <1>3 DEF Known, Verdict, NothingSorted, NotBailed
<1>16. CASE UNCHANGED dagVars
  <2>1. UNCHANGED <<visited, recStack, stack, kahn, phase>>
    BY <1>16 DEF dagVars, search
  <2>2. StateOK' /\ SearchInv' /\ SortInv'
    BY <2>1, <1>1, AnalysisStep
  <2> QED BY <2>1, <2>2, <1>2, <1>3 DEF kahn, Known, Verdict, NothingSorted, NotBailed
<1> QED BY <1>4, <1>5, <1>6, <1>7, <1>8, <1>9, <1>10, <1>11, <1>12, <1>13, <1>14,
           <1>15, <1>16 DEF DagNext

\* The inductive invariant holds throughout build, sort and analysis.
THEOREM InvariantHolds == DagSpec => []IInv
<1>1. DagInit => IInv
  BY IInvInit
<1>2. IInv /\ [DagNext]_dagVars => IInv'
  BY IInvNext
<1> QED BY <1>1, <1>2, PTL DEF DagSpec

\* check_cycles refuses exactly the pipelines with a cycle.
THEOREM CycleVerdictHolds == DagSpec => []CycleVerdict
<1>1. IInv => CycleVerdict
  BY DEF IInv, Verdict, CycleVerdict
<1> QED BY <1>1, InvariantHolds, PTL

\* The second error of topological_sort ("Pipeline contains cycles") is never
\* reached.
THEOREM SortSucceedsHolds == DagSpec => []SortSucceeds
<1>1. IInv => SortSucceeds
  BY DEF IInv, NotBailed, SortSucceeds
<1> QED BY <1>1, InvariantHolds, PTL

\* `*degree -= 1` never wraps, also with a name listed twice.
THEOREM NoUnderflowHolds == DagSpec => []NoUnderflow
<1>1. IInv => NoUnderflow
  <2> SUFFICES ASSUME IInv, phase = "sort", queue # <<>>,
                      NEW s \in Nodes, NEW i \in DOMAIN needs[s],
                      needs[s][i] = Head(queue)
               PROVE  i \in open[s]
    BY DEF NoUnderflow
  <2>1. queue \in Seq(Nodes) /\ IsInjective(queue) /\ Counted
        /\ Range(queue) \cap Range(sorted) = {}
    BY DEF IInv, StateOK, SortInv, OnceEach
  <2>2. Head(queue) \in Range(queue)
    BY <2>1, RangeTail
  <2> QED BY <2>1, <2>2 DEF Counted
<1> QED BY <1>1, InvariantHolds, PTL

\* topological_sort implements StepOrder: each step is emitted once, after all
\* the steps it needs.
THEOREM EmitsInOrderHolds == DagSpec => EmitsInOrder
<1>1. DagInit => Order!Init
  BY DEF DagInit, Order!Init
<1>2. IInv /\ [DagNext]_dagVars => [Order!Next]_(Order!vars)
  <2> SUFFICES ASSUME IInv, [DagNext]_dagVars PROVE [Order!Next]_(Order!vars)
    OBVIOUS
  <2>1. needs' = needs
    BY DEF DagNext, dagVars, BuildDag, UnknownStep, SearchFrom, FoundCycle, PassSeen, Descend,
           CyclePath, Leave, StartSort, Pop, SortDone, Depth, StartGroups, Group, AnalysisDone
  <2>2. \A s : Deps(s)' = Deps(s)
    BY <2>1 DEF Deps
  <2> DEFINE D == [s \in Nodes |-> Deps(s) \cap Nodes]
  <2>3. D' = D
    BY <2>2
  <2>4. CASE Pop
    <3> DEFINE h == Head(queue)
    <3>1. h \in Nodes \ Range(sorted) /\ open[h] = {}
      BY <2>4, PopInv DEF IInv
    <3>2. sorted' = Append(sorted, h) /\ Counted
      BY <2>4 DEF Pop, IInv, SortInv
    <3>3. Deps(h) \subseteq Range(sorted)
      BY <3>1, <3>2 DEF Counted, Deps
    <3>4. Order!Emitted = Range(sorted)
      BY DEF Order!Emitted, Range
    <3>5. Order!Emit(h)
      BY <2>3, <3>1, <3>2, <3>3, <3>4 DEF Order!Emit
    <3> QED BY <3>1, <3>5 DEF Order!Next
  <2>5. CASE ~Pop
    <3>1. sorted' = sorted
      BY <2>5 DEF DagNext, dagVars, kahn, BuildDag, UnknownStep, SearchFrom, FoundCycle, PassSeen,
             Descend, CyclePath, Leave, StartSort, SortDone, Depth, StartGroups, Group,
             AnalysisDone, IInv, NothingSorted
    <3> QED BY <3>1, <2>3 DEF Order!vars
  <2> QED BY <2>4, <2>5
<1> QED BY <1>1, <1>2, InvariantHolds, PTL DEF DagSpec, EmitsInOrder, Order!Spec
----------------------------------------------------------------------------
(* The path in the error.  Neighbours are taken in the order of Keys, and  *)
(* build_cycle_path takes the first dependent on the recursion stack in    *)
(* the same order: it finds the very calls of the search again, one after  *)
(* the other, and closes at the top of the stack.                          *)

\* What is still ahead of a call comes after everything it has passed.
InKeyOrder ==
  \A i \in DOMAIN stack :
    \A d \in Dependents(stack[i].node) \ stack[i].ahead, e \in stack[i].ahead :
      Index(d) < Index(e)

\* The neighbour a call descended to is behind it.
CallPassed ==
  \A i \in DOMAIN stack : i + 1 \in DOMAIN stack => stack[i + 1].node \notin stack[i].ahead

\* The path so far is the calls from number j on, the one for the neighbour
\* that the top of the recursion found on the stack.
Follows(j) ==
  /\ stack[j].node = Neighbour
  /\ Len(path) \in 1 .. Len(stack) - j + 1
  /\ \A m \in 1 .. Len(path) : path[m] = stack[j + m - 1].node

OnPath ==
  phase = "path" =>
    /\ stack # <<>>
    /\ stack[Len(stack)].ahead # {}
    /\ path \in Seq(Nodes)
    /\ \E j \in DOMAIN stack : Follows(j)

PathInv == InKeyOrder /\ CallPassed /\ OnPath /\ PathIsCycle

\* A step of the code that leaves the recursion alone and is not about the path.
LEMMA PathSame ==
  ASSUME PathInv, needs' = needs, stack' = stack, phase' \notin {"path", "cycle"}
  PROVE  PathInv'
<1>1. \A d : Dependents(d)' = Dependents(d)
  BY SameNeeds
<1>2. InKeyOrder' /\ CallPassed'
  BY <1>1 DEF PathInv, InKeyOrder, CallPassed
<1> QED BY <1>2 DEF PathInv, OnPath, PathIsCycle

\* The neighbour the top of the recursion turns to is the first ahead of it.
LEMMA PassedInOrder ==
  ASSUME StateOK, SearchInv, PathInv, Visiting
  PROVE  \A i \in DOMAIN stack :
           \A d \in Dependents(stack[i].node) \ Passed[i].ahead, e \in Passed[i].ahead :
             Index(d) < Index(e)
<1> DEFINE k == Len(stack)
           n == Neighbour
<1>1. /\ k \in DOMAIN stack /\ n \in stack[k].ahead
      /\ \A i \in DOMAIN stack :
           Passed[i].ahead = IF i = k THEN stack[i].ahead \ {n} ELSE stack[i].ahead
  BY NeighbourFacts, Zenon
<1>2. stack[k].ahead \in SUBSET Nodes
  BY <1>1, DependentsAreSteps DEF SearchInv, AheadOK
<1>3. \A e \in stack[k].ahead : Index(n) <= Index(e)
  BY <1>1, <1>2, FirstOfLeast DEF Neighbour
<1> SUFFICES ASSUME NEW i \in DOMAIN stack,
                    NEW d \in Dependents(stack[i].node) \ Passed[i].ahead,
                    NEW e \in Passed[i].ahead
             PROVE  Index(d) < Index(e)
  OBVIOUS
<1> HIDE DEF n, k
<1>4. CASE d \notin stack[i].ahead
  BY <1>4, <1>1 DEF PathInv, InKeyOrder
<1>5. CASE d \in stack[i].ahead
  <2>1. i = k /\ d = n /\ e # n /\ e \in stack[k].ahead
    BY <1>1, <1>5
  <2>2. Index(n) <= Index(e) /\ n \in Nodes /\ e \in Nodes
    BY <2>1, <1>1, <1>2, <1>3
  <2> QED BY <2>1, <2>2, OwnIndex
<1> QED BY <1>4, <1>5

\* The search keeps its calls in the order of Keys.
LEMMA PathSearch ==
  ASSUME IInv, PathInv, SearchFrom \/ PassSeen \/ Descend \/ Leave
  PROVE  PathInv'
<1> DEFINE k == Len(stack)
<1>0. /\ needs' = needs /\ phase' = "cycles"
      /\ StateOK /\ SearchInv /\ StateOK' /\ SearchInv'
  <2>1. needs' = needs /\ phase' = "cycles"
    BY DEF SearchFrom, PassSeen, Descend, Leave, Visiting
  <2> QED BY <2>1, SearchFromInv, PassSeenInv, DescendInv, LeaveInv DEF IInv
<1>1. \A d : Dependents(d)' = Dependents(d)
  BY <1>0, SameNeeds
<1>2. k \in Nat /\ DOMAIN stack = 1 .. k
  BY <1>0 DEF StateOK
<1> SUFFICES InKeyOrder' /\ CallPassed'
  BY <1>0 DEF PathInv, OnPath, PathIsCycle
<1>3. CASE SearchFrom
  <2>1. PICK n : stack' = Append(<<>>, [node |-> n, ahead |-> Dependents(n)])
    BY <1>3 DEF SearchFrom, Enter
  <2>2. DOMAIN stack' = {1} /\ stack'[1].node = n /\ stack'[1].ahead = Dependents(n)
    BY <2>1
  <2> QED BY <2>2, <1>1 DEF InKeyOrder, CallPassed
<1>4. CASE PassSeen
  <2>1. /\ stack' = Passed /\ DOMAIN stack' = DOMAIN stack /\ Visiting
        /\ \A i \in DOMAIN stack : stack'[i].node = stack[i].node
        /\ \A i \in DOMAIN stack : stack'[i].ahead \subseteq stack[i].ahead
    <3>1. Visiting /\ stack' = Passed
      BY <1>4 DEF PassSeen
    <3>2. /\ DOMAIN Passed = DOMAIN stack
          /\ \A i \in DOMAIN stack : Passed[i].node = stack[i].node
          /\ \A i \in DOMAIN stack : Passed[i].ahead = stack[i].ahead
                \/ Passed[i].ahead = stack[i].ahead \ {Neighbour}
      BY <1>0, <3>1, NeighbourFacts, Zenon
    <3> QED BY <3>1, <3>2
  <2>2. InKeyOrder'
    BY <2>1, <1>0, <1>1, PassedInOrder DEF InKeyOrder
  <2>3. CallPassed'
    BY <2>1 DEF PathInv, CallPassed
  <2> QED BY <2>2, <2>3
<1>5. CASE Descend
  <2> DEFINE n == Neighbour
             P == Passed
             f == [node |-> n, ahead |-> Dependents(n)]
  <2>1. Visiting /\ stack' = Append(P, f)
    BY <1>5 DEF Descend, Enter
  <2>2. /\ P \in Seq(Frames) /\ Len(P) = k /\ DOMAIN P = DOMAIN stack /\ k \in DOMAIN stack
        /\ \A i \in DOMAIN stack : P[i].node = stack[i].node
        /\ \A i \in DOMAIN stack :
             P[i].ahead = IF i = k THEN stack[i].ahead \ {n} ELSE stack[i].ahead
    BY <1>0, <2>1, NeighbourFacts, Zenon
  <2>3. \A i \in DOMAIN stack :
          \A d \in Dependents(stack[i].node) \ P[i].ahead, e \in P[i].ahead :
             Index(d) < Index(e)
    BY <1>0, <2>1, PassedInOrder
  <2>4. f.node = n /\ f.ahead = Dependents(n)
    OBVIOUS
  <2> HIDE DEF P, f, n, k
  <2>5. /\ DOMAIN stack' = 1 .. k + 1
        /\ \A i \in DOMAIN stack : stack'[i] = P[i]
        /\ stack'[k + 1] = f
    BY <2>1, <2>2, <1>2
  <2>6. InKeyOrder'
    <3> SUFFICES ASSUME NEW i \in DOMAIN stack',
                        NEW d \in Dependents(stack'[i].node) \ stack'[i].ahead,
                        NEW e \in stack'[i].ahead
                 PROVE  Index(d) < Index(e)
      BY <1>1 DEF InKeyOrder
    <3>1. CASE i \in DOMAIN stack
      BY <3>1, <2>2, <2>3, <2>5
    <3>2. CASE i = k + 1
      BY <3>2, <2>4, <2>5
    <3> QED BY <3>1, <3>2, <2>5, <1>2
  <2>7. CallPassed'
    <3> SUFFICES ASSUME NEW i \in DOMAIN stack', i + 1 \in DOMAIN stack'
                 PROVE  stack'[i + 1].node \notin stack'[i].ahead
      BY DEF CallPassed
    <3>0. i \in DOMAIN stack
      BY <2>5, <1>2
    <3>1. i \in DOMAIN stack /\ stack'[i].ahead \subseteq stack[i].ahead
      BY <3>0, <2>2, <2>5
    <3>2. CASE i + 1 \in DOMAIN stack
      BY <3>1, <3>2, <2>2, <2>5 DEF PathInv, CallPassed
    <3>3. CASE i = k
      BY <3>1, <3>3, <2>2, <2>4, <2>5
    <3> QED BY <3>1, <3>2, <3>3, <1>2
  <2> QED BY <2>6, <2>7
<1>6. CASE Leave
  <2>1. stack' = SubSeq(stack, 1, k - 1) /\ stack # <<>> /\ stack \in Seq(Frames)
    BY <1>6, <1>0 DEF Leave, StateOK
  <2>2. DOMAIN stack' \subseteq DOMAIN stack /\ \A i \in DOMAIN stack' : stack'[i] = stack[i]
    <3>1. stack' = [i \in 1 .. k - 1 |-> stack[i]]
      BY <2>1, <1>2
    <3> QED BY <3>1, <1>2
  <2>3. InKeyOrder'
    BY <2>2, <1>1 DEF PathInv, InKeyOrder
  <2>4. CallPassed'
    BY <2>2 DEF PathInv, CallPassed
  <2> QED BY <2>3, <2>4
<1> QED BY <1>3, <1>4, <1>5, <1>6

\* The neighbour found on the stack starts the path.
LEMMA PathStarts ==
  ASSUME IInv, PathInv, FoundCycle
  PROVE  PathInv'
<1>1. /\ needs' = needs /\ stack' = stack /\ phase' = "path" /\ path' = <<Neighbour>>
      /\ Visiting /\ Neighbour \in recStack
  BY DEF FoundCycle
<1>2. \A d : Dependents(d)' = Dependents(d)
  BY <1>1, SameNeeds
<1>3. InKeyOrder' /\ CallPassed'
  BY <1>1, <1>2 DEF PathInv, InKeyOrder, CallPassed
<1>4. PICK j \in DOMAIN stack : stack[j].node = Neighbour
  BY <1>1 DEF IInv, SearchInv, OnStack
<1>5. Neighbour' = Neighbour
  BY <1>1 DEF Neighbour
<1>6. Neighbour \in Nodes /\ DOMAIN stack = 1 .. Len(stack) /\ Len(stack) \in Nat
  BY <1>1, NeighbourFacts DEF IInv, StateOK
<1>7. path' \in Seq(Nodes) /\ Len(path') = 1 /\ path'[1] = Neighbour
  BY <1>1, <1>6
<1>8. Follows(j)'
  BY <1>1, <1>4, <1>5, <1>6, <1>7 DEF Follows
<1> QED BY <1>1, <1>3, <1>4, <1>7, <1>8 DEF PathInv, OnPath, PathIsCycle, Visiting

\* The recursion is never deeper than there are steps.
LEMMA StackBounded ==
  ASSUME StateOK, Distinct
  PROVE  Len(stack) \in Nat /\ Cardinality(Nodes) \in Nat /\ Len(stack) <= Cardinality(Nodes)
<1> DEFINE k == Len(stack)
           N == {stack[i].node : i \in 1 .. k}
           f == [i \in 1 .. k |-> stack[i].node]
<1>1. k \in Nat /\ DOMAIN stack = 1 .. k
  BY DEF StateOK
<1>2. N \subseteq Nodes
  BY <1>1, NodesAreSteps
<1> HIDE DEF k
<1>3. f \in Bijection(1 .. k, N)
  BY <1>1 DEF Bijection, Injection, Surjection, IsInjective, Distinct
<1> HIDE DEF f, N
<1>4. IsFiniteSet(Nodes) /\ Cardinality(N) <= Cardinality(Nodes)
  BY <1>2, NeedsAssumption, FS_Subset
<1>5. Cardinality(N) = k
  BY <1>1, <1>3, FS_CountingElements DEF ExistsBijection
<1> QED BY <1>1, <1>4, <1>5, FS_CardinalityType DEF k

\* From a call of the recursion build_cycle_path turns to the next one, and
\* from the top to the neighbour that closes the cycle.
LEMMA NextOnStack ==
  ASSUME StateOK, SearchInv, PathInv, NEW i \in DOMAIN stack,
         stack # <<>>, stack[Len(stack)].ahead # {}, Neighbour \in recStack
  PROVE  LET onStack == Dependents(stack[i].node) \cap recStack IN
         /\ onStack # {}
         /\ FirstOf(onStack) = IF i = Len(stack) THEN Neighbour ELSE stack[i + 1].node
<1> DEFINE k == Len(stack)
           n == Neighbour
           S == Dependents(stack[i].node) \cap recStack
           x == IF i = k THEN n ELSE stack[i + 1].node
<1>1. /\ k \in Nat /\ DOMAIN stack = 1 .. k /\ k \in DOMAIN stack
      /\ \A d \in S : d \notin Finished
  BY DEF StateOK, Finished
<1>2. S \in SUBSET Nodes
  BY DependentsAreSteps
<1>3. x \in S /\ \A t \in S : Index(x) <= Index(t)
  <2>1. CASE i = k
    <3>1. stack[k].ahead \in SUBSET Dependents(stack[k].node) /\ stack[k].ahead \in SUBSET Nodes
      BY <1>1, DependentsAreSteps DEF SearchInv, AheadOK
    <3>2. n \in stack[k].ahead /\ \A t \in stack[k].ahead : Index(n) <= Index(t)
      BY <3>1, FirstOfLeast DEF Neighbour
    <3>3. n \in S
      BY <2>1, <3>1, <3>2
    <3>4. ASSUME NEW t \in S PROVE t \in stack[k].ahead
      <4>1. i + 1 \notin DOMAIN stack
        BY <2>1, <1>1
      <4> HIDE DEF k, n
      <4> QED BY <4>1, <2>1, <1>1 DEF SearchInv, Behind
    <3> QED BY <2>1, <3>2, <3>3, <3>4
  <2>2. CASE i # k
    <3>1. i + 1 \in DOMAIN stack
      BY <2>2, <1>1
    <3>2. x = stack[i + 1].node
      BY <2>2
    <3>3. /\ x \in Dependents(stack[i].node) /\ x \in recStack
          /\ x \notin stack[i].ahead
      BY <3>1, <3>2 DEF SearchInv, Linked, OnStack, PathInv, CallPassed
    <3>4. x \in S
      BY <3>3
    <3> HIDE DEF x
    <3>5. ASSUME NEW t \in S PROVE Index(x) <= Index(t)
      <4>0. t \in Nodes /\ x \in Nodes
        BY <1>2, <3>4
      <4>1. CASE t \in stack[i].ahead
        BY <4>0, <4>1, <3>3, OwnIndex DEF PathInv, InKeyOrder
      <4>2. CASE t \notin stack[i].ahead
        <5>1. t = x
          BY <4>2, <1>1, <3>2 DEF SearchInv, Behind
        <5> QED BY <5>1, <4>0, OwnIndex
      <4> QED BY <4>1, <4>2
    <3> QED BY <3>4, <3>5
  <2> QED BY <2>1, <2>2
<1> HIDE DEF x, S
<1>4. FirstOf(S) = x
  BY <1>2, <1>3, FirstIs
<1> QED BY <1>3, <1>4 DEF x, S

\* One turn of build_cycle_path.
LEMMA PathGrows ==
  ASSUME IInv, PathInv, CyclePath
  PROVE  PathInv'
<1> DEFINE k == Len(stack)
           p == Len(path)
           S == Dependents(path[p]) \cap recStack
<1>1. /\ needs' = needs /\ stack' = stack /\ phase = "path"
      /\ StateOK /\ SearchInv
  BY DEF CyclePath, IInv
<1>2. \A d : Dependents(d)' = Dependents(d)
  BY <1>1, SameNeeds
<1>3. InKeyOrder' /\ CallPassed'
  BY <1>1, <1>2 DEF PathInv, InKeyOrder, CallPassed
<1>4. PICK j \in DOMAIN stack : Follows(j)
  BY <1>1 DEF PathInv, OnPath
<1>5. /\ stack # <<>> /\ stack[k].ahead # {} /\ path \in Seq(Nodes)
      /\ stack[j].node = Neighbour
      /\ p \in 1 .. k - j + 1
      /\ \A m \in 1 .. p : path[m] = stack[j + m - 1].node
  BY <1>1, <1>4 DEF PathInv, OnPath, Follows
<1>6. /\ k \in Nat /\ DOMAIN stack = 1 .. k /\ k <= Cardinality(Nodes)
      /\ Cardinality(Nodes) \in Nat /\ DOMAIN path = 1 .. p /\ p \in Nat
      /\ j \in 1 .. k
  BY <1>1, <1>5, StackBounded DEF SearchInv, StateOK
<1>7. Neighbour \in recStack /\ Neighbour' = Neighbour
  BY <1>1, <1>5 DEF SearchInv, OnStack, Neighbour
<1> DEFINE i == j + p - 1
           n == IF i = k THEN Neighbour ELSE stack[i + 1].node
<1>8. i \in DOMAIN stack /\ path[p] = stack[i].node /\ path[1] = Neighbour
  BY <1>5, <1>6
<1>9. S # {} /\ FirstOf(S) = n /\ n \in S
  <2>1. S = Dependents(stack[i].node) \cap recStack
    BY <1>8
  <2>2. S # {} /\ FirstOf(S) = n
    BY <2>1, <1>1, <1>5, <1>7, <1>8, NextOnStack
  <2>3. S \in SUBSET Nodes
    BY DependentsAreSteps
  <2> QED BY <2>2, <2>3, FirstOfIn
<1>10. ~(p > Cardinality(Nodes))
  BY <1>5, <1>6
<1>11. n \in Nodes /\ path[p] \in Deps(n)
  BY <1>9 DEF Dependents
<1>12. /\ phase' = IF n = path[1] THEN "cycle" ELSE "path"
       /\ path' = Append(path, n)
  BY <1>9, <1>10 DEF CyclePath
<1> HIDE DEF n, S
<1>13. /\ path' \in Seq(Nodes) /\ Len(path') = p + 1 /\ path'[p + 1] = n
       /\ \A m \in 1 .. p : path'[m] = path[m]
  BY <1>5, <1>11, <1>12
<1>14. CASE i = k
  <2>1. n = path[1]
    BY <1>8, <1>14 DEF n
  <2>2. ASSUME NEW m \in 1 .. Len(path') - 1 PROVE path'[m] \in Deps(path'[m + 1])
    <3>1. CASE m = p
      BY <3>1, <1>6, <1>11, <1>13, <1>5
    <3>2. CASE m # p
      <4>0. p \in 1 .. k - j + 1 /\ Len(path') = p + 1
        BY <1>5, <1>13
      <4> HIDE DEF p, k
      <4>1. m \in 1 .. p /\ m + 1 \in 1 .. p /\ j + m - 1 \in DOMAIN stack
            /\ (j + m - 1) + 1 \in DOMAIN stack /\ j + (m + 1) - 1 = (j + m - 1) + 1
        BY <4>0, <3>2, <1>6
      <4>2. path'[m] = stack[j + m - 1].node /\ path'[m + 1] = stack[(j + m - 1) + 1].node
        BY <4>1, <1>5, <1>13
      <4>3. stack[(j + m - 1) + 1].node \in Dependents(stack[j + m - 1].node)
        BY <4>1, <1>1 DEF SearchInv, Linked
      <4> QED BY <4>2, <4>3 DEF Dependents
    <3> QED BY <3>1, <3>2
  <2>3. \A s : Deps(s)' = Deps(s)
    BY <1>1 DEF Deps
  <2>4. PathIsCycle'
    <3>1. Len(path') > 1 /\ path'[1] = path'[Len(path')]
      BY <2>1, <1>5, <1>6, <1>13
    <3> QED BY <3>1, <2>2, <2>3 DEF PathIsCycle
  <2> QED BY <2>1, <2>4, <1>3, <1>12 DEF PathInv, OnPath
<1>15. CASE i # k
  <2>1. n = stack[i + 1].node /\ i + 1 \in DOMAIN stack /\ i + 1 # j /\ i + 1 = j + (p + 1) - 1
    BY <1>5, <1>6, <1>8, <1>15 DEF n
  <2>2. n # path[1]
    BY <2>1, <1>1, <1>5, <1>8 DEF SearchInv, Distinct
  <2>3. Follows(j)'
    <3>1. Len(path') \in 1 .. k - j + 1
      BY <2>1, <1>5, <1>6, <1>13
    <3>2. ASSUME NEW m \in 1 .. Len(path') PROVE path'[m] = stack[j + m - 1].node
      <4>1. CASE m = p + 1
        BY <4>1, <2>1, <1>13
      <4>2. CASE m # p + 1
        BY <4>2, <1>5, <1>6, <1>13
      <4> QED BY <4>1, <4>2
    <3> QED BY <3>1, <3>2, <1>1, <1>5, <1>7 DEF Follows
  <2> QED BY <2>2, <2>3, <1>1, <1>3, <1>5, <1>12, <1>13 DEF PathInv, OnPath, PathIsCycle
<1> QED BY <1>14, <1>15

\* Every step of the code keeps the path on the recursion.
LEMMA PathInvNext == IInv /\ PathInv /\ [DagNext]_dagVars => PathInv'
<1> SUFFICES ASSUME IInv, PathInv, [DagNext]_dagVars PROVE PathInv'
  OBVIOUS
<1>1. CASE SearchFrom \/ PassSeen \/ Descend \/ Leave
  BY <1>1, PathSearch
<1>2. CASE FoundCycle
  BY <1>2, PathStarts
<1>3. CASE CyclePath
  BY <1>3, PathGrows
<1>4. CASE BuildDag \/ UnknownStep \/ StartSort \/ Pop \/ SortDone
           \/ Depth \/ StartGroups \/ Group \/ AnalysisDone
  <2>1. needs' = needs /\ stack' = stack /\ phase' \notin {"path", "cycle"}
    BY <1>4 DEF BuildDag, UnknownStep, StartSort, Pop, SortDone, Depth, StartGroups, Group,
                AnalysisDone, search
  <2> QED BY <2>1, PathSame
<1>5. CASE UNCHANGED dagVars
  <2>1. needs' = needs /\ stack' = stack /\ phase' = phase /\ path' = path
    BY <1>5 DEF dagVars, search
  <2>2. /\ \A s : Deps(s)' = Deps(s)
        /\ \A d : Dependents(d)' = Dependents(d)
        /\ Neighbour' = Neighbour
    BY <2>1, SameNeeds DEF Deps, Neighbour
  <2>3. InKeyOrder' /\ CallPassed'
    BY <2>1, <2>2 DEF PathInv, InKeyOrder, CallPassed
  <2>4. OnPath'
    BY <2>1, <2>2 DEF PathInv, OnPath, Follows
  <2>5. PathIsCycle'
    BY <2>1, <2>2 DEF PathInv, PathIsCycle
  <2> QED BY <2>3, <2>4, <2>5 DEF PathInv
<1> QED BY <1>1, <1>2, <1>3, <1>4, <1>5 DEF DagNext

\* The path in the "Cycle detected" error is a cycle: it closes, and each of
\* its steps is needed by the next one, whatever the order of the maps.
THEOREM PathHolds == DagSpec => []PathIsCycle
<1>1. DagInit => PathInv
  BY DEF DagInit, PathInv, InKeyOrder, CallPassed, OnPath, PathIsCycle
<1>2. IInv /\ PathInv /\ [DagNext]_dagVars => PathInv'
  BY PathInvNext
<1>3. PathInv => PathIsCycle
  BY DEF PathInv
<1> QED BY <1>1, <1>2, <1>3, InvariantHolds, PTL DEF DagSpec
----------------------------------------------------------------------------
(* The analysis.  Depths are assigned along the order of the sort, so the  *)
(* depth of a step is final when it is taken; a turn of                    *)
(* find_parallelizable_groups then takes exactly the next depth.           *)

\* A step comes after those it needs.
InOrder ==
  \A i \in DOMAIN sorted : Deps(sorted[i]) \subseteq {sorted[j] : j \in 1 .. i - 1}

Sorted ==
  /\ InOrder
  /\ phase \in {"depths", "groups", "done"} => Range(sorted) = Nodes /\ IsInjective(sorted)

\* A depth is 0 without dependencies and otherwise one more than the greatest
\* depth of a dependency.
DepthOK(n) ==
  /\ depth[n] \in Nat
  /\ Deps(n) = {} => depth[n] = 0
  /\ \A d \in Deps(n) : d \in DOMAIN depth /\ depth[d] < depth[n]
  /\ Deps(n) # {} => \E d \in Deps(n) : depth[d] = depth[n] - 1

\* The first m steps of the order have a depth, and none is as deep as m.
DepthsUpTo(m) ==
  /\ DOMAIN depth = {sorted[i] : i \in 1 .. m}
  /\ \A n \in DOMAIN depth : DepthOK(n) /\ depth[n] < m

\* The groups so far are the steps of depth 0, 1, ...; the deeper ones remain.
GroupsUpTo ==
  /\ groups \in Seq(SUBSET Nodes)
  /\ \A k \in DOMAIN groups : groups[k] = {n \in Nodes : depth[n] = k - 1}
  /\ remaining = {n \in Nodes : depth[n] >= Len(groups)}

AnalysisInv ==
  /\ phase \notin {"groups", "done"} => groups = <<>> /\ remaining = {}
  /\ phase \notin {"depths", "groups", "done"} => depth = <<>>
  /\ phase \in {"depths", "groups", "done"} => \E m \in 0 .. Len(sorted) : DepthsUpTo(m)
  /\ phase \in {"groups", "done"} => DepthsUpTo(Len(sorted)) /\ GroupsUpTo
  /\ phase = "done" => remaining = {}

\* Where every depth stands after m steps is a matter of the depths, the order
\* and the `needs:` lists alone.
LEMMA SameDepths ==
  ASSUME needs' = needs, UNCHANGED <<sorted, depth>>
  PROVE  /\ \A m : DepthsUpTo(m)' <=> DepthsUpTo(m)
         /\ InOrder' <=> InOrder
<1>1. \A s : Deps(s)' = Deps(s)
  BY DEF Deps
<1>2. \A n : DepthOK(n)' <=> DepthOK(n)
  BY <1>1 DEF DepthOK
<1> QED BY <1>1, <1>2 DEF DepthsUpTo, InOrder

\* The next step of the order goes behind those it needs.
LEMMA PopSorted ==
  ASSUME IInv, Sorted, Pop
  PROVE  Sorted'
<1> DEFINE h == Head(queue)
           r == Len(sorted)
<1>1. /\ sorted' = Append(sorted, h) /\ phase' = "sort" /\ needs' = needs
      /\ sorted \in Seq(Nodes) /\ Counted
  BY DEF Pop, IInv, SortInv, StateOK
<1>2. h \in Nodes /\ open[h] = {}
  BY PopInv DEF IInv
<1>3. Deps(h) \subseteq Range(sorted)
  BY <1>1, <1>2 DEF Counted, Deps
<1> HIDE DEF h
<1>4. /\ r \in Nat /\ DOMAIN sorted = 1 .. r /\ DOMAIN sorted' = 1 .. r + 1
      /\ \A i \in 1 .. r : sorted'[i] = sorted[i]
      /\ sorted'[r + 1] = h
  BY <1>1, <1>2
<1> HIDE DEF r
<1>5. \A s : Deps(s)' = Deps(s)
  BY <1>1 DEF Deps
<1>6. ASSUME NEW i \in DOMAIN sorted' PROVE Deps(sorted'[i]) \subseteq {sorted'[j] : j \in 1 .. i - 1}
  <2>1. CASE i = r + 1
    <3>1. Range(sorted) = {sorted[j] : j \in 1 .. r}
      BY <1>4 DEF Range
    <3>2. Range(sorted) \subseteq {sorted'[j] : j \in 1 .. r}
      BY <3>1, <1>4
    <3>3. i - 1 = r
      BY <2>1, <1>4
    <3> QED BY <2>1, <3>2, <3>3, <1>3, <1>4
  <2>2. CASE i # r + 1
    <3>1. i \in 1 .. r /\ \A j \in 1 .. i - 1 : j \in 1 .. r
      BY <2>2, <1>4
    <3>2. Deps(sorted[i]) \subseteq {sorted[j] : j \in 1 .. i - 1}
      BY <3>1, <1>4 DEF Sorted, InOrder
    <3>3. {sorted'[j] : j \in 1 .. i - 1} = {sorted[j] : j \in 1 .. i - 1}
      BY <3>1, <1>4
    <3> QED BY <3>1, <3>2, <3>3, <1>4
  <2> QED BY <2>1, <2>2
<1>7. InOrder'
  BY <1>5, <1>6 DEF InOrder
<1> QED BY <1>1, <1>7 DEF Sorted

\* A bounded set of numbers with a member has a greatest one.
LEMMA GreatestOf ==
  ASSUME NEW T \in SUBSET Nat, T # {}, NEW b \in Nat, \A y \in T : y < b
  PROVE  Max(T) \in T /\ \A y \in T : y <= Max(T)
<1> DEFINE D == {b - y : y \in T}
<1>1. D \in SUBSET Nat /\ D # {}
  <2>1. ASSUME NEW y \in T PROVE b - y \in Nat
    <3>1. y \in Nat /\ y < b
      OBVIOUS
    <3> QED BY <3>1
  <2> QED BY <2>1
<1> HIDE DEF D
<1>2. PICK x \in D : \A y \in D : x <= y
  BY <1>1, LeastOf
<1>3. PICK t \in T : x = b - t
  BY <1>2 DEF D
<1>4. ASSUME NEW y \in T PROVE t >= y
  <2>1. b - t <= b - y
    BY <1>2, <1>3 DEF D
  <2>2. t \in Nat /\ y \in Nat
    OBVIOUS
  <2> QED BY <2>1, <2>2
<1>5. \E t1 \in T : \A y \in T : t1 >= y
  BY <1>4
<1>6. Max(T) \in T /\ \A y \in T : Max(T) >= y
  BY <1>5 DEF Max
<1> QED BY <1>6

\* As many depths as steps of the order are known.
LEMMA DepthCount ==
  ASSUME IInv, Sorted, phase \in {"depths", "groups", "done"},
         NEW m \in 0 .. Len(sorted), DepthsUpTo(m)
  PROVE  Cardinality(DOMAIN depth) = m
<1> DEFINE N == {sorted[i] : i \in 1 .. m}
           f == [i \in 1 .. m |-> sorted[i]]
<1>1. sorted \in Seq(Nodes) /\ IsInjective(sorted) /\ m \in Nat
  BY DEF IInv, StateOK, Sorted
<1>2. \A i, j \in 1 .. m : sorted[i] = sorted[j] => i = j
  BY <1>1 DEF IsInjective
<1>3. f \in Bijection(1 .. m, N)
  BY <1>2 DEF Bijection, Injection, Surjection, IsInjective
<1> HIDE DEF f, N
<1>4. Cardinality(N) = m
  BY <1>1, <1>3, FS_CountingElements DEF ExistsBijection
<1> QED BY <1>4 DEF DepthsUpTo, N

\* The next step of the order gets its depth.
LEMMA DepthNext ==
  ASSUME IInv, Sorted, AnalysisInv, Depth
  PROVE  \E m \in 0 .. Len(sorted) : DepthsUpTo(m)'
<1>1. PICK m \in 0 .. Len(sorted) : DepthsUpTo(m)
  BY DEF AnalysisInv, Depth
<1>2. Cardinality(DOMAIN depth) = m /\ phase = "depths"
  BY <1>1, DepthCount DEF Depth
<1> DEFINE n == sorted[m + 1]
           known == {IF d \in DOMAIN depth THEN depth[d] ELSE 0 : d \in Deps(n)}
           new == IF Deps(n) = {} THEN 0 ELSE Max(known) + 1
<1>3. /\ m + 1 <= Len(sorted) /\ needs' = needs /\ sorted' = sorted
      /\ depth' = [x \in DOMAIN depth \cup {n} |-> IF x = n THEN new ELSE depth[x]]
  BY <1>2, Zenon DEF Depth, kahn
<1>4. /\ m \in Nat /\ m + 1 \in DOMAIN sorted /\ sorted \in Seq(Nodes)
      /\ DOMAIN sorted = 1 .. Len(sorted) /\ Len(sorted) \in Nat
      /\ IsInjective(sorted)
  BY <1>1, <1>2, <1>3 DEF IInv, StateOK, Sorted
<1>5. /\ DOMAIN depth = {sorted[i] : i \in 1 .. m}
      /\ \A x \in DOMAIN depth : DepthOK(x) /\ depth[x] < m
  BY <1>1 DEF DepthsUpTo
<1>6. Deps(n) \subseteq DOMAIN depth
  <2>1. (m + 1) - 1 = m
    BY <1>4
  <2>2. Deps(n) \subseteq {sorted[j] : j \in 1 .. (m + 1) - 1}
    BY <1>4 DEF Sorted, InOrder
  <2> QED BY <2>1, <2>2, <1>5
<1>7. n \notin DOMAIN depth
  <2> SUFFICES ASSUME NEW i \in 1 .. m, sorted[i] = n PROVE FALSE
    BY <1>5
  <2>1. i \in DOMAIN sorted /\ m + 1 \in DOMAIN sorted /\ i # m + 1
    BY <1>4
  <2> QED BY <2>1, <1>4 DEF IsInjective
<1> HIDE DEF n
<1>8. known = {depth[d] : d \in Deps(n)}
  BY <1>6
<1>9. known \in SUBSET Nat /\ \A y \in known : y < m
  BY <1>5, <1>6, <1>8 DEF DepthOK
<1> HIDE DEF known
<1>10. /\ new \in Nat /\ new < m + 1
       /\ (Deps(n) = {} => new = 0)
       /\ \A d \in Deps(n) : depth[d] < new
       /\ (Deps(n) # {} => \E d \in Deps(n) : depth[d] = new - 1)
  <2>1. CASE Deps(n) = {}
    BY <2>1, <1>4
  <2>2. CASE Deps(n) # {}
    <3>1. known # {}
      BY <2>2, <1>8
    <3>2. Max(known) \in known /\ \A y \in known : y <= Max(known)
      BY <3>1, <1>4, <1>9, GreatestOf
    <3>3. new = Max(known) + 1
      BY <2>2
    <3> DEFINE x == Max(known)
    <3> HIDE DEF x, new
    <3>4. x \in known /\ (\A y \in known : y <= x) /\ new = x + 1
      BY <3>2, <3>3 DEF x
    <3>5. PICK d \in Deps(n) : x = depth[d]
      BY <3>4, <1>8
    <3>6. x \in Nat /\ x < m
      BY <3>4, <1>9
    <3>7. ASSUME NEW e \in Deps(n) PROVE depth[e] < new
      <4>1. depth[e] \in known /\ depth[e] \in Nat
        BY <1>8, <1>9
      <4> QED BY <4>1, <3>4, <3>6
    <3> QED BY <2>2, <3>4, <3>5, <3>6, <3>7, <1>4
  <2> QED BY <2>1, <2>2
<1> HIDE DEF new
<1>11. /\ DOMAIN depth' = DOMAIN depth \cup {n}
       /\ depth'[n] = new
       /\ \A x \in DOMAIN depth : depth'[x] = depth[x]
  BY <1>3, <1>7
<1>12. \A s : Deps(s)' = Deps(s)
  BY <1>3 DEF Deps
<1>13. DOMAIN depth' = {sorted[i] : i \in 1 .. m + 1}
  <2>1. {sorted[i] : i \in 1 .. m + 1} = {sorted[i] : i \in 1 .. m} \cup {sorted[m + 1]}
    BY <1>4
  <2> QED BY <2>1, <1>5, <1>11 DEF n
<1>14. ASSUME NEW x \in DOMAIN depth' PROVE DepthOK(x)' /\ depth'[x] < m + 1
  <2>1. CASE x = n
    <3>1. \A d \in Deps(n) : d \in DOMAIN depth' /\ depth'[d] = depth[d]
      BY <1>6, <1>11
    <3> QED BY <2>1, <3>1, <1>10, <1>11, <1>12 DEF DepthOK
  <2>2. CASE x # n
    <3>1. x \in DOMAIN depth /\ DepthOK(x) /\ depth[x] < m /\ depth'[x] = depth[x]
      BY <2>2, <1>5, <1>11
    <3>2. \A d \in Deps(x) : d \in DOMAIN depth' /\ depth'[d] = depth[d]
      BY <3>1, <1>11 DEF DepthOK
    <3>3. depth[x] \in Nat /\ depth'[x] < m + 1
      BY <3>1, <1>4 DEF DepthOK
    <3> QED BY <3>1, <3>2, <3>3, <1>12 DEF DepthOK
  <2> QED BY <2>1, <2>2
<1>15. DepthsUpTo(m + 1)'
  BY <1>3, <1>13, <1>14 DEF DepthsUpTo
<1>16. m + 1 \in 0 .. Len(sorted)
  BY <1>3, <1>4
<1> QED BY <1>15, <1>16

\* The groups start from every step.
LEMMA GroupsStart ==
  ASSUME IInv, Sorted, AnalysisInv, StartGroups
  PROVE  DepthsUpTo(Len(sorted)) /\ GroupsUpTo'
<1>1. /\ phase = "depths" /\ remaining' = Range(sorted) /\ groups' = groups
      /\ depth' = depth /\ Cardinality(DOMAIN depth) = Len(sorted)
  BY DEF StartGroups
<1>2. PICK m \in 0 .. Len(sorted) : DepthsUpTo(m)
  BY <1>1 DEF AnalysisInv
<1>3. DepthsUpTo(Len(sorted))
  BY <1>1, <1>2, DepthCount
<1>4. Range(sorted) = Nodes /\ sorted \in Seq(Nodes)
  BY <1>1 DEF Sorted, IInv, StateOK
<1>5. \A n \in Nodes : depth[n] \in Nat
  <2>1. {sorted[i] : i \in 1 .. Len(sorted)} = Nodes
    BY <1>4 DEF Range
  <2> QED BY <2>1, <1>3 DEF DepthsUpTo, DepthOK
<1>6. groups' = <<>>
  BY <1>1 DEF AnalysisInv
<1>7. groups' \in Seq(SUBSET Nodes) /\ Len(groups') = 0 /\ DOMAIN groups' = {}
  BY <1>6
<1>8. remaining' = {n \in Nodes : depth[n] >= Len(groups')}
  BY <1>1, <1>4, <1>5, <1>7
<1> QED BY <1>1, <1>3, <1>7, <1>8 DEF GroupsUpTo

\* Every step has a depth once the groups are formed.
LEMMA AllDepths ==
  ASSUME IInv, Sorted, phase \in {"depths", "groups", "done"}, DepthsUpTo(Len(sorted))
  PROVE  DOMAIN depth = Nodes /\ \A n \in Nodes : DepthOK(n)
<1>1. Range(sorted) = Nodes /\ sorted \in Seq(Nodes)
  BY DEF Sorted, IInv, StateOK
<1>2. {sorted[i] : i \in 1 .. Len(sorted)} = Nodes
  BY <1>1 DEF Range
<1> QED BY <1>2 DEF DepthsUpTo

\* One turn takes the steps of the next depth.
LEMMA GroupNext ==
  ASSUME IInv, Sorted, AnalysisInv, Group
  PROVE  GroupsUpTo'
<1> DEFINE g == Len(groups)
           group == {n \in remaining : Deps(n) \cap remaining = {}}
<1>1. /\ phase = "groups" /\ remaining' = remaining \ group /\ depth' = depth
      /\ groups' = IF group = {} THEN groups ELSE Append(groups, group)
      /\ DepthsUpTo(Len(sorted)) /\ GroupsUpTo
  BY DEF Group, AnalysisInv
<1>2. DOMAIN depth = Nodes /\ \A n \in Nodes : DepthOK(n)
  BY <1>1, AllDepths
<1>3. /\ groups \in Seq(SUBSET Nodes) /\ g \in Nat
      /\ \A k \in DOMAIN groups : groups[k] = {n \in Nodes : depth[n] = k - 1}
      /\ remaining = {n \in Nodes : depth[n] >= g}
  BY <1>1 DEF GroupsUpTo
<1>4. CASE group = {}
  BY <1>4, <1>1 DEF GroupsUpTo
<1>5. CASE group # {}
  <2> HIDE DEF g
  <2>1. group = {n \in Nodes : depth[n] = g}
    <3>1. ASSUME NEW n \in Nodes, depth[n] = g PROVE n \in group
      <4>1. \A d \in Deps(n) : d \in Nodes /\ depth[d] < g /\ depth[d] \in Nat
        BY <3>1, <1>2 DEF DepthOK
      <4>2. Deps(n) \cap remaining = {}
        BY <4>1, <1>3
      <4>3. n \in remaining
        BY <3>1, <1>3
      <4> QED BY <4>2, <4>3
    <3>2. ASSUME NEW n \in group PROVE n \in Nodes /\ depth[n] = g
      <4>1. n \in Nodes /\ depth[n] >= g /\ depth[n] \in Nat /\ Deps(n) \cap remaining = {}
        BY <1>2, <1>3 DEF DepthOK
      <4> SUFFICES ASSUME depth[n] > g PROVE FALSE
        BY <4>1, <1>3
      <4>2. Deps(n) # {}
        BY <4>1, <1>2, <1>3 DEF DepthOK
      <4>3. PICK d \in Deps(n) : depth[d] = depth[n] - 1
        BY <4>1, <4>2, <1>2 DEF DepthOK
      <4>4. d \in Nodes /\ depth[d] >= g
        BY <4>1, <4>3, <1>2, <1>3 DEF DepthOK
      <4> QED BY <4>1, <4>4, <1>3
    <3> HIDE DEF group
    <3> QED BY <3>1, <3>2
  <2>2. groups' = Append(groups, group) /\ group \in SUBSET Nodes
    BY <1>1, <1>5, <2>1
  <2> HIDE DEF group
  <2>3. /\ groups' \in Seq(SUBSET Nodes) /\ Len(groups') = g + 1
        /\ DOMAIN groups = 1 .. g /\ DOMAIN groups' = 1 .. g + 1
        /\ \A k \in 1 .. g : groups'[k] = groups[k]
        /\ groups'[g + 1] = group
    BY <2>2, <1>3 DEF g
  <2>4. ASSUME NEW k \in DOMAIN groups' PROVE groups'[k] = {n \in Nodes : depth[n] = k - 1}
    <3>1. CASE k = g + 1
      <4>1. k - 1 = g
        BY <3>1, <1>3
      <4> QED BY <3>1, <4>1, <2>1, <2>3
    <3>2. CASE k # g + 1
      <4>1. k \in 1 .. g
        BY <3>2, <2>3, <1>3
      <4> QED BY <4>1, <2>3, <1>3
    <3> QED BY <3>1, <3>2
  <2>5. remaining' = {n \in Nodes : depth[n] >= g + 1}
    <3>1. \A n \in Nodes : depth[n] \in Nat
      BY <1>2 DEF DepthOK
    <3>2. remaining' = {n \in Nodes : depth[n] >= g} \ {n \in Nodes : depth[n] = g}
      BY <1>1, <1>3, <2>1
    <3> QED BY <3>1, <3>2, <1>3
  <2> QED BY <2>3, <2>4, <2>5, <1>1 DEF GroupsUpTo
<1> QED BY <1>4, <1>5

\* Every step of the code keeps the order, the depths and the groups.
LEMMA AnalysisNext ==
  IInv /\ Sorted /\ AnalysisInv /\ [DagNext]_dagVars => Sorted' /\ AnalysisInv'
<1> SUFFICES ASSUME IInv, Sorted, AnalysisInv, [DagNext]_dagVars
             PROVE  Sorted' /\ AnalysisInv'
  OBVIOUS
<1> DEFINE A == {"depths", "groups", "done"}
<1>1. needs' = needs
  BY DEF DagNext, dagVars, BuildDag, UnknownStep, SearchFrom, FoundCycle, PassSeen, Descend,
         CyclePath, Leave, StartSort, Pop, SortDone, Depth, StartGroups, Group, AnalysisDone
<1>2. ASSUME UNCHANGED <<sorted, depth>>
      PROVE  (\A m : DepthsUpTo(m)' <=> DepthsUpTo(m)) /\ (InOrder' <=> InOrder)
  BY <1>1, <1>2, SameDepths
<1>3. CASE BuildDag \/ UnknownStep \/ SearchFrom \/ FoundCycle \/ PassSeen \/ Descend
           \/ CyclePath \/ Leave
  <2>1. /\ phase \notin A /\ phase' \notin A
        /\ UNCHANGED <<sorted, depth, remaining, groups>>
    BY <1>3 DEF BuildDag, UnknownStep, SearchFrom, FoundCycle, PassSeen, Descend,
                CyclePath, Leave, Visiting, kahn, analysis
  <2> QED BY <2>1, <1>2 DEF Sorted, AnalysisInv
<1>4. CASE StartSort
  <2>1. phase = "cycles" /\ phase' = "sort" /\ sorted' = <<>>
        /\ UNCHANGED <<depth, remaining, groups>>
    BY <1>4 DEF StartSort, analysis
  <2>2. InOrder'
    BY <2>1 DEF InOrder
  <2> QED BY <2>1, <2>2 DEF Sorted, AnalysisInv
<1>5. CASE Pop
  <2>1. phase = "sort" /\ phase' = "sort" /\ UNCHANGED <<depth, remaining, groups>>
    BY <1>5 DEF Pop, analysis
  <2> QED BY <2>1, <1>5, PopSorted DEF AnalysisInv
<1>6. CASE SortDone
  <2>1. /\ phase = "sort" /\ phase' = "depths" /\ Range(sorted) = Nodes /\ IsInjective(sorted)
    BY <1>6, SortUsesAll DEF SortDone, IInv
  <2>2. UNCHANGED <<sorted, depth, remaining, groups>>
    BY <1>6 DEF SortDone, kahn, analysis
  <2>3. depth = <<>>
    BY <2>1 DEF AnalysisInv
  <2>4. DepthsUpTo(0)
    BY <2>3 DEF DepthsUpTo
  <2>5. 0 \in 0 .. Len(sorted')
    BY <2>2 DEF IInv, StateOK
  <2> QED BY <2>1, <2>2, <2>4, <2>5, <1>2 DEF Sorted, AnalysisInv
<1>7. CASE Depth
  <2>1. phase = "depths" /\ phase' = "depths" /\ UNCHANGED <<sorted, remaining, groups>>
    BY <1>7 DEF Depth, kahn
  <2>2. \A s : Deps(s)' = Deps(s)
    BY <1>1 DEF Deps
  <2>3. Sorted'
    BY <2>1, <2>2 DEF Sorted, InOrder
  <2>4. \E m \in 0 .. Len(sorted') : DepthsUpTo(m)'
    BY <1>7, <2>1, DepthNext
  <2> QED BY <2>1, <2>3, <2>4 DEF AnalysisInv
<1>8. CASE StartGroups
  <2>1. phase = "depths" /\ phase' = "groups" /\ UNCHANGED <<sorted, depth>>
    BY <1>8 DEF StartGroups, kahn
  <2>2. DepthsUpTo(Len(sorted)) /\ GroupsUpTo'
    BY <1>8, GroupsStart
  <2>3. DepthsUpTo(Len(sorted))' /\ Len(sorted') \in 0 .. Len(sorted')
    BY <2>1, <2>2, <1>2 DEF IInv, StateOK
  <2> QED BY <2>1, <2>2, <2>3, <1>2 DEF Sorted, AnalysisInv
<1>9. CASE Group
  <2>1. phase = "groups" /\ phase' = "groups" /\ UNCHANGED <<sorted, depth>>
    BY <1>9 DEF Group, kahn
  <2>2. GroupsUpTo'
    BY <1>9, GroupNext
  <2> QED BY <2>1, <2>2, <1>2 DEF Sorted, AnalysisInv
<1>10. CASE AnalysisDone
  <2>1. /\ phase = "groups" /\ phase' = "done" /\ remaining = {}
        /\ UNCHANGED <<sorted, depth, remaining, groups>>
    BY <1>10 DEF AnalysisDone, kahn, analysis
  <2> QED BY <2>1, <1>2 DEF Sorted, AnalysisInv, GroupsUpTo
<1>11. CASE UNCHANGED dagVars
  <2>1. UNCHANGED <<phase, sorted, depth, remaining, groups>>
    BY <1>11 DEF dagVars, kahn, analysis
  <2> QED BY <2>1, <1>2 DEF Sorted, AnalysisInv, GroupsUpTo
<1> QED BY <1>3, <1>4, <1>5, <1>6, <1>7, <1>8, <1>9, <1>10, <1>11 DEF DagNext

\* The order, the depths and the groups are as described throughout.
THEOREM AnalysisHolds == DagSpec => [](Sorted /\ AnalysisInv)
<1>1. DagInit => Sorted /\ AnalysisInv
  BY DEF DagInit, Sorted, InOrder, AnalysisInv
<1>2. IInv /\ (Sorted /\ AnalysisInv) /\ [DagNext]_dagVars => (Sorted /\ AnalysisInv)'
  BY AnalysisNext
<1> QED BY <1>1, <1>2, InvariantHolds, PTL DEF DagSpec

\* The k-th group find_parallelizable_groups returns is the set of the steps
\* to which analyze gave depth k - 1, and every step is in a group.
THEOREM GroupsHold == DagSpec => []GroupsAreDepths
<1>1. IInv /\ (Sorted /\ AnalysisInv) => GroupsAreDepths
  <2> SUFFICES ASSUME IInv, Sorted, AnalysisInv, phase = "done"
               PROVE  /\ DOMAIN depth = Nodes
                      /\ \A k \in DOMAIN groups : groups[k] = {n \in Nodes : depth[n] = k - 1}
                      /\ UNION Range(groups) = Nodes
    BY DEF GroupsAreDepths
  <2>1. DepthsUpTo(Len(sorted)) /\ GroupsUpTo /\ remaining = {}
    BY DEF AnalysisInv
  <2>2. DOMAIN depth = Nodes /\ \A n \in Nodes : depth[n] \in Nat
    BY <2>1, AllDepths DEF DepthOK
  <2>3. /\ DOMAIN groups = 1 .. Len(groups) /\ Len(groups) \in Nat
        /\ \A k \in DOMAIN groups : groups[k] = {n \in Nodes : depth[n] = k - 1}
        /\ \A n \in Nodes : ~(depth[n] >= Len(groups))
    BY <2>1 DEF GroupsUpTo
  <2>4. ASSUME NEW n \in Nodes PROVE \E k \in DOMAIN groups : n \in groups[k]
    <3>1. depth[n] + 1 \in DOMAIN groups /\ (depth[n] + 1) - 1 = depth[n]
      BY <2>2, <2>3
    <3>2. n \in groups[depth[n] + 1]
      BY <3>1, <2>3
    <3> QED BY <3>1, <3>2
  <2>5. UNION Range(groups) = Nodes
    BY <2>3, <2>4 DEF Range
  <2> QED BY <2>2, <2>3, <2>5
<1> QED BY <1>1, InvariantHolds, AnalysisHolds, PTL
----------------------------------------------------------------------------
(* Types.                                                                  *)

PlainTypes ==
  /\ phase \in {"build", "cycles", "path", "sort", "depths", "groups"} \cup Final
  /\ path \in Seq(Nodes)
  /\ OpenOK

\* Every step of the code keeps the types of the phase, the path and the counts.
LEMMA PlainNext == IInv /\ PlainTypes /\ [DagNext]_dagVars => PlainTypes'
<1> SUFFICES ASSUME IInv, PlainTypes, [DagNext]_dagVars PROVE PlainTypes'
  OBVIOUS
<1>1. /\ needs' = needs
      /\ phase' \in {"build", "cycles", "path", "sort", "depths", "groups"} \cup Final
  BY DEF PlainTypes, Final, DagNext, dagVars, BuildDag, UnknownStep, SearchFrom, FoundCycle, PassSeen,
         Descend, CyclePath, Leave, StartSort, Pop, SortDone, Depth, StartGroups, Group,
         AnalysisDone
<1>2. path' \in Seq(Nodes)
  <2>0. path \in Seq(Nodes)
    BY DEF PlainTypes
  <2>1. CASE FoundCycle
    <3>1. Neighbour \in Nodes /\ path' = <<Neighbour>>
      BY <2>1, NeighbourFacts DEF FoundCycle, IInv
    <3> QED BY <3>1
  <2>2. CASE CyclePath
    <3> DEFINE S == Dependents(path[Len(path)]) \cap recStack
               n == FirstOf(S)
    <3>1. path' = path \/ (S # {} /\ path' = Append(path, n))
      BY <2>2 DEF CyclePath
    <3>2. S # {} => n \in Nodes
      BY FirstOfIn, DependentsAreSteps
    <3> HIDE DEF S, n
    <3> QED BY <2>0, <3>1, <3>2
  <2>3. CASE ~FoundCycle /\ ~CyclePath
    <3>1. path' = path
      BY <2>3 DEF DagNext, dagVars, search, BuildDag, UnknownStep, SearchFrom, Enter, PassSeen, Descend,
             Leave, StartSort, Pop, SortDone, Depth, StartGroups, Group, AnalysisDone
    <3> QED BY <2>0, <3>1
  <2> QED BY <2>1, <2>2, <2>3
<1>3. OpenOK'
  <2>1. CASE StartSort
    BY <1>1, <2>1 DEF StartSort, OpenOK
  <2>2. CASE Pop
    BY <1>1, <2>2 DEF Pop, PlainTypes, OpenOK
  <2>3. CASE ~StartSort /\ ~Pop
    <3>1. open' = open
      BY <2>3 DEF DagNext, dagVars, kahn, BuildDag, UnknownStep, SearchFrom, FoundCycle, PassSeen,
             Descend, CyclePath, Leave, SortDone, Depth, StartGroups, Group, AnalysisDone
    <3> QED BY <1>1, <3>1 DEF PlainTypes, OpenOK
  <2> QED BY <2>1, <2>2, <2>3
<1> QED BY <1>1, <1>2, <1>3 DEF PlainTypes

\* Type correctness of build, sort and analysis; rec_stack holds exactly the
\* calls of has_cycle_util that have not returned.
THEOREM TypeCorrect == DagSpec => []DagTypeOK
<1>1. DagInit => PlainTypes
  BY DEF DagInit, PlainTypes, Final, OpenOK
<1>2. IInv /\ PlainTypes /\ [DagNext]_dagVars => PlainTypes'
  BY PlainNext
<1>3. IInv /\ (Sorted /\ AnalysisInv) /\ PlainTypes => DagTypeOK
  <2> SUFFICES ASSUME IInv, Sorted, AnalysisInv, PlainTypes PROVE DagTypeOK
    OBVIOUS
  <2>1. /\ needs \in [Nodes -> NeedsLists] /\ visited \subseteq Nodes
        /\ recStack = {stack[i].node : i \in DOMAIN stack}
        /\ DOMAIN open = Nodes /\ queue \in Seq(Nodes) /\ sorted \in Seq(Nodes)
    BY DEF IInv, StateOK, SearchInv, OnStack
  <2>2. \A i \in DOMAIN stack : stack[i].node \in Nodes /\ stack[i].ahead \subseteq Nodes
    BY NodesAreSteps, DependentsAreSteps DEF IInv, SearchInv, AheadOK
  <2>3. DOMAIN depth \subseteq Nodes /\ \A n \in DOMAIN depth : depth[n] \in Nat
    <3>1. CASE phase \in {"depths", "groups", "done"}
      <4>1. PICK m \in 0 .. Len(sorted) : DepthsUpTo(m)
        BY <3>1 DEF AnalysisInv
      <4>2. \A i \in 1 .. m : sorted[i] \in Nodes
        BY <2>1
      <4> QED BY <4>1, <4>2 DEF DepthsUpTo, DepthOK
    <3>2. CASE phase \notin {"depths", "groups", "done"}
      <4>1. depth = <<>>
        BY <3>2 DEF AnalysisInv
      <4> QED BY <4>1
    <3> QED BY <3>1, <3>2
  <2>4. remaining \subseteq Nodes /\ \A i \in DOMAIN groups : groups[i] \subseteq Nodes
    <3>1. CASE phase \in {"groups", "done"}
      BY <3>1 DEF AnalysisInv, GroupsUpTo
    <3>2. CASE phase \notin {"groups", "done"}
      <4>1. groups = <<>> /\ remaining = {}
        BY <3>2 DEF AnalysisInv
      <4> QED BY <4>1
    <3> QED BY <3>1, <3>2
  <2> QED BY <2>1, <2>2, <2>3, <2>4 DEF DagTypeOK, PlainTypes, OpenOK
<1> QED BY <1>1, <1>2, <1>3, InvariantHolds, AnalysisHolds, PTL DEF DagSpec
=============================================================================
