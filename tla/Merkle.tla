------------------------------- MODULE Merkle -------------------------------
(***************************************************************************)
(* src/publication/merkle.rs: inclusion and consistency proofs of RFC 6962 *)
(* trees.  A hash is a term, so that two are equal only if they are of the *)
(* same thing: <<>> of the empty tree, <<c>> of a leaf, <<l, r>> of a node.*)
(* A path is consumed from its front.  A Result is a set: of the value, or *)
(* empty for the error that the path is too short.                         *)
(***************************************************************************)
EXTENDS Naturals, Sequences

EmptyRoot      == <<>>
LeafHash(c)    == <<c>>
NodeHash(l, r) == <<l, r>>

\* The highest bit of a number.
HighBit[m \in Nat] == IF m <= 1 THEN m ELSE 2 * HighBit[m \div 2]

\* split: the largest power of two below n, for n of 2 or more.
Split(n) == HighBit[n - 1]

Positive == Nat \ {0}

\* The root over n leaves from `start` (0 is the first): the definition of RFC 6962.
TreeHash(leaves, start, n) ==
  LET root[t \in Nat \X Nat] ==
        LET k == Split(t[2]) IN
        IF t[2] = 0 THEN EmptyRoot
        ELSE IF t[2] = 1 THEN LeafHash(leaves[t[1] + 1])
        ELSE NodeHash(root[<<t[1], k>>], root[<<t[1] + k, t[2] - k>>])
  IN root[<<start, n>>]

\* inclusion_root: the root that the path leads to, and what is left of the path.
InclusionRoot(index, n, leaf, path) ==
  LET call[t \in Nat \X Positive] ==
        LET k == Split(t[2]) IN
        IF t[2] = 1 THEN {[root |-> leaf, rest |-> path]}
        ELSE IF t[1] < k
        THEN {[root |-> NodeHash(sub.root, Head(sub.rest)), rest |-> Tail(sub.rest)] :
                sub \in {s \in call[<<t[1], k>>] : s.rest # <<>>}}
        ELSE {[root |-> NodeHash(Head(sub.rest), sub.root), rest |-> Tail(sub.rest)] :
                sub \in {s \in call[<<t[1] - k, t[2] - k>>] : s.rest # <<>>}}
  IN call[<<index, n>>]

\* verify_inclusion; the bound on the length of a path is never met by a tree.
VerifyInclusion(entry, index, n, path, root) ==
  /\ index < n
  /\ InclusionRoot(index, n, LeafHash(entry), path) = {[root |-> root, rest |-> <<>>]}

\* Two sizes of a log, and whether the old tree has been whole so far.
Growth == {t \in Positive \X Positive \X BOOLEAN : t[1] <= t[2]}

\* consistency_roots: both roots, from the old root as long as the old tree is whole.
ConsistencyRoots(old, new, known, path) ==
  LET call[t \in Growth] ==
        LET k == Split(t[2]) IN
        IF t[1] = t[2]
        THEN IF t[3] THEN {[old |-> known, new |-> known, rest |-> path]}
             ELSE {[old |-> Head(p), new |-> Head(p), rest |-> Tail(p)] : p \in {path} \ {<<>>}}
        ELSE IF t[1] <= k
        THEN {[old |-> sub.old, new |-> NodeHash(sub.new, Head(sub.rest)), rest |-> Tail(sub.rest)] :
                sub \in {s \in call[<<t[1], k, t[3]>>] : s.rest # <<>>}}
        ELSE {[old |-> NodeHash(Head(sub.rest), sub.old), new |-> NodeHash(Head(sub.rest), sub.new),
               rest |-> Tail(sub.rest)] :
                sub \in {s \in call[<<t[1] - k, t[2] - k, FALSE>>] : s.rest # <<>>}}
  IN call[<<old, new, TRUE>>]

\* Fault: the old root is not compared.
NewRootOnly(old, new, oldRoot, newRoot, path) ==
  /\ old <= new
  /\ old = 0 => oldRoot = EmptyRoot
  /\ IF old = new THEN path = <<>> /\ oldRoot = newRoot
     ELSE IF old = 0 THEN path = <<>>
     ELSE \E r \in ConsistencyRoots(old, new, oldRoot, path) : r.new = newRoot /\ r.rest = <<>>

\* verify_consistency
VerifyConsistencyPath(old, new, oldRoot, newRoot, path) ==
  /\ old <= new
  /\ old = 0 => oldRoot = EmptyRoot
  /\ IF old = new THEN path = <<>> /\ oldRoot = newRoot
     ELSE IF old = 0 THEN path = <<>>
     ELSE ConsistencyRoots(old, new, oldRoot, path)
            = {[old |-> oldRoot, new |-> newRoot, rest |-> <<>>]}

\* inclusion_ranges: the subtrees, as start and size, whose roots are the path.
InclusionRanges(index, n) ==
  LET walk[t \in Nat \X Nat \X Positive] ==
        LET k == Split(t[3]) IN
        IF t[3] = 1 THEN <<>>
        ELSE IF t[1] < k THEN Append(walk[<<t[1], t[2], k>>], <<t[2] + k, t[3] - k>>)
        ELSE Append(walk[<<t[1] - k, t[2] + k, t[3] - k>>], <<t[2], k>>)
  IN walk[<<index, 0, n>>]

\* What walk is called with: the old size, where the tree begins, its size, and whether
\* the old tree has been whole so far.
Placed == {t \in Positive \X Nat \X Positive \X BOOLEAN : t[1] <= t[3]}

\* consistency_ranges
ConsistencyRanges(old, n) ==
  LET walk[t \in Placed] ==
        LET k == Split(t[3]) IN
        IF t[1] = t[3] THEN IF t[4] THEN <<>> ELSE <<<<t[2], t[3]>>>>
        ELSE IF t[1] <= k THEN Append(walk[<<t[1], t[2], k, t[4]>>], <<t[2] + k, t[3] - k>>)
        ELSE Append(walk[<<t[1] - k, t[2] + k, t[3] - k, FALSE>>], <<t[2], k>>)
  IN IF old = 0 THEN <<>> ELSE walk[<<old, 0, n, TRUE>>]
=============================================================================
