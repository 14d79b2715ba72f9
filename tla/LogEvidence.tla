---------------------------- MODULE LogEvidence ----------------------------
(***************************************************************************)
(* src/publication/record.rs: what a recipient makes of the publication    *)
(* record and the checkpoint comparison that came with a receipt.          *)
(*                                                                         *)
(* A log has one history, or several if it equivocates.  They agree on     *)
(* their first Common leaves, so a tree is told by its size and, if it is  *)
(* larger, by its history.  A hash path is abstracted by the two trees it  *)
(* was computed from: it convinces the reader of these and of no others    *)
(* (the collision resistance of the tree hash).                            *)
(***************************************************************************)
EXTENDS Verdicts, Naturals, FiniteSets

CONSTANTS
  Histories,  \* the histories the configured log shows to its readers
  Common,     \* the number of leaves on which they agree
  MaxSize     \* the bound on the size of a tree

ASSUME LogAssumption == Common \in Nat /\ MaxSize \in Nat /\ Histories # {}

\* The tree of the first n leaves of a history, as its root hash identifies it.
Tree(h, n) == [size |-> n, of |-> IF n <= Common THEN None ELSE h]

Trees == {Tree(h, n) : h \in Histories, n \in 0 .. MaxSize}

\* One log that only ever appended could have shown both.
OneHistory(t, u) ==
  \E h \in Histories : t = Tree(h, t.size) /\ u = Tree(h, u.size)

\* A signed checkpoint: `ours` if it verifies under the configured log key.
Checkpoints == [tree : Trees, ours : BOOLEAN]

\* A publication record.  `bound`: its format is known and its entry is the
\* commitment to the receipt's causal root; `names`: it names the configured
\* log; `proves`: its path leads from the entry to the checkpoint's root.
Records == [bound : BOOLEAN, names : BOOLEAN, checkpoint : Checkpoints \cup {None},
            proves : BOOLEAN]

\* A checkpoint comparison; `path`: the pair of trees its path was computed from,
\* if the path is well formed.
Comparisons == [known : BOOLEAN, names : BOOLEAN, first : Checkpoints,
                second : Checkpoints, path : (Trees \X Trees) \cup {None}]

\* The recipient's own log key and reference checkpoint, each given or not, and
\* the comparison the recipient supplies.
Material == [trust : BOOLEAN, reference : Checkpoints \cup {None},
             comparison : Comparisons \cup {None}]

----------------------------------------------------------------------------
\* verify_consistency: equal trees and an empty prefix need no path.
VerifyConsistency(t, u, path) ==
  /\ t.size <= u.size
  /\ IF t.size = u.size THEN t = u /\ path = None
     ELSE IF t.size = 0 THEN path = None
     ELSE /\ path = <<t, u>>
          /\ OneHistory(t, u)

\* PublicationRecord::verify, of a record that is bound to the receipt.
VerifyRecord(r) ==
  /\ r.names
  /\ r.checkpoint # None /\ r.checkpoint.ours
  /\ r.checkpoint.tree.size > 0
  /\ r.proves

\* CheckpointComparison::verify
VerifyComparison(c) ==
  /\ c.known /\ c.names
  /\ c.first.ours /\ c.second.ours
  /\ VerifyConsistency(c.first.tree, c.second.tree, c.path)

\* Fault: any comparison that verifies will do.
CoversAny(c, reference, published) == VerifyComparison(c)

\* The comparison is about the recipient's reference and the publication's
\* checkpoint, in either order.
Covers(c, reference, published) ==
  /\ VerifyComparison(c)
  /\ {c.first.tree, c.second.tree} = {reference, published}

\* assess, its second half: the recipient's reference against the checkpoint of
\* a publication that verified.
Compare(published, m) ==
  LET reference == m.reference.tree IN
  IF \/ ~ m.reference.ours
     \/ reference.size = published.size /\ reference # published
    THEN "fail"
  ELSE IF m.comparison # None
    THEN IF Covers(m.comparison, reference, published) THEN "pass" ELSE "fail"
  ELSE IF reference = published \/ reference.size = 0 THEN "pass"
  ELSE "skipped"

\* assess: the status of log-inclusion and of log-consistency.  `rooted`: the
\* receipt records a causal root.
Assess(rooted, r, m) ==
  IF r = None THEN <<"skipped", "skipped">>
  ELSE IF ~ rooted \/ ~ r.bound THEN <<"fail", "skipped">>
  ELSE IF ~ m.trust \/ r.checkpoint = None THEN <<"skipped", "skipped">>
  ELSE IF ~ VerifyRecord(r) THEN <<"fail", "skipped">>
  ELSE IF m.reference = None THEN <<"pass", "skipped">>
  ELSE <<"pass", Compare(r.checkpoint.tree, m)>>
=============================================================================
