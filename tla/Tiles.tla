-------------------------------- MODULE Tiles --------------------------------
(***************************************************************************)
(* TileReader of src/publication/tiles.rs, as `attest causal publish` and  *)
(* fetch_comparison of src/publication/client.rs use it: a proof for a     *)
(* checkpoint is put together from tiles of 2^TileHeight hashes, read one  *)
(* by one from a log that goes on growing.  The log serves a partial tile  *)
(* at least until the full one is there; or it serves anything.            *)
(*                                                                         *)
(* rpc: idle, range (the next node of the path is wanted), assemble (its   *)
(* subtree is put together), tile (a tile is requested), full (the full    *)
(* one is, in place of a partial one), proved, refused, failed, expired.   *)
(***************************************************************************)
EXTENDS Merkle, Verdicts, Integers, FiniteSets, SequencesExt

CONSTANTS
  TileHeight,  \* 8 in the code
  MaxTiles,    \* 512: a proof that takes more is given up
  MaxLeaves,   \* bound on the size of the log: 2^64 - 1
  Fork,        \* the number of leaves that both histories of the log share
  MainLog, ForkedLog

VARIABLES
  grown,    \* the size of the log
  rpc,
  proof,    \* what is to be proved
  ranges,   \* the subtrees whose roots are still wanted
  path,     \* the roots so far
  pending,  \* range_root: the stack of what is to be done
  hashes,   \* range_root: the stack of roots
  cache,    \* the tiles that were read
  lied      \* history: the log served something else than its tile

tileVars == <<grown, rpc, proof, ranges, path, pending, hashes, cache, lied>>

\* 1 << n
Power[n \in Nat] == IF n = 0 THEN 1 ELSE 2 * Power[n - 1]

TileWidth == Power[TileHeight]

\* The leaves of a history.
LeavesOf(h) == [i \in 1 .. MaxLeaves |-> [position |-> i, of |-> IF i <= Fork THEN None ELSE h]]

\* A leaf is in a tree, or a tree is the beginning of another.  The later tree is of
\* MainLog, and its root is known from a signed checkpoint.
Proofs ==
  [kind : {"inclusion"}, index : 0 .. MaxLeaves - 1, of : {MainLog, ForkedLog}, size : 1 .. MaxLeaves]
  \cup [kind : {"consistency"}, index : 0 .. MaxLeaves, of : {MainLog, ForkedLog}, size : 1 .. MaxLeaves]

\* The last conjunct: a proof may take two tiles of each level that a tree can have.
ASSUME TilesAssumption ==
  /\ TileHeight \in Nat \ {0} /\ MaxTiles \in Nat /\ MaxLeaves \in Nat /\ Fork \in Nat
  /\ \E levels \in 0 .. MaxTiles : MaxLeaves < Power[TileHeight * levels] /\ 2 * levels <= MaxTiles

----------------------------------------------------------------------------
GrowLog ==
  /\ rpc # "idle" /\ grown < MaxLeaves
  /\ grown' = grown + 1
  /\ UNCHANGED <<rpc, proof, ranges, path, pending, hashes, cache, lied>>

RootAt(h, n) == TreeHash(LeavesOf(h), 0, n)

\* inclusion and consistency begin; fetch_comparison refuses two roots of one size first.
BeginProof(q) ==
  /\ rpc = "idle" /\ q.size <= grown
  /\ IF q.kind = "inclusion" THEN q.index < q.size ELSE q.index <= q.size
  /\ proof' = q
  /\ ranges' = IF q.kind = "inclusion" THEN InclusionRanges(q.index, q.size)
               ELSE ConsistencyRanges(q.index, q.size)
  /\ rpc' = IF /\ q.kind = "consistency" /\ q.index = q.size
               /\ RootAt(q.of, q.index) # RootAt(MainLog, q.size)
            THEN "refused" ELSE "range"
  /\ UNCHANGED <<grown, path, pending, hashes, cache, lied>>

\* verify, of the record or of the comparison, with the path that was put together.
Verified ==
  LET root == RootAt(MainLog, proof.size) IN
  IF proof.kind = "inclusion"
  THEN VerifyInclusion(LeavesOf(proof.of)[proof.index + 1], proof.index, proof.size, path, root)
  ELSE VerifyConsistencyPath(proof.index, proof.size, RootAt(proof.of, proof.index), root, path)

\* The next node of the path, or the end of it.
NextRange ==
  /\ rpc = "range"
  /\ IF ranges = <<>>
     THEN rpc' = (IF Verified THEN "proved" ELSE "refused") /\ UNCHANGED <<ranges, pending>>
     ELSE LET start == Head(ranges)[1]
              size  == Head(ranges)[2]
          IN /\ rpc' = IF size > 0 /\ start + size <= proof.size THEN "assemble" ELSE "failed"
             /\ pending' = <<[range |-> <<start, size>>, join |-> FALSE]>>
             /\ ranges' = Tail(ranges)
  /\ UNCHANGED <<grown, proof, path, hashes, cache, lied>>

----------------------------------------------------------------------------
\* Where perfect_root finds the root of a subtree of 1 << height leaves: the tile, the
\* place in it, and how many hashes of it the authenticated tree has.
Place(start, size) ==
  LET height == CHOOSE e \in 0 .. size : Power[e] = size
      level  == height \div TileHeight
      unit   == Power[TileHeight * level]
      node   == start \div unit
      tile   == node \div TileWidth
      have   == (proof.size \div unit) - tile * TileWidth
  IN [level |-> level, tile |-> tile, offset |-> node % TileWidth,
      count |-> Power[height % TileHeight], width |-> IF have < TileWidth THEN have ELSE TileWidth]

Perfect(size) == \E e \in 0 .. size : Power[e] = size

Cached(p) == {c \in cache : c.level = p.level /\ c.tile = p.tile}

\* The hashes of a tile are joined in pairs, turn by turn, until one is left.
JoinPairs(s) ==
  LET turn[j \in Nat] ==
        IF j = 0 THEN s
        ELSE LET p == turn[j - 1]
             IN [i \in 1 .. Len(p) \div 2 |-> NodeHash(p[2 * i - 1], p[2 * i])]
      last == CHOOSE j \in 0 .. Len(s) : Len(turn[j]) = 1
  IN turn[last][1]

Top == Last(pending)

Fail == rpc' = "failed" /\ UNCHANGED <<pending, hashes>>

\* A turn of range_root: two roots are joined,
JoinRoots ==
  /\ Top.join
  /\ IF Len(hashes) < 2 THEN Fail
     ELSE /\ hashes' = Append(Front(Front(hashes)), NodeHash(Last(Front(hashes)), Last(hashes)))
          /\ pending' = Front(pending) /\ UNCHANGED rpc

\* a subtree that is not perfect is divided,
Divide ==
  LET start == Top.range[1]
      size  == Top.range[2]
      k     == Split(size)
  IN /\ ~ Top.join /\ ~ Perfect(size)
     /\ pending' = Front(pending) \o
          <<[range |-> Top.range, join |-> TRUE],
            [range |-> <<start + k, size - k>>, join |-> FALSE],
            [range |-> <<start, k>>, join |-> FALSE]>>
     /\ UNCHANGED <<hashes, rpc>>

\* or perfect_root looks one up.
LookUp ==
  LET start == Top.range[1]
      size  == Top.range[2]
      p     == Place(start, size)
  IN /\ ~ Top.join /\ Perfect(size)
     /\ IF \/ start % size # 0 \/ start + size > proof.size
           \/ p.offset + p.count > p.width
           \/ Cached(p) = {} /\ Cardinality(cache) >= MaxTiles
        THEN Fail
        ELSE IF Cached(p) = {} THEN rpc' = "tile" /\ UNCHANGED <<hashes, pending>>
        ELSE /\ \E c \in Cached(p) : hashes' = Append(hashes,
                    JoinPairs(SubSeq(c.hashes, p.offset + 1, p.offset + p.count)))
             /\ pending' = Front(pending) /\ UNCHANGED rpc

Assemble ==
  /\ rpc = "assemble" /\ pending # <<>>
  /\ JoinRoots \/ Divide \/ LookUp
  /\ UNCHANGED <<grown, proof, ranges, path, cache, lied>>

\* The root of the subtree is the next node of the path.
EndRange ==
  /\ rpc = "assemble" /\ pending = <<>>
  /\ IF Len(hashes) # 1 THEN Fail /\ UNCHANGED path
     ELSE /\ path' = Append(path, hashes[1]) /\ hashes' = <<>>
          /\ rpc' = "range" /\ UNCHANGED pending
  /\ UNCHANGED <<grown, proof, ranges, cache, lied>>

----------------------------------------------------------------------------
Wanted == Place(Top.range[1], Top.range[2])

\* The first w hashes of a tile, as a log with history h has them.
TileOf(h, p, w) ==
  LET unit == Power[TileHeight * p.level] IN
  [i \in 1 .. w |-> TreeHash(LeavesOf(h), (p.tile * TileWidth + i - 1) * unit, unit)]

HasFull(p) == grown \div Power[TileHeight * p.level] >= (p.tile + 1) * TileWidth

Keep(p, s) == cache' = cache \cup {[level |-> p.level, tile |-> p.tile, hashes |-> s]}

\* The log answers with the tile of the width that is asked for.
AnswerTile(h) ==
  /\ rpc = "tile"
  /\ Keep(Wanted, TileOf(h, Wanted, Wanted.width))
  /\ lied' = (lied \/ TileOf(h, Wanted, Wanted.width) # TileOf(MainLog, Wanted, Wanted.width))
  /\ rpc' = "assemble"
  /\ UNCHANGED <<grown, proof, ranges, path, pending, hashes>>

\* Fault: a partial tile that is gone is the end.
NoTileFinal ==
  /\ rpc = "tile"
  /\ lied' = (lied \/ ~ (Wanted.width < TileWidth /\ HasFull(Wanted)))
  /\ rpc' = "failed"
  /\ UNCHANGED <<grown, proof, ranges, path, pending, hashes, cache>>

\* It has no such tile.  Of a partial one it may say so once it has the full one.
NoTile ==
  /\ rpc = "tile"
  /\ lied' = (lied \/ ~ (Wanted.width < TileWidth /\ HasFull(Wanted)))
  /\ rpc' = IF Wanted.width < TileWidth THEN "full" ELSE "failed"
  /\ UNCHANGED <<grown, proof, ranges, path, pending, hashes, cache>>

\* The full tile instead, if the log has it.
AnswerFull(h) ==
  /\ rpc = "full" /\ HasFull(Wanted)
  /\ Keep(Wanted, TileOf(h, Wanted, TileWidth))
  /\ lied' = (lied \/ TileOf(h, Wanted, TileWidth) # TileOf(MainLog, Wanted, TileWidth))
  /\ rpc' = "assemble"
  /\ UNCHANGED <<grown, proof, ranges, path, pending, hashes>>

\* Neither of them, or one of a wrong length.
NoTileAtAll ==
  /\ rpc \in {"tile", "full"}
  /\ lied' = TRUE
  /\ rpc' = "failed"
  /\ UNCHANGED <<grown, proof, ranges, path, pending, hashes, cache>>

\* The time for the whole operation is over.
ExpireProof ==
  /\ rpc \in {"tile", "full"}
  /\ rpc' = "expired"
  /\ UNCHANGED <<grown, proof, ranges, path, pending, hashes, cache, lied>>

TilesInit ==
  /\ grown \in 1 .. MaxLeaves
  /\ rpc = "idle" /\ proof = None /\ ranges = <<>> /\ path = <<>>
  /\ pending = <<>> /\ hashes = <<>> /\ cache = {} /\ lied = FALSE

TilesNext ==
  \/ GrowLog \/ NextRange \/ Assemble \/ EndRange \/ NoTile \/ NoTileAtAll \/ ExpireProof
  \/ \E q \in Proofs : BeginProof(q)
  \/ \E h \in {MainLog, ForkedLog} : AnswerTile(h) \/ AnswerFull(h)

TilesSpec == TilesInit /\ [][TilesNext]_tileVars

----------------------------------------------------------------------------
\* The statement holds: the leaf is where it is said to be, or the earlier tree is the
\* beginning of the later one.
TrueOf(q) ==
  IF q.kind = "inclusion" THEN LeavesOf(q.of)[q.index + 1] = LeavesOf(MainLog)[q.index + 1]
  ELSE \A i \in 1 .. q.index : LeavesOf(q.of)[i] = LeavesOf(MainLog)[i]

\* Whatever the log serves, only what is true is proved: the proofs are sound for every
\* size, that of an empty, an equal and a just full tree too.
ProvedIsTrue == rpc = "proved" => TrueOf(proof)

\* What is true is proved if the log serves its tiles, however it grows and drops partial
\* tiles meanwhile.
ServedIsProved == ~ lied => rpc # "failed" /\ (rpc = "refused" => ~ TrueOf(proof))
=============================================================================
