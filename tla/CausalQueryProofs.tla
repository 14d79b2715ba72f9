------------------------- MODULE CausalQueryProofs -------------------------
(***************************************************************************)
(* Proofs about CausalQuery, for any events, any ledger that runs write,   *)
(* and die writing, while it is read, and any query: QueryAnswers.         *)
(***************************************************************************)
EXTENDS CausalQuery, FiniteSetTheorems, TLAPS

\* A set of numbers with a member has a least one.
LEMMA LeastOf ==
  ASSUME NEW T \in SUBSET Nat, T # {}
  PROVE  \E x \in T : \A y \in T : x <= y
<1> DEFINE R == OpToRel(<, Nat)
<1>1. IsWellFoundedOn(R, Nat)
  BY NatLessThanWellFounded
<1>2. \A x, y \in Nat : x < y => <<x, y>> \in R
  BY DEF OpToRel
<1> HIDE DEF R
<1>3. PICK x \in T : \A y \in T : ~ (<<y, x>> \in R)
  BY <1>1, WFMin, Zenon
<1>4. ASSUME NEW y \in T PROVE x <= y
  <2>1. x \in Nat /\ y \in Nat
    OBVIOUS
  <2>2. ~(y < x)
    BY <1>2, <1>3, <2>1, Zenon
  <2> QED BY <2>1, <2>2
<1> QED BY <1>4

----------------------------------------------------------------------------
(* Queries on the causal ledger.  An event that is complete never changes, *)
(* what it came from is complete too, and no event came from itself.  What *)
(* was there when the reading began is read, and so is all it came from.   *)

Complete == {e \in LedgerEvents : evfile[e] \notin {None, Torn}}

Parents(e) == Range(evfile[e].parents)

LedgerTypes ==
  /\ evfile \in [LedgerEvents -> Recorded \cup {None, Torn}]
  /\ writing \in [event : LedgerEvents, content : Recorded] \cup {None}
  /\ qpc \in {"idle", "load", "path", "chain", "done", "failed"}
  /\ qpc # "idle" => asked \in Queries
  /\ qpc = "chain" => asked.kind = "chain"
  /\ listed \in SUBSET LedgerEvents
  /\ loaded \in SUBSET LedgerEvents

\* A run records an event after those it names.
Ancestry ==
  /\ \A e \in Complete : Parents(e) \subseteq Complete
  /\ writing # None => /\ evfile[writing.event] = Torn
                       /\ Range(writing.content.parents) \subseteq Complete

NoCircle == \A S \in SUBSET Complete : S # {} => \E e \in S : Parents(e) \cap S = {}

ListedPart ==
  /\ \A e \in listed : evfile[e] # None
  /\ \A e \in listed \cap Complete : Parents(e) \subseteq listed
  /\ writing # None /\ writing.event \in listed =>
       Range(writing.content.parents) \subseteq listed

LoadedPart ==
  /\ qpc # "failed" => loaded \subseteq Complete
  /\ qpc \in {"path", "chain", "done"} => listed \subseteq loaded

LedgerInv == LedgerTypes /\ Ancestry /\ NoCircle /\ ListedPart /\ LoadedPart

\* A recorded event is neither missing nor torn, and its parents are events.
LEMMA RecordedEvent ==
  ASSUME NEW c \in Recorded
  PROVE  c # None /\ c # Torn /\ c.parents \in Seq(LedgerEvents)
                  /\ Range(c.parents) \subseteq LedgerEvents
<1>1. c \in EventContent /\ None \notin EventContent /\ None \notin Seq(LedgerEvents)
  BY QueryAssumption
<1>2. c.parents \in Seq(LedgerEvents)
  BY <1>1 DEF EventContent
<1>3. Torn.parents = None
  BY DEF Torn
<1> HIDE DEF Torn
<1>4. Range(c.parents) \subseteq LedgerEvents
  BY <1>2 DEF Range
<1> QED BY <1>1, <1>2, <1>3, <1>4

\* What is complete was recorded.
LEMMA CompleteEvent ==
  ASSUME LedgerTypes, NEW e \in Complete
  PROVE  evfile[e] \in Recorded /\ evfile[e].parents \in Seq(LedgerEvents)
                                /\ Parents(e) \subseteq LedgerEvents
<1>1. evfile[e] \in Recorded
  BY DEF LedgerTypes, Complete
<1> QED BY <1>1, RecordedEvent DEF Parents

\* A run begins an event: nothing that was complete changes.
LEMMA BeginRecordLedger ==
  ASSUME LedgerInv, NEW e \in LedgerEvents, NEW c \in Recorded, BeginRecord(e, c)
  PROVE  LedgerInv'
<1> USE DEF LedgerInv
<1>1. /\ evfile[e] = None /\ evfile' = [evfile EXCEPT ![e] = Torn]
      /\ writing' = [event |-> e, content |-> c]
      /\ UNCHANGED <<qpc, asked, listed, loaded>>
      /\ \A p \in Range(c.parents) : evfile[p] \notin {None, Torn}
  BY DEF BeginRecord
<1>2. None # Torn
  BY QueryAssumption
<1> HIDE DEF Torn
<1>3. /\ evfile' \in [LedgerEvents -> Recorded \cup {None, Torn}]
      /\ \A f \in LedgerEvents : evfile'[f] = IF f = e THEN Torn ELSE evfile[f]
  BY <1>1 DEF LedgerTypes
<1>4. /\ Complete' = Complete /\ e \notin Complete
      /\ \A f \in Complete : Parents(f)' = Parents(f)
  BY <1>1, <1>3 DEF Complete, Parents
<1>5. Range(c.parents) \subseteq Complete
  BY <1>1, RecordedEvent DEF Complete
<1>6. writing'.event = e /\ writing'.content = c
  BY <1>1
<1>7. LedgerTypes'
  BY <1>1, <1>3 DEF LedgerTypes
<1>8. Ancestry'
  BY <1>3, <1>4, <1>5, <1>6 DEF Ancestry
<1>9. NoCircle'
  BY <1>4 DEF NoCircle
<1>10. e \notin listed
  BY <1>1 DEF ListedPart
<1>11. ListedPart'
  BY <1>1, <1>3, <1>4, <1>6, <1>10 DEF ListedPart, LedgerTypes
<1>12. LoadedPart'
  BY <1>1, <1>4 DEF LoadedPart
<1> QED BY <1>7, <1>8, <1>9, <1>11, <1>12

\* A run completes an event: no complete event has it as a parent.
LEMMA EndRecordLedger ==
  ASSUME LedgerInv, EndRecord
  PROVE  LedgerInv'
<1> USE DEF LedgerInv
<1>0. writing # None /\ writing.event \in LedgerEvents /\ writing.content \in Recorded
  BY DEF LedgerTypes, EndRecord
<1>2. PICK e \in LedgerEvents, c \in Recorded : e = writing.event /\ c = writing.content
  BY <1>0
<1>1. /\ writing # None /\ evfile' = [evfile EXCEPT ![e] = c] /\ writing' = None
      /\ UNCHANGED <<qpc, asked, listed, loaded>>
  BY <1>2 DEF EndRecord
<1>3. evfile[e] = Torn /\ Range(c.parents) \subseteq Complete
  BY <1>1, <1>2 DEF Ancestry
<1>4. c # None /\ c # Torn
  BY <1>2, RecordedEvent
<1>5. e \in listed => Range(c.parents) \subseteq listed
  BY <1>1, <1>2 DEF ListedPart
<1> HIDE DEF Torn
<1>6. /\ evfile' \in [LedgerEvents -> Recorded \cup {None, Torn}]
      /\ \A f \in LedgerEvents : evfile'[f] = IF f = e THEN c ELSE evfile[f]
  BY <1>1, <1>2 DEF LedgerTypes
<1>7. /\ Complete' = Complete \cup {e} /\ e \notin Complete
      /\ \A f \in Complete : Parents(f)' = Parents(f)
      /\ Parents(e)' = Range(c.parents)
  BY <1>2, <1>3, <1>4, <1>6 DEF Complete, Parents
<1>8. LedgerTypes'
  BY <1>1, <1>6 DEF LedgerTypes
<1>9. Ancestry'
  BY <1>1, <1>3, <1>7 DEF Ancestry
<1>10. NoCircle'
  <2> SUFFICES ASSUME NEW S \in SUBSET (Complete \cup {e}), S # {}
               PROVE  \E f \in S : Parents(f)' \cap S = {}
    BY <1>7 DEF NoCircle
  <2>1. CASE S = {e}
    BY <2>1, <1>3, <1>7
  <2>2. CASE S # {e}
    <3> DEFINE U == S \ {e}
    <3>1. U \in SUBSET Complete /\ U # {}
      BY <2>2
    <3>2. PICK f \in U : Parents(f) \cap U = {}
      BY <3>1 DEF NoCircle
    <3>3. f \in Complete /\ Parents(f) \subseteq Complete
      BY <3>1, <3>2 DEF Ancestry
    <3>4. Parents(f)' \cap S = {}
      BY <3>2, <3>3, <1>7
    <3> QED BY <3>2, <3>4
  <2> QED BY <2>1, <2>2
<1>11. ListedPart'
  BY <1>1, <1>4, <1>5, <1>6, <1>7 DEF ListedPart, LedgerTypes
<1>12. LoadedPart'
  BY <1>1, <1>7 DEF LoadedPart
<1> QED BY <1>8, <1>9, <1>10, <1>11, <1>12

\* A step of a query leaves the ledger alone.
LEMMA SameLedger ==
  ASSUME LedgerInv, UNCHANGED <<evfile, writing>>
  PROVE  /\ Complete' = Complete
         /\ \A e : Parents(e)' = Parents(e)
         /\ Ancestry' /\ NoCircle'
<1>1. Complete' = Complete /\ \A e : Parents(e)' = Parents(e)
  BY DEF Complete, Parents
<1>2. Ancestry'
  BY <1>1 DEF LedgerInv, Ancestry
<1>3. NoCircle'
  BY <1>1 DEF LedgerInv, NoCircle
<1> QED BY <1>1, <1>2, <1>3

\* The reading begins, and goes on file by file.
LEMMA ReadLedger ==
  ASSUME LedgerInv,
         (\E q \in Queries : BeginQuery(q)) \/ (\E e \in LedgerEvents : LoadEvent(e))
  PROVE  LedgerInv'
<1> USE DEF LedgerInv
<1>0. UNCHANGED <<evfile, writing>>
  BY DEF BeginQuery, LoadEvent
<1>1. /\ Complete' = Complete
      /\ \A e : Parents(e)' = Parents(e)
      /\ Ancestry' /\ NoCircle'
  BY <1>0, SameLedger
<1>2. CASE \E q \in Queries : BeginQuery(q)
  <2>1. /\ qpc = "idle" /\ qpc' = "load" /\ asked' \in Queries /\ loaded' = loaded
        /\ listed' = {e \in LedgerEvents : evfile[e] # None}
    BY <1>2 DEF BeginQuery
  <2>2. Complete \subseteq listed'
    BY <2>1 DEF Complete
  <2>3. LedgerTypes'
    BY <1>0, <2>1 DEF LedgerTypes
  <2>4. ListedPart'
    BY <1>0, <1>1, <2>1, <2>2 DEF ListedPart, Ancestry
  <2>5. LoadedPart'
    BY <1>1, <2>1 DEF LoadedPart
  <2> QED BY <1>1, <2>3, <2>4, <2>5
<1>3. CASE \E e \in LedgerEvents : LoadEvent(e)
  <2>1. PICK e \in LedgerEvents : LoadEvent(e)
    BY <1>3
  <2>2. /\ qpc = "load" /\ evfile[e] # None /\ loaded' = loaded \cup {e}
        /\ (evfile[e] = Torn => qpc' = "failed")
        /\ (evfile[e] # Torn => qpc' = "load")
        /\ UNCHANGED <<asked, listed>>
    BY <2>1 DEF LoadEvent
  <2>3. LedgerTypes'
    BY <1>0, <2>2 DEF LedgerTypes
  <2>4. ListedPart'
    BY <1>0, <1>1, <2>2 DEF ListedPart
  <2>5. LoadedPart'
    BY <1>1, <2>2 DEF LoadedPart, Complete
  <2> QED BY <1>1, <2>3, <2>4, <2>5
<1> QED BY <1>2, <1>3

\* The query itself works on what it has read.
LEMMA AnswerLedger ==
  ASSUME LedgerInv,
         BeginPath \/ SearchPath \/ Statistics \/ BeginChain \/ SortChain \/ EndChain
  PROVE  LedgerInv'
<1> USE DEF LedgerInv
<1>0. UNCHANGED <<evfile, writing, asked, listed, loaded>>
  BY DEF BeginPath, SearchPath, Statistics, BeginChain, SortChain, EndChain
<1>1. /\ Complete' = Complete
      /\ \A e : Parents(e)' = Parents(e)
      /\ Ancestry' /\ NoCircle'
  BY <1>0, SameLedger
<1>2. /\ qpc \in {"load", "path", "chain"} /\ qpc' \in {"path", "chain", "done", "failed"}
      /\ qpc = "load" => listed \subseteq loaded
      /\ qpc' = "chain" => qpc = "chain" \/ asked.kind = "chain"
  BY DEF BeginPath, SearchPath, Statistics, BeginChain, SortChain, EndChain, Loaded
<1>3. LedgerTypes'
  BY <1>0, <1>2 DEF LedgerTypes
<1>4. ListedPart'
  BY <1>0, <1>1 DEF ListedPart
<1>5. LoadedPart'
  BY <1>0, <1>1, <1>2 DEF LoadedPart
<1> QED BY <1>1, <1>3, <1>4, <1>5

LEMMA LedgerNext == LedgerInv /\ [QueryNext]_queryVars => LedgerInv'
<1> SUFFICES ASSUME LedgerInv, [QueryNext]_queryVars PROVE LedgerInv'
  OBVIOUS
<1>1. CASE KillRecorder \/ UNCHANGED queryVars
  <2>1. /\ UNCHANGED <<evfile, qpc, asked, listed, loaded>>
        /\ writing' = writing \/ writing' = None
    BY <1>1 DEF KillRecorder, queryVars
  <2>2. Complete' = Complete /\ \A e : Parents(e)' = Parents(e)
    BY <2>1 DEF Complete, Parents
  <2>3. LedgerTypes'
    BY <2>1 DEF LedgerInv, LedgerTypes
  <2>4. Ancestry' /\ NoCircle'
    BY <2>1, <2>2 DEF LedgerInv, Ancestry, NoCircle
  <2>5. ListedPart' /\ LoadedPart'
    BY <2>1, <2>2 DEF LedgerInv, ListedPart, LoadedPart
  <2> QED BY <2>3, <2>4, <2>5 DEF LedgerInv
<1>2. CASE \E e \in LedgerEvents, c \in Recorded : BeginRecord(e, c)
  BY <1>2, BeginRecordLedger
<1> QED BY <1>1, <1>2, EndRecordLedger, ReadLedger, AnswerLedger DEF QueryNext

\* What is complete stays as it is.
LEMMA Frozen ==
  ASSUME LedgerInv, [QueryNext]_queryVars
  PROVE  /\ Complete \subseteq Complete'
         /\ \A e \in Complete : evfile'[e] = evfile[e]
         /\ LedgerInv'
<1>0. LedgerInv'
  BY LedgerNext
<1>1. CASE \E e \in LedgerEvents, c \in Recorded : BeginRecord(e, c)
  <2>1. PICK e \in LedgerEvents : evfile[e] = None /\ evfile' = [evfile EXCEPT ![e] = Torn]
    BY <1>1 DEF BeginRecord
  <2>2. \A f \in Complete : f \in LedgerEvents /\ evfile'[f] = evfile[f]
    BY <2>1 DEF Complete, LedgerInv, LedgerTypes
  <2> QED BY <1>0, <2>2 DEF Complete
<1>2. CASE EndRecord
  <2>1. writing # None /\ evfile' = [evfile EXCEPT ![writing.event] = writing.content]
    BY <1>2 DEF EndRecord
  <2>2. evfile[writing.event] = Torn
    BY <2>1 DEF LedgerInv, Ancestry
  <2>3. \A f \in Complete : f \in LedgerEvents /\ evfile'[f] = evfile[f]
    BY <2>1, <2>2 DEF Complete, LedgerInv, LedgerTypes
  <2> QED BY <1>0, <2>3 DEF Complete
<1>3. CASE UNCHANGED evfile
  BY <1>0, <1>3 DEF Complete
<1> QED BY <1>1, <1>2, <1>3 DEF QueryNext, queryVars, KillRecorder, BeginQuery, LoadEvent,
           BeginPath, SearchPath, Statistics, BeginChain, SortChain, EndChain

----------------------------------------------------------------------------
(* `attest causal path`.  The search is breadth-first: the paths in its    *)
(* queue are shortest ones and of two lengths at most, and what can be     *)
(* reached no farther than the first of them has been seen.                *)

\* A chain of parents from the event that the query names first.
PathFrom(p) == p \in Seq(LedgerEvents) /\ p # <<>> /\ p[1] = asked.from /\ IsChain(p)

\* The events that are in the queue, each at the end of its path.
Waiting == {Last(queue[i]) : i \in DOMAIN queue}

SearchPart ==
  qpc = "path" =>
    /\ asked.kind = "path" /\ {asked.from, asked.to} \subseteq loaded
    /\ queue \in Seq(Seq(LedgerEvents))
    /\ \A i \in DOMAIN queue : PathFrom(queue[i]) /\ Last(queue[i]) \in visited

\* An event that was seen and is not in the queue has been expanded.
Expanded ==
  /\ asked.from \in visited /\ visited \subseteq listed
  /\ \A v \in visited \ Waiting : v # asked.to /\ Parents(v) \subseteq visited

TwoLengths ==
  /\ \A i, j \in DOMAIN queue : i <= j => Len(queue[i]) <= Len(queue[j])
  /\ \A i \in DOMAIN queue : Len(queue[i]) <= Len(queue[1]) + 1

Shortest ==
  \A i \in DOMAIN queue : \A p \in Seq(LedgerEvents) :
    PathFrom(p) /\ Last(p) = Last(queue[i]) => Len(queue[i]) <= Len(p)

NearSeen ==
  queue # <<>> =>
    \A p \in Seq(LedgerEvents) : PathFrom(p) /\ Len(p) <= Len(queue[1]) => Last(p) \in visited

Breadth ==
  qpc = "path" /\ asked.from \in listed => Expanded /\ TwoLengths /\ Shortest /\ NearSeen

\* Events that were read and that our key signed.
Vouched(p) == p # <<>> /\ \A i \in DOMAIN p : p[i] \in loaded /\ evfile[p[i]].ours

PathDone ==
  Done("path") =>
    /\ answer.path \in Seq(LedgerEvents)
    /\ answer.path # <<>> => PathFrom(answer.path) /\ Last(answer.path) = asked.to
    /\ asked.from \in listed =>
         \A p \in Seq(LedgerEvents) :
           PathFrom(p) /\ Last(p) = asked.to => answer.path # <<>> /\ Len(answer.path) <= Len(p)
    /\ answer.valid => Vouched(answer.path)

PathQueryInv == SearchPart /\ Breadth /\ PathDone

Past == {"path", "chain", "done"}

\* A chain, link by link.
LEMMA ChainLinks ==
  ASSUME NEW p \in Seq(LedgerEvents)
  PROVE  IsChain(p) <=> \A i \in 1 .. Len(p) - 1 : p[i] \in Complete /\ p[i + 1] \in Parents(p[i])
<1>0. Len(p) \in Nat /\ DOMAIN p = 1 .. Len(p) /\ \A i \in DOMAIN p : p[i] \in LedgerEvents
  OBVIOUS
<1>1. ASSUME IsChain(p), NEW i \in 1 .. Len(p) - 1
      PROVE  p[i] \in Complete /\ p[i + 1] \in Parents(p[i])
  <2>1. i + 1 \in 2 .. Len(p) /\ (i + 1) - 1 = i /\ i \in DOMAIN p
    BY <1>0
  <2>2. /\ evfile[p[(i + 1) - 1]] \notin {None, Torn}
        /\ p[i + 1] \in Range(evfile[p[(i + 1) - 1]].parents)
    BY <1>1, <2>1 DEF IsChain
  <2> QED BY <2>1, <2>2, <1>0 DEF Complete, Parents
<1>2. ASSUME \A i \in 1 .. Len(p) - 1 : p[i] \in Complete /\ p[i + 1] \in Parents(p[i])
      PROVE  IsChain(p)
  <2> SUFFICES ASSUME NEW i \in 2 .. Len(p)
               PROVE  /\ evfile[p[i - 1]] \notin {None, Torn}
                      /\ p[i] \in Range(evfile[p[i - 1]].parents)
    BY DEF IsChain
  <2>1. i - 1 \in 1 .. Len(p) - 1 /\ (i - 1) + 1 = i
    BY <1>0
  <2>2. p[i - 1] \in Complete /\ p[(i - 1) + 1] \in Parents(p[i - 1])
    BY <1>2, <2>1
  <2> QED BY <2>1, <2>2 DEF Complete, Parents
<1> QED BY <1>1, <1>2

\* The same after a step.
LEMMA ChainLinksNext ==
  ASSUME NEW p \in Seq(LedgerEvents)
  PROVE  IsChain(p)' <=> \A i \in 1 .. Len(p) - 1 : p[i] \in Complete' /\ p[i + 1] \in Parents(p[i])'
<1>0. Len(p) \in Nat /\ DOMAIN p = 1 .. Len(p) /\ \A i \in DOMAIN p : p[i] \in LedgerEvents
  OBVIOUS
<1>1. ASSUME IsChain(p)', NEW i \in 1 .. Len(p) - 1
      PROVE  p[i] \in Complete' /\ p[i + 1] \in Parents(p[i])'
  <2>1. i + 1 \in 2 .. Len(p) /\ (i + 1) - 1 = i /\ i \in DOMAIN p
    BY <1>0
  <2>2. /\ evfile'[p[(i + 1) - 1]] \notin {None, Torn}
        /\ p[i + 1] \in Range(evfile'[p[(i + 1) - 1]].parents)
    BY <1>1, <2>1 DEF IsChain
  <2> QED BY <2>1, <2>2, <1>0 DEF Complete, Parents
<1>2. ASSUME \A i \in 1 .. Len(p) - 1 : p[i] \in Complete' /\ p[i + 1] \in Parents(p[i])'
      PROVE  IsChain(p)'
  <2> SUFFICES ASSUME NEW i \in 2 .. Len(p)
               PROVE  /\ evfile'[p[i - 1]] \notin {None, Torn}
                      /\ p[i] \in Range(evfile'[p[i - 1]].parents)
    BY DEF IsChain
  <2>1. i - 1 \in 1 .. Len(p) - 1 /\ (i - 1) + 1 = i
    BY <1>0
  <2>2. p[i - 1] \in Complete' /\ p[(i - 1) + 1] \in Parents(p[i - 1])'
    BY <1>2, <2>1
  <2> QED BY <2>1, <2>2 DEF Complete, Parents
<1> QED BY <1>1, <1>2

\* A chain goes on to any parent of its last event.
LEMMA ChainExtends ==
  ASSUME LedgerInv, NEW p, PathFrom(p), Last(p) \in Complete, NEW w \in Parents(Last(p))
  PROVE  /\ PathFrom(Append(p, w)) /\ Append(p, w) \in Seq(LedgerEvents)
         /\ Len(Append(p, w)) = Len(p) + 1 /\ Last(Append(p, w)) = w
<1> DEFINE n == Len(p)
           a == Append(p, w)
<1>1. p \in Seq(LedgerEvents) /\ p # <<>> /\ p[1] = asked.from /\ IsChain(p)
  BY DEF PathFrom
<1>2. w \in LedgerEvents
  BY CompleteEvent DEF LedgerInv
<1>3. /\ a \in Seq(LedgerEvents) /\ Len(a) = n + 1 /\ a[n + 1] = w /\ n \in Nat \ {0}
      /\ \A i \in 1 .. n : a[i] = p[i]
  BY <1>1, <1>2
<1>4. p[n] \in Complete /\ w \in Parents(p[n])
  BY DEF Last
<1>5. \A i \in 1 .. n - 1 : p[i] \in Complete /\ p[i + 1] \in Parents(p[i])
  BY <1>1, ChainLinks
<1> HIDE DEF n, a
<1>6. ASSUME NEW i \in 1 .. Len(a) - 1 PROVE a[i] \in Complete /\ a[i + 1] \in Parents(a[i])
  <2>1. CASE i = n
    BY <2>1, <1>3, <1>4
  <2>2. CASE i # n
    <3>1. i \in 1 .. n - 1 /\ i \in 1 .. n /\ i + 1 \in 1 .. n
      BY <2>2, <1>3
    <3> QED BY <3>1, <1>3, <1>5
  <2> QED BY <2>1, <2>2
<1>7. IsChain(a)
  BY <1>3, <1>6, ChainLinks
<1>8. a # <<>> /\ a[1] = asked.from
  BY <1>1, <1>3
<1>9. Last(a) = w
  BY <1>3 DEF Last
<1> QED BY <1>3, <1>7, <1>8, <1>9 DEF PathFrom, a, n

\* The first events of a chain are a chain.
LEMMA ChainPrefix ==
  ASSUME NEW p, PathFrom(p), NEW n \in 1 .. Len(p)
  PROVE  \E r \in Seq(LedgerEvents) : PathFrom(r) /\ Len(r) = n /\ Last(r) = p[n]
<1> DEFINE r == [i \in 1 .. n |-> p[i]]
<1>1. p \in Seq(LedgerEvents) /\ p # <<>> /\ p[1] = asked.from /\ IsChain(p)
  BY DEF PathFrom
<1>2. n \in Nat /\ \A i \in 1 .. n : p[i] \in LedgerEvents
  BY <1>1
<1>3. r \in Seq(LedgerEvents) /\ Len(r) = n /\ \A i \in 1 .. n : r[i] = p[i]
  BY <1>2
<1>4. \A i \in 1 .. Len(p) - 1 : p[i] \in Complete /\ p[i + 1] \in Parents(p[i])
  BY <1>1, ChainLinks
<1> HIDE DEF r
<1>5. ASSUME NEW i \in 1 .. Len(r) - 1 PROVE r[i] \in Complete /\ r[i + 1] \in Parents(r[i])
  <2>1. i \in 1 .. Len(p) - 1 /\ i \in 1 .. n /\ i + 1 \in 1 .. n
    BY <1>1, <1>2, <1>3
  <2> QED BY <2>1, <1>3, <1>4
<1>6. IsChain(r)
  BY <1>3, <1>5, ChainLinks
<1>7. r # <<>> /\ r[1] = asked.from /\ Last(r) = p[n]
  BY <1>1, <1>2, <1>3 DEF Last
<1> QED BY <1>3, <1>6, <1>7 DEF PathFrom

\* A chain that starts in a set closed under parents stays in it.
LEMMA ChainStays ==
  ASSUME NEW p, PathFrom(p), NEW S, asked.from \in S,
         \A e \in S \cap Complete : Parents(e) \subseteq S
  PROVE  \A i \in DOMAIN p : p[i] \in S
<1>1. p \in Seq(LedgerEvents) /\ p # <<>> /\ p[1] = asked.from /\ IsChain(p)
  BY DEF PathFrom
<1>2. \A i \in 1 .. Len(p) - 1 : p[i] \in Complete /\ p[i + 1] \in Parents(p[i])
  BY <1>1, ChainLinks
<1> DEFINE T == {i \in DOMAIN p : p[i] \notin S}
<1> SUFFICES ASSUME T # {} PROVE FALSE
  OBVIOUS
<1>3. T \in SUBSET Nat
  BY <1>1
<1> HIDE DEF T
<1>4. PICK m \in T : \A i \in T : m <= i
  BY <1>3, LeastOf
<1>5. m \in 1 .. Len(p) /\ p[m] \notin S /\ Len(p) \in Nat
  BY <1>1, <1>4 DEF T
<1>6. m # 1
  BY <1>1, <1>5
<1>7. m - 1 \in 1 .. Len(p) - 1 /\ (m - 1) + 1 = m /\ m - 1 \in DOMAIN p /\ ~(m <= m - 1)
  BY <1>1, <1>5, <1>6
<1>8. p[m - 1] \in S
  BY <1>4, <1>7 DEF T
<1> QED BY <1>2, <1>5, <1>7, <1>8

\* What the query has read stays as it is, and so do the chains from an event that was
\* there when the reading began.
LEMMA SameChains ==
  ASSUME LedgerInv, [QueryNext]_queryVars, qpc \in Past, qpc' \in Past,
         UNCHANGED <<asked, listed, loaded>>
  PROVE  /\ \A p : PathFrom(p) => PathFrom(p)'
         /\ asked.from \in listed => \A p : PathFrom(p)' => PathFrom(p)
         /\ \A e \in loaded : Parents(e)' = Parents(e) /\ evfile'[e] = evfile[e]
<1>1. /\ Complete \subseteq Complete' /\ LedgerInv'
      /\ \A e \in Complete : evfile'[e] = evfile[e]
  BY Frozen
<1>2. loaded \subseteq Complete /\ listed \subseteq loaded
  BY DEF LedgerInv, LoadedPart, Past
<1>3. \A e \in Complete : Parents(e)' = Parents(e)
  BY <1>1 DEF Parents
<1>4. ASSUME NEW p, PathFrom(p) PROVE PathFrom(p)'
  <2>1. p \in Seq(LedgerEvents) /\ p # <<>> /\ p[1] = asked.from /\ IsChain(p)
    BY <1>4 DEF PathFrom
  <2>2. \A i \in 1 .. Len(p) - 1 : p[i] \in Complete /\ p[i + 1] \in Parents(p[i])
    BY <2>1, ChainLinks
  <2>3. \A i \in 1 .. Len(p) - 1 : p[i] \in Complete' /\ p[i + 1] \in Parents(p[i])'
    BY <2>2, <1>1, <1>3
  <2>4. IsChain(p)'
    BY <2>1, <2>3, ChainLinksNext
  <2> QED BY <2>1, <2>4 DEF PathFrom
<1>5. ASSUME asked.from \in listed, NEW p, PathFrom(p)' PROVE PathFrom(p)
  <2>1. p \in Seq(LedgerEvents) /\ p # <<>> /\ p[1] = asked.from /\ IsChain(p)'
    BY <1>5 DEF PathFrom
  <2>2. \A i \in 1 .. Len(p) - 1 : p[i] \in Complete' /\ p[i + 1] \in Parents(p[i])'
    BY <2>1, ChainLinksNext
  <2>3. \A e \in listed \cap Complete : Parents(e) \subseteq listed
    BY DEF LedgerInv, ListedPart
  <2> DEFINE T == {i \in DOMAIN p : p[i] \notin listed}
  <2>4. T = {}
    <3> SUFFICES ASSUME T # {} PROVE FALSE
      OBVIOUS
    <3>1. T \in SUBSET Nat
      BY <2>1
    <3> HIDE DEF T
    <3>2. PICK m \in T : \A i \in T : m <= i
      BY <3>1, LeastOf
    <3>3. m \in 1 .. Len(p) /\ p[m] \notin listed /\ Len(p) \in Nat
      BY <2>1, <3>2 DEF T
    <3>4. m # 1
      BY <2>1, <3>3, <1>5
    <3>5. m - 1 \in 1 .. Len(p) - 1 /\ (m - 1) + 1 = m /\ m - 1 \in DOMAIN p /\ ~(m <= m - 1)
      BY <2>1, <3>3, <3>4
    <3>6. p[m - 1] \in listed
      BY <3>2, <3>5 DEF T
    <3>7. p[m] \in Parents(p[m - 1])'
      BY <2>2, <3>5
    <3>8. Parents(p[m - 1])' = Parents(p[m - 1]) /\ p[m - 1] \in Complete
      BY <3>6, <1>2, <1>3
    <3> QED BY <3>3, <3>6, <3>7, <3>8, <2>3
  <2>5. ASSUME NEW i \in 1 .. Len(p) - 1
        PROVE  p[i] \in Complete /\ p[i + 1] \in Parents(p[i])
    <3>1. i \in DOMAIN p
      BY <2>1
    <3>2. p[i] \in Complete
      BY <3>1, <2>4, <1>2
    <3> QED BY <3>2, <2>2, <1>3
  <2>6. IsChain(p)
    BY <2>1, <2>5, ChainLinks
  <2> QED BY <2>1, <2>6 DEF PathFrom
<1>6. \A e \in loaded : Parents(e)' = Parents(e) /\ evfile'[e] = evfile[e]
  BY <1>1, <1>2, <1>3
<1> QED BY <1>4, <1>5, <1>6

\* What a query has read is its index.
LEMMA IndexIsLoaded ==
  ASSUME LedgerInv, qpc # "failed"
  PROVE  /\ Index = loaded
         /\ \A e : Range(ParentsOf(e)) = IF e \in loaded THEN Parents(e) ELSE {}
<1>1. Index = loaded
  BY DEF LedgerInv, LoadedPart, Index, Complete
<1>2. Range(<<>>) = {}
  BY DEF Range
<1> QED BY <1>1, <1>2 DEF ParentsOf, Parents

\* The orders of a finite set of events.
LEMMA OrdersOf ==
  ASSUME NEW S \in SUBSET LedgerEvents, NEW o \in SetToSeqs(S)
  PROVE  o \in Seq(S) /\ o \in Seq(LedgerEvents) /\ Range(o) = S /\ IsInjective(o)
<1> DEFINE c == Cardinality(S)
<1>1. IsFiniteSet(S) /\ c \in Nat
  BY QueryAssumption, FS_Subset, FS_CardinalityType
<1>2. o \in [1 .. c -> S] /\ \A i, j \in 1 .. c : i # j => o[i] # o[j]
  BY DEF SetToSeqs
<1> HIDE DEF c
<1>3. o \in Seq(S) /\ o \in Seq(LedgerEvents)
  BY <1>1, <1>2
<1>4. IsInjective(o)
  BY <1>2 DEF IsInjective
<1>5. Range(o) = S
  <2> DEFINE Y == {o[i] : i \in 1 .. c}
  <2>1. Y \in SUBSET S /\ Range(o) = Y
    BY <1>2 DEF Range
  <2>2. o \in Bijection(1 .. c, Y)
    BY <1>2 DEF Bijection, Injection, Surjection, IsInjective
  <2> HIDE DEF Y
  <2>3. Cardinality(Y) = c
    BY <1>1, <2>2, FS_CountingElements DEF ExistsBijection
  <2>4. Y = S
    BY <1>1, <2>1, <2>3, FS_Subset DEF c
  <2> QED BY <2>1, <2>4
<1> QED BY <1>3, <1>4, <1>5

\* No event is on a chain twice, so a chain is no longer than the events are many.
LEMMA ChainBounded ==
  ASSUME LedgerInv, NEW p, PathFrom(p)
  PROVE  Len(p) <= Cardinality(LedgerEvents)
<1>1. p \in Seq(LedgerEvents) /\ IsChain(p)
  BY DEF PathFrom
<1> DEFINE n == Len(p)
<1>2. n \in Nat /\ p \in [1 .. n -> LedgerEvents]
  BY <1>1
<1>3. \A i \in 1 .. n - 1 : p[i] \in Complete /\ p[i + 1] \in Parents(p[i])
  BY <1>1, ChainLinks
<1> HIDE DEF n
<1>4. ASSUME NEW i \in 1 .. n, NEW j \in 1 .. n, i < j PROVE p[i] # p[j]
  <2> SUFFICES ASSUME p[i] = p[j] PROVE FALSE
    OBVIOUS
  <2> DEFINE S == {p[k] : k \in i .. j - 1}
  <2>1. \A k \in i .. j - 1 : k \in 1 .. n - 1
    BY <1>2, <1>4
  <2>2. S \in SUBSET Complete /\ p[i] \in S
    BY <1>2, <1>3, <1>4, <2>1
  <2>3. ASSUME NEW e \in S PROVE Parents(e) \cap S # {}
    <3>1. PICK k \in i .. j - 1 : e = p[k]
      OBVIOUS
    <3>2. p[k + 1] \in Parents(e)
      BY <3>1, <2>1, <1>3
    <3>3. p[k + 1] \in S
      <4>1. CASE k + 1 = j
        BY <4>1, <2>2
      <4>2. CASE k + 1 # j
        <5>1. k + 1 \in i .. j - 1
          BY <4>2, <1>2, <1>4
        <5> QED BY <5>1
      <4> QED BY <4>1, <4>2
    <3> QED BY <3>2, <3>3
  <2> HIDE DEF S
  <2> QED BY <2>2, <2>3 DEF LedgerInv, NoCircle
<1>5. \A i, j \in 1 .. n : p[i] = p[j] => i = j
  <2> SUFFICES ASSUME NEW i \in 1 .. n, NEW j \in 1 .. n, p[i] = p[j], i # j PROVE FALSE
    OBVIOUS
  <2>1. i < j \/ j < i
    BY <1>2
  <2> QED BY <2>1, <1>4
<1> DEFINE Y == {p[i] : i \in 1 .. n}
<1>6. Y \in SUBSET LedgerEvents
  BY <1>2
<1>7. p \in Bijection(1 .. n, Y)
  BY <1>2, <1>5 DEF Bijection, Injection, Surjection, IsInjective
<1> HIDE DEF Y
<1>8. Cardinality(Y) = n
  BY <1>2, <1>7, FS_CountingElements DEF ExistsBijection
<1>9. Cardinality(Y) <= Cardinality(LedgerEvents)
  BY <1>6, QueryAssumption, FS_Subset
<1> QED BY <1>8, <1>9 DEF n

\* verify_causal_path calls no path valid but one of events that our key signed.
LEMMA ValidIsVouched ==
  ASSUME NEW p, PathValid(p)
  PROVE  Vouched(p)
BY DEF PathValid, Vouched, Index

\* Runs write and die: the search and its answer stand.
LEMMA PathUndisturbed ==
  ASSUME LedgerInv, PathQueryInv, [QueryNext]_queryVars,
         UNCHANGED <<qpc, asked, listed, loaded, queue, visited, answer>>
  PROVE  PathQueryInv'
<1>1. CASE qpc \notin {"path", "done"}
  BY <1>1 DEF PathQueryInv, SearchPart, Breadth, PathDone, Done
<1>2. CASE qpc \in {"path", "done"}
  <2>1. /\ \A p : PathFrom(p) => PathFrom(p)'
        /\ asked.from \in listed => \A p : PathFrom(p)' => PathFrom(p)
        /\ \A e \in loaded : Parents(e)' = Parents(e) /\ evfile'[e] = evfile[e]
    BY <1>2, SameChains DEF Past
  <2>2. SearchPart'
    BY <2>1 DEF PathQueryInv, SearchPart
  <2>3. listed \subseteq loaded
    BY <1>2 DEF LedgerInv, LoadedPart
  <2>4. Breadth'
    <3> SUFFICES ASSUME qpc = "path", asked.from \in listed
                 PROVE  Expanded' /\ TwoLengths' /\ Shortest' /\ NearSeen'
      BY DEF Breadth
    <3>1. Expanded /\ TwoLengths /\ Shortest /\ NearSeen
      BY DEF PathQueryInv, Breadth
    <3>2. Waiting' = Waiting
      BY DEF Waiting
    <3>3. Expanded'
      BY <2>1, <2>3, <3>1, <3>2 DEF Expanded
    <3>4. TwoLengths'
      BY <3>1 DEF TwoLengths
    <3>5. Shortest'
      BY <2>1, <3>1 DEF Shortest
    <3>6. NearSeen'
      BY <2>1, <3>1 DEF NearSeen
    <3> QED BY <3>3, <3>4, <3>5, <3>6
  <2>5. PathDone'
    <3>1. Vouched(answer.path) => Vouched(answer.path)'
      BY <2>1 DEF Vouched
    <3> QED BY <2>1, <3>1 DEF PathQueryInv, PathDone, Done
  <2> QED BY <2>2, <2>4, <2>5 DEF PathQueryInv
<1> QED BY <1>1, <1>2

\* A step of a query changes no chain.
LEMMA SamePaths ==
  ASSUME UNCHANGED <<evfile, asked>>
  PROVE  \A p : PathFrom(p)' <=> PathFrom(p)
BY DEF PathFrom, IsChain

\* The search begins.
LEMMA PathBegins ==
  ASSUME LedgerInv, BeginPath
  PROVE  PathQueryInv'
<1> DEFINE from == asked.from
<1>1. /\ qpc = "load" /\ listed \subseteq loaded /\ asked.kind = "path"
      /\ UNCHANGED <<evfile, writing, asked, listed, loaded>>
  BY DEF BeginPath, Loaded
<1>2. \A p : PathFrom(p)' <=> PathFrom(p)
  BY <1>1, SamePaths
<1>3. Index = loaded
  BY <1>1, IndexIsLoaded
<1>4. asked \in Queries
  BY <1>1 DEF LedgerInv, LedgerTypes
<1>5. from \in LedgerEvents /\ asked.to \in LedgerEvents
  BY <1>1, <1>4, QueryAssumption DEF QueryType
<1>6. CASE {from, asked.to} \subseteq loaded
  <2>1. /\ qpc' = "path" /\ queue' = <<<<from>>>> /\ visited' = {from}
    BY <1>3, <1>6 DEF BeginPath
  <2>2. PathFrom(<<from>>) /\ Len(<<from>>) = 1 /\ Last(<<from>>) = from
    <3>1. \A i : i \notin 2 .. 1
      OBVIOUS
    <3>2. IsChain(<<from>>)
      BY <3>1 DEF IsChain
    <3> QED BY <1>5, <3>2 DEF PathFrom, Last
  <2>3. /\ DOMAIN queue' = {1} /\ queue'[1] = <<from>>
        /\ queue' \in Seq(Seq(LedgerEvents))
    BY <1>5, <2>1
  <2> HIDE DEF from
  <2>4. SearchPart'
    BY <1>1, <1>2, <1>6, <2>1, <2>2, <2>3 DEF SearchPart, from
  <2>5. Breadth'
    <3> SUFFICES ASSUME from \in listed
                 PROVE  Expanded' /\ TwoLengths' /\ Shortest' /\ NearSeen'
      BY <1>1 DEF Breadth, from
    <3>1. Waiting' = {from}
      BY <2>2, <2>3 DEF Waiting
    <3>2. Expanded'
      BY <1>1, <2>1, <3>1 DEF Expanded, from
    <3>3. TwoLengths'
      <4>1. Len(queue'[1]) = 1
        BY <2>2, <2>3
      <4>2. \A i \in DOMAIN queue' : i = 1
        BY <2>3
      <4> QED BY <4>1, <4>2 DEF TwoLengths
    <3>4. \A p : PathFrom(p) => Len(p) \in Nat \ {0} /\ p[1] = from
      BY DEF PathFrom, from
    <3>5. Shortest'
      BY <1>2, <2>2, <2>3, <3>4 DEF Shortest
    <3>6. NearSeen'
      BY <1>2, <2>1, <2>2, <2>3, <3>4 DEF NearSeen, Last
    <3> QED BY <3>2, <3>3, <3>5, <3>6
  <2>6. PathDone'
    BY <2>1 DEF PathDone, Done
  <2> QED BY <2>4, <2>5, <2>6 DEF PathQueryInv
<1>7. CASE ~({from, asked.to} \subseteq loaded)
  <2>1. qpc' = "done" /\ answer' = [path |-> <<>>, valid |-> FALSE]
    BY <1>3, <1>7 DEF BeginPath
  <2>2. answer'.path = <<>> /\ ~ answer'.valid
    BY <2>1
  <2>3. ASSUME from \in listed, NEW p \in Seq(LedgerEvents), PathFrom(p), Last(p) = asked.to
        PROVE  FALSE
    <3>1. asked.to \notin listed
      BY <1>1, <1>7, <2>3
    <3>2. \A e \in listed \cap Complete : Parents(e) \subseteq listed
      BY DEF LedgerInv, ListedPart
    <3>3. \A i \in DOMAIN p : p[i] \in listed
      BY <2>3, <3>2, ChainStays
    <3>4. Len(p) \in DOMAIN p
      BY <2>3 DEF PathFrom
    <3> QED BY <2>3, <3>1, <3>3, <3>4 DEF Last
  <2>4. PathDone'
    BY <1>1, <1>2, <2>2, <2>3 DEF PathDone, Done
  <2> QED BY <2>1, <2>4 DEF PathQueryInv, SearchPart, Breadth
<1> QED BY <1>6, <1>7

\* A search that has run dry or has reached its end answers.
LEMMA PathEnds ==
  ASSUME LedgerInv, PathQueryInv, SearchPath,
         queue = <<>> \/ Last(Head(queue)) = asked.to
  PROVE  PathQueryInv'
<1>1. qpc = "path" /\ UNCHANGED <<evfile, writing, asked, listed, loaded>>
  BY DEF SearchPath
<1>2. \A p : PathFrom(p)' <=> PathFrom(p)
  BY <1>1, SamePaths
<1>3. asked.kind = "path"
  BY <1>1 DEF PathQueryInv, SearchPart
<1>4. CASE queue = <<>>
  <2>1. qpc' = "done" /\ answer' = [path |-> <<>>, valid |-> FALSE]
    BY <1>4 DEF SearchPath
  <2>2. answer'.path = <<>> /\ ~ answer'.valid
    BY <2>1
  <2>3. ASSUME asked.from \in listed, NEW p \in Seq(LedgerEvents), PathFrom(p),
               Last(p) = asked.to
        PROVE  FALSE
    <3>1. Expanded
      BY <1>1, <2>3 DEF PathQueryInv, Breadth
    <3>2. Waiting = {}
      BY <1>4 DEF Waiting
    <3>3. /\ asked.from \in visited
          /\ \A v \in visited : v # asked.to /\ Parents(v) \subseteq visited
      BY <3>1, <3>2 DEF Expanded
    <3>4. \A i \in DOMAIN p : p[i] \in visited
      BY <2>3, <3>3, ChainStays
    <3>5. Len(p) \in DOMAIN p
      BY <2>3 DEF PathFrom
    <3> QED BY <2>3, <3>3, <3>4, <3>5 DEF Last
  <2>4. PathDone'
    BY <1>1, <1>2, <2>2, <2>3 DEF PathDone, Done
  <2> QED BY <2>1, <2>4 DEF PathQueryInv, SearchPart, Breadth
<1>5. CASE queue # <<>>
  <2>0. /\ queue \in Seq(Seq(LedgerEvents))
        /\ \A i \in DOMAIN queue : PathFrom(queue[i])
    BY <1>1 DEF PathQueryInv, SearchPart
  <2>1. PICK path : path = Head(queue)
    OBVIOUS
  <2>2. Last(path) = asked.to
    BY <1>5, <2>1
  <2>3. qpc' = "done" /\ answer' = [path |-> path, valid |-> PathValid(path)]
    BY <1>5, <2>1, <2>2 DEF SearchPath
  <2>4. 1 \in DOMAIN queue /\ path = queue[1]
    BY <1>5, <2>0, <2>1
  <2>5. PathFrom(path)
    BY <2>0, <2>4
  <2>6. answer'.path = path /\ answer'.valid = PathValid(path)
    BY <2>3
  <2>7. answer'.valid => Vouched(answer.path)'
    BY <1>1, <2>6, ValidIsVouched DEF Vouched
  <2>8. ASSUME asked.from \in listed, NEW p \in Seq(LedgerEvents), PathFrom(p),
               Last(p) = asked.to
        PROVE  path # <<>> /\ Len(path) <= Len(p)
    <3>1. Shortest
      BY <1>1, <2>8 DEF PathQueryInv, Breadth
    <3>2. Len(path) <= Len(p)
      BY <2>2, <2>4, <2>8, <3>1 DEF Shortest
    <3> QED BY <2>5, <3>2 DEF PathFrom
  <2>9. path \in Seq(LedgerEvents)
    BY <2>5 DEF PathFrom
  <2>10. PathDone'
    BY <1>1, <1>2, <2>2, <2>5, <2>6, <2>7, <2>8, <2>9 DEF PathDone, Done
  <2> QED BY <2>3, <2>10 DEF PathQueryInv, SearchPart, Breadth
<1> QED BY <1>4, <1>5

\* A turn of the search takes the first path off and adds its extensions at the end.
Turn(path, next, ext) ==
  /\ path = queue[1] /\ PathFrom(path) /\ Last(path) \in visited
  /\ qpc = "path" /\ qpc' = "path"
  /\ queue \in Seq(Seq(LedgerEvents)) /\ Len(queue) \in Nat \ {0}
  /\ next \in Seq(LedgerEvents) /\ Range(next) = Range(ParentsOf(Last(path))) \ visited
  /\ DOMAIN ext = DOMAIN next /\ ext \in Seq(Seq(LedgerEvents))
  /\ \A i \in DOMAIN next :
       /\ Last(path) \in loaded /\ next[i] \in Parents(Last(path)) \ visited
       /\ PathFrom(ext[i]) /\ Len(ext[i]) = Len(path) + 1 /\ Last(ext[i]) = next[i]
  /\ queue' \in Seq(Seq(LedgerEvents)) /\ Len(queue') = Len(queue) - 1 + Len(ext)
  /\ \A i \in DOMAIN queue' :
       \/ i + 1 \in DOMAIN queue /\ queue'[i] = queue[i + 1]
       \/ /\ i >= Len(queue) /\ i - (Len(queue) - 1) \in DOMAIN ext
          /\ queue'[i] = ext[i - (Len(queue) - 1)]
  /\ \A i \in DOMAIN queue : i > 1 => i - 1 \in DOMAIN queue' /\ queue'[i - 1] = queue[i]
  /\ \A i \in DOMAIN ext : /\ Len(queue) - 1 + i \in DOMAIN queue'
                           /\ queue'[Len(queue) - 1 + i] = ext[i]
  /\ visited' = visited \cup Range(ParentsOf(Last(path)))

LEMMA Turned ==
  ASSUME LedgerInv, PathQueryInv, SearchPath, queue # <<>>, Last(Head(queue)) # asked.to
  PROVE  \E path, next, ext : Turn(path, next, ext)
<1>1. qpc = "path" /\ qpc' = "path"
  BY DEF SearchPath
<1>2. /\ queue \in Seq(Seq(LedgerEvents))
      /\ \A i \in DOMAIN queue : PathFrom(queue[i]) /\ Last(queue[i]) \in visited
  BY <1>1 DEF PathQueryInv, SearchPart
<1>3. PICK path : path = Head(queue)
  OBVIOUS
<1>4. Len(queue) \in Nat \ {0} /\ 1 \in DOMAIN queue /\ path = queue[1]
  BY <1>2, <1>3
<1>5. PathFrom(path) /\ Last(path) \in visited
  BY <1>2, <1>4
<1>6. /\ \E next \in Unseen(Last(path)) :
           queue' = Tail(queue) \o [i \in DOMAIN next |-> Append(path, next[i])]
      /\ visited' = visited \cup Range(ParentsOf(Last(path)))
  BY <1>3 DEF SearchPath
<1>7. PICK next \in Unseen(Last(path)) :
           queue' = Tail(queue) \o [i \in DOMAIN next |-> Append(path, next[i])]
  BY <1>6
<1> DEFINE S == Range(ParentsOf(Last(path))) \ visited
           ext == [i \in DOMAIN next |-> Append(path, next[i])]
<1>8. next \in SetToSeqs(S)
  BY <1>7 DEF Unseen, InOrderOf
<1>9. \A w \in S : Last(path) \in loaded /\ w \in Parents(Last(path)) \ visited
  BY <1>1, IndexIsLoaded
<1>10. loaded \subseteq Complete
  BY <1>1 DEF LedgerInv, LoadedPart
<1>11. S \in SUBSET LedgerEvents
  BY <1>9, <1>10, CompleteEvent DEF LedgerInv
<1> HIDE DEF S
<1>12. next \in Seq(LedgerEvents) /\ Range(next) = S
  BY <1>8, <1>11, OrdersOf
<1>13. ASSUME NEW i \in DOMAIN next
       PROVE  /\ Last(path) \in loaded /\ next[i] \in Parents(Last(path)) \ visited
              /\ PathFrom(ext[i]) /\ ext[i] \in Seq(LedgerEvents)
              /\ Len(ext[i]) = Len(path) + 1 /\ Last(ext[i]) = next[i]
  <2>1. next[i] \in S
    BY <1>12 DEF Range
  <2>2. Last(path) \in loaded /\ next[i] \in Parents(Last(path)) \ visited
    BY <1>9, <2>1
  <2>3. ext[i] = Append(path, next[i])
    OBVIOUS
  <2>4. /\ PathFrom(Append(path, next[i])) /\ Append(path, next[i]) \in Seq(LedgerEvents)
        /\ Len(Append(path, next[i])) = Len(path) + 1 /\ Last(Append(path, next[i])) = next[i]
    BY <1>5, <1>10, <2>2, ChainExtends
  <2> HIDE DEF ext
  <2> QED BY <2>2, <2>3, <2>4
<1>14. /\ DOMAIN next = 1 .. Len(next) /\ Len(next) \in Nat /\ DOMAIN ext = DOMAIN next
       /\ queue' = Tail(queue) \o ext
  BY <1>7, <1>12
<1> HIDE DEF ext
<1>15. ext \in Seq(Seq(LedgerEvents)) /\ Len(ext) = Len(next)
  <2> DEFINE k == Len(next)
             X == Seq(LedgerEvents)
  <2>1. k \in Nat /\ ext \in [1 .. k -> X]
    BY <1>13, <1>14 DEF ext
  <2> HIDE DEF k, X
  <2>2. ext \in Seq(X) /\ Len(ext) = k
    BY <2>1
  <2> QED BY <2>2 DEF k, X
<1> DEFINE t == Tail(queue)
<1>16. /\ t \in Seq(Seq(LedgerEvents)) /\ Len(t) = Len(queue) - 1
       /\ \A i \in 1 .. Len(t) : t[i] = queue[i + 1]
  BY <1>2, <1>4
<1> HIDE DEF t
<1>17. /\ queue' \in Seq(Seq(LedgerEvents)) /\ Len(queue') = Len(t) + Len(ext)
       /\ \A i \in 1 .. Len(t) + Len(ext) :
            queue'[i] = IF i <= Len(t) THEN t[i] ELSE ext[i - Len(t)]
  BY <1>14, <1>15, <1>16 DEF t
<1> DEFINE n == Len(queue)
           m == Len(ext)
<1>18. n \in Nat \ {0} /\ m \in Nat /\ DOMAIN queue = 1 .. n /\ DOMAIN ext = 1 .. m
       /\ DOMAIN queue' = 1 .. n - 1 + m /\ Len(t) = n - 1
  BY <1>2, <1>4, <1>15, <1>16, <1>17
<1>a. /\ \A i \in 1 .. n - 1 : t[i] = queue[i + 1]
      /\ \A i \in 1 .. n - 1 + m : queue'[i] = IF i <= n - 1 THEN t[i] ELSE ext[i - (n - 1)]
  BY <1>16, <1>17, <1>18
<1> HIDE DEF n, m
<1>19. ASSUME NEW i \in 1 .. n - 1 + m
       PROVE  queue'[i] = IF i <= n - 1 THEN queue[i + 1] ELSE ext[i - (n - 1)]
  <2>1. i <= n - 1 => i \in 1 .. n - 1
    BY <1>18
  <2> QED BY <1>a, <2>1
<1>20. ASSUME NEW i \in DOMAIN queue'
       PROVE  \/ i + 1 \in DOMAIN queue /\ queue'[i] = queue[i + 1]
              \/ i >= n /\ i - (n - 1) \in DOMAIN ext /\ queue'[i] = ext[i - (n - 1)]
  <2>1. CASE i <= n - 1
    <3>1. i + 1 \in 1 .. n
      BY <1>18, <2>1
    <3> QED BY <1>18, <1>19, <2>1, <3>1
  <2>2. CASE ~(i <= n - 1)
    <3>1. i >= n /\ i - (n - 1) \in 1 .. m
      BY <1>18, <2>2
    <3> QED BY <1>18, <1>19, <2>2, <3>1
  <2> QED BY <2>1, <2>2
<1>21. ASSUME NEW i \in DOMAIN queue, i > 1
       PROVE  i - 1 \in DOMAIN queue' /\ queue'[i - 1] = queue[i]
  <2>1. i - 1 \in 1 .. n - 1 + m /\ i - 1 <= n - 1 /\ (i - 1) + 1 = i
    BY <1>18, <1>21
  <2> QED BY <1>18, <1>19, <2>1
<1>22. ASSUME NEW i \in DOMAIN ext
       PROVE  n - 1 + i \in DOMAIN queue' /\ queue'[n - 1 + i] = ext[i]
  <2>1. n - 1 + i \in 1 .. n - 1 + m /\ ~(n - 1 + i <= n - 1) /\ (n - 1 + i) - (n - 1) = i
    BY <1>18
  <2> QED BY <1>18, <1>19, <2>1
<1>23. Len(queue') = n - 1 + m
  BY <1>17, <1>18 DEF m
<1>24. Turn(path, next, ext)
  BY <1>1, <1>2, <1>4, <1>5, <1>6, <1>12, <1>13, <1>14, <1>15, <1>17, <1>20, <1>21, <1>22, <1>23
  DEF n, m, S, Turn
<1> QED BY <1>24

\* A turn of the search keeps it breadth-first.
LEMMA PathTurns ==
  ASSUME LedgerInv, PathQueryInv, SearchPath, queue # <<>>, Last(Head(queue)) # asked.to
  PROVE  PathQueryInv'
<1>0. UNCHANGED <<evfile, writing, asked, listed, loaded>>
  BY DEF SearchPath
<1>1. \A p : PathFrom(p)' <=> PathFrom(p)
  BY <1>0, SamePaths
<1>2. \A e : Parents(e)' = Parents(e)
  BY <1>0 DEF Parents
<1>3. PICK path, next, ext : Turn(path, next, ext)
  BY Turned
<1> DEFINE u == Last(path)
           n == Len(queue)
           len == Len(path)
<1>4. /\ path = queue[1] /\ PathFrom(path) /\ u \in visited /\ qpc = "path" /\ qpc' = "path"
      /\ queue \in Seq(Seq(LedgerEvents)) /\ n \in Nat \ {0} /\ DOMAIN queue = 1 .. n
      /\ queue' \in Seq(Seq(LedgerEvents))
      /\ visited' = visited \cup Range(ParentsOf(u))
  BY <1>3 DEF Turn
<1>5. /\ Range(next) = Range(ParentsOf(u)) \ visited /\ DOMAIN ext = DOMAIN next
      /\ \A i \in DOMAIN next :
           /\ u \in loaded /\ next[i] \in Parents(u) \ visited
           /\ PathFrom(ext[i]) /\ Len(ext[i]) = len + 1 /\ Last(ext[i]) = next[i]
  BY <1>3 DEF Turn
<1>6. /\ \A i \in DOMAIN queue' :
           \/ i + 1 \in DOMAIN queue /\ queue'[i] = queue[i + 1]
           \/ i >= n /\ i - (n - 1) \in DOMAIN ext /\ queue'[i] = ext[i - (n - 1)]
      /\ \A i \in DOMAIN queue : i > 1 => i - 1 \in DOMAIN queue' /\ queue'[i - 1] = queue[i]
      /\ \A i \in DOMAIN ext : n - 1 + i \in DOMAIN queue' /\ queue'[n - 1 + i] = ext[i]
  BY <1>3 DEF Turn
<1>7. u # asked.to
  BY <1>4
<1>8. /\ asked.kind = "path" /\ {asked.from, asked.to} \subseteq loaded
      /\ \A i \in DOMAIN queue : PathFrom(queue[i]) /\ Last(queue[i]) \in visited
  BY <1>4 DEF PathQueryInv, SearchPart
<1> HIDE DEF u, n, len
<1>9. ASSUME NEW i \in DOMAIN next PROVE next[i] \in visited'
  <2>1. next[i] \in Range(next)
    BY DEF Range
  <2> QED BY <2>1, <1>4, <1>5
<1>10. SearchPart'
  <2>1. ASSUME NEW i \in DOMAIN queue' PROVE PathFrom(queue'[i]) /\ Last(queue'[i]) \in visited'
    <3>1. CASE i + 1 \in DOMAIN queue /\ queue'[i] = queue[i + 1]
      BY <3>1, <1>4, <1>8
    <3>2. CASE i - (n - 1) \in DOMAIN ext /\ queue'[i] = ext[i - (n - 1)]
      BY <3>2, <1>5, <1>9
    <3> QED BY <3>1, <3>2, <1>6
  <2> QED BY <2>1, <1>0, <1>1, <1>4, <1>8 DEF SearchPart
<1>11. PathDone'
  BY <1>4 DEF PathDone, Done
<1>12. ASSUME asked.from \in listed
       PROVE  Expanded' /\ TwoLengths' /\ Shortest' /\ NearSeen'
  <2>1. Expanded /\ TwoLengths /\ Shortest /\ NearSeen
    BY <1>4, <1>12 DEF PathQueryInv, Breadth
  <2>2. u \in listed /\ u \in loaded /\ u \in Complete
    BY <1>4, <2>1 DEF Expanded, LedgerInv, LoadedPart
  <2>3. Range(ParentsOf(u)) = Parents(u) /\ Parents(u) \subseteq listed
    BY <1>4, <2>2, IndexIsLoaded DEF LedgerInv, ListedPart
  <2>4. /\ len \in Nat \ {0}
        /\ \A i \in DOMAIN queue : Len(queue[i]) \in Nat /\ len <= Len(queue[i])
                                                         /\ Len(queue[i]) <= len + 1
    <3>1. \A i \in DOMAIN queue : Len(queue[i]) \in Nat /\ 1 <= i /\ 1 \in DOMAIN queue
      BY <1>4, <1>8 DEF PathFrom
    <3>2. len = Len(queue[1]) /\ len \in Nat \ {0}
      BY <1>4 DEF PathFrom, len
    <3> QED BY <2>1, <3>1, <3>2 DEF TwoLengths
  <2>5. ASSUME NEW i \in DOMAIN queue, i # 1 PROVE Last(queue[i]) \in Waiting'
    <3>1. i - 1 \in DOMAIN queue' /\ queue'[i - 1] = queue[i]
      BY <1>4, <1>6, <2>5
    <3> QED BY <3>1 DEF Waiting
  <2>6. Expanded'
    <3>1. asked.from \in visited' /\ visited' \subseteq listed
      BY <1>4, <2>1, <2>3 DEF Expanded
    <3>2. ASSUME NEW v \in visited' \ Waiting' PROVE v # asked.to /\ Parents(v) \subseteq visited'
      <4>1. CASE v \notin visited
        <5>1. v \in Range(next)
          BY <1>4, <1>5, <4>1
        <5>2. PICK i \in DOMAIN next : v = next[i]
          BY <5>1 DEF Range
        <5>3. n - 1 + i \in DOMAIN queue' /\ Last(queue'[n - 1 + i]) = v
          BY <1>5, <1>6, <5>2
        <5> QED BY <3>2, <5>3 DEF Waiting
      <4>2. CASE v \in visited /\ v \in Waiting
        <5>1. PICK i \in DOMAIN queue : v = Last(queue[i])
          BY <4>2 DEF Waiting
        <5>2. i = 1
          BY <2>5, <3>2, <5>1
        <5>3. v = u
          BY <1>4, <5>1, <5>2 DEF u
        <5> QED BY <1>4, <1>7, <2>3, <5>3
      <4>3. CASE v \in visited /\ v \notin Waiting
        BY <1>4, <2>1, <4>3 DEF Expanded
      <4> QED BY <4>1, <4>2, <4>3
    <3> QED BY <3>1, <3>2, <1>0, <1>2 DEF Expanded
  <2>7. \A i \in DOMAIN queue' : Len(queue'[i]) \in Nat /\ len <= Len(queue'[i])
                                                        /\ Len(queue'[i]) <= len + 1
    <3> SUFFICES ASSUME NEW i \in DOMAIN queue'
                 PROVE  Len(queue'[i]) \in Nat /\ len <= Len(queue'[i])
                                               /\ Len(queue'[i]) <= len + 1
      OBVIOUS
    <3>1. CASE i + 1 \in DOMAIN queue /\ queue'[i] = queue[i + 1]
      BY <3>1, <2>4
    <3>2. CASE i - (n - 1) \in DOMAIN ext /\ queue'[i] = ext[i - (n - 1)]
      <4>1. Len(queue'[i]) = len + 1
        BY <3>2, <1>5
      <4> QED BY <4>1, <2>4
    <3> QED BY <3>1, <3>2, <1>6
  <2>8. ASSUME NEW i \in DOMAIN queue', NEW j \in DOMAIN queue', i <= j
        PROVE  Len(queue'[i]) <= Len(queue'[j])
    <3>0. i \in Nat /\ j \in Nat /\ 1 \in DOMAIN queue'
      BY <1>4
    <3>1. CASE j + 1 \in DOMAIN queue /\ queue'[j] = queue[j + 1]
      <4>1. ~(i >= n)
        BY <1>4, <3>0, <3>1, <2>8
      <4>2. i + 1 \in DOMAIN queue /\ queue'[i] = queue[i + 1]
        BY <1>6, <4>1
      <4>3. i + 1 <= j + 1
        BY <2>8, <3>0
      <4> QED BY <2>1, <3>1, <4>2, <4>3 DEF TwoLengths
    <3>2. CASE j - (n - 1) \in DOMAIN ext /\ queue'[j] = ext[j - (n - 1)]
      <4>1. Len(queue'[j]) = len + 1
        BY <3>2, <1>5
      <4> QED BY <2>7, <4>1
    <3> QED BY <3>1, <3>2, <1>6
  <2>9. TwoLengths'
    <3>1. ASSUME NEW i \in DOMAIN queue' PROVE Len(queue'[i]) <= Len(queue'[1]) + 1
      <4>1. 1 \in DOMAIN queue'
        BY <1>4
      <4> QED BY <2>4, <2>7, <4>1
    <3> QED BY <2>8, <3>1 DEF TwoLengths
  <2>10. Shortest'
    <3> SUFFICES ASSUME NEW i \in DOMAIN queue', NEW p \in Seq(LedgerEvents), PathFrom(p),
                        Last(p) = Last(queue'[i])
                 PROVE  Len(queue'[i]) <= Len(p)
      BY <1>1 DEF Shortest
    <3>1. CASE i + 1 \in DOMAIN queue /\ queue'[i] = queue[i + 1]
      BY <3>1, <2>1 DEF Shortest
    <3>2. CASE i - (n - 1) \in DOMAIN ext /\ queue'[i] = ext[i - (n - 1)]
      <4>1. Len(queue'[i]) = len + 1 /\ Last(p) \notin visited
        BY <3>2, <1>5
      <4>2. ~(Len(p) <= len)
        BY <1>4, <2>1, <4>1 DEF NearSeen, len
      <4>3. Len(p) \in Nat
        OBVIOUS
      <4> QED BY <2>4, <4>1, <4>2, <4>3
    <3> QED BY <3>1, <3>2, <1>6
  <2>11. NearSeen'
    <3> SUFFICES ASSUME queue' # <<>>, NEW p \in Seq(LedgerEvents), PathFrom(p),
                        Len(p) <= Len(queue'[1])
                 PROVE  Last(p) \in visited'
      BY <1>1 DEF NearSeen
    <3>0. Len(p) \in Nat /\ 1 \in DOMAIN queue'
      BY <1>4
    <3>1. CASE Len(p) <= len
      BY <3>1, <1>4, <2>1 DEF NearSeen, len
    <3>2. CASE ~(Len(p) <= len)
      <4>1. Len(p) = len + 1 /\ Len(queue'[1]) = len + 1
        BY <3>0, <3>2, <2>4, <2>7
      <4>2. len \in 1 .. Len(p) /\ len \in 1 .. Len(p) - 1
        BY <4>1, <2>4
      <4>3. PICK r \in Seq(LedgerEvents) : PathFrom(r) /\ Len(r) = len /\ Last(r) = p[len]
        BY <4>2, ChainPrefix
      <4>4. p[len] \in Complete /\ p[len + 1] \in Parents(p[len])
        BY <4>2, ChainLinks DEF PathFrom
      <4>5. Last(p) \in Parents(p[len])
        BY <4>1, <4>4 DEF Last
      <4>6. p[len] \in visited
        <5>1. len <= Len(queue[1])
          BY <1>4, <2>4 DEF len
        <5> QED BY <2>1, <4>3, <5>1 DEF NearSeen
      <4>7. CASE p[len] \in Waiting
        <5>1. PICK i \in DOMAIN queue : p[len] = Last(queue[i])
          BY <4>7 DEF Waiting
        <5>2. Len(queue[i]) <= len
          BY <2>1, <4>3, <5>1 DEF Shortest
        <5>3. i = 1
          <6> SUFFICES ASSUME i # 1 PROVE FALSE
            OBVIOUS
          <6>1. i - 1 \in DOMAIN queue' /\ queue'[i - 1] = queue[i] /\ 1 <= i - 1
            BY <1>4, <1>6
          <6>2. Len(queue'[1]) <= Len(queue[i])
            BY <2>8, <3>0, <6>1
          <6> QED BY <2>4, <4>1, <5>2, <6>2
        <5>4. p[len] = u
          BY <1>4, <5>1, <5>3 DEF u
        <5> QED BY <1>4, <2>3, <4>5, <5>4
      <4>8. CASE p[len] \notin Waiting
        BY <1>4, <2>1, <4>5, <4>6, <4>8 DEF Expanded
      <4> QED BY <4>7, <4>8
    <3> QED BY <3>1, <3>2
  <2> QED BY <2>6, <2>9, <2>10, <2>11
<1> QED BY <1>0, <1>10, <1>11, <1>12 DEF PathQueryInv, Breadth

LEMMA PathNext ==
  ASSUME LedgerInv, PathQueryInv, [QueryNext]_queryVars
  PROVE  PathQueryInv'
<1>1. CASE \/ \E e \in LedgerEvents, c \in Recorded : BeginRecord(e, c)
           \/ EndRecord \/ KillRecorder \/ UNCHANGED queryVars
  <2>1. UNCHANGED <<qpc, asked, listed, loaded, queue, visited, answer>>
    BY <1>1 DEF BeginRecord, EndRecord, KillRecorder, queryVars
  <2> QED BY <2>1, PathUndisturbed
<1>2. CASE \/ \E q \in Queries : BeginQuery(q)
           \/ \E e \in LedgerEvents : LoadEvent(e)
           \/ BeginChain \/ SortChain
  <2>1. qpc' \in {"load", "failed", "chain"}
    BY <1>2 DEF BeginQuery, LoadEvent, BeginChain, SortChain
  <2> QED BY <2>1 DEF PathQueryInv, SearchPart, Breadth, PathDone, Done
<1>3. CASE Statistics \/ EndChain
  <2>1. qpc' \in {"done", "failed"} /\ asked'.kind # "path"
    BY <1>3 DEF Statistics, EndChain, Loaded, LedgerInv, LedgerTypes
  <2> QED BY <2>1 DEF PathQueryInv, SearchPart, Breadth, PathDone, Done
<1> QED BY <1>1, <1>2, <1>3, PathBegins, PathEnds, PathTurns DEF QueryNext

\* The answer, once it is given, is right.
LEMMA PathIsRight ==
  ASSUME LedgerInv, PathQueryInv
  PROVE  PathAnswers
<1> SUFFICES ASSUME Done("path")
             PROVE  /\ answer.path # <<>> => answer.path \in Chains(asked.from, asked.to)
                    /\ asked.from \in listed =>
                         /\ answer.path = <<>> => Chains(asked.from, asked.to) = {}
                         /\ \A c \in Chains(asked.from, asked.to) : Len(answer.path) <= Len(c)
                    /\ answer.valid =>
                         /\ answer.path # <<>>
                         /\ \A i \in DOMAIN answer.path : evfile[answer.path[i]].ours
  BY DEF PathAnswers
<1> DEFINE N == Cardinality(LedgerEvents)
           path == answer.path
<1>1. PathDone
  BY DEF PathQueryInv
<1>2. N \in Nat
  BY QueryAssumption, FS_CardinalityType
<1>3. ASSUME path # <<>> PROVE path \in Chains(asked.from, asked.to)
  <2>1. PathFrom(path) /\ Last(path) = asked.to
    BY <1>1, <1>3 DEF PathDone
  <2>2. Len(path) <= N
    BY <2>1, ChainBounded
  <2>3. Len(path) \in 1 .. N /\ path \in [1 .. Len(path) -> LedgerEvents]
    BY <1>2, <2>1, <2>2 DEF PathFrom
  <2> QED BY <2>1, <2>3 DEF Chains, PathFrom
<1>4. ASSUME NEW c \in Chains(asked.from, asked.to)
      PROVE  c \in Seq(LedgerEvents) /\ PathFrom(c) /\ Last(c) = asked.to
  <2>1. PICK n \in 1 .. N : c \in [1 .. n -> LedgerEvents]
    BY DEF Chains
  <2>2. c[1] = asked.from /\ Last(c) = asked.to /\ IsChain(c)
    BY DEF Chains
  <2>3. n \in Nat \ {0}
    BY <1>2
  <2>4. c \in Seq(LedgerEvents) /\ Len(c) = n
    BY <2>1, <2>3
  <2>5. c # <<>>
    BY <2>3, <2>4
  <2> QED BY <2>2, <2>4, <2>5 DEF PathFrom
<1>5. ASSUME asked.from \in listed, NEW c \in Chains(asked.from, asked.to)
      PROVE  path # <<>> /\ Len(path) <= Len(c)
  BY <1>1, <1>4, <1>5 DEF PathDone
<1> QED BY <1>1, <1>3, <1>5 DEF PathDone, Vouched

----------------------------------------------------------------------------
(* `attest causal stats`.                                                   *)

\* What was there when the reading began holds all the parents that it names.
LEMMA LeavesNext ==
  ASSUME LedgerInv, PathQueryInv, LeavesAnswer, [QueryNext]_queryVars
  PROVE  LeavesAnswer'
<1> DEFINE Leaf == {e \in loaded : \A f \in loaded : e \notin Parents(f)}
<1>1. CASE Statistics
  <2>1. /\ qpc = "load" /\ UNCHANGED <<evfile, loaded, listed>>
        /\ answer' = [roots |-> Cardinality({e \in Index : evfile[e].parents = <<>>}),
                      leaves |-> Cardinality(Index)
                                 - Cardinality(UNION {Range(evfile[e].parents) : e \in Index})]
    BY <1>1 DEF Statistics, Loaded
  <2>2. Index = loaded /\ loaded \subseteq Complete
    BY <2>1, IndexIsLoaded DEF LedgerInv, LoadedPart
  <2> DEFINE U == UNION {Parents(e) : e \in loaded}
  <2>3. answer'.leaves = Cardinality(loaded) - Cardinality(U)
    BY <2>1, <2>2 DEF Parents
  <2>4. ASSUME loaded = listed PROVE answer'.leaves = Cardinality(Leaf)
    <3>1. U \subseteq loaded
      BY <2>2, <2>4 DEF LedgerInv, ListedPart
    <3>2. Leaf = loaded \ U /\ loaded \cap U = U
      BY <3>1
    <3>3. IsFiniteSet(loaded)
      BY QueryAssumption, FS_Subset DEF LedgerInv, LedgerTypes
    <3> HIDE DEF U, Leaf
    <3>4. Cardinality(loaded \ U) = Cardinality(loaded) - Cardinality(loaded \cap U)
      BY <3>3, FS_Difference
    <3> QED BY <2>3, <3>2, <3>4
  <2> QED BY <2>1, <2>4 DEF LeavesAnswer, Parents
<1>2. CASE \/ \E e \in LedgerEvents, c \in Recorded : BeginRecord(e, c)
           \/ EndRecord \/ KillRecorder \/ UNCHANGED queryVars
  <2>1. UNCHANGED <<qpc, asked, listed, loaded, answer>>
    BY <1>2 DEF BeginRecord, EndRecord, KillRecorder, queryVars
  <2>2. CASE Done("stats")
    <3>1. loaded \subseteq Complete
      BY <2>2 DEF Done, LedgerInv, LoadedPart
    <3>2. \A f \in loaded : evfile'[f] = evfile[f]
      BY <3>1, Frozen
    <3>3. {e \in loaded : \A f \in loaded : e \notin Range(evfile'[f].parents)}
            = {e \in loaded : \A f \in loaded : e \notin Range(evfile[f].parents)}
      BY <3>2
    <3> QED BY <2>1, <3>3 DEF LeavesAnswer, Done
  <2>3. CASE ~ Done("stats")
    BY <2>1, <2>3 DEF LeavesAnswer, Done
  <2> QED BY <2>2, <2>3
<1>3. CASE \/ \E q \in Queries : BeginQuery(q)
           \/ \E e \in LedgerEvents : LoadEvent(e)
           \/ BeginChain \/ SortChain
  <2>1. qpc' \in {"load", "failed", "chain"}
    BY <1>3 DEF BeginQuery, LoadEvent, BeginChain, SortChain
  <2> QED BY <2>1 DEF LeavesAnswer, Done
<1>4. CASE BeginPath \/ SearchPath \/ EndChain
  <2>1. asked'.kind # "stats"
    BY <1>4 DEF BeginPath, SearchPath, EndChain, Loaded, LedgerInv, LedgerTypes,
       PathQueryInv, SearchPart
  <2> QED BY <2>1 DEF LeavesAnswer, Done
<1> QED BY <1>1, <1>2, <1>3, <1>4 DEF QueryNext

----------------------------------------------------------------------------
(* `attest causal chain`.  An event's degree counts the parents that it    *)
(* waits for, and those that wait for none are in the queue or sorted.     *)

Ids == Range(asked.ids)

\* What has not been emitted.
Unsorted == Ids \ Range(sorted)

SortTypes ==
  /\ asked.ids \in Seq(LedgerEvents)
  /\ queue \in Seq(Ids) /\ IsInjective(queue)
  /\ sorted \in Seq(Ids) /\ IsInjective(sorted)
  /\ Range(queue) \cap Range(sorted) = {}
  /\ DOMAIN degree = Ids

Degrees == \A e \in Ids : degree[e] = Cardinality(Counted(asked.ids, e, Unsorted))

Ready == \A e \in Ids : degree[e] = 0 <=> e \in Range(queue) \cup Range(sorted)

InOrder == \A i, j \in DOMAIN sorted : sorted[j] \in Range(ParentsOf(sorted[i])) => j < i

SortPart ==
  /\ qpc \in {"idle", "load"} => sorted = <<>>
  /\ qpc = "chain" => SortTypes /\ Degrees /\ Ready /\ InOrder

LEMMA CountedFinite ==
  ASSUME LedgerInv, qpc # "failed", NEW ids \in Seq(LedgerEvents), NEW e, NEW S
  PROVE  IsFiniteSet(Counted(ids, e, S))
<1> DEFINE D == (DOMAIN ids) \X (DOMAIN ParentsOf(e))
<1>1. ParentsOf(e) \in Seq(LedgerEvents)
  <2>1. CASE e \in Index
    <3>1. e \in Complete
      BY <2>1, IndexIsLoaded DEF LedgerInv, LoadedPart
    <3> QED BY <2>1, <3>1, CompleteEvent DEF ParentsOf, LedgerInv
  <2>2. CASE e \notin Index
    BY <2>2 DEF ParentsOf
  <2> QED BY <2>1, <2>2
<1>2. \A s \in Seq(LedgerEvents) : IsFiniteSet(DOMAIN s)
  <2> SUFFICES ASSUME NEW s \in Seq(LedgerEvents) PROVE IsFiniteSet(DOMAIN s)
    OBVIOUS
  <2>1. DOMAIN s = 1 .. Len(s) /\ Len(s) \in Int /\ 1 \in Int
    OBVIOUS
  <2> QED BY <2>1, FS_Interval
<1>3. IsFiniteSet(D)
  BY <1>1, <1>2, FS_Product
<1>4. Counted(ids, e, S) \subseteq D
  BY DEF Counted
<1> HIDE DEF D
<1> QED BY <1>3, <1>4, FS_Subset

\* An event waits for none of a set when no parent of it is in the set.
LEMMA NoneCounted ==
  ASSUME LedgerInv, qpc # "failed", NEW ids \in Seq(LedgerEvents), NEW e \in Range(ids), NEW S
  PROVE  Cardinality(Counted(ids, e, S)) = 0 <=> Range(ParentsOf(e)) \cap S = {}
<1> DEFINE C == Counted(ids, e, S)
<1>1. PICK k \in DOMAIN ids : ids[k] = e
  BY DEF Range
<1>2. ASSUME NEW w \in C PROVE Range(ParentsOf(e)) \cap S # {}
  <2>1. w[2] \in DOMAIN ParentsOf(e) /\ ParentsOf(e)[w[2]] \in S
    BY DEF Counted
  <2> QED BY <2>1 DEF Range
<1>3. ASSUME NEW x \in Range(ParentsOf(e)) \cap S PROVE C # {}
  <2>1. PICK j \in DOMAIN ParentsOf(e) : x = ParentsOf(e)[j]
    BY DEF Range
  <2>2. <<k, j>> \in C
    BY <1>1, <2>1 DEF Counted
  <2> QED BY <2>2
<1>4. IsFiniteSet(C)
  BY CountedFinite
<1> HIDE DEF C
<1>5. Cardinality(C) = 0 <=> C = {}
  BY <1>4, FS_EmptySet
<1> QED BY <1>2, <1>3, <1>5 DEF C

\* Taking one event out of the set takes its edges off the count.
LEMMA CountedLess ==
  ASSUME LedgerInv, qpc # "failed", NEW ids \in Seq(LedgerEvents), NEW e, NEW S, NEW x \in S
  PROVE  Cardinality(Counted(ids, e, S \ {x})) = Cardinality(Counted(ids, e, S)) - Edges(ids, x, e)
<1> DEFINE C == Counted(ids, e, S)
           X == Counted(ids, e, {x})
<1>1. IsFiniteSet(C)
  BY CountedFinite
<1>2. Counted(ids, e, S \ {x}) = C \ X /\ C \cap X = X
  BY DEF Counted
<1> HIDE DEF C, X
<1>3. Cardinality(C \ X) = Cardinality(C) - Cardinality(C \cap X)
  BY <1>1, FS_Difference
<1> QED BY <1>2, <1>3 DEF Edges, C, X

\* Taking the last one off a sequence without repetitions.
LEMMA RangeFront ==
  ASSUME NEW S, NEW q \in Seq(S), q # <<>>, IsInjective(q)
  PROVE  /\ Front(q) \in Seq(S) /\ IsInjective(Front(q))
         /\ Last(q) \in Range(q) /\ Range(Front(q)) = Range(q) \ {Last(q)}
<1> DEFINE n == Len(q)
           t == Front(q)
           l == Last(q)
<1>1. n \in Nat \ {0} /\ DOMAIN q = 1 .. n /\ l = q[n] /\ \A i \in 1 .. n : q[i] \in S
  BY DEF Last
<1>2. t = SubSeq(q, 1, n - 1)
  BY DEF Front
<1> HIDE DEF n, t, l
<1>3. t \in Seq(S) /\ DOMAIN t = 1 .. n - 1 /\ \A i \in 1 .. n - 1 : t[i] = q[i]
  <2>1. t = [i \in 1 .. n - 1 |-> q[i]]
    BY <1>1, <1>2
  <2>2. \A i \in 1 .. n - 1 : q[i] \in S
    BY <1>1
  <2> QED BY <1>1, <2>1, <2>2
<1>4. \A i, j \in 1 .. n : q[i] = q[j] => i = j
  BY <1>1 DEF IsInjective
<1>5. IsInjective(t)
  BY <1>1, <1>3, <1>4 DEF IsInjective
<1>6. l \in Range(q)
  BY <1>1 DEF Range
<1>7. ASSUME NEW x PROVE x \in Range(t) <=> x \in Range(q) /\ x # l
  <2>1. ASSUME x \in Range(t) PROVE x \in Range(q) /\ x # l
    <3>1. PICK i \in 1 .. n - 1 : x = q[i]
      BY <1>3, <2>1 DEF Range
    <3>2. i \in 1 .. n /\ n \in 1 .. n /\ i # n
      BY <1>1
    <3> QED BY <1>1, <1>4, <3>1, <3>2 DEF Range
  <2>2. ASSUME x \in Range(q), x # l PROVE x \in Range(t)
    <3>1. PICK i \in 1 .. n : x = q[i]
      BY <1>1, <2>2 DEF Range
    <3>2. i \in 1 .. n - 1
      BY <1>1, <2>2, <3>1
    <3> QED BY <1>3, <3>1, <3>2 DEF Range
  <2> QED BY <2>1, <2>2
<1> QED BY <1>3, <1>5, <1>6, <1>7 DEF t, l
\* The range of a sequence with one more element.
LEMMA RangeAppend ==
  ASSUME NEW S, NEW q \in Seq(S), NEW x \in S
  PROVE  /\ Range(Append(q, x)) = Range(q) \cup {x}
         /\ IsInjective(q) /\ x \notin Range(q) => IsInjective(Append(q, x))
<1> DEFINE a == Append(q, x)
<1>1. /\ DOMAIN a = 1 .. Len(q) + 1 /\ DOMAIN q = 1 .. Len(q) /\ Len(q) \in Nat
      /\ \A i \in 1 .. Len(q) : a[i] = q[i]
      /\ a[Len(q) + 1] = x
  OBVIOUS
<1> HIDE DEF a
<1>2. Range(a) = Range(q) \cup {x}
  BY <1>1 DEF Range
<1>3. IsInjective(q) /\ x \notin Range(q) => IsInjective(a)
  BY <1>1 DEF Range, IsInjective
<1> QED BY <1>2, <1>3 DEF a

\* Appending one sequence without repetitions to another.
LEMMA RangeConcat ==
  ASSUME NEW S, NEW q \in Seq(S), NEW o \in Seq(S)
  PROVE  /\ Range(q \o o) = Range(q) \cup Range(o)
         /\ IsInjective(q) /\ IsInjective(o) /\ Range(q) \cap Range(o) = {}
              => IsInjective(q \o o)
<1> DEFINE c == q \o o
<1>1. /\ DOMAIN c = 1 .. Len(q) + Len(o) /\ DOMAIN q = 1 .. Len(q) /\ DOMAIN o = 1 .. Len(o)
      /\ Len(q) \in Nat /\ Len(o) \in Nat
      /\ \A i \in 1 .. Len(q) : c[i] = q[i]
      /\ \A i \in Len(q) + 1 .. Len(q) + Len(o) : c[i] = o[i - Len(q)]
  OBVIOUS
<1> HIDE DEF c
<1>2. Range(c) \subseteq Range(q) \cup Range(o)
  <2> SUFFICES ASSUME NEW i \in DOMAIN c PROVE c[i] \in Range(q) \cup Range(o)
    BY DEF Range
  <2>1. CASE i <= Len(q)
    BY <2>1, <1>1 DEF Range
  <2>2. CASE i > Len(q)
    <3>1. i - Len(q) \in DOMAIN o /\ c[i] = o[i - Len(q)]
      BY <2>2, <1>1
    <3> QED BY <3>1 DEF Range
  <2> QED BY <2>1, <2>2, <1>1
<1>3. Range(q) \subseteq Range(c)
  BY <1>1 DEF Range
<1>4. Range(o) \subseteq Range(c)
  <2> SUFFICES ASSUME NEW i \in DOMAIN o PROVE o[i] \in Range(c)
    BY DEF Range
  <2>1. i + Len(q) \in DOMAIN c /\ c[i + Len(q)] = o[i]
    BY <1>1
  <2> QED BY <2>1 DEF Range
<1>5. ASSUME IsInjective(q), IsInjective(o), Range(q) \cap Range(o) = {}
      PROVE  IsInjective(c)
  <2> SUFFICES ASSUME NEW i \in DOMAIN c, NEW j \in DOMAIN c, c[i] = c[j] PROVE i = j
    BY DEF IsInjective
  <2>1. i \in Nat /\ j \in Nat
    BY <1>1
  <2>2. CASE i <= Len(q) /\ j <= Len(q)
    BY <2>2, <1>1, <1>5 DEF IsInjective
  <2>3. CASE i > Len(q) /\ j > Len(q)
    <3>1. i - Len(q) \in DOMAIN o /\ j - Len(q) \in DOMAIN o
          /\ o[i - Len(q)] = o[j - Len(q)]
      BY <2>3, <1>1
    <3>2. i - Len(q) = j - Len(q)
      BY <3>1, <1>5 DEF IsInjective
    <3> QED BY <3>2, <1>1
  <2>4. CASE (i <= Len(q) /\ j > Len(q)) \/ (i > Len(q) /\ j <= Len(q))
    <3>1. \A m, n \in DOMAIN c : ~(m <= Len(q) /\ n > Len(q) /\ c[m] = c[n])
      <4> SUFFICES ASSUME NEW m \in DOMAIN c, NEW n \in DOMAIN c,
                          m <= Len(q), n > Len(q)
                   PROVE  c[m] # c[n]
        OBVIOUS
      <4>1. m \in DOMAIN q /\ c[m] = q[m]
        BY <1>1
      <4>2. n - Len(q) \in DOMAIN o /\ c[n] = o[n - Len(q)]
        BY <1>1
      <4> QED BY <4>1, <4>2, <1>5 DEF Range
    <3> QED BY <3>1, <2>4
  <2> QED BY <2>1, <2>2, <2>3, <2>4, <1>1
<1> QED BY <1>2, <1>3, <1>4, <1>5 DEF c


\* The sort begins with the events that wait for none.
LEMMA SortBegins ==
  ASSUME LedgerInv, SortPart, BeginChain
  PROVE  SortPart'
<1>1. /\ qpc = "load" /\ qpc' = "chain" /\ asked.kind = "chain"
      /\ UNCHANGED <<evfile, writing, asked, listed, loaded, sorted>>
      /\ degree' = [e \in Range(asked.ids) |-> InDegree(asked.ids, e)]
      /\ \E s \in SetToSeqs({e \in Range(asked.ids) : InDegree(asked.ids, e) = 0}) : queue' = s
  BY DEF BeginChain, Loaded
<1>2. asked.ids \in Seq(LedgerEvents)
  <2>1. asked \in QueryType
    BY <1>1, QueryAssumption DEF LedgerInv, LedgerTypes
  <2> QED BY <1>1, <2>1 DEF QueryType
<1>3. Ids \subseteq LedgerEvents /\ sorted = <<>> /\ Range(sorted) = {}
  BY <1>1, <1>2 DEF Ids, Range, SortPart
<1>4. Ids' = Ids /\ Unsorted' = Ids /\ sorted' = <<>> /\ Range(sorted') = {}
  BY <1>1, <1>3 DEF Ids, Unsorted
<1>5. \A e : ParentsOf(e)' = ParentsOf(e)
  BY <1>1 DEF ParentsOf, Index
<1>6. \A e : Counted(asked.ids, e, Ids)' = Counted(asked.ids, e, Ids)
  BY <1>1, <1>4, <1>5 DEF Counted
<1> DEFINE Z == {e \in Ids : InDegree(asked.ids, e) = 0}
<1>7. queue' \in SetToSeqs(Z)
  BY <1>1 DEF Ids
<1>8. Z \in SUBSET LedgerEvents /\ Z \subseteq Ids
  BY <1>3
<1> HIDE DEF Z
<1>9. queue' \in Seq(Ids) /\ Range(queue') = Z /\ IsInjective(queue')
  <2>1. queue' \in Seq(Z) /\ Range(queue') = Z /\ IsInjective(queue')
    BY <1>7, <1>8, OrdersOf
  <2> QED BY <1>8, <2>1
<1>10. \A e \in Ids : degree'[e] = InDegree(asked.ids, e)
  BY <1>1 DEF Ids
<1>11. SortTypes'
  <2>1. sorted' \in Seq(Ids) /\ IsInjective(sorted')
    BY <1>4 DEF IsInjective
  <2>2. DOMAIN degree' = Ids
    BY <1>1 DEF Ids
  <2> QED BY <1>1, <1>2, <1>4, <1>9, <2>1, <2>2 DEF SortTypes
<1>12. Degrees'
  <2>1. \A e \in Ids : degree'[e] = Cardinality(Counted(asked.ids, e, Ids)')
    BY <1>6, <1>10 DEF InDegree, Ids
  <2> QED BY <1>1, <1>4, <2>1 DEF Degrees
<1>13. Ready'
  BY <1>4, <1>9, <1>10 DEF Ready, Z
<1>14. InOrder'
  BY <1>4 DEF InOrder
<1> QED BY <1>1, <1>11, <1>12, <1>13, <1>14 DEF SortPart

\* An event that waits for none has all the parents it is asked for with sorted.
LEMMA ReadyMeansNone ==
  ASSUME LedgerInv, qpc = "chain", SortPart
  PROVE  /\ \A e \in Ids : degree[e] = 0 <=> Range(ParentsOf(e)) \cap Unsorted = {}
         /\ \A e \in Range(queue) \cup Range(sorted) : Range(ParentsOf(e)) \cap Unsorted = {}
<1>1. SortTypes /\ Degrees /\ Ready
  BY DEF SortPart
<1>2. asked.ids \in Seq(LedgerEvents) /\ qpc # "failed"
  BY <1>1 DEF SortTypes
<1>3. ASSUME NEW e \in Ids
      PROVE  degree[e] = 0 <=> Range(ParentsOf(e)) \cap Unsorted = {}
  BY <1>1, <1>2, NoneCounted DEF Degrees, Ids
<1>4. Range(queue) \cup Range(sorted) \subseteq Ids
  BY <1>1 DEF SortTypes, Range
<1> QED BY <1>1, <1>3, <1>4 DEF Ready

\* A turn of the sort.
LEMMA SortTurns ==
  ASSUME LedgerInv, SortPart, SortChain
  PROVE  SortPart'
<1>1. /\ qpc = "chain" /\ qpc' = "chain" /\ queue # <<>>
      /\ UNCHANGED <<evfile, writing, asked, listed, loaded>>
  BY DEF SortChain
<1>2. SortTypes /\ Degrees /\ Ready /\ InOrder
  BY <1>1 DEF SortPart
<1>3. /\ asked.ids \in Seq(LedgerEvents) /\ queue \in Seq(Ids) /\ IsInjective(queue)
      /\ sorted \in Seq(Ids) /\ IsInjective(sorted)
      /\ Range(queue) \cap Range(sorted) = {} /\ DOMAIN degree = Ids
  BY <1>2 DEF SortTypes
<1>4. PICK current : current = Last(queue)
  OBVIOUS
<1> DEFINE left == [e \in DOMAIN degree |-> degree[e] - Edges(asked.ids, current, e)]
           free == {e \in DOMAIN degree : left[e] = 0 /\ degree[e] # 0}
<1>5. /\ sorted' = Append(sorted, current) /\ degree' = left
      /\ \E s \in SetToSeqs(free) : queue' = Front(queue) \o s
  BY <1>4 DEF SortChain
<1>6. PICK s \in SetToSeqs(free) : queue' = Front(queue) \o s
  BY <1>5
<1>7. DOMAIN degree' = Ids /\ \A e \in Ids : degree'[e] = degree[e] - Edges(asked.ids, current, e)
  BY <1>3, <1>5
<1>8. /\ free = {e \in Ids : degree'[e] = 0 /\ degree[e] # 0} /\ free \subseteq Ids
      /\ Ids \subseteq LedgerEvents
  BY <1>3, <1>5 DEF Ids, Range
<1> HIDE DEF left, free
<1>9. s \in Seq(Ids) /\ Range(s) = free /\ IsInjective(s)
  <2>1. free \in SUBSET LedgerEvents
    BY <1>8
  <2>2. s \in Seq(free) /\ Range(s) = free /\ IsInjective(s)
    BY <1>6, <2>1, OrdersOf
  <2> QED BY <1>8, <2>2
<1>10. /\ Front(queue) \in Seq(Ids) /\ IsInjective(Front(queue))
       /\ current \in Range(queue) /\ Range(Front(queue)) = Range(queue) \ {current}
  BY <1>1, <1>3, <1>4, RangeFront
<1>11. current \in Ids /\ current \notin Range(sorted)
  <2>1. \A i \in DOMAIN queue : queue[i] \in Ids
    BY <1>3
  <2>2. PICK i \in DOMAIN queue : current = queue[i]
    BY <1>10 DEF Range
  <2>3. current \notin Range(sorted)
    BY <1>3, <1>10
  <2> QED BY <2>1, <2>2, <2>3
<1>12. /\ Range(sorted') = Range(sorted) \cup {current}
       /\ IsInjective(sorted') /\ sorted' \in Seq(Ids)
  BY <1>3, <1>5, <1>11, RangeAppend
<1>13. \A e \in Range(queue) \cup Range(sorted) : e \in Ids /\ degree[e] = 0
  BY <1>2, <1>3 DEF Ready, Range
<1>14. Range(Front(queue)) \cap Range(s) = {}
  BY <1>8, <1>9, <1>10, <1>13
<1>15. /\ Range(queue') = (Range(queue) \ {current}) \cup free
       /\ IsInjective(queue') /\ queue' \in Seq(Ids)
  <2>1. /\ Range(Front(queue) \o s) = Range(Front(queue)) \cup Range(s)
        /\ IsInjective(Front(queue) \o s)
    BY <1>9, <1>10, <1>14, RangeConcat
  <2>2. Front(queue) \o s \in Seq(Ids)
    BY <1>9, <1>10
  <2> QED BY <1>6, <1>9, <1>10, <2>1, <2>2
<1>16. Ids' = Ids /\ Unsorted' = Unsorted \ {current} /\ current \in Unsorted
  BY <1>1, <1>11, <1>12 DEF Ids, Unsorted
<1>17. \A e : ParentsOf(e)' = ParentsOf(e)
  BY <1>1 DEF ParentsOf, Index
<1>18. SortTypes'
  <2>1. Range(queue') \cap Range(sorted') = {}
    BY <1>3, <1>8, <1>12, <1>13, <1>15, <1>10
  <2> QED BY <1>1, <1>3, <1>7, <1>12, <1>15, <1>16, <2>1 DEF SortTypes
<1>19. Degrees'
  <2> SUFFICES ASSUME NEW e \in Ids
               PROVE  degree'[e] = Cardinality(Counted(asked.ids, e, Unsorted)')
    BY <1>1, <1>16 DEF Degrees
  <2>1. Counted(asked.ids, e, Unsorted)' = Counted(asked.ids, e, Unsorted \ {current})
    BY <1>1, <1>16, <1>17 DEF Counted
  <2>2. Cardinality(Counted(asked.ids, e, Unsorted \ {current}))
          = Cardinality(Counted(asked.ids, e, Unsorted)) - Edges(asked.ids, current, e)
    BY <1>1, <1>3, <1>16, CountedLess
  <2> QED BY <1>2, <1>7, <2>1, <2>2 DEF Degrees
<1>20. /\ \A e \in Ids : degree[e] = 0 <=> Range(ParentsOf(e)) \cap Unsorted = {}
       /\ \A e \in Range(queue) \cup Range(sorted) : Range(ParentsOf(e)) \cap Unsorted = {}
  BY <1>1, ReadyMeansNone
<1>21. Ready'
  <2>1. ASSUME NEW e \in Range(queue) \cup Range(sorted) PROVE degree'[e] = 0
    <3>1. e \in Ids /\ Range(ParentsOf(e)) \cap {current} = {}
      BY <1>13, <1>16, <1>20
    <3>2. Edges(asked.ids, current, e) = 0
      BY <1>1, <1>3, <3>1, NoneCounted DEF Edges, Ids
    <3> QED BY <1>7, <1>13, <3>1, <3>2
  <2>2. Range(queue') \cup Range(sorted') = Range(queue) \cup Range(sorted) \cup free
    BY <1>10, <1>12, <1>15
  <2> QED BY <1>2, <1>8, <1>16, <2>1, <2>2 DEF Ready
<1>22. InOrder'
  <2> SUFFICES ASSUME NEW i \in DOMAIN sorted', NEW j \in DOMAIN sorted',
                      sorted'[j] \in Range(ParentsOf(sorted'[i]))
               PROVE  j < i
    BY <1>17 DEF InOrder
  <2> DEFINE n == Len(sorted)
  <2>1. /\ n \in Nat /\ DOMAIN sorted' = 1 .. n + 1 /\ DOMAIN sorted = 1 .. n
        /\ sorted'[n + 1] = current /\ \A k \in 1 .. n : sorted'[k] = sorted[k]
    BY <1>3, <1>5, <1>11
  <2> HIDE DEF n
  <2>2. CASE j = n + 1
    <3>1. sorted'[i] \in Range(queue) \cup Range(sorted)
      BY <1>10, <1>12 DEF Range
    <3> QED BY <1>16, <1>20, <2>1, <2>2, <3>1
  <2>3. CASE j # n + 1 /\ i = n + 1
    BY <2>1, <2>3
  <2>4. CASE j # n + 1 /\ i # n + 1
    <3>1. i \in 1 .. n /\ j \in 1 .. n
      BY <2>1, <2>4
    <3> QED BY <1>2, <2>1, <3>1 DEF InOrder
  <2> QED BY <2>2, <2>3, <2>4
<1> QED BY <1>1, <1>18, <1>19, <1>21, <1>22 DEF SortPart

\* What was read stays, and with it what the sort counts.
LEMMA SortUndisturbed ==
  ASSUME LedgerInv, SortPart, [QueryNext]_queryVars,
         UNCHANGED <<qpc, asked, listed, loaded, queue, degree, sorted>>
  PROVE  SortPart'
<1>1. CASE qpc # "chain"
  BY <1>1 DEF SortPart
<1>2. CASE qpc = "chain"
  <2>1. SortTypes /\ Degrees /\ Ready /\ InOrder
    BY <1>2 DEF SortPart
  <2>2. loaded \subseteq Complete
    BY <1>2 DEF LedgerInv, LoadedPart
  <2>3. \A e \in loaded : evfile'[e] = evfile[e]
    BY <2>2, Frozen
  <2>4. \A e : ParentsOf(e)' = ParentsOf(e)
    BY <2>3 DEF ParentsOf, Index
  <2>5. Ids' = Ids /\ Unsorted' = Unsorted
    BY DEF Ids, Unsorted
  <2>6. \A e : Counted(asked.ids, e, Unsorted)' = Counted(asked.ids, e, Unsorted)
    BY <2>4, <2>5 DEF Counted
  <2>7. SortTypes' /\ Ready'
    BY <2>1, <2>5 DEF SortTypes, Ready
  <2>8. Degrees'
    BY <2>1, <2>5, <2>6 DEF Degrees
  <2>9. InOrder'
    BY <2>1, <2>4 DEF InOrder
  <2> QED BY <1>2, <2>7, <2>8, <2>9 DEF SortPart
<1> QED BY <1>1, <1>2

LEMMA SortNext ==
  ASSUME LedgerInv, SortPart, [QueryNext]_queryVars
  PROVE  SortPart'
<1>1. CASE \/ \E e \in LedgerEvents, c \in Recorded : BeginRecord(e, c)
           \/ EndRecord \/ KillRecorder \/ UNCHANGED queryVars
  <2>1. UNCHANGED <<qpc, asked, listed, loaded, queue, degree, sorted>>
    BY <1>1 DEF BeginRecord, EndRecord, KillRecorder, queryVars
  <2> QED BY <2>1, SortUndisturbed
<1>2. CASE \/ \E q \in Queries : BeginQuery(q)
           \/ \E e \in LedgerEvents : LoadEvent(e)
  <2>1. qpc \in {"idle", "load"} /\ sorted' = sorted /\ qpc' \in {"load", "failed"}
    BY <1>2 DEF BeginQuery, LoadEvent
  <2> QED BY <2>1 DEF SortPart
<1>3. CASE BeginPath \/ SearchPath \/ Statistics \/ EndChain
  <2>1. qpc' \in {"path", "done", "failed"}
    BY <1>3 DEF BeginPath, SearchPath, Statistics, EndChain
  <2> QED BY <2>1 DEF SortPart
<1> QED BY <1>1, <1>2, <1>3, SortBegins, SortTurns DEF QueryNext

\* A sequence without repetitions is as long as its events are many.
LEMMA LengthOf ==
  ASSUME NEW q \in Seq(LedgerEvents), IsInjective(q)
  PROVE  Cardinality(Range(q)) = Len(q)
<1> DEFINE n == Len(q)
           Y == Range(q)
<1>1. n \in Nat /\ q \in [1 .. n -> Y] /\ \A y \in Y : \E i \in 1 .. n : q[i] = y
  BY DEF Range
<1> HIDE DEF n, Y
<1>2. q \in Bijection(1 .. n, Y)
  BY <1>1 DEF Bijection, Injection, Surjection, IsInjective
<1>3. Cardinality(Y) = n
  BY <1>1, <1>2, FS_CountingElements DEF ExistsBijection
<1> QED BY <1>3 DEF n, Y

\* A queue that has run dry leaves no event behind: those left behind would be a circle.
LEMMA AllSorted ==
  ASSUME LedgerInv, SortPart, qpc = "chain", queue = <<>>
  PROVE  Range(sorted) = Ids
<1>1. SortTypes /\ Ready
  BY DEF SortPart
<1>2. Range(sorted) \subseteq Ids
  BY <1>1 DEF SortTypes, Range
<1> SUFFICES ASSUME Unsorted # {} PROVE FALSE
  BY <1>2 DEF Unsorted
<1>3. Range(queue) = {}
  BY DEF Range
<1>4. ASSUME NEW e \in Unsorted PROVE e \in loaded /\ Parents(e) \cap Unsorted # {}
  <2>1. e \in Ids /\ degree[e] # 0
    BY <1>1, <1>3 DEF Unsorted, Ready
  <2>2. Range(ParentsOf(e)) \cap Unsorted # {}
    BY <2>1, ReadyMeansNone
  <2>3. Range(ParentsOf(e)) = IF e \in loaded THEN Parents(e) ELSE {}
    BY IndexIsLoaded
  <2> QED BY <2>2, <2>3
<1>5. Unsorted \in SUBSET Complete
  BY <1>4 DEF LedgerInv, LoadedPart
<1> QED BY <1>4, <1>5 DEF LedgerInv, NoCircle

\* The sort ends.
LEMMA SortEnds ==
  ASSUME LedgerInv, SortPart, EndChain
  PROVE  ChainInOrder'
<1>1. /\ qpc = "chain" /\ queue = <<>>
      /\ UNCHANGED <<evfile, writing, asked, listed, loaded, sorted>>
  BY DEF EndChain
<1>2. SortTypes /\ InOrder
  BY <1>1 DEF SortPart
<1>3. Range(sorted) = Ids
  BY <1>1, AllSorted
<1>4. /\ asked.ids \in Seq(LedgerEvents) /\ sorted \in Seq(Ids) /\ IsInjective(sorted)
      /\ Ids \subseteq LedgerEvents
  BY <1>2 DEF SortTypes, Ids, Range
<1>5. Index = loaded /\ Index' = Index /\ \A e \in loaded : ParentsOf(e) = evfile[e].parents
  BY <1>1, IndexIsLoaded DEF Index, ParentsOf
<1>6. CASE Len(sorted) = Len(asked.ids)
  <2>1. /\ qpc' = "done"
        /\ \E s \in InOrderOf(sorted, Range(sorted) \cap Index) : answer' = [chain |-> s]
    BY <1>6 DEF EndChain
  <2>2. PICK s \in InOrderOf(sorted, Range(sorted) \cap Index) : answer' = [chain |-> s]
    BY <2>1
  <2>3. answer'.chain = s
    BY <2>2
  <2>4. Range(s) = Ids \cap Index /\ IsInjective(s)
    <3>1. s \in SetToSeqs(Ids \cap Index)
      BY <1>3 DEF InOrderOf
    <3> QED BY <1>4, <3>1, OrdersOf
  <2>5. \A i, j \in DOMAIN s : i < j =>
           \E m \in DOMAIN sorted : sorted[m] = s[i] /\ \A n \in 1 .. m : sorted[n] # s[j]
    BY DEF InOrderOf
  <2>6. DOMAIN s \subseteq Nat
    <3>1. s \in Seq(LedgerEvents)
      BY <1>3, <1>4, OrdersOf DEF InOrderOf
    <3> QED BY <3>1
  <2>7. DOMAIN sorted \subseteq Nat \ {0}
    BY <1>4
  <2>8. ASSUME NEW i \in DOMAIN s, NEW j \in DOMAIN s, i # j,
               s[j] \in Range(evfile[s[i]].parents)
        PROVE  j < i
    <3> SUFFICES ASSUME i < j PROVE FALSE
      BY <2>6, <2>8
    <3>1. PICK m \in DOMAIN sorted : sorted[m] = s[i] /\ \A n \in 1 .. m : sorted[n] # s[j]
      BY <2>5
    <3>2. s[i] \in loaded /\ s[j] \in Range(sorted)
      BY <1>3, <1>5, <2>4 DEF Range
    <3>3. PICK k \in DOMAIN sorted : sorted[k] = s[j]
      BY <3>2 DEF Range
    <3>4. sorted[k] \in Range(ParentsOf(sorted[m]))
      BY <1>5, <2>8, <3>1, <3>2, <3>3
    <3>5. k < m
      BY <1>2, <3>4 DEF InOrder
    <3>6. k \in 1 .. m
      BY <2>7, <3>5
    <3> QED BY <3>1, <3>3, <3>6
  <2>9. \A i, j \in DOMAIN s : i # j => s[i] # s[j]
    BY <2>4 DEF IsInjective
  <2> QED BY <1>1, <1>5, <2>1, <2>3, <2>4, <2>8, <2>9 DEF ChainInOrder, Ids
<1>7. CASE Len(sorted) # Len(asked.ids)
  <2>1. qpc' = "failed"
    BY <1>7 DEF EndChain
  <2>2. ASSUME IsInjective(asked.ids) PROVE FALSE
    <3>1. sorted \in Seq(LedgerEvents)
      BY <1>4
    <3> QED BY <1>3, <1>4, <1>7, <2>2, <3>1, LengthOf DEF Ids
  <2> QED BY <1>1, <2>1, <2>2 DEF ChainInOrder, Done
<1> QED BY <1>6, <1>7

LEMMA ChainNext ==
  ASSUME LedgerInv, PathQueryInv, SortPart, ChainInOrder, [QueryNext]_queryVars
  PROVE  ChainInOrder'
<1>1. CASE \/ \E e \in LedgerEvents, c \in Recorded : BeginRecord(e, c)
           \/ EndRecord \/ KillRecorder \/ UNCHANGED queryVars
  <2>1. UNCHANGED <<qpc, asked, listed, loaded, answer>>
    BY <1>1 DEF BeginRecord, EndRecord, KillRecorder, queryVars
  <2>2. CASE Done("chain")
    <3>1. qpc = "done" /\ loaded \subseteq Complete
      BY <2>2 DEF Done, LedgerInv, LoadedPart
    <3>2. \A e \in loaded : evfile'[e] = evfile[e]
      BY <3>1, Frozen
    <3>3. Index = loaded /\ Index' = Index
      BY <2>1, <3>1, <3>2, IndexIsLoaded DEF Index
    <3>4. \A i \in DOMAIN answer.chain : answer.chain[i] \in loaded
      BY <2>2, <3>3 DEF ChainInOrder, Range
    <3> QED BY <2>1, <2>2, <3>1, <3>2, <3>3, <3>4 DEF ChainInOrder, Done
  <2>3. CASE ~ Done("chain")
    BY <2>1, <2>3 DEF ChainInOrder, Done
  <2> QED BY <2>2, <2>3
<1>2. CASE \/ \E q \in Queries : BeginQuery(q)
           \/ BeginChain \/ SortChain
  <2>1. qpc' \in {"load", "chain"}
    BY <1>2 DEF BeginQuery, BeginChain, SortChain
  <2> QED BY <2>1 DEF ChainInOrder, Done
<1>3. CASE \E e \in LedgerEvents : LoadEvent(e)
  <2>1. qpc' = "load" \/ (qpc' = "failed" /\ answer' = "torn")
    BY <1>3 DEF LoadEvent
  <2> QED BY <2>1 DEF ChainInOrder, Done
<1>4. CASE BeginPath \/ SearchPath \/ Statistics
  <2>1. asked'.kind # "chain" /\ qpc' # "failed"
    BY <1>4 DEF BeginPath, SearchPath, Statistics, Loaded, PathQueryInv, SearchPart
  <2> QED BY <2>1 DEF ChainInOrder, Done
<1> QED BY <1>1, <1>2, <1>3, <1>4, SortEnds DEF QueryNext

QueryInv == LedgerInv /\ PathQueryInv /\ SortPart /\ LeavesAnswer /\ ChainInOrder

\* QueryAnswers holds for any ledger and any number of events: a path is a chain of parents,
\* a shortest one and never missed if its first event was there when the reading began;
\* the leaves are counted right if nothing was read that came later; a chain is in order.
THEOREM QueryHolds == QuerySpec => []QueryAnswers
<1>1. QueryInit => QueryInv
  <2> SUFFICES ASSUME QueryInit PROVE QueryInv
    OBVIOUS
  <2>1. None \notin Recorded
    BY QueryAssumption
  <2>2. Complete = {}
    BY DEF QueryInit, Complete
  <2>3. LedgerTypes /\ ListedPart /\ LoadedPart
    BY DEF QueryInit, LedgerTypes, ListedPart, LoadedPart
  <2>4. Ancestry /\ NoCircle
    BY <2>2 DEF QueryInit, Ancestry, NoCircle
  <2>5. PathQueryInv /\ SortPart
    BY DEF QueryInit, PathQueryInv, SearchPart, Breadth, PathDone, Done, SortPart
  <2>6. LeavesAnswer /\ ChainInOrder
    BY DEF QueryInit, LeavesAnswer, ChainInOrder, Done
  <2> QED BY <2>3, <2>4, <2>5, <2>6 DEF QueryInv, LedgerInv
<1>2. QueryInv /\ [QueryNext]_queryVars => QueryInv'
  <2> SUFFICES ASSUME QueryInv, [QueryNext]_queryVars PROVE QueryInv'
    OBVIOUS
  <2>1. LedgerInv /\ PathQueryInv /\ SortPart /\ LeavesAnswer /\ ChainInOrder
    BY DEF QueryInv
  <2>2. LedgerInv'
    BY <2>1, LedgerNext
  <2>3. PathQueryInv'
    BY <2>1, PathNext
  <2>4. SortPart'
    BY <2>1, SortNext
  <2>5. LeavesAnswer' /\ ChainInOrder'
    BY <2>1, LeavesNext, ChainNext
  <2> QED BY <2>2, <2>3, <2>4, <2>5 DEF QueryInv
<1>3. QueryInv => QueryAnswers
  BY PathIsRight DEF QueryInv, QueryAnswers
<1> QED BY <1>1, <1>2, <1>3, PTL DEF QuerySpec
=============================================================================
