---------------------------- MODULE CausalQuery ----------------------------
(***************************************************************************)
(* The queries of src/storage/causal_ledger.rs (`attest causal path`,      *)
(* `stats` and `chain`): the ledger is a directory with a file per event,  *)
(* which a query reads file by file while runs add to it, and no lock is   *)
(* held.  A run writes an event after those it names as parents, each with *)
(* fs::write: a reader may meet a file that is not yet complete, or, after *)
(* a crash, never will be.                                                 *)
(*                                                                         *)
(* qpc: idle, load, path (the search), chain (the sort), done, failed.     *)
(***************************************************************************)
EXTENDS Verdicts, Integers, Sequences, FiniteSets, Functions, SequencesExt

CONSTANTS
  LedgerEvents,  \* event ids
  Recorded,      \* what runs may record
  Queries        \* what may be asked

VARIABLES
  evfile,   \* per id: nothing, a torn file, or the event
  writing,  \* the event that a run is writing, or None
  qpc,
  asked,    \* the query
  listed,   \* history: the files that were there when the listing began
  loaded,   \* files that were read
  queue,    \* path: the queue of the search, each id with the path to it
  visited,  \* path: ids that were put into it
  degree,   \* chain: in_degree
  sorted,   \* chain: what the sort has emitted
  answer    \* path and validity, counts, or chain

queryVars == <<evfile, writing, qpc, asked, listed, loaded, queue, visited, degree, sorted, answer>>

Torn == [parents |-> None, ours |-> FALSE]

\* `ours`: it carries a signature by the key of this workspace.
EventContent == [parents : Seq(LedgerEvents), ours : BOOLEAN]

QueryType ==
  [kind : {"path"}, from : LedgerEvents, to : LedgerEvents]
  \cup [kind : {"stats"}] \cup [kind : {"chain"}, ids : Seq(LedgerEvents)]

ASSUME QueryAssumption ==
  /\ Recorded \subseteq EventContent /\ IsFiniteSet(LedgerEvents)
  /\ Queries \subseteq QueryType
  /\ None \notin Seq(LedgerEvents) /\ None \notin EventContent \cup {Torn}

\* The index and the dependency graph, as the files read so far make it.
Index == {e \in loaded : evfile[e] \notin {None, Torn}}
ParentsOf(e) == IF e \in Index THEN evfile[e].parents ELSE <<>>

----------------------------------------------------------------------------
\* record_event_local and store_event_local in a run: its events name events that it
\* recorded before.
BeginRecord(e, c) ==
  /\ writing = None /\ evfile[e] = None
  /\ \A p \in Range(c.parents) : evfile[p] \notin {None, Torn}
  /\ writing' = [event |-> e, content |-> c]
  /\ evfile' = [evfile EXCEPT ![e] = Torn]
  /\ UNCHANGED <<qpc, asked, listed, loaded, queue, visited, degree, sorted, answer>>

EndRecord ==
  /\ writing # None
  /\ evfile' = [evfile EXCEPT ![writing.event] = writing.content]
  /\ writing' = None
  /\ UNCHANGED <<qpc, asked, listed, loaded, queue, visited, degree, sorted, answer>>

KillRecorder ==
  /\ writing # None
  /\ writing' = None
  /\ UNCHANGED <<evfile, qpc, asked, listed, loaded, queue, visited, degree, sorted, answer>>

----------------------------------------------------------------------------
\* get_causal_ledger begins to read the directory.
BeginQuery(q) ==
  /\ qpc = "idle"
  /\ qpc' = "load" /\ asked' = q
  /\ listed' = {e \in LedgerEvents : evfile[e] # None}
  /\ UNCHANGED <<evfile, writing, loaded, queue, visited, degree, sorted, answer>>

\* load_events reads a file; one that does not parse is an error of the command.
LoadEvent(e) ==
  /\ qpc = "load" /\ e \notin loaded /\ evfile[e] # None
  /\ loaded' = loaded \cup {e}
  /\ IF evfile[e] = Torn THEN qpc' = "failed" /\ answer' = "torn"
                         ELSE UNCHANGED <<qpc, answer>>
  /\ UNCHANGED <<evfile, writing, asked, listed, queue, visited, degree, sorted>>

\* read_dir is at its end.  It has returned every file that was there at the start, of
\* those that came later any.
Loaded(kind) == qpc = "load" /\ listed \subseteq loaded /\ asked.kind = kind

----------------------------------------------------------------------------
\* find_causal_path: both ends must be known.
BeginPath ==
  /\ Loaded("path")
  /\ IF {asked.from, asked.to} \subseteq Index
     THEN /\ qpc' = "path" /\ queue' = <<<<asked.from>>>> /\ visited' = {asked.from}
          /\ UNCHANGED answer
     ELSE qpc' = "done" /\ answer' = [path |-> <<>>, valid |-> FALSE] /\ UNCHANGED <<queue, visited>>
  /\ UNCHANGED <<evfile, writing, asked, listed, loaded, degree, sorted>>

\* verify_causal_path: each event is known and signed by our key, and each names the one
\* before it in the path as a parent.
PathValid(path) ==
  /\ path # <<>>
  /\ \A i \in DOMAIN path : path[i] \in Index /\ evfile[path[i]].ours
  /\ \A i \in 2 .. Len(path) : path[i - 1] \in Range(ParentsOf(path[i]))

\* The members of S, each once, in the order in which seq first names them.
InOrderOf(seq, S) ==
  {s \in SetToSeqs(S) : \A i, j \in DOMAIN s : i < j =>
     \E m \in DOMAIN seq : seq[m] = s[i] /\ \A n \in 1 .. m : seq[n] # s[j]}

\* The parents of an event that the search has not seen, in their order.
Unseen(e) == InOrderOf(ParentsOf(e), Range(ParentsOf(e)) \ visited)

\* A turn of the breadth-first search, from an event to its parents.
SearchPath ==
  /\ qpc = "path"
  /\ IF queue = <<>>
     THEN qpc' = "done" /\ answer' = [path |-> <<>>, valid |-> FALSE] /\ UNCHANGED <<queue, visited>>
     ELSE LET path == Head(queue) IN
          IF Last(path) = asked.to
          THEN /\ qpc' = "done" /\ answer' = [path |-> path, valid |-> PathValid(path)]
               /\ UNCHANGED <<queue, visited>>
          ELSE /\ \E next \in Unseen(Last(path)) :
                    queue' = Tail(queue) \o [i \in DOMAIN next |-> Append(path, next[i])]
               /\ visited' = visited \cup Range(ParentsOf(Last(path)))
               /\ UNCHANGED <<qpc, answer>>
  /\ UNCHANGED <<evfile, writing, asked, listed, loaded, degree, sorted>>

----------------------------------------------------------------------------
\* get_statistics: count_root_events and count_leaf_events, a usize.  count_chains depends
\* on the order of a HashMap and is left out.
Statistics ==
  /\ Loaded("stats")
  /\ qpc' = "done"
  /\ answer' = [roots |-> Cardinality({e \in Index : evfile[e].parents = <<>>}),
                leaves |-> Cardinality(Index)
                           - Cardinality(UNION {Range(evfile[e].parents) : e \in Index})]
  /\ UNCHANGED <<evfile, writing, asked, listed, loaded, queue, visited, degree, sorted>>

----------------------------------------------------------------------------
\* Fault: a parent that is listed twice is taken off once.
EdgesOnce(ids, p, e) ==
  IF p \in Range(ParentsOf(e)) /\ e \in Range(ids) THEN 1 ELSE 0

\* The places of `ids` that name e, each with each place of a parent of e that is in S.
Counted(ids, e, S) ==
  {w \in (DOMAIN ids) \X (DOMAIN ParentsOf(e)) : ids[w[1]] = e /\ ParentsOf(e)[w[2]] \in S}

\* How often event e counts on event p, and how often on any of the events asked for.
Edges(ids, p, e) == Cardinality(Counted(ids, e, {p}))
InDegree(ids, e) == Cardinality(Counted(ids, e, Range(ids)))

\* topological_sort_events begins: the first queue is in the order of a HashMap.
BeginChain ==
  /\ Loaded("chain")
  /\ qpc' = "chain"
  /\ degree' = [e \in Range(asked.ids) |-> InDegree(asked.ids, e)]
  /\ \E s \in SetToSeqs({e \in Range(asked.ids) : InDegree(asked.ids, e) = 0}) : queue' = s
  /\ UNCHANGED <<evfile, writing, asked, listed, loaded, visited, sorted, answer>>

\* A turn: the last id of the queue is emitted, and the ids that waited for it only are
\* put into the queue.
SortChain ==
  /\ qpc = "chain" /\ queue # <<>>
  /\ LET current == Last(queue)
         left == [e \in DOMAIN degree |-> degree[e] - Edges(asked.ids, current, e)]
         free == {e \in DOMAIN degree : left[e] = 0 /\ degree[e] # 0}
     IN /\ sorted' = Append(sorted, current)
        /\ degree' = left
        /\ \E s \in SetToSeqs(free) : queue' = Front(queue) \o s
  /\ UNCHANGED <<evfile, writing, qpc, asked, listed, loaded, visited, answer>>

\* build_causal_chain: the events that are known, in that order; the chain is saved.
EndChain ==
  /\ qpc = "chain" /\ queue = <<>>
  /\ IF Len(sorted) = Len(asked.ids)
     THEN /\ qpc' = "done"
          /\ \E s \in InOrderOf(sorted, Range(sorted) \cap Index) : answer' = [chain |-> s]
     ELSE qpc' = "failed" /\ answer' = "circular"
  /\ UNCHANGED <<evfile, writing, asked, listed, loaded, queue, visited, degree, sorted>>

QueryInit ==
  /\ evfile = [e \in LedgerEvents |-> None] /\ writing = None
  /\ qpc = "idle" /\ asked = None /\ listed = {} /\ loaded = {}
  /\ queue = <<>> /\ visited = {} /\ degree = <<>> /\ sorted = <<>> /\ answer = None

QueryNext ==
  \/ \E e \in LedgerEvents, c \in Recorded : BeginRecord(e, c)
  \/ EndRecord \/ KillRecorder
  \/ \E q \in Queries : BeginQuery(q)
  \/ \E e \in LedgerEvents : LoadEvent(e)
  \/ BeginPath \/ SearchPath \/ Statistics \/ BeginChain \/ SortChain \/ EndChain

QuerySpec == QueryInit /\ [][QueryNext]_queryVars

----------------------------------------------------------------------------
Done(kind) == qpc = "done" /\ asked.kind = kind

\* One event caused another, through the parents that the ledger holds by now.
IsChain(path) ==
  \A i \in 2 .. Len(path) :
    evfile[path[i - 1]] \notin {None, Torn} /\ path[i] \in Range(evfile[path[i - 1]].parents)

\* The paths of the ledger between two events (an acyclic graph: none is longer than
\* the number of events).
Chains(from, to) ==
  {path \in UNION {[1 .. n -> LedgerEvents] : n \in 1 .. Cardinality(LedgerEvents)} :
     path[1] = from /\ Last(path) = to /\ IsChain(path)}

\* A path is a chain of parents from the one event to the other.  If the first event was
\* there when the reading began, as everything it came from was too, the path is a
\* shortest one and none is missed; of an event that came later a nearer parent may not
\* have been read.  A path is called valid only if our key signed each event of it, files
\* that came or were completed meanwhile included.
PathAnswers ==
  Done("path") =>
    /\ answer.path # <<>> => answer.path \in Chains(asked.from, asked.to)
    /\ asked.from \in listed =>
         /\ answer.path = <<>> => Chains(asked.from, asked.to) = {}
         /\ \A c \in Chains(asked.from, asked.to) : Len(answer.path) <= Len(c)
    /\ answer.valid =>
         answer.path # <<>> /\ \A i \in DOMAIN answer.path : evfile[answer.path[i]].ours

\* `attest causal path` prints "Valid causal path found:" and the events from the one end to
\* the other (main.rs:2797): a path that was found, through events that our key signed, is
\* called valid.
FoundPathIsValid ==
  Done("path") /\ answer.path # <<>> /\ (\A i \in DOMAIN answer.path : evfile[answer.path[i]].ours)
    => answer.valid

\* The number of leaves is right, and does not wrap below zero, if only events were read
\* that were there when the reading began.
LeavesAnswer ==
  Done("stats") /\ loaded = listed =>
    answer.leaves = Cardinality({e \in loaded :
                                   \A f \in loaded : e \notin Range(evfile[f].parents)})

\* A chain holds each event asked for once, after the parents it is asked for with; "Circular
\* dependency detected" (causal_ledger.rs:562) is said only if an id was given twice, for
\* a ledger that runs wrote has no circle.
ChainInOrder ==
  /\ Done("chain") =>
       /\ Range(answer.chain) = Range(asked.ids) \cap Index
       /\ \A i, j \in DOMAIN answer.chain :
            i # j => /\ answer.chain[i] # answer.chain[j]
                     /\ answer.chain[j] \in Range(evfile[answer.chain[i]].parents) => j < i
  /\ qpc = "failed" /\ answer = "circular" => ~ IsInjective(asked.ids)

\* A query tells what the ledger holds, though it reads while runs write and die: the path,
\* the number of leaves and the chain are those of the ledger.
QueryAnswers == PathAnswers /\ LeavesAnswer /\ ChainInOrder
=============================================================================
