----------------------------- MODULE StepCache -----------------------------
(***************************************************************************)
(* The step cache of src/storage/mod.rs: a file per content hash and an    *)
(* index of them.  Several processes look up, store and clean up without a *)
(* lock; each file is written with fs::write, which truncates and then     *)
(* fills it, so a process killed there leaves a file that does not parse.  *)
(*                                                                         *)
(* cpc: idle, entry (the entry is written), read (the index is to be read),*)
(* remove (a clean-up removes files), save (the changed index is to be     *)
(* written), index (it is written), killed.                                *)
(***************************************************************************)
EXTENDS Verdicts, Naturals, FiniteSets, Functions, SequencesExt

CONSTANTS
  CacheUsers,  \* processes
  CacheKeys,   \* content hashes
  EntrySize,   \* per key: file_size
  MaxBytes     \* max_size_bytes

VARIABLES
  cfile,    \* per key: None, "torn", or the content_hash the entry states
  cindex,   \* None, {"torn"}, or the set of keys it lists
  cpc,
  ckey,     \* per process: the key it is about, None in a clean-up or at idle
  mine,     \* per process: its copy of the index
  doomed,   \* per process: entries_to_remove
  hit,      \* per process: the content_hash of the entry that its last look-up returned
  cleaned   \* per process: the index that its clean-up wrote, with which it ends

cacheVars == <<cfile, cindex, cpc, ckey, mine, doomed, hit, cleaned>>

ASSUME CacheAssumption ==
  EntrySize \in [CacheKeys -> Nat] /\ MaxBytes \in Nat /\ {"torn", None} \cap CacheKeys = {}

Bytes(S) == SumFunctionOnSet(EntrySize, S)

----------------------------------------------------------------------------
\* Fault: what is in the file is returned.
LookupTrusting(u, k) ==
  /\ cpc[u] = "idle" /\ hit[u] = None /\ cleaned[u] = None
  /\ ckey' = [ckey EXCEPT ![u] = k]
  /\ hit' = [hit EXCEPT ![u] = IF cfile[k] = "torn" THEN None ELSE cfile[k]]
  /\ UNCHANGED <<cfile, cindex, cpc, mine, doomed, cleaned>>

\* get_cached_entry: a file that does not parse is an error, and stays; an entry that
\* states another hash is removed; neither is returned.
Lookup(u, k) ==
  /\ cpc[u] = "idle" /\ hit[u] = None /\ cleaned[u] = None
  /\ ckey' = [ckey EXCEPT ![u] = k]
  /\ hit' = [hit EXCEPT ![u] = IF cfile[k] = k THEN k ELSE None]
  /\ cfile' = [cfile EXCEPT ![k] = IF @ \in {k, "torn"} THEN @ ELSE None]
  /\ UNCHANGED <<cindex, cpc, mine, doomed, cleaned>>

\* cache_entry opens the file of the entry, and fills it.
BeginStore(u, k) ==
  /\ cpc[u] = "idle" /\ hit[u] = None /\ cleaned[u] = None
  /\ ckey' = [ckey EXCEPT ![u] = k]
  /\ cfile' = [cfile EXCEPT ![k] = "torn"]
  /\ cpc' = [cpc EXCEPT ![u] = "entry"]
  /\ UNCHANGED <<cindex, mine, doomed, hit, cleaned>>

EndStore(u) ==
  /\ cpc[u] = "entry"
  /\ cfile' = [cfile EXCEPT ![ckey[u]] = ckey[u]]
  /\ cpc' = [cpc EXCEPT ![u] = "read"]
  /\ UNCHANGED <<cindex, ckey, mine, doomed, hit, cleaned>>

\* update_cache_index: the index is read, if it is there, and the entry added to the copy.
ReadIndex(u) ==
  /\ cpc[u] = "read"
  /\ IF cindex = {"torn"}
     THEN cpc' = [cpc EXCEPT ![u] = "idle"] /\ ckey' = [ckey EXCEPT ![u] = None] /\ UNCHANGED mine
     ELSE /\ mine' = [mine EXCEPT ![u] = (IF cindex = None THEN {} ELSE cindex) \cup {ckey[u]}]
          /\ cpc' = [cpc EXCEPT ![u] = "save"] /\ UNCHANGED ckey
  /\ UNCHANGED <<cfile, cindex, doomed, hit, cleaned>>

\* cleanup_cache: entries that are too old go, and then the least recently used ones
\* until the rest is not too large.
ToRemove(index, old, order) ==
  old \cup {order[i] : i \in {i \in DOMAIN order :
              Bytes(index \ (old \cup {order[j] : j \in 1 .. i - 1})) > MaxBytes}}

BeginCleanup(u, old) ==
  /\ cpc[u] = "idle" /\ hit[u] = None /\ cleaned[u] = None
  /\ cindex \notin {None, {"torn"}} /\ old \subseteq cindex
  /\ mine' = [mine EXCEPT ![u] = cindex] /\ ckey' = [ckey EXCEPT ![u] = None]
  /\ \E order \in SetToSeqs(cindex \ old) :
       doomed' = [doomed EXCEPT ![u] = ToRemove(cindex, old, order)]
  /\ cpc' = [cpc EXCEPT ![u] = "remove"]
  /\ UNCHANGED <<cfile, cindex, hit, cleaned>>

RemoveEntry(u, k) ==
  /\ cpc[u] = "remove" /\ k \in doomed[u]
  /\ cfile' = [cfile EXCEPT ![k] = None]
  /\ mine' = [mine EXCEPT ![u] = @ \ {k}]
  /\ doomed' = [doomed EXCEPT ![u] = @ \ {k}]
  /\ UNCHANGED <<cindex, cpc, ckey, hit, cleaned>>

\* The copy of the index is written back, whatever became of the index since.
BeginSave(u) ==
  /\ cpc[u] = "save" \/ (cpc[u] = "remove" /\ doomed[u] = {})
  /\ cindex' = {"torn"}
  /\ cpc' = [cpc EXCEPT ![u] = "index"]
  /\ UNCHANGED <<cfile, ckey, mine, doomed, hit, cleaned>>

EndSave(u) ==
  /\ cpc[u] = "index"
  /\ cindex' = mine[u]
  /\ cleaned' = IF ckey[u] = None THEN [cleaned EXCEPT ![u] = mine[u]] ELSE cleaned
  /\ cpc' = [cpc EXCEPT ![u] = "idle"]
  /\ ckey' = [ckey EXCEPT ![u] = None] /\ mine' = [mine EXCEPT ![u] = {}]
  /\ UNCHANGED <<cfile, doomed, hit>>

KillUser(u) ==
  /\ cpc[u] \notin {"idle", "killed"}
  /\ cpc' = [cpc EXCEPT ![u] = "killed"]
  /\ UNCHANGED <<cfile, cindex, ckey, mine, doomed, hit, cleaned>>

\* The file of an entry ends up under the name of another.
Misplace(k, j) ==
  /\ cfile[k] = k /\ cfile[j] = None
  /\ cfile' = [cfile EXCEPT ![j] = k, ![k] = None]
  /\ UNCHANGED <<cindex, cpc, ckey, mine, doomed, hit, cleaned>>

CacheInit ==
  /\ cfile = [k \in CacheKeys |-> None] /\ cindex \in {None, {}}
  /\ cpc = [u \in CacheUsers |-> "idle"] /\ ckey = [u \in CacheUsers |-> None]
  /\ mine = [u \in CacheUsers |-> {}] /\ doomed = [u \in CacheUsers |-> {}]
  /\ hit = [u \in CacheUsers |-> None] /\ cleaned = [u \in CacheUsers |-> None]

CacheNext ==
  \/ \E u \in CacheUsers :
       \/ \E k \in CacheKeys : Lookup(u, k) \/ BeginStore(u, k) \/ RemoveEntry(u, k)
       \/ EndStore(u) \/ ReadIndex(u) \/ BeginSave(u) \/ EndSave(u) \/ KillUser(u)
       \/ \E old \in SUBSET CacheKeys : BeginCleanup(u, old)
  \/ \E k, j \in CacheKeys : Misplace(k, j)

CacheSpec == CacheInit /\ [][CacheNext]_cacheVars

----------------------------------------------------------------------------
\* A look-up returns an entry that was stored under the key it asks for, or nothing: not
\* one half written, left by a crash, or in the place of another.  A clean-up leaves
\* an index within the bound.  (The index itself may lose entries to another writer; what it
\* does not list is not counted.)
CacheHonest ==
  \A u \in CacheUsers :
    /\ hit[u] # None => hit[u] = ckey[u]
    /\ cleaned[u] # None => Bytes(cleaned[u]) <= MaxBytes
=============================================================================
