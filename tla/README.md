# A TLA+ specification of attest

`attest` runs a pipeline of build steps and leaves a signed receipt of what it
read, ran and wrote; it keeps the keys and the trust policy receipts are judged
by; it publishes receipts in a transparency log; and it verifies receipts and
evidence packages.  This directory holds TLA+ modules for the parts of it where
the order of steps, a crash or a second process decides whether a promise is
kept, TLC configurations that check them on small instances, and proofs, checked
by TLAPS, that the most important properties hold for every instance.

    tlc -workers 2 -config Production.cfg MCProduction  # check a run
    tlapm ExecutorProofs.tla                            # check the proofs

`PROJECT.json` lists the runs, the source lines behind each definition (`map`),
the hazards of the code with the properties that watch over them, the findings
and the theorems.


## 1. The system

| component | state it keeps | operations | it is hard because | module |
|---|---|---|---|---|
| Executor (`executor/mod.rs`, `core.rs`) | step results of a run; uses workspace, cache, ledger and receipts on disk | run a pipeline: order, skip, cache lookup, execute, re-hash, store, sign, publish | files change under it; nothing is locked; it may die anywhere; failed steps must not contaminate what follows | `Executor` |
| Pipeline DAG (`pipeline/dag.rs`) | edges, search stack, queue | build, cycle search, topological sort, depths, parallel groups | `HashMap` order is random; names may repeat; the search shares `visited` | `ExecutionDAG`, `StepOrder` |
| Publication client (`publication/client.rs`, `record.rs`) | the retained record, a lock file | prepare, submit, poll, confirm, resume | a network that loses and answers late, crashes between save and POST, two invocations | `Publication` |
| Keys and trust (`keys.rs`, `trust.rs`) | `trust.toml`, `.pub`/private files, the accepted bundle of each issuer | generate, import, revoke, select; produce, examine, import bundles | several files per operation, none locked, some written in place; bundles arrive in any order; authority is handed over | `TrustStore` |
| Verification (`verify.rs`) | none; reads receipt, policy, accepted bundles, workspace | schema, consistency, signature, time-stamp, recompute, policy | a verdict combines facts read at different moments from different files | `Verify`, over `TrustPromise` |
| Archives and evidence (`archive.rs`, `evidence.rs`, `evidence/proofs.rs`) | the package being put together | pack, export, verify | the sender's files change while they are read; one missing member must not weaken what is required of the others | `Evidence`, `Verdicts` |
| Log evidence (`publication/record.rs`) | none | assess a publication record and a checkpoint comparison | the reader's reference is of another time; the log may fork | `LogEvidence` |
| Merkle proofs and tiles (`publication/merkle.rs`, `tiles.rs`) | tiles read so far | inclusion, consistency, assembly of a proof | boundaries at powers of two; a log that grows and drops partial tiles | `Merkle`, `Tiles` |
| Interop (`interop.rs`) | none | receipt to DSSE/in-toto statement and back | keys revoked in between; what the envelope says and what the receipt in it says | `Interop` |
| Identity (`identity.rs`) | the bundle file | sign through `cosign`, verify by a policy | several workflows and one file; the receipt may be replaced | `Identity` |
| Images (`crypto/image_signing.rs`, `crypto/supply_chain.rs`) | signatures in a registry, a receipt | sign, verify | commits and edits meanwhile; documents missing, unsound or silent | `Images` |
| Signing and time-stamping a receipt (`core.rs`, `crypto/timestamp.rs`) | the receipt file | sign, time-stamp | two commands on one file; an authority that answers late | `ReceiptFile` |
| Wrap and input guard (`wrap.rs`, `executor/mod.rs`) | permission bits of the inputs, a receipt, a report | hold, hash, run a foreign command, compare, restore, report | a killed run restores nothing; overlapping runs; every later step may fail | `Wrap` |
| Timeouts (`sandbox/mod.rs`) | child process, reader threads | spawn, poll with deadline, kill, join | a background process that keeps the pipe open | `Timeout` |
| Step cache (`storage/mod.rs`) | entries, an index | look up, store, clean up | torn files, an index that is read, changed and written back | `StepCache`; its use by a run in `Executor` |
| Causal ledger (`storage/causal_ledger.rs`) | one file per event | append, find and verify a path, statistics, chains | read file by file while runs write | `CausalQuery`; appending in `Executor` |
| Sandbox command lines, seccomp, signed notes, manifest encoding, capsule files, pipeline parsing, exports, printing | none | assemble or parse text | pure data | not modelled |

How they interact.  `attest run` asks the DAG for an order, executes it, appends
to the ledger, and only then asks the key store for the signing key
(`select_signing_key` reads `trust.toml`) and writes the receipt.  `attest causal
publish` reads a receipt and keeps its own record beside it.  `attest trust
import` writes `.pub` files, `trust.toml` and the accepted bundle, in this order;
`attest trust bundle` reads the same policy and signs it.  `attest verify` reads
receipt, policy, accepted bundles and workspace; `attest verify` of an archive,
`evidence verify` and `import` do the same for the receipt they are given.  Processes
share files and nothing else; there is no server.  The only lock is the publication client's.

What makes each component correct:

- *Executor*: a receipt describes commands that really ran, on the inputs and to
  the outputs it names, also when a result is replayed; nothing recorded stands on
  a failed step; exit code 0 means every step of the pipeline succeeded; the
  signing key is never in the process while project code can run; the causal chain
  of a receipt is complete and closed; a run ends.
- *DAG*: cycles are refused exactly when there is one and the error names a real
  one; every accepted pipeline is sorted, each step once and after its needs.
- *Publication*: nothing is disclosed that the record does not account for;
  "confirmed" means included; a reported confirmation is not lost.
- *Trust*: a revocation is not taken back; an accepted bundle is applied; only
  issuers with grounds are ever accepted; bundles do not go backwards; what is
  issued verifies.
- *Verification*: no verdict "pass" for a signature made after its key
  was revoked; every required property is established by what was checked.
- *Evidence, log evidence, interop*: what passes holds what was signed, whatever the
  sender put in or left out; what the sender's side writes the recipient's side takes;
  no comparison hides a fork of the log; nothing launders a revoked key.
- *Merkle, tiles*: only what is true of the tree is proved, and what is true is proved
  if the log serves its tiles.
- *Identity, images, receipt files*: a signature that was reported is there and is of what
  was read; two signers never leave a receipt in two pieces; exit codes mean what they say.
- *Wrap, timeouts*: the exit code of a failed build survives; inputs get their write bits
  back; a step with a timeout ends.
- *Cache, ledger*: a look-up returns what was stored under its key or nothing; a query
  answers what the ledger holds.


## 2. Modules and how they correspond to the code

An operator under a comment `Fault:` is a plausible slip in the definition that
follows it (a dropped guard, a missing write, a swapped order).  It is not part
of any specification: it is there to show, by replacing the definition with it,
that a property notices.  `PROJECT.json` (`mutants`) says which property notices
which.

### Executor

The state is what is on disk (`ws`, `cache`, `ledger`, `receipts`), the locals of
`Executor::run` for each process (`todo`, `completed`, `unsuccessful`, `key`,
`inHash`, `result`, `results`, `held`, `events`, ...) and one history variable,
`executions`: what each command that ran really read and left.  A manifest hash is
modelled by what it commits to, the function from the declared paths to their
contents; a declared path that does not exist is an error, as in
`collect_entries`.

Each read or write of a shared file is an action of its own, because an editor or
another run may come between any two: `ContentHash` (the cache key), `InputHash`
(the hash the receipt carries), `Lookup`, `CacheHit`/`CacheMiss` (which look at the
outputs), `Execute` (a local step reads the workspace, a capsule step a snapshot
that must hash to `input_hash`), `Return`, `Rehash`, `HashOutputs`, `StoreResult`
(which hashes the inputs once more, as `create_cache_entry` does), `PushResult`,
`LoadKey`, `RecordEvent`, `Publish`.  The error paths are actions too, with the
exit code `run_pipeline` gives them: `InputMissing`, `OutputMissing` and `StoreRefused` (1),
`InputsChanged`, `SnapshotRefused`, `KeyRefused`, `TokenRefused` and
`OperationalError` (2).  `Crash` may happen anywhere.

Assumptions: only build steps write declared outputs (others may delete them); a
command's outcome is a function of what it read and a choice of exit code and of
the outputs it managed to write; the order of steps is one `StepOrder` allows,
which is what `ExecutionDAG` establishes.

### ExecutionDAG and StepOrder

`ExecutionDAG` is the code of `dag.rs` step by step: `has_cycle_util` with an
explicit stack of frames, `build_cycle_path`, Kahn's algorithm, `analyze` and
`find_parallelizable_groups`.  The in-degree of a step is the *set* of places in its
`needs:` list not yet discounted (`open`): that its cardinality is the counter in
the code is exact, and a wrap-around of `*degree -= 1` is then a place discounted
twice.  `StepOrder` is the abstract specification: steps are emitted one at a time,
each once, each after what it needs.  The property `EmitsInOrder` says that
`ExecutionDAG` implements it, with `emitted <- sorted`.

### Publication

One record, its lock, any number of publishers, a network and a log.  Every save is
write-to-temporary, rename, sync directory: `Save` may succeed, fail with the old
file in place, or fail with the new one in place (the directory could not be
synced), and in both failures the code goes on to `Finish`, which saves again.  A
request may be lost, may be applied after its sender has given up (`LogAppend` of a
request whose publisher is gone) and may be answered with a wrong index.  The log is
external and promises only that an inclusion proof verifies at an index exactly when
the entry is there.  `RemoveStaleLock` is the operator of the documentation: the
lock is removed when no publisher is left.  `KillPublisher` may happen anywhere.

### Production

`Production` composes these three: a pipeline is loaded (`LoadPipeline`: `Pipeline::validate`
and the executor build the DAG, the executor sorts it, `validate_comprehensive` analyses it), run
(`RunPipeline`) or its receipt published (`RunPublish`).  Loading touches no file, and a publisher
reads a receipt that is there and writes its own record, so the three do not interleave with one
another; a run takes its order from `StepOrder`, which `EmitsInOrder` says is what loading gives
it.  Every behaviour of `Production` is, seen from a component, one of that component's
specification, so the theorems about the components hold of it.

### TrustStore

`policy` is `trust.toml` (replaced by rename, so whole), `pub` and `priv` are the key
files, `accepted` the accepted bundle of each issuer; the last three are written in
place and `Crash` may leave them torn.  A command is a sequence of actions in the
order of its file operations: the `.pub` files one by one, `Load`, `Save`, `Accept`.
`Examine`, `NotOlder`, `Grounds` and `Merge` are the decisions of `trust::examine` and
`trust::import`.  Time 0 stands for a revocation without a date.  History:
`issued`, `pinned` (the issuers users named) and `history` (the bundles accepted so
far).  Nothing locks the store, so the module has any number of commands at once.
`overtaken` is history too: the commands under way while another wrote the store.  A step of
one of these is `Late`, and the action properties are stated of every other step; that a late
step really breaks what the code promises is shown by `RevocationStands`, such a promise without
the exception (F6).  A maintainer may edit `trust.toml` while no command runs.  `TrustEntries` holds the data the trust modules share.

### TrustPromise and Verify

A verifier reads the store without a lock, so what matters to it is not how commands
work but what can change between two of its reads.  `TrustPromise` is that abstract
store: the policy only tightens (a listed key stays listed, a revoked key revoked;
dates may change, because of F3), and a bundle is on record only once the policy holds
it and only after the older ones of its issuer.  Every step of `TrustStore` but a late one is a
step of it (`KeepsPromise`, checked and proved); `Verify` extends it and knows nothing else of
the store.  What is said of a verification is therefore said of one during which no overtaken
command writes.

`Verify` is `verify_receipt_bytes` with each read of a shared file an action:
`Begin` (parse, schema, consistency), `TimestampCheck` (the pinned authorities),
`SignatureCheck` (`trust.toml` and the key files, which may fail to load),
`RecomputeCheck` (the workspace, then the clock), `TrustMaterial` (the accepted
bundles).  `Met` and `Passes` are `apply_policy`; the verdict is evaluated for every
set of requirements.  A receipt is any combination of content, claimed date, key,
signature and token.  Signatures and tokens are modelled by what they prove, with one
piece of history: when a genuine signature was made.  `Exists` is the assumption about
the world: no signature comes from the future, and a proper certificate of an
authority the operator may pin dates a signature no earlier than it exists.  What a
recomputation finds is up to the workspace; a `.pub` file without an entry and a loose
key file of the same key are a choice, as `key_trust_status` reads the directory again.


### Evidence, LogEvidence and Verdicts

`Evidence` has the sender and the recipient of a package.  The sender's actions are
the reads of `pack_with_publication` and `export_archive` in their order (`BeginPack`,
`Collect` or `CollectEvents`, `ReadLog`, one `ReadArtifact` per artifact,
`WritePackage`), between which `EditFile` may change any file and `KillPacker` may end
it; `pack` persists only what reads back, `export` writes in place.  The recipient
(`Receive`) gets that file or anything in `Sent`, and `VerifyEvidence` and `VerifyArchive`
are all the checks; a digest is what it is the digest of.  `Verdicts` is
`apply_policy`.  `LogEvidence` is `assess` of `publication/record.rs`: a tree is its size
and, beyond what all histories share, its history; that a hash path convinces of nothing
else is what `ProofsSound` says of `Merkle` and `Tiles`, for trees of every size.

### Interop

Exporter and importer as sequences of the reads they make: `BeginExport` (receipt),
`ReadWorkspace` (files and bundle), `SignEnvelope` (key selection and signature);
`BeginImport` (the envelope by the store as it is) and `VerifyOriginal` (the receipt inside,
the files and the identity, by the store as it is later).  Keys are revoked and files changed
in between, and `Deliver` brings statements of others.  Export looks neither at the schema, the
consistency nor the time-stamp of a receipt, and import does (`OriginalTrusted`, `TokenStands`):
a receipt has a token or not, a good or a broken one, and the recipient pins its authority or
not.

### Identity, Images and ReceiptFile

`Identity`: each workflow looks for a bundle, reads the receipt, has `cosign` sign and links
the result into place only if nothing is there; a recipient verifies any receipt and any
bundle.  `Images`: the signer reads HEAD, asks `git status`, signs, writes a receipt; the
verifier refuses a request that asks for nothing or mixes key and identity, and asks for SBOM,
provenance and a signature, by a key or by an identity of a named issuer, each of which may fail.
`ReceiptFile`: `attest sign` and `attest timestamp` read, ask the authority, and rename over what
is there by then.  Signature, signer and token of a receipt are fields of their own, as in
the file: only the signer tells `sign` that a receipt is signed.  `origin` is history, the receipt
as it was delivered.  `cosign`, `git`, the registry and the authority are external.

### Wrap and Timeout

`Wrap` has `InputGuard` look at an input and then change the mode of what is there (two
actions, as in the code), hash, spawn, hash again, attest, write receipt and report, with
the outcome of each early return; `Meddle` is a user, or the command, that writes, replaces or
chmods; `KillWrapper` may happen at any point.  `Timeout` is `run_with_timeout`: the polling loop, the
clock, the kill of the group, the join of the readers, and processes the command leaves in the
background, in its group or out of it.

### StepCache and CausalQuery

Both have files that are written in place, so truncated first and complete later or, after
a crash, never.  `StepCache`: look-up, store (entry, then index) and clean-up by several
users.  `CausalQuery`: the listing, the loading file by file while runs add events, and then
path search and path verification, leaf count, and the sort of a chain.  A listing is certain
to hold only what was there when it began (`listed`), so a path is a shortest one, and none is
missed, only if its first event was: of one that came later, a nearer parent may not
have been read.

### Merkle and Tiles

`Merkle` is `merkle.rs` as recursive functions over hashes that are terms.  `Tiles` is the
`TileReader`: which node of a path is next, which tiles it takes, the full tile tried in place
of a partial one that is gone, and the verification of the path that results, with a log that
grows, that forked, or that serves anything.  A turn of `range_root` is `JoinRoots`, `Divide` or
`LookUp`; every error of `range_root` and `perfect_root` (a subtree outside of the tree or of
its tile, a root that is missing, more than `MaxTiles` tiles) leads to `failed`, and that an
honest log never takes the reader there is part of `ServedIsProved`.

### Commands

`Commands` composes these components: a command is chosen, its component runs and the others
stay as they are, for each works on files of its own.  Every behaviour of it is, seen
from a component, a behaviour of that component's specification, so the theorems about the
components hold of it.


## 3. Runs

| run | result | instance |
|---|---|---|
| `production` | 11 invariants, an action property, the refinement of `StepOrder` and three terminations hold | *run*: a local step feeding a capsule step, two sources of which one may be changed back, 2 runs, 2 edits, crashes anywhere; *load*: every pipeline of 3 steps with up to 2 needs each, repeated and unknown names included; *publish*: 2 publishers, 2 attempts, 2 polls, 2 openings, a log of 2 entries |
| `executor_cachekey` | violated | finding F1 |
| `executor_inputsrow` | violated | finding F2 |
| `trust` | 2 invariants hold, and of all but late steps two action properties and the refinement of `TrustPromise` | three scenes (`MCTrustScenes`). *imports*: 3 keys, 8 bundles of two authorities with a handover, a clock of 3, one command at a time; *race*: 2 keys, bundles of one authority, a clock of 2, two commands at once; *own*: a workspace with a key of its own issuing and re-importing 2 bundles |
| `trust_unrevoke` | violated | finding F6, two commands |
| `trust_redate` | violated | finding F3 |
| `trust_torn` | violated | finding F4 |
| `verify` | 2 invariants hold | one signer, a clock of 2, every receipt and token, 5 kinds of content of which one is incoherent, any change of the store that keeps the promise |
| `verify_material` | violated | finding F5 |
| `commands` | 16 invariants and `TimeoutReturns` hold | one instance per component, below |
| `sign_retoken` | violated | finding F7, the instance of `commands` |
| `causal_path` | violated | finding F8, the instance of `commands` |

Why these bounds.  Two runs are the least in which a cache entry, an output or a
ledger event of an earlier run can deceive a later one; two edits allow a change and
its undoing, which is what a comparison of two hashes cannot see (the workspace is the same at
every start, edits make the others); a chain of two
steps has both a need and a dependent.  One run at a time is checked because
`ReceiptTellsTheTruth` needs it (section 6): `MCExecutor` assumes `Quiet`, the hypothesis of
its proof, of the instance.  The proofs of the other invariants are for any number of
processes.  Three steps give cycles of length 1, 2 and 3 and
steps with two needs, each possibly the same one; one order of the map's keys is
enough because the lists range over every pipeline.  Two attempts (`MAX_SUBMISSIONS` is 3
in the code) are a first one, its retry and the limit; two log entries allow an entry of one's own and a foreign one, or a
duplicate.  Three time steps put an event before, at and after another one; two are enough for
the verifier, where a signature, a token and a revocation each come at or after another.
A token of an authority nobody pinned is the case of an empty set of pins.
Deadlock is not checked: the bounds, and the programs themselves, end.

`commands` (`MCCommands`, 896,000 states).  Evidence: one artifact, one capsule, two events
of which one caused the other, one edit while packing, every set of files and every single
irregularity of a receipt or an archive, and every record with every comparison of two
histories that share their first leaf and have up to 3 (`MaxSize`): a prefix, a fork and
equal trees.  Interop: two keys of which the exporter has one, receipts sound or not, without a token or with
a good or a broken one, every recipient.  Identity: two
workflows, receipts with the right, another and no revision, certificates that state none, one
and two.  Images: two commits, each document there, missing, unsound, silent or contradicted, signatures of
keys and of identities.
Wrap: two overlapping processes on one input with one act of meddling; this input is all they
can disagree on.  Timeout: two background processes, one of which may leave the group.
ReceiptFile: three clerks, so that two race and one comes later, and eight receipts or none.  Ledger:
three events, so that a path has a middle and a child two parents, or one parent twice.
Cache: two users, two keys of which one is within the bound of the clean-up alone.  Tiles: tiles
of 4 hashes and up to 9 leaves, so that there are two full tiles and a partial one and a second
level, a fork after 3, and as few tiles to a proof (`MaxTiles`, 4) as two levels allow.

Type correctness, the absence of underflow in the sort, and the two facts about accepted
bundles that `KeepsPromise` rests on are no properties of a run: they are proved (section 4),
for every instance.

Fairness.  *Executor*: weak fairness of `Progress(p)`: a started process that can take
its next step does (a command that never ends is cut off by its timeout, which
`Return` stands for); users and editors promise nothing.  *DAG*: weak fairness of `LoadPipeline`, sequential
code that keeps running.  *Publication*: weak fairness of a publisher's own steps and of its
deadline; nothing at all of the log or the network, so `PublishEnds` shows that the
deadline alone ends the command.  *Timeout*: weak fairness of the clock, the polling loop, the
wait after a kill and the join; none of the command or of what it left behind, so
`TimeoutReturns` shows that the deadline ends the step, except where a process out of its reach
holds the output.  The safety proofs use no fairness.


## 4. What is proved

All proofs are for every value of the constants that satisfies the named
assumptions.

- **ExecutorProofs**: `TypeOK`, `OnSolidFoundation`, `ExitZeroMeansComplete`,
  `SigningBoundary`, `CausalChainComplete`, for any pipeline and any number of
  concurrent runs.  The invariants are not inductive: that exit code 0 means
  completeness depends on the books of the loop.  `Book(p)` says that every step is
  still to come, in hand, succeeded, or failed or skipped, that a skip goes back to a
  failure that is in `step_results`, and that the step in hand stands on results that
  succeeded; `Recorded(p)` says what `record_causal_events` has done so far.
  `ReceiptTellsTheTruth` is proved under the hypothesis `Quiet`: one process, and no input of a
  step outside a capsule is brought back to an earlier content or written by the step
  itself.  Each part of it is needed: another process overwrites outputs before they are
  hashed, and a change that is undone between the two readings of the inputs is seen by
  the command and not by the executor.  `InputsKept` says that an input is as it was first hashed
  or never will be again, so that the second reading refuses it; `OutputsKept` that an output is
  what the command left or gone; `ResultsTrue` and `DiskTrue` that every result in hand, in the
  cache and in a receipt goes back to an execution.
- **ExecutionDAGProofs**: `DagTypeOK`, `CycleVerdict`, `SortSucceeds`, `NoUnderflow`, the
  refinement `EmitsInOrder`, `PathIsCycle` and `GroupsAreDepths`.  For the search: the finished steps are closed under
  dependents and acyclic, and the frames on the stack are a path; for the sort:
  exactly the places that name an emitted step are discounted, and a step is queued
  or emitted iff no place of it is left.  For the reported path: the names pushed so far
  lead down the call stack to the step that was met again.  For the analysis: the steps
  given a depth are a beginning of the sorted order, and as many groups are built as depths are
  used up.
- **PublicationProofs**: `PublicationTypeOK`, `DisclosureRecorded`, `ConfirmationStands`,
  `NothingForgotten`, for any number of publishers.  The invariant
  says that at most one publisher is at work, and relates what it remembers to the
  record on disk at each program point.
- **TrustStoreProofs**: `TypeOK`, `IssuedVerifies` and `AuthorityGrounds` for any
  number of commands at once; and, for any number of commands too, of every step that is
  not `Late`: `RevocationFinal`, `RevokedAuthorityOut`, `AppliedStays` (that the policy holds what
  the accepted bundles say, once so, stays so), `AcceptedForward` and the refinement
  `KeepsPromise`.  The invariant says what a command that nobody has overtaken knows: the policy
  it loaded is the one on disk, the issuer of its bundle still stands, and its bundle is
  newer than the one on record.  Without the exception they are false (F6, section 6).
- **VerifyProofs**: `VerifyTypeOK`, `RevokedNotAccepted` and `RequiredEstablished`, for
  any store that keeps `TrustPromise`.  The invariant carries each conclusion with its
  evidence through the later steps: a passed time-stamp with the token that verified,
  the named signer with the entry its key was found to have, and, until the policy is
  read, that a revocation known at the start is still in it (this is what the promise
  is needed for).
- **SharedFileProofs**, the files that several processes work on without a lock.
  `SignedIsKept` and `IdentityGrounded` (a workflow about to put its bundle
  in place has it in the log; one that succeeded finds it in the file);
  `TokenBesideItsSignature`, whatever the receipt held at first (of what is on disk, and of what
  a clerk has read or is about to write, the token is over the signature or the one that came
  with a receipt that named no signer, which F7 is about); `SigningAccountable` and `ImageVerdictMeans` (what signer
  and verifier have concluded, with the observation it stands on, at each point).
  `FailureNeverMasked` and `PermissionsRestored`, for any number of processes,
  inputs and exit codes: `GuardPart` says that a file without write bits had none at the
  start or is held by a guard that has not dropped, `HoldPart` where a process can hold
  anything, `OutcomePart` what is known of build and receipt at each point.
  `CacheHonest`, for any users, keys, sizes and bound: `HitPart` says that a hit was stored
  under its key, `CleanupPart` that what a clean-up will leave is within the bound.
- **CausalQueryProofs**: `QueryAnswers`, for any events and any ledger that runs write while
  it is read.  `LedgerInv`: an event that is complete never changes, what it names as parents
  is complete, no set of events is a circle, and what was listed holds all that it came from.
  `Breadth`: the paths in the queue are shortest ones, in order and of two lengths at
  most, what can be reached within the length of the first of them has been seen, and what was
  seen and is not in the queue has been expanded; so a search that runs dry has seen
  everything.  `SortPart`: the degree of an event counts the places of parents that were not
  emitted, and an event is queued or emitted iff it is 0; so what an empty queue leaves
  behind would be a circle.
- **RecipientProofs**: `ImportEstablishes` (keys revoked when the import began still are, and
  an envelope that passed has a signer that was not), `ExportedImports`, an equivalence (what the exporter has
  established when it gets so far, and what its statement then says; there is at most one key
  for an envelope, which needs that keys are finitely many), `ConsistencyIsNoFork`,
  `AcceptedIsSigned` (a verdict is of the package and the reader's material as they are) and
  `PackedIsAccepted` (what has been read so far is of the receipt; as long as nobody edits
  them the events are those of the run), for any files, receipts, senders and histories.
  `ProvedIsTrue`, for a log of any size and any path: `RootBindsLeaves` (trees of one size with
  one root have the same leaves), `InclusionSound` (a path that leads from a leaf to the root of
  a tree leads from the leaf at that place) and `ConsistencySound` (a path that leads to the
  root of a tree tells the root of each beginning of it; `SplitSame`, that an older tree which
  reaches into the right part is divided at the same place, is what makes it so).  Before that,
  that each recursive function is what its equation says (`HighBitDef`, `RootDef`, `AscentDef`,
  `GrowthDef`, `PowerDef`): functions that satisfy it up to a size exist and agree, for every size.
  `ServedIsProved`, for a log of any size and tiles of any height, by `ServedInv`: unless the log
  lied, the path is that of the first subtrees of the proof (`Along`), the two stacks of
  `range_root` are those of one spine of divided subtrees (`Shape`: its right part is next, or
  the left part, or both are done), and what is in the cache are tiles of the log, as wide as the
  tree has them (`Kept`).  It rests on `RangesGood` (each subtree of a proof begins at a multiple
  of a power that it does not exceed, and lies next to the leaf or the end of the tree),
  `PlaceFound` (so a perfect one is inside one tile, above one of these two leaves),
  `TileServes` (the hashes there, joined in pairs, are its root), `RoomForTile` (two tiles of each
  level are all that a proof takes), and `InclusionComplete` and `ConsistencyComplete` (the
  path of all roots verifies).  The assumption on `MaxTiles` is that there is room for two tiles of
  each level: 16 of the 512 in the code, where a level is 8 bits of a 64-bit size.

Where an argument is by induction on data (the length of a chain, the size of a set that is
summed, the depth of a step, the size of a tree) the proofs take a least counterexample instead: `LeastOf` and
`SmallestOf`, from the well-foundedness of the natural numbers.

Only model-checked: the liveness properties (`RunsTerminate`, `Terminates`, `PublishEnds`,
`TimeoutReturns`), which are out of this prover's reach.  Every invariant and every action
property that a passing run checks is a theorem.


## 5. Findings

- **F1** (`executor_cachekey`) `storage/mod.rs:245`: a cache entry is filed under a
  third reading of the inputs, taken after the check that they did not change.  An
  edit in between files the result under inputs it was not built from, which
  `storage/mod.rs:182` says cannot happen.
- **F2** (`executor_inputsrow`) `executor/mod.rs:862`: a replayed local step counts
  neither as executed nor as held, so a receipt that contains it may say `enforced`,
  which the README promises "only when every step ran in a capsule".
- **F3** (`trust_redate`) `keys.rs:371`: revoking a revoked key moves its date later, or
  dates an undated revocation, against "a revocation only ever moves earlier".
- **F4** (`trust_torn`) `trust.rs:712`: an import killed while it writes a `.pub` file,
  and repeated, leaves a policy no command can load.
- **F5** (`verify_material`) `verify.rs:494`: the accepted bundles are read after the
  policy, so an import in between is reported as the current trust material of a
  passing verdict although it revokes the signer; the comment at `verify.rs:199` says the
  material tells "what the verdict does and does not account for".
- **F6** (`trust_unrevoke`) `trust.rs:716`: an import that loaded `trust.toml` before another
  command revoked a key, and saves it after, makes the key trusted again; `trust.rs:551` says "a
  bundle does not un-revoke: the local decision stands".
- **F7** (`sign_retoken`) `core.rs:934`: a receipt with a signature and a token over it that
  names no signer counts as unsigned and is signed anew; the token stays (`storage/mod.rs:544`) and
  is now beside a signature it is not over, which no verifier accepts, and the exit code is 0.
- **F8** (`causal_path`) `causal_ledger.rs:610`: `find_causal_path` returns a path from child to
  parent, `verify_causal_path` expects parent before child, so that a path of two events or
  more is always called invalid, and `main.rs:2797` prints "Valid causal path found:" only for
  an event and itself.


## 6. Observations without a run

- Two concurrent `attest run` over one workspace: the outputs one hashes may be those
  the other has just written, so `ReceiptTellsTheTruth` holds for one run at a time
  only.  Nothing locks the workspace, and no document promises that.
- `core.rs:563` returns exit code 1 before a receipt is written when a manifest check
  fails late in a run; the comment at `core.rs:519` says "receipt still written when
  steps ran".
- `is_linear_pipeline` is true of steps that do not depend on each other; the comment
  at `dag.rs:262` says otherwise.  Nothing decides on it.
- A publication record may read `service-refused`, from its last attempt, while the
  entry of an earlier attempt is in the log (`record.rs:38`).  The attempts themselves
  are in the record (`NothingForgotten`).
- The issuer of a bundle is looked up once, at the start of an import (`trust.rs:614`): one that is
  revoked while the import goes on has its bundle merged and accepted all the same.  Such an
  import is overtaken, which `RevokedAuthorityOut` excepts.
- The accepted bundle is written in place (`trust.rs:203`): a torn one makes every later
  import of that issuer fail until it is removed by hand.
- A path from an event that was recorded while the ledger was read may be missed, and one that
  is found need not be a shortest: the listing may have left out a parent on the way, which came
  during the reading too.  (The second takes five events; the attempt to prove the contrary came
  upon it.)
- `count_leaf_events` subtracts the parents from the events that were read; a ledger of which
  a child was read and its parent not yet gives a wrong count, or one below zero
  (`causal_ledger.rs:640`).  `count_chains` depends on the order of a `HashMap`.
- The cache index may lose an entry to another writer, and an entry that is not in the index is
  never cleaned up (`storage/mod.rs:664`).
- A killed `attest run --wrap` leaves its inputs read-only, and of two overlapping guards the
  first to drop takes the protection from the other (`executor/mod.rs:389`).
- A command that ends in time but leaves a process that holds its output is waited for without
  limit (`sandbox/mod.rs:885`).
- Two who sign one unsigned receipt at once both report success, and one signature stays
  (`core.rs:1041`).
- `causal export` writes its archive in place: killed, it leaves a part of it, which a reader
  refuses.


## 7. What could follow

1. The pinning of time-stamp authorities (`keys.rs`), whose result `Verify` takes as given.
2. `image_verification.rs`, by which the container sandbox asks about an image before a step.


## 8. Not modelled

Cryptography (a signature verifies exactly for the key and bytes it was made with; a hash
is what it is the hash of), ASN.1 and JSON parsing, signed notes and checkpoints, directory
traversal and the encoding of manifests, the layout of source capsules, the assembly of
container command lines, environments and seccomp profiles, pipeline parsing, validation and
exports, printing and argument parsing.  These are data or text: what they decide is
a value in the models above.
