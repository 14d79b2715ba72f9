------------------------------ MODULE Evidence ------------------------------
(***************************************************************************)
(* src/evidence.rs, src/evidence/proofs.rs, src/archive.rs: a receipt and  *)
(* what it refers to, packed for a recipient, and what the recipient makes *)
(* of a package.                                                           *)
(*                                                                         *)
(* The packer reads a workspace that others go on changing, one file after *)
(* the other.  The recipient is given what the packer wrote or anything    *)
(* else in Sent.  The content of a file is abstracted to what a digest     *)
(* tells apart: the artifact or capsule whose digest it has, an event, or  *)
(* Other.  verify_receipt_bytes is modelled in Verify; here its outcome is *)
(* whether the signature holds and the recipient trusts its key.           *)
(*                                                                         *)
(* The packer is at                                                        *)
(*   idle       not started                                                *)
(*   proofs     capsule manifests and ledger events are to be read         *)
(*   log        the publication record and the comparison are to be read   *)
(*   artifacts  the artifacts are being read                               *)
(*   write      the archive is to be written                               *)
(*   done       ended: written, refused or killed                          *)
(*                                                                         *)
(* An operator under "Fault:" is a plausible slip in the definition that   *)
(* follows it; none is part of the specification.                          *)
(***************************************************************************)
EXTENDS LogEvidence, Sequences, Functions

CONSTANTS
  Artifacts, Capsules, Events,  \* digests: of artifacts, of capsules, of events
  Other,         \* content with none of these digests
  Parents,       \* the causal parents of each event
  Receipts,      \* the receipts there are
  Asked,         \* what a packer may be asked for
  Sent,          \* packages somebody else sends
  Readers,       \* what the recipient may bring
  MaxEdits       \* bound on the edits of the sender's files

VARIABLES
  disk,      \* the files the packer reads
  edits,     \* how often one of them was changed
  ppc,       \* where the packer stands
  job,       \* what it was asked for
  staged,    \* what it has read
  package,   \* the file the recipient is given
  reader,    \* what the recipient brought, once the package is verified
  checks     \* the recipient's checks

evidenceVars == <<disk, edits, ppc, job, staged, package, reader, checks>>

Files == Artifacts \cup Capsules \cup Events

\* An event as a file holds it: the event its content is that of, the id it
\* carries, its signature, and metadata, which neither the id nor the signature covers.
EventFiles ==
  [of : Events \cup {Other}, id : Events, signature : {"holds", "broken", "none"},
   metadata : BOOLEAN]

Contents(f) ==
  IF f \in Events THEN EventFiles \cup {Other, None} ELSE {f, Other, None}

\* A receipt, as far as a package depends on it.  `inventory`: the listed artifacts
\* are all that the steps' output hashes cover.
ReceiptType ==
  [schema : {"known", "newer"}, signature : {"holds", "broken", "none"},
   success : BOOLEAN, artifacts : SUBSET Artifacts, inventory : BOOLEAN,
   capsules : SUBSET Capsules, events : Seq(Events), root : Seq(Events) \cup {None, Other}]

\* Archive as a reader meets it.  `fits`: no limit is exceeded and no entry is
\* irregular; `stray`: it holds a file nothing refers to.
PackageType ==
  [kind : {"evidence", "archive"}, format : {"v1", "v2", "v3", "other", None},
   fits : BOOLEAN, partial : BOOLEAN, receipt : Receipts \cup {None},
   files : [Files -> UNION {Contents(f) : f \in Files}], stray : BOOLEAN,
   publication : Records \cup {None}, comparison : Comparisons \cup {None},
   identity : {None, "matches", "differs"}]

\* What a packer may be asked for: pack or export, which capsule manifests to add.
Jobs ==
  [kind : {"evidence", "archive"}, receipt : Receipts, given : SUBSET (Capsules \cup {Other}),
   publication : Records \cup {None}, comparison : Comparisons \cup {None},
   identity : {None, "matches", "differs"}, allowPartial : BOOLEAN]

\* What a recipient brings: whether its store trusts the signer, how the files at its
\* artifact root compare, an identity policy, a wish for the log checks and what for.
ReaderType ==
  [trusted : BOOLEAN, root : {"none", "same", "differs"}, policy : BOOLEAN, asksLog : BOOLEAN,
   log : Material]

CheckNames ==
  {"schema", "signature", "success", "artifacts", "capsule", "linkage", "identity", "inclusion",
   "consistency"}

CheckType ==
  [schema : Statuses, signature : Statuses, success : Statuses, artifacts : Statuses,
   capsule : Statuses, linkage : Statuses, identity : Statuses, inclusion : Statuses,
   consistency : Statuses]

ASSUME EvidenceAssumption ==
  /\ None \notin Files \cup EventFiles \cup CheckType
  /\ Other \notin Files \cup EventFiles \cup {None}
  /\ Artifacts \cap Capsules = {} /\ Artifacts \cap Events = {} /\ Capsules \cap Events = {}
  /\ Parents \in [Events -> SUBSET Events]
  /\ Receipts \subseteq ReceiptType /\ None \notin Receipts
  /\ Asked \subseteq Jobs
  /\ Sent \subseteq PackageType
  /\ Readers \subseteq ReaderType /\ None \notin Readers \cup Asked \cup Sent
  /\ MaxEdits \in Nat

----------------------------------------------------------------------------
Distinct(r) == IsInjective(r.events)

\* event_id_is_authentic, and event_signature_holds unless there is none.
Authentic(x)     == x.id = x.of
SignatureSane(x) == x.signature # "broken"

\* chain_linkage; `held` are the events the archive holds.
ChainLinkage(r, held, partial) ==
  IF r.events = <<>> THEN "skipped"
  ELSE IF \E e \in Range(r.events) : held[e] = None
    THEN IF partial THEN "skipped" ELSE "fail"
  ELSE Status(/\ \A e \in Range(r.events) : Authentic(held[e]) /\ SignatureSane(held[e])
              /\ r.root = [i \in DOMAIN r.events |-> held[r.events[i]].of])

----------------------------------------------------------------------------
\* The sender's files change, before the packer reads them or after.
EditFile(f, c) ==
  /\ ppc \in {"proofs", "log", "artifacts"}
  /\ edits < MaxEdits
  /\ edits' = edits + 1
  /\ c # disk[f]
  /\ disk' = [disk EXCEPT ![f] = c]
  /\ UNCHANGED <<ppc, job, staged, package, reader, checks>>

\* pack_with_publication up to the first proof; export_archive once it has read the
\* receipt.  Only a signed receipt with a sound inventory is packed; any is exported.
BeginPack(j) ==
  LET r == j.receipt IN
  /\ ppc = "idle"
  /\ job' = j
  /\ staged' = [f \in Files |-> None]
  /\ ppc' = IF \/ j.kind = "archive"
               \/ /\ j.comparison # None => j.publication # None
                  /\ r.schema = "known" /\ r.signature = "holds"
                  /\ r.inventory /\ r.artifacts # {}
            THEN "proofs" ELSE "done"
  /\ UNCHANGED <<disk, edits, package, reader, checks>>

\* The proof projection of an event file: without its metadata.
Projected(x) ==
  [of |-> x.of, id |-> x.id, signature |-> x.signature, metadata |-> FALSE]

\* Fault: events are packed as they are on disk.
CollectRaw ==
  LET r      == job.receipt
      events == {e \in Range(r.events) : disk[e] # None} IN
  /\ ppc = "proofs" /\ job.kind = "evidence"
  /\ IF /\ \A c \in job.given : c \in r.capsules /\ disk[c] = c
        /\ \A e \in events : disk[e] # Other
        /\ Distinct(r)
     THEN /\ staged' = [f \in Files |-> IF f \in job.given \cup events THEN disk[f] ELSE None]
          /\ ppc' = "log"
     ELSE UNCHANGED staged /\ ppc' = "done"
  /\ UNCHANGED <<disk, edits, job, package, reader, checks>>

\* proofs::collect: the capsule manifests given, each self-consistent and referenced,
\* and every referenced event that is there and parses.
Collect ==
  LET r      == job.receipt
      events == {e \in Range(r.events) : disk[e] # None} IN
  /\ ppc = "proofs" /\ job.kind = "evidence"
  /\ IF /\ \A c \in job.given : c \in r.capsules /\ disk[c] = c
        /\ \A e \in events : disk[e] # Other
        /\ Distinct(r)
     THEN /\ staged' = [f \in Files |->
                CASE f \in job.given -> disk[f]
                  [] f \in events -> Projected(disk[f])
                  [] OTHER -> None]
          /\ ppc' = "log"
     ELSE UNCHANGED staged /\ ppc' = "done"
  /\ UNCHANGED <<disk, edits, job, package, reader, checks>>

\* export_archive: every referenced event that is a file, as it is.  With one
\* missing nothing is written unless the caller allows it.
CollectEvents ==
  LET r == job.receipt IN
  /\ ppc = "proofs" /\ job.kind = "archive"
  /\ staged' = [f \in Files |-> IF f \in Range(r.events) THEN disk[f] ELSE None]
  /\ ppc' = IF job.allowPartial \/ \A e \in Range(r.events) : disk[e] # None
            THEN "write" ELSE "done"
  /\ UNCHANGED <<disk, edits, job, package, reader, checks>>

\* The publication record has to be about the receipt's causal root; of a comparison
\* only the format is looked at.
ReadLog ==
  LET p == job.publication IN
  /\ ppc = "log"
  /\ ppc' = IF p = None THEN "artifacts"
            ELSE IF /\ p.bound /\ job.receipt.root # None
                    /\ job.comparison # None => job.comparison.known
            THEN "artifacts" ELSE "done"
  /\ UNCHANGED <<disk, edits, job, staged, package, reader, checks>>

\* artifact_bytes and check_digest, one artifact after the other.
ReadArtifact(a) ==
  /\ ppc = "artifacts"
  /\ a \in job.receipt.artifacts /\ staged[a] = None
  /\ IF disk[a] = a THEN staged' = [staged EXCEPT ![a] = a] /\ UNCHANGED ppc
                    ELSE ppc' = "done" /\ UNCHANGED staged
  /\ UNCHANGED <<disk, edits, job, package, reader, checks>>

\* All artifacts are read.
ArtifactsRead ==
  /\ ppc = "artifacts"
  /\ \A a \in job.receipt.artifacts : staged[a] # None
  /\ ppc' = "write"
  /\ UNCHANGED <<disk, edits, job, staged, package, reader, checks>>

\* The package the packer has put together.  A reader refuses an archive that lists a
\* file twice, as export does for an event listed twice.
Packed(fits) ==
  [kind |-> job.kind, fits |-> fits /\ Distinct(job.receipt), receipt |-> job.receipt, files |-> staged,
   format |-> IF job.kind = "archive" THEN "v1"
              ELSE IF job.publication # None THEN "v3" ELSE "v2",
   partial |-> job.kind = "archive" /\ \E e \in Range(job.receipt.events) : staged[e] = None,
   stray |-> FALSE,
   publication |-> IF job.kind = "evidence" THEN job.publication ELSE None,
   comparison |-> IF job.kind = "evidence" THEN job.comparison ELSE None,
   identity |-> IF job.kind = "evidence" THEN job.identity ELSE None]

\* pack reads its staged archive back and persists it only if a reader takes it;
\* export writes in place whatever comes out.
WritePackage(fits) ==
  /\ ppc = "write"
  /\ ppc' = "done"
  /\ package' = IF fits \/ job.kind = "archive" THEN Packed(fits) ELSE package
  /\ UNCHANGED <<disk, edits, job, staged, reader, checks>>

\* The packer is killed.  In the midst of export's write a part of the archive remains.
KillPacker ==
  /\ ppc \notin {"idle", "done"}
  /\ ppc' = "done"
  /\ package' \in {package} \cup
       {Packed(FALSE) : x \in IF ppc = "write" /\ job.kind = "archive" THEN {1} ELSE {}}
  /\ UNCHANGED <<disk, edits, job, staged, reader, checks>>

\* Somebody else's package.
Send ==
  /\ package = None /\ ppc = "idle"
  /\ package' \in Sent
  /\ ppc' = "done"
  /\ UNCHANGED <<disk, edits, job, staged, reader, checks>>

----------------------------------------------------------------------------
\* Fault: an artifact is checked if the archive holds it.
ArtifactBytesHeld(p, m) ==
  \A a \in p.receipt.artifacts :
    /\ p.files[a] \in {a, None}
    /\ m.root = "none" \/ m.root = "same"

\* Every artifact's bytes are in the archive, and at the recipient's artifact root if
\* there is one.
ArtifactBytes(p, m) ==
  \A a \in p.receipt.artifacts :
    /\ p.files[a] = a
    /\ m.root # "differs"

\* proofs::paths and the rest of the expected set: nothing else may be in the archive.
Accounted(p) ==
  LET r == p.receipt IN
  /\ Distinct(r)
  /\ ~ p.stray
  /\ \A f \in Files : p.files[f] # None =>
       f \in r.artifacts \cup r.capsules \cup Range(r.events)
  /\ IF p.format = "v3" THEN p.publication # None
     ELSE p.publication = None /\ p.comparison = None

\* The artifacts check of verify_with_policy_and_log.
ArtifactsCheck(p, m) ==
  Status(/\ p.receipt.inventory /\ p.receipt.artifacts # {}
         /\ ArtifactBytes(p, m)
         /\ Accounted(p))

\* proofs::assess, capsules: a missing manifest is not a wrong one.
CapsuleCheck(p) ==
  LET held == {c \in p.receipt.capsules : p.files[c] # None} IN
  IF \E c \in held : p.files[c] # c THEN "fail"
  ELSE IF held # p.receipt.capsules THEN "skipped"
  ELSE "pass"

\* proofs::assess, one event of the archive.
EventHolds(r, e, x) ==
  /\ x # Other /\ ~ x.metadata
  /\ x.id = e /\ Authentic(x) /\ SignatureSane(x)
  /\ Parents[x.of] \subseteq Range(r.events)

\* proofs::assess, events: none at all is complete, some is incomplete.
CausalCheck(p) ==
  LET r    == p.receipt
      held == {e \in Range(r.events) : p.files[e] # None} IN
  IF ~ Distinct(r) THEN "fail"
  ELSE IF r.events = <<>> THEN Status(r.root = None)
  ELSE IF \E e \in held : ~ EventHolds(r, e, p.files[e]) THEN "fail"
  ELSE IF held # Range(r.events) THEN "skipped"
  ELSE Status(ChainLinkage(r, p.files, FALSE) = "pass")

\* The identity check, by the recipient's policy alone.
IdentityCheck(p, m) ==
  IF ~ m.policy THEN "skipped" ELSE Status(p.identity = "matches")

\* The log checks run if the package or the recipient has anything about a log.
\* The recipient's comparison goes before the sender's.
LogChecks(p, m) ==
  LET given == [m.log EXCEPT !.comparison = IF @ # None THEN @ ELSE p.comparison] IN
  IF p.format = "v3" \/ m.asksLog \/ m.log.trust \/ m.log.reference # None \/ m.log.comparison # None
  THEN Assess(p.receipt.root # None, IF p.format = "v3" THEN p.publication ELSE None, given)
  ELSE <<"skipped", "skipped">>

\* The two checks on the receipt that decide here; see Verify for the others.
SchemaCheck(r)       == Status(r.schema = "known")
SignatureCheck(r, m) == Status(r.schema = "known" /\ r.signature = "holds" /\ m.trusted)

\* The execution outcome, which counts only if it is required.
Outcome(r) == IF r.schema = "known" /\ r.success THEN "pass" ELSE "skipped"

\* verify_with_policy_and_log
VerifyEvidence(p, m) ==
  [schema |-> SchemaCheck(p.receipt), signature |-> SignatureCheck(p.receipt, m),
   success |-> Outcome(p.receipt),
   artifacts |-> ArtifactsCheck(p, m), capsule |-> CapsuleCheck(p),
   linkage |-> CausalCheck(p), identity |-> IdentityCheck(p, m),
   inclusion |-> LogChecks(p, m)[1], consistency |-> LogChecks(p, m)[2]]

\* verify_archive: of the events, those that parse.
VerifyArchive(p, m) ==
  LET held == [e \in Events |-> IF p.files[e] = Other THEN None ELSE p.files[e]] IN
  [schema |-> SchemaCheck(p.receipt), signature |-> SignatureCheck(p.receipt, m),
   success |-> Outcome(p.receipt),
   artifacts |-> "skipped", capsule |-> "skipped",
   linkage |-> ChainLinkage(p.receipt, held, p.partial), identity |-> "skipped",
   inclusion |-> "skipped", consistency |-> "skipped"]

\* read_archive_bounded and the manifest: without them and a receipt there is no verdict.
Readable(p) ==
  /\ p.fits /\ p.receipt # None
  /\ p.format \in IF p.kind = "evidence" THEN {"v1", "v2", "v3"} ELSE {"v1"}

\* The recipient verifies the package it was given.
Receive(m) ==
  /\ package # None /\ reader = None /\ ppc = "done"
  /\ reader' = m
  /\ checks' = IF ~ Readable(package) THEN None
               ELSE IF package.kind = "evidence" THEN VerifyEvidence(package, m)
               ELSE VerifyArchive(package, m)
  /\ UNCHANGED <<disk, edits, ppc, job, staged, package>>

----------------------------------------------------------------------------
\* What a recipient may require of a package.
Requirements == CheckNames \ {"schema"}

\* A release package is never accepted on less than this.
Floor(p, m) ==
  IF p.kind = "archive" THEN {}
  ELSE {"signature", "success", "artifacts"} \cup {q \in {"identity"} : m.policy}

\* The verdict on the package, for the requirements of the recipient.
PackagePasses(required) == PolicyMet(checks, required \cup Floor(package, reader))

\* The files as the run left them: events with metadata, and signed or not.
LeftByRun(s) ==
  [f \in Files |-> IF f \in Events
     THEN [of |-> f, id |-> f, signature |-> s, metadata |-> TRUE] ELSE f]

EvidenceInit ==
  /\ \E s \in {"holds", "none"} : disk = LeftByRun(s)
  /\ edits = 0 /\ ppc = "idle"
  /\ job = None /\ staged = [f \in Files |-> None]
  /\ package = None /\ reader = None /\ checks = None

EvidenceNext ==
  \/ \E f \in Files : \E c \in Contents(f) : EditFile(f, c)
  \/ \E j \in Asked : BeginPack(j)
  \/ Collect \/ CollectEvents \/ ReadLog
  \/ \E a \in Artifacts : ReadArtifact(a)
  \/ ArtifactsRead
  \/ \E fits \in BOOLEAN : WritePackage(fits)
  \/ KillPacker
  \/ Send
  \/ \E m \in Readers : Receive(m)

EvidenceSpec == EvidenceInit /\ [][EvidenceNext]_evidenceVars

----------------------------------------------------------------------------
\* The receipt's events are those its signed root was computed from, and their
\* parents are among them: what a run writes (Executor, CausalChainComplete).
WellLinked(r) ==
  /\ r.root = IF r.events = <<>> THEN None ELSE r.events
  /\ \A e \in Range(r.events) : Parents[e] \subseteq Range(r.events)

\* What pack writes, the recipient can read and finds complete: no edit of the
\* workspace while pack reads it, and no kill, makes a package whose artifacts or
\* capsules the recipient refuses, and what was not edited also links up.  (The sender's
\* and the recipient's side of evidence.rs agree.)
PackedIsAccepted ==
  job # None /\ job.kind = "evidence" /\ package # None /\ reader # None =>
    /\ checks # None
    /\ checks.artifacts = "pass" \/ reader.root = "differs"
    /\ checks.capsule = IF job.given = job.receipt.capsules THEN "pass" ELSE "skipped"
    /\ edits = 0 /\ WellLinked(job.receipt) => checks.linkage = "pass"

\* A package that passes holds what was signed: there are artifacts, the steps' output
\* hashes cover them (inventory), and each is there with its bytes; nothing that is not referred to, and no
\* capsule or event that is not the one referred to; with capsule required all
\* manifests, with linkage all events, in the order of the signed root.  Neither a
\* missing proof nor the sender's word that the archive is partial lowers what the
\* recipient requires.
AcceptedIsSigned ==
  checks # None => \A required \in SUBSET Requirements :
    PackagePasses(required) =>
      LET r == package.receipt IN
      /\ package.kind = "evidence" =>
           /\ r.signature = "holds" /\ reader.trusted /\ r.success
           /\ r.inventory /\ r.artifacts # {}
           /\ \A f \in Files :
                package.files[f] # None =>
                  /\ f \in r.artifacts \cup r.capsules \cup Range(r.events)
                  /\ f \in Events => package.files[f].of = f /\ ~ package.files[f].metadata
                  /\ f \notin Events => package.files[f] = f
           /\ \A a \in r.artifacts : package.files[a] # None
           /\ "capsule" \in required => \A c \in r.capsules : package.files[c] # None
      /\ "linkage" \in required /\ r.events # <<>> =>
           /\ \A i \in DOMAIN r.events : package.files[r.events[i]] \notin {None, Other}
           /\ r.root = [i \in DOMAIN r.events |-> package.files[r.events[i]].of]

\* If log-consistency passes, one history of the configured log explains both the
\* recipient's own reference checkpoint and the one the publication is included in: a
\* comparison the sender chose cannot hide that the log forked.
ConsistencyIsNoFork ==
  checks # None /\ checks.consistency = "pass" =>
    /\ reader.log.trust /\ reader.log.reference # None
    /\ package.publication.checkpoint.ours
    /\ OneHistory(reader.log.reference.tree, package.publication.checkpoint.tree)
=============================================================================
