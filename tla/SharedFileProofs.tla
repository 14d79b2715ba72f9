-------------------------- MODULE SharedFileProofs --------------------------
(***************************************************************************)
(* Proofs about the files that several processes work on without a lock:   *)
(* what they sign (Identity, for any workflows, bundles and policies,      *)
(* ReceiptFile, for any clerks and keys, and Images, for any documents and *)
(* requests), the inputs that they hold (Wrap, for any processes, inputs   *)
(* and exit codes and whatever the user does to the inputs) and the step   *)
(* cache (StepCache, for any users, keys, sizes and limits).               *)
(***************************************************************************)
EXTENDS Identity, ReceiptFile, Images, Wrap, StepCache, FiniteSetTheorems, TLAPS

----------------------------------------------------------------------------
\* Identity.  A workflow that has read the receipt holds one; what it had signed is in
\* the log, and the bundle file is in the log or from elsewhere.
IdentityTypes ==
  /\ onDisk \in ReceiptFiles
  /\ ipc \in [Workflows -> {"idle", "snapshot", "sign", "persist", "signed", "failed"}]
  /\ snapshot \in [Workflows -> ReceiptFiles \cup {None}]
  /\ logged \subseteq BundleType
  /\ bundle \in logged \cup Foreign \cup {None}

Read(w) == ipc[w] \in {"sign", "persist", "signed"} => snapshot[w] \in ReceiptFiles

SignedPart ==
  \A w \in Workflows :
    /\ Read(w)
    /\ ipc[w] = "persist" => Signature(w) \in logged
    /\ ipc[w] = "signed" => bundle = Signature(w) /\ bundle \in logged

IdentityInv == IdentityTypes /\ SignedPart /\ IdentityGrounded

LEMMA SignatureTypes ==
  ASSUME NEW w \in Workflows, snapshot[w] \in ReceiptFiles
  PROVE  Signature(w) \in BundleType
BY IdentityAssumption DEF Signature, BundleType

LEMMA IdentityFirst ==
  ASSUME IdentityInit
  PROVE  IdentityInv
BY DEF IdentityInit, IdentityInv, IdentityTypes, SignedPart, Read, IdentityGrounded

\* A signature whose certificate states its revision once states that one.
LEMMA VerifiedMeans ==
  ASSUME NEW r, NEW b \in BundleType, NEW p, VerifyBlob(r, b, p)
  PROVE  /\ b.over = r
         /\ \A i \in DOMAIN b.certificate.revision : b.certificate.revision[i] = p.revision
<1>1. b.certificate.revision \in Seq(Nat)
  BY DEF BundleType, CertificateType
<1>2. Len(b.certificate.revision) = 1 /\ b.certificate.revision[1] = p.revision /\ b.over = r
  BY DEF VerifyBlob, SourceStated
<1>3. DOMAIN b.certificate.revision = 1 .. 1
  BY <1>1, <1>2
<1> QED BY <1>2, <1>3

LEMMA IdentityStep ==
  ASSUME IdentityInv, [IdentityNext]_identityVars
  PROVE  IdentityInv'
<1> USE DEF IdentityInv
<1>0. \A w \in Workflows : Signature(w) = [over |-> snapshot[w], certificate |-> Claims[w], genuine |-> TRUE]
  BY DEF Signature
<1>1. CASE UNCHANGED identityVars
  BY <1>1 DEF identityVars, IdentityTypes, SignedPart, Read, Signature, IdentityGrounded
<1>2. ASSUME NEW r \in ReceiptFiles, ReplaceReceipt(r) PROVE IdentityInv'
  BY <1>2 DEF ReplaceReceipt, IdentityTypes, SignedPart, Read, Signature, IdentityGrounded
<1>3. ASSUME NEW w \in Workflows, BeginSign(w) PROVE IdentityInv'
  BY <1>3 DEF BeginSign, IdentityTypes, SignedPart, Read, Signature, IdentityGrounded
<1>4. ASSUME NEW w \in Workflows, Snapshot(w) PROVE IdentityInv'
  <2>1. /\ ipc[w] = "snapshot" /\ snapshot' = [snapshot EXCEPT ![w] = onDisk]
        /\ ipc' = [ipc EXCEPT ![w] = "sign"] /\ UNCHANGED <<onDisk, bundle, logged, vcheck>>
    BY <1>4 DEF Snapshot
  <2>2. IdentityTypes' /\ IdentityGrounded'
    BY <2>1 DEF IdentityTypes, IdentityGrounded
  <2>3. \A v \in Workflows : v # w => Signature(v)' = Signature(v)
    BY <2>1 DEF Signature, IdentityTypes
  <2>4. SignedPart'
    BY <2>1, <2>3 DEF SignedPart, Read, IdentityTypes
  <2> QED BY <2>2, <2>4
<1>5. ASSUME NEW w \in Workflows, NEW ok \in BOOLEAN, SignBlob(w, ok) PROVE IdentityInv'
  <2>1. /\ ipc[w] = "sign" /\ logged' = IF ok THEN logged \cup {Signature(w)} ELSE logged
        /\ ipc' = [ipc EXCEPT ![w] = IF ok THEN "persist" ELSE "failed"]
        /\ UNCHANGED <<onDisk, bundle, snapshot, vcheck>>
    BY <1>5 DEF SignBlob
  <2>2. Signature(w) \in BundleType
    BY <2>1, SignatureTypes DEF SignedPart, Read
  <2>3. \A v \in Workflows : Signature(v)' = Signature(v)
    BY <2>1 DEF Signature
  <2>4. IdentityTypes' /\ IdentityGrounded'
    BY <2>1, <2>2 DEF IdentityTypes, IdentityGrounded
  <2>5. SignedPart'
    BY <2>1, <2>3 DEF SignedPart, Read, IdentityTypes
  <2> QED BY <2>4, <2>5
<1>6. ASSUME NEW w \in Workflows, Persist(w) PROVE IdentityInv'
  <2>1. /\ ipc[w] = "persist" /\ UNCHANGED <<onDisk, snapshot, logged, vcheck>>
        /\ \/ /\ bundle = None
              /\ bundle' = Signature(w) /\ ipc' = [ipc EXCEPT ![w] = "signed"]
           \/ UNCHANGED bundle /\ ipc' = [ipc EXCEPT ![w] = "failed"]
    BY <1>6 DEF Persist
  <2>2. \A v \in Workflows : Signature(v)' = Signature(v)
    BY <2>1 DEF Signature
  <2>3. Signature(w) \in logged /\ snapshot[w] \in ReceiptFiles
    BY <2>1 DEF SignedPart, Read
  <2>4. bundle = None => \A v \in Workflows : ipc[v] # "signed"
    BY SignatureTypes, IdentityAssumption DEF SignedPart, Read
  <2>5. IdentityTypes' /\ IdentityGrounded'
    BY <2>1, <2>3 DEF IdentityTypes, IdentityGrounded
  <2>6. SignedPart'
    BY <2>1, <2>2, <2>3, <2>4 DEF SignedPart, Read, IdentityTypes
  <2> QED BY <2>5, <2>6
<1>7. ASSUME NEW b \in Foreign, Plant(b) PROVE IdentityInv'
  <2>1. bundle = None /\ bundle' = b /\ UNCHANGED <<onDisk, ipc, snapshot, logged, vcheck>>
    BY <1>7 DEF Plant
  <2>2. \A v \in Workflows : ipc[v] # "signed"
    BY <2>1, SignatureTypes, IdentityAssumption DEF SignedPart, Read
  <2>3. IdentityTypes' /\ IdentityGrounded'
    BY <2>1 DEF IdentityTypes, IdentityGrounded
  <2>4. SignedPart'
    BY <2>1, <2>2 DEF SignedPart, Read, Signature
  <2> QED BY <2>3, <2>4
<1>8. ASSUME NEW p \in Policies, VerifyIdentity(p) PROVE IdentityInv'
  <2> DEFINE ok == /\ p.valid
                   /\ onDisk.commit # None /\ onDisk.commit = p.revision
                   /\ VerifyBlob(onDisk, bundle, p)
  <2>1. /\ bundle # None /\ UNCHANGED <<onDisk, bundle, ipc, snapshot, logged>>
        /\ vcheck' = [policy |-> p, receipt |-> onDisk, bundle |-> bundle, verified |-> ok]
    BY <1>8 DEF VerifyIdentity
  <2>2. IdentityTypes' /\ SignedPart'
    BY <2>1 DEF IdentityTypes, SignedPart, Read, Signature
  <2>3. bundle \in BundleType /\ bundle \in logged \cup Foreign
    BY <2>1, IdentityAssumption DEF IdentityTypes
  <2>4. ok => /\ onDisk.commit = p.revision /\ bundle.over = onDisk
              /\ \A i \in DOMAIN bundle.certificate.revision :
                   bundle.certificate.revision[i] = p.revision
    BY <2>3, VerifiedMeans
  <2> HIDE DEF ok
  <2>5. /\ vcheck'.policy = p /\ vcheck'.receipt = onDisk /\ vcheck'.bundle = bundle
        /\ vcheck'.verified = ok
    BY <2>1
  <2>6. IdentityGrounded'
    BY <2>1, <2>3, <2>4, <2>5 DEF IdentityGrounded
  <2> QED BY <2>2, <2>6
<1> QED BY <1>1, <1>2, <1>3, <1>4, <1>5, <1>6, <1>7, <1>8 DEF IdentityNext

\* The inductive invariant of workflow signing: a workflow that is to persist its bundle has
\* it in the log, and one that reported success finds it in the file (sign_with_cosign,
\* identity.rs:111).
THEOREM IdentityInvariant == IdentitySpec => []IdentityInv
<1>1. IdentityInit => IdentityInv
  BY IdentityFirst
<1>2. IdentityInv /\ [IdentityNext]_identityVars => IdentityInv'
  BY IdentityStep
<1> QED BY <1>1, <1>2, PTL DEF IdentitySpec

\* For any number of workflows that sign into one bundle file, and whoever else may put a
\* bundle there: a signature that was reported stays (sign_with_cosign, identity.rs:111).
THEOREM SignedHolds == IdentitySpec => []SignedIsKept
<1>1. IdentityInv => SignedIsKept
  BY DEF IdentityInv, SignedPart, SignedIsKept
<1> QED BY <1>1, IdentityInvariant, PTL

\* For any receipts, bundles and policies: what passes as identity is grounded in the log's
\* or somebody's genuine bundle over the bytes verified, and in one revision that receipt,
\* certificate and policy agree on (verify_with_cosign, identity.rs:186).
THEOREM GroundedHolds == IdentitySpec => []IdentityGrounded
<1>1. IdentityInv => IdentityGrounded
  BY DEF IdentityInv
<1> QED BY <1>1, IdentityInvariant, PTL

----------------------------------------------------------------------------
\* ReceiptFile.  What a clerk writes is signed, and its token over that signature, unless
\* the token came with a receipt that names no signer.
Whole(r) ==
  /\ SignatureHolds(r)
  /\ r.token # None => r.token = r.signature \/ (origin.signer = None /\ r.token = origin.token)

FileNames == {"receipt", "output"}

ReceiptFileTypes ==
  /\ stored \in [FileNames -> ReceiptContent \cup {None}]
  /\ origin \in ReceiptContent \cup {None}
  /\ fpc \in [Clerks -> {"idle", "stamp", "store", "done", "killed"}]
  /\ errand \in [Clerks -> ErrandType \cup {None}]
  /\ copy \in [Clerks -> ReceiptContent \cup {None}]
  /\ fexit \in [Clerks -> {0, 1, 2, None}]

StoredPart == \A s \in FileNames : stored[s] \notin {None, origin} => Whole(stored[s])

\* What a clerk is about to store is signed and one piece; one that reported success has
\* stored it, and since then only others that are so have been.
CopyPart ==
  \A p \in Clerks :
    /\ fpc[p] \in {"stamp", "store"} =>
         /\ errand[p] \in ErrandType
         /\ copy[p] \in ReceiptContent /\ Whole(copy[p])
    /\ fexit[p] = 0 =>
         /\ fpc[p] = "done" /\ errand[p] \in ErrandType
         /\ stored[errand[p].to] # None /\ SignatureHolds(stored[errand[p].to])

FileInv == ReceiptFileTypes /\ StoredPart /\ CopyPart

LEMMA FileFirst ==
  ASSUME ReceiptFileInit
  PROVE  FileInv
<1>1. ReceiptFileTypes
  BY ReceiptFileAssumption DEF ReceiptFileInit, ReceiptFileTypes, FileNames
<1>2. StoredPart
  BY DEF ReceiptFileInit, StoredPart, FileNames
<1>3. CopyPart
  BY ReceiptFileAssumption DEF ReceiptFileInit, CopyPart
<1> QED BY <1>1, <1>2, <1>3 DEF FileInv

\* A clerk gives up, or begins with a copy of what is stored, to which it may add.
LEMMA FileBegin ==
  ASSUME FileInv, NEW p \in Clerks, NEW j \in ClerkJobs, fpc[p] = "idle",
         errand' = [errand EXCEPT ![p] = j], UNCHANGED <<stored, origin>>,
         \/ \E code \in {1, 2} : Finish(p, code) /\ UNCHANGED copy
         \/ \E c \in ReceiptContent, pc \in {"stamp", "store"} :
              /\ Whole(c)
              /\ copy' = [copy EXCEPT ![p] = c] /\ fpc' = [fpc EXCEPT ![p] = pc]
              /\ UNCHANGED fexit
  PROVE  FileInv'
<1> USE DEF FileInv
<1>1. j \in ErrandType
  BY ReceiptFileAssumption
<1>2. ReceiptFileTypes'
  BY <1>1 DEF ReceiptFileTypes, Finish
<1>3. StoredPart'
  BY DEF StoredPart, Whole, SignatureHolds
<1>4. CopyPart'
  BY <1>1 DEF CopyPart, Finish, ReceiptFileTypes, Whole, SignatureHolds
<1> QED BY <1>2, <1>3, <1>4

\* What names no signer was written by no clerk.
LEMMA Unsigned ==
  ASSUME FileInv, stored["receipt"] # None, stored["receipt"].signer = None
  PROVE  stored["receipt"] = origin
<1>1. SUFFICES ASSUME Whole(stored["receipt"])
               PROVE  FALSE
  BY DEF FileInv, StoredPart, FileNames
<1>2. stored["receipt"] \in ReceiptContent
  BY DEF FileInv, ReceiptFileTypes, FileNames
<1>3. /\ stored["receipt"].signature # None
      /\ stored["receipt"].signer = stored["receipt"].signature.key
  BY <1>1 DEF Whole, SignatureHolds
<1>4. stored["receipt"].signature \in SignatureOver
  BY <1>2, <1>3 DEF ReceiptContent
<1>5. stored["receipt"].signature.key \in SignerKeys
  BY <1>4 DEF SignatureOver
<1> QED BY <1>3, <1>5, ReceiptFileAssumption

LEMMA FileSign ==
  ASSUME FileInv, NEW p \in Clerks, NEW j \in ClerkJobs, BeginSignReceipt(p, j)
  PROVE  FileInv'
<1> DEFINE r == stored["receipt"]
           n == [key |-> j.key, body |-> r.body]
           c == [r EXCEPT !.signature = n, !.signer = j.key]
           taken == /\ r # None /\ r.parses /\ r.signer = None /\ r.sound
                    /\ TokenPasses(r, j.pinned) /\ j.key # None
<1>1. /\ fpc[p] = "idle" /\ errand' = [errand EXCEPT ![p] = j] /\ UNCHANGED <<stored, origin>>
      /\ j \in ErrandType
  BY ReceiptFileAssumption DEF BeginSignReceipt
<1>2. CASE taken
  <2>1. r \in ReceiptContent
    BY <1>2 DEF FileInv, ReceiptFileTypes, FileNames
  <2>2. r = origin /\ origin.signer = None
    BY <1>2, Unsigned
  <2>3. n \in SignatureOver /\ n.body = r.body /\ n.key = j.key /\ j.key \in SignerKeys
    BY <1>1, <1>2, <2>1 DEF ErrandType, SignatureOver, ReceiptContent
  <2>4. /\ copy' = [copy EXCEPT ![p] = c] /\ UNCHANGED fexit
        /\ fpc' = [fpc EXCEPT ![p] = IF j.stamp THEN "stamp" ELSE "store"]
    BY <1>2 DEF BeginSignReceipt
  <2> HIDE DEF n
  <2>5. /\ c \in ReceiptContent /\ c.token = r.token /\ c.body = r.body /\ c.signature = n
        /\ c.signer = j.key
    BY <2>1, <2>3 DEF ReceiptContent
  <2>6. SignatureHolds(c)
    BY <2>3, <2>5, ReceiptFileAssumption DEF SignatureHolds
  <2>7. Whole(c)
    BY <2>2, <2>5, <2>6 DEF Whole
  <2> HIDE DEF c
  <2>8. \E pc \in {"stamp", "store"} : fpc' = [fpc EXCEPT ![p] = pc]
    BY <2>4
  <2> QED BY <1>1, <2>4, <2>5, <2>7, <2>8, FileBegin
<1>3. CASE ~ taken
  <2>1. \E code \in {1, 2} : Finish(p, code) /\ UNCHANGED copy
    BY <1>3 DEF BeginSignReceipt
  <2> QED BY <1>1, <2>1, FileBegin
<1> QED BY <1>2, <1>3

LEMMA FileTimestamp ==
  ASSUME FileInv, NEW p \in Clerks, NEW j \in ClerkJobs, BeginTimestamp(p, j)
  PROVE  FileInv'
<1> DEFINE r == stored["receipt"]
<1>1. fpc[p] = "idle" /\ errand' = [errand EXCEPT ![p] = j] /\ UNCHANGED <<stored, origin>>
  BY DEF BeginTimestamp
<1>2. CASE r # None /\ r.parses /\ r.token = None /\ SignatureHolds(r)
  <2>1. r \in ReceiptContent /\ Whole(r)
    BY <1>2 DEF FileInv, ReceiptFileTypes, Whole, FileNames
  <2>2. /\ copy' = [copy EXCEPT ![p] = r] /\ fpc' = [fpc EXCEPT ![p] = "stamp"]
        /\ UNCHANGED fexit
    BY <1>2 DEF BeginTimestamp
  <2> HIDE DEF r
  <2> QED BY <1>1, <1>2, <2>1, <2>2, FileBegin
<1>3. CASE ~ (r # None /\ r.parses /\ r.token = None /\ SignatureHolds(r))
  <2>1. \E code \in {1, 2} : Finish(p, code) /\ UNCHANGED copy
    BY <1>3 DEF BeginTimestamp
  <2> QED BY <1>1, <2>1, FileBegin
<1> QED BY <1>2, <1>3

LEMMA FileToken ==
  ASSUME FileInv, NEW p \in Clerks, NEW ok \in BOOLEAN, RequestToken(p, ok)
  PROVE  FileInv'
<1> USE DEF FileInv
<1>1. fpc[p] = "stamp" /\ UNCHANGED <<stored, origin, errand>>
  BY DEF RequestToken
<1>2. StoredPart'
  BY <1>1 DEF StoredPart, Whole, SignatureHolds
<1>3. CASE ok
  <2> DEFINE c == [copy[p] EXCEPT !.token = copy[p].signature]
  <2>1. /\ copy[p] \in ReceiptContent /\ Whole(copy[p])
        /\ copy' = [copy EXCEPT ![p] = c] /\ fpc' = [fpc EXCEPT ![p] = "store"]
        /\ UNCHANGED fexit
    BY <1>1, <1>3 DEF RequestToken, CopyPart
  <2>2. /\ c \in ReceiptContent /\ c.signature = copy[p].signature /\ c.body = copy[p].body
        /\ c.token = c.signature /\ c.signer = copy[p].signer
    BY <2>1 DEF ReceiptContent
  <2> HIDE DEF c
  <2>3. Whole(c)
    BY <2>1, <2>2 DEF SignatureHolds, Whole
  <2>4. ReceiptFileTypes'
    BY <1>1, <2>1, <2>2 DEF ReceiptFileTypes
  <2>5. CopyPart'
    BY <1>1, <2>1, <2>2, <2>3 DEF CopyPart, ReceiptFileTypes, Whole, SignatureHolds
  <2> QED BY <1>2, <2>4, <2>5
<1>4. CASE ~ ok
  <2>1. Finish(p, 2) /\ UNCHANGED copy
    BY <1>4 DEF RequestToken
  <2>2. ReceiptFileTypes'
    BY <1>1, <2>1 DEF ReceiptFileTypes, Finish
  <2>3. CopyPart'
    BY <1>1, <2>1 DEF CopyPart, ReceiptFileTypes, Finish, Whole, SignatureHolds
  <2> QED BY <1>2, <2>2, <2>3
<1> QED BY <1>3, <1>4

LEMMA FileStore ==
  ASSUME FileInv, NEW p \in Clerks, NEW ok \in BOOLEAN, StoreReceipt(p, ok)
  PROVE  FileInv'
<1> USE DEF FileInv
<1>1. /\ fpc[p] = "store" /\ UNCHANGED <<origin, errand, copy>> /\ errand[p].to \in FileNames
      /\ errand[p] \in ErrandType /\ copy[p] \in ReceiptContent /\ copy[p] # None
      /\ Whole(copy[p])
  BY ReceiptFileAssumption DEF StoreReceipt, CopyPart, ErrandType, FileNames
<1>2. CASE ok
  <2>1. stored' = [stored EXCEPT ![errand[p].to] = copy[p]] /\ Finish(p, 0)
    BY <1>2 DEF StoreReceipt
  <2>2. ReceiptFileTypes'
    BY <1>1, <2>1 DEF ReceiptFileTypes, Finish
  <2>3. StoredPart'
    BY <1>1, <2>1 DEF StoredPart, ReceiptFileTypes, Whole, SignatureHolds
  <2>4. \A s \in FileNames :
          \/ stored'[s] = stored[s] /\ s # errand[p].to
          \/ stored'[s] # None /\ SignatureHolds(stored[s])'
    BY <1>1, <2>1 DEF ReceiptFileTypes, Whole, SignatureHolds
  <2>5. CopyPart'
    <3> SUFFICES ASSUME NEW q \in Clerks
                 PROVE  /\ fpc'[q] \in {"stamp", "store"} =>
                             /\ errand'[q] \in ErrandType
                             /\ copy'[q] \in ReceiptContent /\ Whole(copy[q])'
                        /\ fexit'[q] = 0 =>
                             /\ fpc'[q] = "done" /\ errand'[q] \in ErrandType
                             /\ stored'[errand'[q].to] # None
                             /\ SignatureHolds(stored[errand[q].to])'
      BY DEF CopyPart
    <3>1. fpc'[q] \in {"stamp", "store"} => fpc'[q] = fpc[q]
      BY <2>1 DEF ReceiptFileTypes, Finish
    <3>2. fexit'[q] = 0 => q = p \/ fexit[q] = 0
      BY <2>1 DEF ReceiptFileTypes, Finish
    <3>3. fexit'[q] = 0 => fpc'[q] = "done" /\ errand[q] \in ErrandType
      BY <1>1, <2>1, <3>2 DEF ReceiptFileTypes, Finish, CopyPart
    <3>4. errand[q] \in ErrandType => errand[q].to \in FileNames
      BY DEF ErrandType, FileNames
    <3>5. fexit'[q] = 0 =>
            stored'[errand[q].to] # None /\ SignatureHolds(stored[errand[q].to])'
      <4>1. SUFFICES ASSUME fexit'[q] = 0, stored'[errand[q].to] = stored[errand[q].to],
                            errand[q].to # errand[p].to
                     PROVE  /\ stored'[errand[q].to] # None
                            /\ SignatureHolds(stored[errand[q].to])'
        BY <1>1, <2>4, <3>3, <3>4 DEF SignatureHolds
      <4>2. fexit[q] = 0
        BY <3>2, <4>1
      <4> QED BY <1>1, <4>1, <4>2 DEF CopyPart, SignatureHolds
    <3> QED BY <1>1, <3>1, <3>3, <3>5 DEF CopyPart, SignatureHolds, Whole
  <2> QED BY <2>2, <2>3, <2>5
<1>3. CASE ~ ok
  <2>1. Finish(p, 2) /\ UNCHANGED stored
    BY <1>3 DEF StoreReceipt
  <2>2. ReceiptFileTypes' /\ StoredPart'
    BY <1>1, <2>1 DEF ReceiptFileTypes, StoredPart, Finish, Whole, SignatureHolds
  <2>3. CopyPart'
    BY <1>1, <2>1 DEF CopyPart, ReceiptFileTypes, Finish, Whole, SignatureHolds
  <2> QED BY <2>2, <2>3
<1> QED BY <1>2, <1>3

LEMMA FileStep ==
  ASSUME FileInv, [ReceiptFileNext]_receiptFileVars
  PROVE  FileInv'
<1>1. CASE UNCHANGED receiptFileVars
  BY <1>1 DEF receiptFileVars, FileInv, ReceiptFileTypes, StoredPart, CopyPart, Whole, SignatureHolds
<1>2. ASSUME NEW p \in Clerks, KillClerk(p) PROVE FileInv'
  BY <1>2 DEF KillClerk, FileInv, ReceiptFileTypes, StoredPart, CopyPart, Whole, SignatureHolds
<1> QED BY <1>1, <1>2, FileSign, FileTimestamp, FileToken, FileStore DEF ReceiptFileNext

\* For any number of clerks that sign and time-stamp one receipt at once, whatever it held
\* at first, any failures of the authority and any kills: what they write carries a
\* signature that holds, and beside it only the token over it or the one that came with a
\* receipt naming no signer; success means a signature that holds (sign_receipt_file and
\* timestamp_receipt_file, core.rs:918).
THEOREM TokenHolds == ReceiptFileSpec => []TokenBesideItsSignature
<1>1. ReceiptFileInit => FileInv
  BY FileFirst
<1>2. FileInv /\ [ReceiptFileNext]_receiptFileVars => FileInv'
  BY FileStep
<1>3. FileInv => TokenBesideItsSignature
  BY DEF FileInv, StoredPart, CopyPart, Whole, FileNames, TokenBesideItsSignature
<1> QED BY <1>1, <1>2, <1>3, PTL DEF ReceiptFileSpec

----------------------------------------------------------------------------
\* Images.  The documents of an image never change, its signatures only grow.
ImageType ==
  [sbom : SUBSET BOOLEAN, slsa : SUBSET SlsaType, keyless : SUBSET KeylessType,
   signatures : SUBSET SignatureType]

SignerTypes ==
  /\ head \in Revisions
  /\ spc \in {"idle", "clean", "cosign", "receipt", "done"}
  /\ image \in ImageType
  /\ spc # "idle" => sreq \in SignRequestType /\ began \in Revisions /\ began <= head
  /\ spc \in {"clean", "cosign", "receipt"} => revision \in Revisions

Labelled == [key |-> sreq.key, revision |-> revision]

\* What the signer has done so far; a revision that is HEAD's is that of the beginning.
SignerPart ==
  /\ spc # "done" => sexit = None /\ sreceipt = None
  /\ spc \in {"idle", "clean", "cosign"} \/ sexit = 1 => image.signatures = {}
  /\ spc = "receipt" => Labelled \in image.signatures
  /\ spc \in {"clean", "cosign", "receipt"} /\ sreq.explicit = None => revision = began
  /\ sexit = 0 => sreceipt # None
  /\ sreceipt # None => sreceipt = revision /\ Labelled \in image.signatures

CleanPart ==
  (spc \in {"cosign", "receipt"} \/ image.signatures # {}) /\ sreq.requireClean =>
    /\ sawClean # None
    /\ sreq.explicit = None => revision = sawClean \/ head # began

\* What the verifier's checks have established.
VerifierPart ==
  /\ ypc \in {"idle", "provenance", "signature", "receipt", "done"}
  /\ ypc # "idle" => yreq \in VerifyRequestType
  /\ ypc \in {"provenance", "signature", "receipt"} =>
       /\ VerifyValid(yreq)
       /\ ychecks \in [ImageChecks -> Statuses]
       /\ ychecks["sbom"] = "pass" => CheckSbom(image)
       /\ yexit = None /\ yreceipt = None
  /\ ypc \in {"signature", "receipt"} =>
       /\ ychecks["provenance"] = "pass" => CheckProvenance(image)
       /\ ychecks["revision"] = "pass" => RevisionBound(image, yreq.expected)
  /\ ypc = "receipt" => (ychecks["signature"] = "pass" => SignatureFound(yreq))
  /\ ypc = "idle" => yexit = None /\ yreceipt = None

ImagesInv == SignerTypes /\ SignerPart /\ CleanPart /\ VerifierPart /\ ImageVerdictMeans

\* More signatures, the same documents.
Grown == image'.sbom = image.sbom /\ image'.slsa = image.slsa /\ image'.keyless = image.keyless
         /\ image.signatures \subseteq image'.signatures

\* The verifier rests while the signer works, and its conclusions stay.
LEMMA VerifierKept ==
  ASSUME VerifierPart, ImageVerdictMeans, Grown, UNCHANGED verifierVars
  PROVE  VerifierPart' /\ ImageVerdictMeans'
<1>1. UNCHANGED <<ypc, yreq, ychecks, yreceipt, yexit>>
  BY DEF verifierVars
<1>2. /\ CheckSbom(image)' = CheckSbom(image) /\ CheckProvenance(image)' = CheckProvenance(image)
      /\ RevisionBound(image, yreq.expected)' = RevisionBound(image, yreq.expected)
      /\ SignatureFound(yreq) => SignatureFound(yreq)'
      /\ VerifyValid(yreq)' = VerifyValid(yreq)
  BY <1>1 DEF Grown, CheckSbom, CheckProvenance, RevisionBound, SignatureFound, VerifyValid,
              Required, SignatureAsked
<1>3. VerifierPart'
  BY <1>1, <1>2 DEF VerifierPart
<1>4. ImageVerdictMeans'
  BY <1>1 DEF ImageVerdictMeans, Grown
<1> QED BY <1>3, <1>4

\* The signer rests while the verifier works.
LEMMA SignerKept ==
  ASSUME SignerTypes, SignerPart, CleanPart, UNCHANGED <<head, dirty, signerVars, image>>
  PROVE  SignerTypes' /\ SignerPart' /\ CleanPart'
BY DEF signerVars, SignerTypes, SignerPart, CleanPart, Labelled

LEMMA ImagesFirst ==
  ASSUME ImagesInit
  PROVE  ImagesInv
<1>1. PICK d \in ImageDocs : image = [sbom |-> d.sbom, slsa |-> d.slsa, keyless |-> d.keyless,
                                       signatures |-> {}]
  BY DEF ImagesInit
<1>2. d \in DocsType
  BY ImagesAssumption
<1>3. image \in ImageType /\ image.signatures = {}
  BY <1>1, <1>2 DEF ImageType, DocsType
<1>4. head \in Revisions
  BY ImagesAssumption DEF ImagesInit, Revisions
<1>5. SignerTypes /\ SignerPart /\ CleanPart
  BY <1>3, <1>4, ImagesAssumption DEF ImagesInit, SignerTypes, SignerPart, CleanPart
<1>6. VerifierPart
  BY DEF ImagesInit, VerifierPart
<1>7. ImageVerdictMeans
  <2>1. yexit = None /\ yexit # 0
    BY ImagesAssumption DEF ImagesInit
  <2> QED BY <2>1 DEF ImageVerdictMeans
<1> QED BY <1>5, <1>6, <1>7 DEF ImagesInv

\* HEAD moves on, and the tree with it; the history of the signer tells that it did.
LEMMA TreeStep ==
  ASSUME ImagesInv, Commit \/ EditTree
  PROVE  ImagesInv'
<1> USE DEF ImagesInv
<1>1. UNCHANGED <<signerVars, image, verifierVars>>
  BY DEF Commit, EditTree
<1>2. head' = head \/ (head < MaxHead /\ head' = head + 1)
  BY DEF Commit, EditTree
<1>3. head' \in Revisions /\ head <= head'
  BY <1>2, ImagesAssumption DEF SignerTypes, Revisions
<1>4. SignerTypes'
  BY <1>1, <1>3 DEF signerVars, SignerTypes, Revisions
<1>5. SignerPart'
  BY <1>1 DEF signerVars, SignerPart, Labelled
<1>6. spc # "idle" => (head # began => head' # began)
  BY <1>2, ImagesAssumption DEF SignerTypes, Revisions
<1>7. spc = "idle" => image.signatures = {}
  BY DEF SignerPart
<1>8. CleanPart'
  BY <1>1, <1>6, <1>7 DEF signerVars, CleanPart
<1>9. VerifierPart' /\ ImageVerdictMeans'
  BY <1>1, VerifierKept DEF Grown
<1> QED BY <1>4, <1>5, <1>8, <1>9

LEMMA SignerBegins ==
  ASSUME ImagesInv, NEW q \in SignRequests, BeginSignImage(q)
  PROVE  ImagesInv'
<1> USE DEF ImagesInv
<1>1. /\ spc = "idle" /\ sreq' = q /\ began' = head
      /\ UNCHANGED <<head, dirty, sawClean, sreceipt, image, verifierVars>>
      /\ q \in SignRequestType
  BY ImagesAssumption DEF BeginSignImage
<1>2. VerifierPart' /\ ImageVerdictMeans'
  BY <1>1, VerifierKept DEF Grown
<1>3. CASE SignValid(q)
  <2>1. /\ spc' = "clean" /\ UNCHANGED sexit
        /\ revision' = IF q.explicit # None THEN q.explicit ELSE head
    BY <1>3 DEF BeginSignImage
  <2>2. revision' \in Revisions
    BY <1>1, <1>3, <2>1 DEF SignRequestType, SignValid, SignerTypes
  <2>3. SignerTypes'
    BY <1>1, <2>1, <2>2 DEF SignerTypes, Revisions
  <2>4. SignerPart' /\ CleanPart'
    BY <1>1, <2>1 DEF SignerPart, CleanPart, Labelled
  <2> QED BY <1>2, <2>3, <2>4
<1>4. CASE ~ SignValid(q)
  <2>1. spc' = "done" /\ sexit' = 2 /\ UNCHANGED revision
    BY <1>4 DEF BeginSignImage
  <2>2. SignerTypes'
    BY <1>1, <2>1 DEF SignerTypes, Revisions
  <2>3. SignerPart' /\ CleanPart'
    BY <1>1, <2>1 DEF SignerPart, CleanPart, Labelled
  <2> QED BY <1>2, <2>2, <2>3
<1> QED BY <1>3, <1>4

LEMMA SignerChecks ==
  ASSUME ImagesInv, CheckClean
  PROVE  ImagesInv'
<1> USE DEF ImagesInv
<1>1. /\ spc = "clean" /\ sawClean' = IF dirty THEN None ELSE head
      /\ UNCHANGED <<head, dirty, sreq, revision, began, sreceipt, image, verifierVars>>
      /\ \/ sreq.requireClean /\ dirty /\ spc' = "done" /\ sexit' = 1
         \/ ~ (sreq.requireClean /\ dirty) /\ spc' = "cosign" /\ UNCHANGED sexit
  BY DEF CheckClean
<1>2. head # None
  BY ImagesAssumption DEF SignerTypes, Revisions
<1>3. VerifierPart' /\ ImageVerdictMeans'
  BY <1>1, VerifierKept DEF Grown
<1>4. SignerTypes'
  BY <1>1 DEF SignerTypes
<1>5. SignerPart'
  BY <1>1 DEF SignerPart, Labelled
<1>6. CleanPart'
  BY <1>1, <1>2 DEF CleanPart, SignerPart
<1> QED BY <1>3, <1>4, <1>5, <1>6

LEMMA SignerSigns ==
  ASSUME ImagesInv, NEW ok \in BOOLEAN, CosignSign(ok)
  PROVE  ImagesInv'
<1> USE DEF ImagesInv
<1>1. /\ spc = "cosign"
      /\ UNCHANGED <<head, dirty, sreq, revision, began, sawClean, sreceipt, verifierVars>>
  BY DEF CosignSign
<1>2. CASE ok
  <2>1. /\ image' = [image EXCEPT !.signatures = @ \cup {Labelled}]
        /\ spc' = "receipt" /\ UNCHANGED sexit
    BY <1>2 DEF CosignSign, Labelled
  <2>2. Labelled \in SignatureType
    BY <1>1 DEF SignerTypes, Labelled, SignatureType, SignRequestType
  <2>3. /\ image'.sbom = image.sbom /\ image'.slsa = image.slsa /\ image'.keyless = image.keyless
        /\ image'.signatures = image.signatures \cup {Labelled} /\ image' \in ImageType
    BY <2>1, <2>2 DEF SignerTypes, ImageType
  <2>4. VerifierPart' /\ ImageVerdictMeans'
    BY <1>1, <2>3, VerifierKept DEF Grown
  <2>5. SignerTypes'
    BY <1>1, <2>1, <2>3 DEF SignerTypes
  <2>6. Labelled' = Labelled
    BY <1>1 DEF Labelled
  <2>7. SignerPart'
    BY <1>1, <2>1, <2>3, <2>6, ImagesAssumption DEF SignerPart
  <2>8. CleanPart'
    BY <1>1, <2>1 DEF CleanPart
  <2> QED BY <2>4, <2>5, <2>7, <2>8
<1>3. CASE ~ ok
  <2>1. spc' = "done" /\ sexit' = 2 /\ UNCHANGED image
    BY <1>3 DEF CosignSign
  <2>2. VerifierPart' /\ ImageVerdictMeans'
    BY <1>1, <2>1, VerifierKept DEF Grown
  <2>3. SignerTypes' /\ SignerPart' /\ CleanPart'
    BY <1>1, <2>1 DEF SignerTypes, SignerPart, CleanPart, Labelled
  <2> QED BY <2>2, <2>3
<1> QED BY <1>2, <1>3

LEMMA SignerReports ==
  ASSUME ImagesInv, NEW ok \in BOOLEAN, WriteSignReceipt(ok)
  PROVE  ImagesInv'
<1> USE DEF ImagesInv
<1>1. /\ spc = "receipt" /\ spc' = "done"
      /\ sreceipt' = IF ok THEN revision ELSE None
      /\ sexit' = IF ok THEN 0 ELSE 2
      /\ UNCHANGED <<head, dirty, sreq, revision, began, sawClean, image, verifierVars>>
  BY DEF WriteSignReceipt
<1>2. revision # None
  BY <1>1, ImagesAssumption DEF SignerTypes, Revisions
<1>3. VerifierPart' /\ ImageVerdictMeans'
  BY <1>1, VerifierKept DEF Grown
<1>4. SignerTypes' /\ CleanPart'
  BY <1>1 DEF SignerTypes, CleanPart
<1>5. SignerPart'
  BY <1>1, <1>2 DEF SignerPart, Labelled
<1> QED BY <1>3, <1>4, <1>5

LEMMA VerifierBegins ==
  ASSUME ImagesInv, NEW q \in VerifyRequests, NEW r \in BOOLEAN, BeginVerifyImage(q, r)
  PROVE  ImagesInv'
<1> USE DEF ImagesInv
<1>1. /\ ypc = "idle" /\ yreq' = q /\ q \in VerifyRequestType
      /\ UNCHANGED <<head, dirty, signerVars, image, yreceipt>>
  BY ImagesAssumption DEF BeginVerifyImage
<1>2. SignerTypes' /\ SignerPart' /\ CleanPart'
  BY <1>1, SignerKept
<1>3. CASE VerifyValid(q) /\ r
  <2>1. /\ ypc' = "provenance" /\ UNCHANGED yexit
        /\ ychecks' = [c \in ImageChecks |->
             IF c = "sbom" /\ q.sbom THEN Status(CheckSbom(image)) ELSE "skipped"]
    BY <1>3 DEF BeginVerifyImage
  <2>2. ychecks' \in [ImageChecks -> Statuses]
    BY <2>1 DEF Status, Statuses
  <2>3. ychecks'["sbom"] = "pass" => CheckSbom(image)
    BY <2>1 DEF Status, ImageChecks
  <2>4. CheckSbom(image)' = CheckSbom(image) /\ VerifyValid(yreq)'
    BY <1>1, <1>3 DEF CheckSbom, VerifyValid, Required, SignatureAsked
  <2>5. VerifierPart'
    BY <1>1, <2>1, <2>2, <2>3, <2>4 DEF VerifierPart
  <2>6. ImageVerdictMeans'
    <3>1. yexit' = None /\ yexit' # 0
      BY <1>1, <2>1, ImagesAssumption DEF VerifierPart
    <3> QED BY <3>1 DEF ImageVerdictMeans
  <2> QED BY <1>2, <2>5, <2>6
<1>4. CASE ~ (VerifyValid(q) /\ r)
  <2>1. ypc' = "done" /\ yexit' = 2 /\ UNCHANGED ychecks
    BY <1>4 DEF BeginVerifyImage
  <2>2. VerifierPart' /\ ImageVerdictMeans'
    BY <1>1, <2>1 DEF VerifierPart, ImageVerdictMeans
  <2> QED BY <1>2, <2>2
<1> QED BY <1>3, <1>4

LEMMA VerifierInspects ==
  ASSUME ImagesInv, NEW r \in BOOLEAN, InspectProvenance(r)
  PROVE  ImagesInv'
<1> USE DEF ImagesInv
<1>1. ypc = "provenance" /\ UNCHANGED <<head, dirty, signerVars, image, yreq, yreceipt>>
  BY DEF InspectProvenance
<1>2. SignerTypes' /\ SignerPart' /\ CleanPart'
  BY <1>1, SignerKept
<1>3. CASE r \/ (~ yreq.provenance /\ yreq.expected = None)
  <2> DEFINE P == IF yreq.provenance THEN Status(CheckProvenance(image)) ELSE "skipped"
             R == IF yreq.expected # None THEN Status(RevisionBound(image, yreq.expected))
                                          ELSE "skipped"
  <2>1. /\ ypc' = "signature" /\ UNCHANGED yexit
        /\ ychecks' = [ychecks EXCEPT !["provenance"] = P, !["revision"] = R]
    BY <1>3 DEF InspectProvenance
  <2>2. /\ P \in Statuses /\ (P = "pass" => CheckProvenance(image))
        /\ R \in Statuses /\ (R = "pass" => RevisionBound(image, yreq.expected))
    BY DEF Status, Statuses
  <2> HIDE DEF P, R
  <2>3. ychecks \in [ImageChecks -> Statuses] /\ yexit = None /\ yreceipt = None
    BY <1>1 DEF VerifierPart
  <2>4. /\ ychecks' \in [ImageChecks -> Statuses] /\ ychecks'["sbom"] = ychecks["sbom"]
        /\ ychecks'["provenance"] = P /\ ychecks'["revision"] = R
    BY <2>1, <2>2, <2>3 DEF ImageChecks
  <2>5. /\ CheckSbom(image)' = CheckSbom(image)
        /\ CheckProvenance(image)' = CheckProvenance(image)
        /\ RevisionBound(image, yreq.expected)' = RevisionBound(image, yreq.expected)
        /\ VerifyValid(yreq)' = VerifyValid(yreq)
    BY <1>1 DEF CheckSbom, CheckProvenance, RevisionBound, VerifyValid, Required, SignatureAsked
  <2>6. VerifierPart'
    BY <1>1, <2>1, <2>2, <2>3, <2>4, <2>5 DEF VerifierPart
  <2>7. ImageVerdictMeans'
    <3>1. yexit' = None /\ yexit' # 0
      BY <2>1, <2>3, ImagesAssumption
    <3> QED BY <3>1 DEF ImageVerdictMeans
  <2> QED BY <1>2, <2>6, <2>7
<1>4. CASE ~ (r \/ (~ yreq.provenance /\ yreq.expected = None))
  <2>1. ypc' = "done" /\ yexit' = 2 /\ UNCHANGED ychecks
    BY <1>4 DEF InspectProvenance
  <2>2. VerifierPart' /\ ImageVerdictMeans'
    BY <1>1, <2>1 DEF VerifierPart, ImageVerdictMeans
  <2> QED BY <1>2, <2>2
<1> QED BY <1>3, <1>4

LEMMA VerifierAsks ==
  ASSUME ImagesInv, NEW r \in BOOLEAN, VerifyImageSignature(r)
  PROVE  ImagesInv'
<1> USE DEF ImagesInv
<1>1. ypc = "signature" /\ UNCHANGED <<head, dirty, signerVars, image, yreq, yreceipt>>
  BY DEF VerifyImageSignature
<1>2. SignerTypes' /\ SignerPart' /\ CleanPart'
  BY <1>1, SignerKept
<1>3. CASE ~ (yreq.key = "kms" /\ ~ r)
  <2> DEFINE S == IF SignatureAsked(yreq) THEN Status(SignatureFound(yreq)) ELSE "skipped"
  <2>1. /\ ypc' = "receipt" /\ UNCHANGED yexit /\ ychecks' = [ychecks EXCEPT !["signature"] = S]
    BY <1>3 DEF VerifyImageSignature
  <2>2. S \in Statuses /\ (S = "pass" => SignatureFound(yreq))
    BY DEF Status, Statuses
  <2> HIDE DEF S
  <2>3. ychecks \in [ImageChecks -> Statuses] /\ yexit = None /\ yreceipt = None
    BY <1>1 DEF VerifierPart
  <2>4. /\ ychecks' \in [ImageChecks -> Statuses] /\ ychecks'["sbom"] = ychecks["sbom"]
        /\ ychecks'["provenance"] = ychecks["provenance"]
        /\ ychecks'["revision"] = ychecks["revision"] /\ ychecks'["signature"] = S
    BY <2>1, <2>2, <2>3 DEF ImageChecks
  <2>5. /\ CheckSbom(image)' = CheckSbom(image)
        /\ CheckProvenance(image)' = CheckProvenance(image)
        /\ RevisionBound(image, yreq.expected)' = RevisionBound(image, yreq.expected)
        /\ SignatureFound(yreq)' = SignatureFound(yreq)
        /\ VerifyValid(yreq)' = VerifyValid(yreq)
    BY <1>1 DEF CheckSbom, CheckProvenance, RevisionBound, SignatureFound, VerifyValid, Required,
                SignatureAsked
  <2>6. VerifierPart'
    BY <1>1, <2>1, <2>2, <2>3, <2>4, <2>5 DEF VerifierPart
  <2>7. ImageVerdictMeans'
    <3>1. yexit' = None /\ yexit' # 0
      BY <2>1, <2>3, ImagesAssumption
    <3> QED BY <3>1 DEF ImageVerdictMeans
  <2> QED BY <1>2, <2>6, <2>7
<1>4. CASE yreq.key = "kms" /\ ~ r
  <2>1. ypc' = "done" /\ yexit' = 2 /\ UNCHANGED ychecks
    BY <1>4 DEF VerifyImageSignature
  <2>2. VerifierPart' /\ ImageVerdictMeans'
    BY <1>1, <2>1 DEF VerifierPart, ImageVerdictMeans
  <2> QED BY <1>2, <2>2
<1> QED BY <1>3, <1>4

\* What the policy demanded is what the checks established.
LEMMA PassMeans ==
  ASSUME VerifierPart, ypc = "receipt", ImagePasses
  PROVE  /\ yreq.sbom => CheckSbom(image)
         /\ yreq.provenance => CheckProvenance(image)
         /\ yreq.expected # None => RevisionBound(image, yreq.expected)
         /\ SignatureAsked(yreq) => SignatureFound(yreq)
         /\ VerifyValid(yreq)
<1>1. \A q \in Required(yreq) : ychecks[q] = "pass"
  BY DEF ImagePasses, PolicyMet
<1>2. /\ yreq.sbom => "sbom" \in Required(yreq)
      /\ yreq.provenance => "provenance" \in Required(yreq)
      /\ yreq.expected # None => "revision" \in Required(yreq)
      /\ SignatureAsked(yreq) => "signature" \in Required(yreq)
  BY DEF Required, ImageChecks
<1> QED BY <1>1, <1>2 DEF VerifierPart

LEMMA VerifierReports ==
  ASSUME ImagesInv, NEW ok \in BOOLEAN, WriteVerifyReceipt(ok)
  PROVE  ImagesInv'
<1> USE DEF ImagesInv
<1>1. /\ ypc = "receipt" /\ ypc' = "done"
      /\ UNCHANGED <<head, dirty, signerVars, image, yreq, ychecks>>
      /\ yreceipt' = IF ok /\ yreq.record THEN IF ImagePasses THEN 0 ELSE 1 ELSE None
      /\ yexit' = IF ~ ok /\ yreq.record THEN 2 ELSE IF ImagePasses THEN 0 ELSE 1
  BY DEF WriteVerifyReceipt
<1>2. SignerTypes' /\ SignerPart' /\ CleanPart'
  BY <1>1, SignerKept
<1>3. VerifierPart'
  BY <1>1 DEF VerifierPart
<1>4. yreceipt' # None => yreceipt' = yexit'
  BY <1>1
<1>5. yexit' = 0 => ImagePasses
  BY <1>1
<1>6. yexit' = 0 =>
        /\ yreq.sbom => image.sbom # {} /\ FALSE \notin image.sbom
        /\ yreq.provenance => image.slsa # {} /\ \A d \in image.slsa : d.version \in {"v1", "v02"}
        /\ yreq.expected # None =>
             /\ \E d \in image.slsa : d.version = "v1" /\ d.revision = yreq.expected
             /\ \A d \in image.slsa : d.version = "v1" => d.revision = yreq.expected
  <2>1. \A d \in image.slsa : d.version \in {"v1", "v02", "unsound"}
    BY DEF SignerTypes, ImageType, SlsaType
  <2> QED BY <1>1, <1>5, <2>1, PassMeans DEF CheckSbom, CheckProvenance, RevisionBound
<1>7. yexit' = 0 =>
        /\ yreq.sbom \/ yreq.provenance \/ yreq.expected # None \/ yreq.key # None
           \/ (yreq.identity # None /\ yreq.issuer # None)
        /\ yreq.key # None =>
             \E s \in image.signatures : s.key = yreq.key /\ yreq.expected \in {None, s.revision}
        /\ yreq.identity # None =>
             \E s \in image.keyless : /\ s.identity = yreq.identity /\ s.issuer = yreq.issuer
                                      /\ yreq.expected \in {None, s.revision}
  <2> HAVE yexit' = 0
  <2>1. VerifyValid(yreq) /\ (SignatureAsked(yreq) => SignatureFound(yreq))
    BY <1>1, <1>5, PassMeans
  <2>2. yreq.sbom \/ yreq.provenance \/ yreq.expected # None \/ SignatureAsked(yreq)
    BY <2>1 DEF VerifyValid, Required
  <2>3. yreq.key = None \/ yreq.identity = None
    BY <2>1 DEF VerifyValid
  <2>4. yreq.identity # None => yreq.issuer # None
    BY <2>1 DEF VerifyValid
  <2>5. ASSUME yreq.key # None
        PROVE  \E s \in image.signatures : s.key = yreq.key /\ yreq.expected \in {None, s.revision}
    BY <2>1, <2>5 DEF SignatureAsked, SignatureFound
  <2>6. ASSUME yreq.identity # None
        PROVE  \E s \in image.keyless : /\ s.identity = yreq.identity /\ s.issuer = yreq.issuer
                                        /\ yreq.expected \in {None, s.revision}
    BY <2>1, <2>3, <2>4, <2>6 DEF SignatureAsked, SignatureFound
  <2> QED BY <2>2, <2>5, <2>6 DEF SignatureAsked
<1>8. ImageVerdictMeans'
  BY <1>1, <1>4, <1>6, <1>7 DEF ImageVerdictMeans
<1> QED BY <1>2, <1>3, <1>8

LEMMA ImagesStep ==
  ASSUME ImagesInv, [ImagesNext]_imageVars
  PROVE  ImagesInv'
<1>1. CASE UNCHANGED imageVars
  <2>1. UNCHANGED <<head, dirty, signerVars, image>> /\ UNCHANGED verifierVars
    BY <1>1 DEF imageVars, signerVars, verifierVars
  <2> QED BY <2>1, SignerKept, VerifierKept DEF ImagesInv, Grown
<1>2. CASE ImagesNext
  BY <1>2, TreeStep, SignerBegins, SignerChecks, SignerSigns, SignerReports, VerifierBegins,
     VerifierInspects, VerifierAsks, VerifierReports DEF ImagesNext
<1> QED BY <1>1, <1>2

\* The inductive invariant of image signing and verification: what the signer and the
\* verifier have concluded so far, with the observation it stands on (image_signing.rs:141,
\* supply_chain.rs:447).
THEOREM ImagesInvariant == ImagesSpec => []ImagesInv
<1>1. ImagesInit => ImagesInv
  BY ImagesFirst
<1>2. ImagesInv /\ [ImagesNext]_imageVars => ImagesInv'
  BY ImagesStep
<1> QED BY <1>1, <1>2, PTL DEF ImagesSpec

\* For any requests and any commits and edits meanwhile: the signing receipt and the exit
\* code say what was signed (sign_image, image_signing.rs:141).
THEOREM SigningHolds == ImagesSpec => []SigningAccountable
<1>1. ImagesInv => SigningAccountable
  BY DEF ImagesInv, SignerPart, CleanPart, Labelled, SigningAccountable
<1> QED BY <1>1, ImagesInvariant, PTL

\* For any documents, requests and failures of the registry: exit 0 means that what was
\* required is so (SupplyChainVerifier::verify, supply_chain.rs:447).
THEOREM VerdictHolds == ImagesSpec => []ImageVerdictMeans
<1>1. ImagesInv => ImageVerdictMeans
  BY DEF ImagesInv
<1> QED BY <1>1, ImagesInvariant, PTL

----------------------------------------------------------------------------
(* Wrap.  A guard gives back the write bits that it took, to the file that  *)
(* it took them from; until then the file is held.                         *)

WrapPlaces ==
  {"idle", "hold", "protect", "hash", "spawn", "build", "rehash", "outputs", "attest",
   "receipt", "report", "ended", "killed"}

\* What a guard holds: an input that had a write bit.
Holds == [path : WrapInputs, object : {0, 1}, mode : {"rw"}]

Readings == [WrapInputs -> {0, 1}]

WrapTypes ==
  /\ wfile \in [WrapInputs -> PathContent]
  /\ wpc \in [Wrappers -> WrapPlaces]
  /\ look \in [Wrappers -> Holds \cup {None}]
  /\ held \in [Wrappers -> SUBSET Holds]
  /\ seen \in [Wrappers -> Readings \cup {None}]
  /\ wreceipt \in [Wrappers -> Readings \cup {None}]
  /\ build \in [Wrappers -> Nat \cup {None}]
  /\ result \in [Wrappers -> Nat \cup {None}]
  /\ wexit \in [Wrappers -> Nat \cup {None}]

\* A process holds inputs between its first look at them and the end of the command,
\* unless it was killed.
HoldPart ==
  \A w \in Wrappers :
    /\ wpc[w] \notin {"hold", "protect", "hash", "spawn", "build", "killed"} => held[w] = {}
    /\ wpc[w] = "protect" => look[w] \in Holds

\* A file without write bits had none at the start, or a guard will give them back.
GuardPart ==
  \A p \in WrapInputs :
    wfile[p] # None /\ wfile[p].mode = "ro" =>
      \/ wfile[p].object = 0 /\ original[p] = "ro"
      \/ \E w \in Wrappers : \E h \in held[w] : h.path = p /\ h.object = wfile[p].object

\* What is known of the command, and of the receipt, as process w goes on.
OutcomeKnown(w) ==
  /\ wpc[w] \notin {"report", "ended", "killed"} => result[w] = None /\ wreceipt[w] = None
  /\ wpc[w] \in {"rehash", "outputs", "attest", "receipt"} => build[w] # None
  /\ wpc[w] \in {"spawn", "build", "rehash", "outputs", "attest", "receipt"} => seen[w] # None
  /\ result[w] = 0 => build[w] = 0 /\ wreceipt[w] # None
  /\ wreceipt[w] # None => build[w] # None
  /\ wpc[w] = "ended" =>
       /\ build[w] \notin {None, 0} => wexit[w] = build[w]
       /\ wexit[w] = 0 => build[w] = 0 /\ wreceipt[w] # None

OutcomePart == \A w \in Wrappers : OutcomeKnown(w)

WrapInv == WrapTypes /\ HoldPart /\ GuardPart /\ OutcomePart

----------------------------------------------------------------------------
LEMMA ContentFields ==
  ASSUME NEW c \in PathContent, c # None
  PROVE  c \in FileObject /\ c.object \in {0, 1} /\ c.mode \in {"rw", "ro", "closed"}
         /\ c.data \in {0, 1}
BY DEF PathContent, FileObject

\* Dropping a guard: files keep their types, and what it does not give back was not its own.
LEMMA ReleaseStep ==
  ASSUME WrapTypes, GuardPart, NEW w \in Wrappers,
         wfile' = Restored(w), held' = [held EXCEPT ![w] = {}], UNCHANGED original
  PROVE  /\ wfile' \in [WrapInputs -> PathContent]
         /\ held' \in [Wrappers -> SUBSET Holds]
         /\ GuardPart'
<1> DEFINE given(p) == {h \in held[w] : h.path = p /\ wfile[p] # None
                                         /\ h.object = wfile[p].object}
<1>1. \A p \in WrapInputs :
        wfile'[p] = IF given(p) # {} /\ wfile[p].mode # "closed"
                    THEN [wfile[p] EXCEPT !.mode = (CHOOSE h \in given(p) : TRUE).mode]
                    ELSE wfile[p]
  BY DEF Restored
<1>2. \A p \in WrapInputs : given(p) # {} =>
        /\ wfile[p] # None /\ (CHOOSE h \in given(p) : TRUE).mode = "rw"
  <2> SUFFICES ASSUME NEW p \in WrapInputs, given(p) # {}
               PROVE  wfile[p] # None /\ (CHOOSE h \in given(p) : TRUE).mode = "rw"
    OBVIOUS
  <2>1. (CHOOSE h \in given(p) : TRUE) \in given(p)
    OBVIOUS
  <2>2. given(p) \subseteq Holds /\ wfile[p] # None
    BY DEF WrapTypes
  <2> QED BY <2>1, <2>2 DEF Holds
<1>3. \A p \in WrapInputs :
        \/ wfile'[p] = wfile[p] /\ (given(p) = {} \/ wfile[p].mode = "closed")
        \/ wfile[p] # None /\ wfile'[p] = [wfile[p] EXCEPT !.mode = "rw"]
  <2> HIDE DEF given
  <2> QED BY <1>1, <1>2
<1>4. \A p \in WrapInputs : wfile[p] \in PathContent
  BY DEF WrapTypes
<1>5. \A p \in WrapInputs : wfile'[p] \in PathContent
  <2> HIDE DEF given
  <2> SUFFICES ASSUME NEW p \in WrapInputs, wfile[p] # None,
                      wfile'[p] = [wfile[p] EXCEPT !.mode = "rw"]
               PROVE  wfile'[p] \in PathContent
    BY <1>3, <1>4
  <2>1. wfile[p] \in FileObject
    BY <1>4, ContentFields
  <2> QED BY <2>1 DEF PathContent, FileObject
<1>6. wfile' \in [WrapInputs -> PathContent]
  BY <1>5 DEF Restored
<1>7. held' \in [Wrappers -> SUBSET Holds]
  BY DEF WrapTypes
<1>8. GuardPart'
  <2> SUFFICES ASSUME NEW p \in WrapInputs, wfile'[p] # None, wfile'[p].mode = "ro",
                      ~ (wfile'[p].object = 0 /\ original[p] = "ro")
               PROVE  \E v \in Wrappers : \E h \in held'[v] :
                        h.path = p /\ h.object = wfile'[p].object
    BY DEF GuardPart
  <2>1. wfile'[p] = wfile[p] /\ given(p) = {}
    <3>1. CASE wfile[p] # None /\ wfile'[p] = [wfile[p] EXCEPT !.mode = "rw"]
      <4>1. wfile[p] \in FileObject
        BY <1>4, <3>1, ContentFields
      <4> QED BY <4>1, <3>1 DEF FileObject
    <3> HIDE DEF given
    <3> QED BY <3>1, <1>3
  <2>2. PICK v \in Wrappers : \E h \in held[v] : h.path = p /\ h.object = wfile[p].object
    BY <2>1 DEF GuardPart
  <2>3. v # w
    BY <2>1, <2>2
  <2>4. held'[v] = held[v]
    BY <2>3 DEF WrapTypes
  <2> QED BY <2>1, <2>2, <2>4
<1> QED BY <1>6, <1>7, <1>8

\* Files and guards left alone: nothing changes for the guards.
LEMMA SameFiles ==
  ASSUME GuardPart, UNCHANGED <<wfile, held, original>>
  PROVE  GuardPart'
BY DEF GuardPart

----------------------------------------------------------------------------
\* What the user does.  It takes no write bit away.
LEMMA MeddleStep ==
  ASSUME WrapInv, NEW q \in WrapInputs, Meddle(q)
  PROVE  WrapInv'
<1> USE DEF WrapInv
<1>1. UNCHANGED <<original, wpc, look, held, seen, build, result, wreceipt, wexit>>
  BY DEF Meddle
<1>2. \E c : /\ wfile' = [wfile EXCEPT ![q] = c]
             /\ c \in PathContent
             /\ c # None /\ c.mode = "ro" =>
                  wfile[q] # None /\ wfile[q].mode = "ro" /\ c.object = wfile[q].object
  <2>1. CASE WriteInput(q)
    <3>1. wfile[q] \in FileObject /\ wfile[q].mode = "rw"
      BY <2>1, ContentFields DEF WriteInput, WrapTypes
    <3> DEFINE c == [wfile[q] EXCEPT !.data = 1 - @]
    <3>2. c \in FileObject /\ c.mode = "rw"
      BY <3>1 DEF FileObject
    <3>3. wfile' = [wfile EXCEPT ![q] = c]
      BY <2>1 DEF WriteInput
    <3> QED BY <3>2, <3>3 DEF PathContent
  <2>2. CASE RemoveInput(q)
    BY <2>2 DEF RemoveInput, PathContent
  <2>3. CASE ReplaceInput(q)
    <3> DEFINE c == [object |-> 1, mode |-> "rw", data |-> 0]
    <3>1. c \in FileObject /\ c.mode = "rw"
      BY DEF FileObject
    <3>2. wfile' = [wfile EXCEPT ![q] = c]
      BY <2>3 DEF ReplaceInput
    <3> QED BY <3>1, <3>2 DEF PathContent
  <2>4. ASSUME NEW m \in {"rw", "closed"}, ChmodInput(q, m)
        PROVE  \E c : /\ wfile' = [wfile EXCEPT ![q] = c]
                      /\ c \in PathContent
                      /\ c # None /\ c.mode = "ro" =>
                           wfile[q] # None /\ wfile[q].mode = "ro" /\ c.object = wfile[q].object
    <3>1. wfile[q] \in FileObject
      BY <2>4, ContentFields DEF ChmodInput, WrapTypes
    <3> DEFINE c == [wfile[q] EXCEPT !.mode = m]
    <3>2. c \in FileObject /\ c.mode = m
      BY <3>1 DEF FileObject
    <3>3. wfile' = [wfile EXCEPT ![q] = c]
      BY <2>4 DEF ChmodInput
    <3> QED BY <3>2, <3>3 DEF PathContent
  <2> QED BY <2>1, <2>2, <2>3, <2>4 DEF Meddle
<1>3. WrapTypes'
  BY <1>1, <1>2 DEF WrapTypes
<1>4. HoldPart'
  BY <1>1 DEF HoldPart
<1>5. GuardPart'
  <2> SUFFICES ASSUME NEW p \in WrapInputs, wfile'[p] # None, wfile'[p].mode = "ro"
               PROVE  \/ wfile'[p].object = 0 /\ original'[p] = "ro"
                      \/ \E w \in Wrappers : \E h \in held'[w] :
                           h.path = p /\ h.object = wfile'[p].object
    BY DEF GuardPart
  <2>1. wfile[p] # None /\ wfile[p].mode = "ro" /\ wfile'[p].object = wfile[p].object
    BY <1>2 DEF WrapTypes
  <2> QED BY <2>1, <1>1 DEF GuardPart
<1>6. OutcomePart'
  BY <1>1 DEF OutcomePart, OutcomeKnown
<1> QED BY <1>3, <1>4, <1>5, <1>6

\* A process that leaves files, guards and what is known alone, but for its place.
LEMMA BeginStep ==
  ASSUME WrapInv, NEW w \in Wrappers, NEW root \in BOOLEAN, BeginWrap(w, root)
  PROVE  WrapInv'
<1> USE DEF WrapInv, BeginWrap
<1>1. WrapTypes'
  BY DEF WrapTypes, WrapPlaces
<1>2. HoldPart'
  BY DEF HoldPart, WrapTypes
<1>3. GuardPart'
  BY SameFiles
<1>4. OutcomePart'
  BY DEF OutcomePart, OutcomeKnown, WrapTypes
<1> QED BY <1>1, <1>2, <1>3, <1>4

LEMMA LookStep ==
  ASSUME WrapInv, NEW w \in Wrappers, NEW p \in WrapInputs, LookAtInput(w, p)
  PROVE  WrapInv'
<1> USE DEF WrapInv
<1>1. /\ UNCHANGED <<wfile, original, held, seen, build, result, wreceipt, wexit>>
      /\ wpc[w] = "hold"
  BY DEF LookAtInput
<1>2. \/ UNCHANGED <<wpc, look>>
      \/ /\ wpc' = [wpc EXCEPT ![w] = "protect"]
         /\ look' = [look EXCEPT ![w] = Identified(p)]
         /\ Identified(p) \in Holds
  <2>1. CASE wfile[p] # None /\ wfile[p].mode = "rw"
    <3>1. wfile[p].object \in {0, 1}
      BY <2>1, ContentFields DEF WrapTypes
    <3>2. Identified(p) \in Holds
      BY <2>1, <3>1 DEF Identified, Holds
    <3> QED BY <2>1, <3>2 DEF LookAtInput
  <2>2. CASE ~ (wfile[p] # None /\ wfile[p].mode = "rw")
    BY <2>2 DEF LookAtInput
  <2> QED BY <2>1, <2>2
<1>3. WrapTypes'
  BY <1>1, <1>2 DEF WrapTypes, WrapPlaces
<1>4. HoldPart'
  BY <1>1, <1>2 DEF HoldPart, WrapTypes
<1>5. GuardPart'
  BY <1>1, SameFiles
<1>6. OutcomePart'
  BY <1>1, <1>2 DEF OutcomePart, OutcomeKnown, WrapTypes
<1> QED BY <1>3, <1>4, <1>5, <1>6

\* run_wrap_inner returns early, before the command ended.
LEMMA GiveUpStep ==
  ASSUME WrapInv, NEW w \in Wrappers, NEW code \in Nat \ {0}, GiveUp(w, code),
         wpc[w] \in {"hold", "protect", "hash", "spawn"},
         UNCHANGED <<original, look, seen, build, wreceipt, wexit>>
  PROVE  WrapInv'
<1> USE DEF WrapInv
<1>1. /\ wpc' = [wpc EXCEPT ![w] = "report"] /\ result' = [result EXCEPT ![w] = code]
      /\ held' = [held EXCEPT ![w] = {}]
  BY DEF GiveUp
<1>2. /\ wfile' \in [WrapInputs -> PathContent] /\ held' \in [Wrappers -> SUBSET Holds]
      /\ GuardPart'
  BY ReleaseStep DEF GiveUp
<1>3. WrapTypes'
  BY <1>1, <1>2 DEF WrapTypes, WrapPlaces
<1>4. HoldPart'
  BY <1>1 DEF HoldPart, WrapTypes
<1>5. OutcomePart'
  BY <1>1, WrapAssumption DEF OutcomePart, OutcomeKnown, WrapTypes
<1> QED BY <1>2, <1>3, <1>4, <1>5

LEMMA ProtectStep ==
  ASSUME WrapInv, NEW w \in Wrappers, Protect(w)
  PROVE  WrapInv'
<1> USE DEF WrapInv
<1> DEFINE p == look[w].path
           good == /\ wfile[p] # None /\ wfile[p].mode # "closed"
                   /\ wfile[p].object = look[w].object
<1>1. /\ wpc[w] = "protect" /\ look[w] \in Holds
      /\ UNCHANGED <<original, look, seen, build, wreceipt, wexit>>
  BY DEF Protect, HoldPart
<1>2. p \in WrapInputs /\ wfile[p] \in PathContent
  BY <1>1 DEF Holds, WrapTypes
<1>3. CASE good
  <2>1. /\ wfile' = [wfile EXCEPT ![p].mode = "ro"]
        /\ held' = [held EXCEPT ![w] = @ \cup {look[w]}]
        /\ wpc' = [wpc EXCEPT ![w] = "hold"] /\ UNCHANGED result
    BY <1>3 DEF Protect
  <2>2. wfile[p] \in FileObject
    BY <1>2, <1>3, ContentFields
  <2> DEFINE c == [wfile[p] EXCEPT !.mode = "ro"]
  <2>3. c \in FileObject /\ c.object = wfile[p].object
    BY <2>2 DEF FileObject
  <2>4. wfile' = [wfile EXCEPT ![p] = c]
    BY <2>1
  <2> HIDE DEF c
  <2>5. WrapTypes'
    BY <1>1, <1>2, <2>1, <2>3, <2>4 DEF WrapTypes, WrapPlaces, PathContent
  <2>6. HoldPart'
    BY <1>1, <2>1 DEF HoldPart, WrapTypes
  <2>7. GuardPart'
    <3> SUFFICES ASSUME NEW q \in WrapInputs, wfile'[q] # None, wfile'[q].mode = "ro"
                 PROVE  \/ wfile'[q].object = 0 /\ original'[q] = "ro"
                        \/ \E v \in Wrappers : \E h \in held'[v] :
                             h.path = q /\ h.object = wfile'[q].object
      BY DEF GuardPart
    <3>1. CASE q = p
      <4>1. look[w] \in held'[w] /\ wfile'[q] = c
        BY <3>1, <1>2, <2>1, <2>4 DEF WrapTypes
      <4> QED BY <3>1, <4>1, <2>3, <1>3
    <3>2. CASE q # p
      <4>1. wfile'[q] = wfile[q]
        BY <3>2, <2>4 DEF WrapTypes
      <4>2. \A v \in Wrappers : held[v] \subseteq held'[v]
        BY <2>1 DEF WrapTypes
      <4> HIDE DEF p
      <4> QED BY <4>1, <4>2, <1>1 DEF GuardPart
    <3> QED BY <3>1, <3>2
  <2>8. OutcomePart'
    BY <1>1, <2>1 DEF OutcomePart, OutcomeKnown, WrapTypes
  <2> QED BY <2>5, <2>6, <2>7, <2>8
<1>4. CASE ~ good
  <2>1. GiveUp(w, 2)
    BY <1>4 DEF Protect
  <2> QED BY <1>1, <2>1, GiveUpStep
<1> QED BY <1>3, <1>4

LEMMA HashStep ==
  ASSUME WrapInv, NEW w \in Wrappers, HashBefore(w)
  PROVE  WrapInv'
<1> USE DEF WrapInv
<1>1. /\ wpc[w] \in {"hold", "hash"}
      /\ UNCHANGED <<original, look, build, wreceipt, wexit>>
  BY DEF HashBefore
<1>2. CASE Hashable(w)
  <2>1. /\ seen' = [seen EXCEPT ![w] = Data] /\ wpc' = [wpc EXCEPT ![w] = "spawn"]
        /\ UNCHANGED <<wfile, held, result>>
    BY <1>2 DEF HashBefore
  <2>2. Data \in Readings
    <3> SUFFICES ASSUME NEW p \in WrapInputs PROVE wfile[p].data \in {0, 1}
      BY DEF Data, Readings
    <3> QED BY <1>2, ContentFields DEF Hashable, WrapTypes
  <2>3. Data # None
    BY <2>2, WrapAssumption DEF Readings
  <2>4. WrapTypes'
    BY <1>1, <2>1, <2>2 DEF WrapTypes, WrapPlaces
  <2>5. HoldPart'
    BY <1>1, <2>1 DEF HoldPart, WrapTypes
  <2>6. GuardPart'
    BY <1>1, <2>1, SameFiles
  <2>7. OutcomePart'
    BY <1>1, <2>1, <2>3 DEF OutcomePart, OutcomeKnown, WrapTypes
  <2> QED BY <2>4, <2>5, <2>6, <2>7
<1>3. CASE ~ Hashable(w)
  BY <1>1, <1>3, GiveUpStep DEF HashBefore
<1> QED BY <1>2, <1>3

LEMMA SpawnStep ==
  ASSUME WrapInv, NEW w \in Wrappers, NEW ok \in BOOLEAN, SpawnBuild(w, ok)
  PROVE  WrapInv'
<1> USE DEF WrapInv
<1>1. wpc[w] = "spawn" /\ UNCHANGED <<original, look, seen, build, wreceipt, wexit>>
  BY DEF SpawnBuild
<1>2. CASE ok
  <2>1. wpc' = [wpc EXCEPT ![w] = "build"] /\ UNCHANGED <<wfile, held, result>>
    BY <1>2 DEF SpawnBuild
  <2>2. WrapTypes'
    BY <1>1, <2>1 DEF WrapTypes, WrapPlaces
  <2>3. HoldPart'
    BY <1>1, <2>1 DEF HoldPart, WrapTypes
  <2>4. GuardPart'
    BY <1>1, <2>1, SameFiles
  <2>5. OutcomePart'
    BY <1>1, <2>1 DEF OutcomePart, OutcomeKnown, WrapTypes
  <2> QED BY <2>2, <2>3, <2>4, <2>5
<1>3. CASE ~ ok
  BY <1>1, <1>3, GiveUpStep DEF SpawnBuild
<1> QED BY <1>2, <1>3

\* The command ends: the guard is dropped, and its exit code is known.
LEMMA EndStep ==
  ASSUME WrapInv, NEW w \in Wrappers, NEW code \in BuildCodes, EndBuild(w, code)
  PROVE  WrapInv'
<1> USE DEF WrapInv
<1>1. /\ wpc[w] = "build" /\ build' = [build EXCEPT ![w] = code]
      /\ held' = [held EXCEPT ![w] = {}] /\ wpc' = [wpc EXCEPT ![w] = "rehash"]
      /\ UNCHANGED <<original, look, seen, result, wreceipt, wexit>>
  BY DEF EndBuild
<1>2. /\ wfile' \in [WrapInputs -> PathContent] /\ held' \in [Wrappers -> SUBSET Holds]
      /\ GuardPart'
  BY ReleaseStep DEF EndBuild
<1>3. code \in Nat /\ None \notin Nat
  BY WrapAssumption
<1>4. WrapTypes'
  BY <1>1, <1>2, <1>3 DEF WrapTypes, WrapPlaces
<1>5. HoldPart'
  BY <1>1 DEF HoldPart, WrapTypes
<1>6. OutcomePart'
  BY <1>1, <1>3 DEF OutcomePart, OutcomeKnown, WrapTypes
<1> QED BY <1>2, <1>4, <1>5, <1>6

\* A step of the attestation fails with a code that is not 0, or goes on.
LEMMA AttestingStep ==
  ASSUME WrapInv, NEW w \in Wrappers, NEW from, NEW to, NEW ok \in BOOLEAN, NEW code \in Nat \ {0},
         <<from, to>> \in {<<"rehash", "outputs">>, <<"outputs", "attest">>, <<"attest", "receipt">>},
         Attesting(w, from, to, ok, code), UNCHANGED wreceipt
  PROVE  WrapInv'
<1> USE DEF WrapInv
<1>1. /\ wpc[w] \in {"rehash", "outputs", "attest"}
      /\ wpc' = [wpc EXCEPT ![w] = IF ok THEN to ELSE "report"]
      /\ to \in {"outputs", "attest", "receipt"}
      /\ result' = IF ok THEN result ELSE [result EXCEPT ![w] = code]
      /\ UNCHANGED <<wfile, original, look, held, seen, build, wexit, wreceipt>>
  BY DEF Attesting
<1>2. WrapTypes'
  BY <1>1 DEF WrapTypes, WrapPlaces
<1>3. HoldPart'
  BY <1>1 DEF HoldPart, WrapTypes
<1>4. GuardPart'
  BY <1>1, SameFiles
<1>5. OutcomePart'
  BY <1>1, WrapAssumption DEF OutcomePart, OutcomeKnown, WrapTypes
<1> QED BY <1>2, <1>3, <1>4, <1>5

LEMMA IncompleteCode ==
  ASSUME WrapInv, NEW w \in Wrappers, wpc[w] \in {"rehash", "outputs"}
  PROVE  Incomplete(w) \in Nat \ {0}
BY DEF WrapInv, WrapTypes, OutcomePart, OutcomeKnown, Incomplete

LEMMA ReceiptStep ==
  ASSUME WrapInv, NEW w \in Wrappers, NEW ok \in BOOLEAN, WriteReceipt(w, ok)
  PROVE  WrapInv'
<1> USE DEF WrapInv
<1>1. /\ wpc[w] = "receipt" /\ wpc' = [wpc EXCEPT ![w] = "report"]
      /\ result' = [result EXCEPT ![w] = IF ok THEN build[w] ELSE 2]
      /\ wreceipt' = IF ok THEN [wreceipt EXCEPT ![w] = seen[w]] ELSE wreceipt
      /\ UNCHANGED <<wfile, original, look, held, seen, build, wexit>>
  BY DEF WriteReceipt
<1>2. WrapTypes'
  BY <1>1 DEF WrapTypes, WrapPlaces
<1>3. HoldPart'
  BY <1>1 DEF HoldPart, WrapTypes
<1>4. GuardPart'
  BY <1>1, SameFiles
<1>5. OutcomePart'
  BY <1>1, WrapAssumption DEF OutcomePart, OutcomeKnown, WrapTypes
<1> QED BY <1>2, <1>3, <1>4, <1>5

LEMMA ReportStep ==
  ASSUME WrapInv, NEW w \in Wrappers, NEW ok \in BOOLEAN, WriteReport(w, ok)
  PROVE  WrapInv'
<1> USE DEF WrapInv
<1>1. /\ wpc[w] = "report" /\ wpc' = [wpc EXCEPT ![w] = "ended"]
      /\ wexit' = [wexit EXCEPT ![w] = IF build[w] \notin {None, 0} THEN build[w]
                                       ELSE IF ~ ok THEN 2 ELSE result[w]]
      /\ UNCHANGED <<wfile, original, look, held, seen, build, result, wreceipt>>
  BY DEF WriteReport
<1>2. WrapTypes'
  BY <1>1 DEF WrapTypes, WrapPlaces
<1>3. HoldPart'
  BY <1>1 DEF HoldPart, WrapTypes
<1>4. GuardPart'
  BY <1>1, SameFiles
<1>5. OutcomePart'
  BY <1>1, WrapAssumption DEF OutcomePart, OutcomeKnown, WrapTypes
<1> QED BY <1>2, <1>3, <1>4, <1>5

LEMMA KillStep ==
  ASSUME WrapInv, NEW w \in Wrappers, KillWrapper(w)
  PROVE  WrapInv'
<1> USE DEF WrapInv, KillWrapper
<1>1. WrapTypes'
  BY DEF WrapTypes, WrapPlaces
<1>2. HoldPart'
  BY DEF HoldPart, WrapTypes
<1>3. GuardPart'
  BY SameFiles
<1>4. OutcomePart'
  BY DEF OutcomePart, OutcomeKnown, WrapTypes
<1> QED BY <1>1, <1>2, <1>3, <1>4

LEMMA WrapFirst ==
  ASSUME WrapInit
  PROVE  WrapInv
<1> USE DEF WrapInit
<1>1. \A p \in WrapInputs :
        wfile[p] \in FileObject /\ wfile[p].object = 0 /\ original[p] = wfile[p].mode
  BY DEF FileObject
<1>2. WrapTypes
  BY <1>1 DEF WrapTypes, WrapPlaces, PathContent
<1>3. HoldPart
  BY DEF HoldPart
<1>4. GuardPart
  BY <1>1 DEF GuardPart
<1>5. OutcomePart
  BY WrapAssumption DEF OutcomePart, OutcomeKnown
<1> QED BY <1>2, <1>3, <1>4, <1>5 DEF WrapInv

LEMMA WrapStep ==
  ASSUME WrapInv, [WrapNext]_wrapVars
  PROVE  WrapInv'
<1>1. CASE UNCHANGED wrapVars
  BY <1>1 DEF wrapVars, WrapInv, WrapTypes, HoldPart, GuardPart, OutcomePart, OutcomeKnown
<1>2. ASSUME NEW w \in Wrappers, Rehash(w)
      PROVE  WrapInv'
  <2>1. wpc[w] = "rehash"
    BY <1>2 DEF Rehash, Attesting
  <2>2. Incomplete(w) \in Nat \ {0}
    BY <2>1, IncompleteCode
  <2> DEFINE same == Hashable(w) /\ Data = seen[w]
  <2>3. same \in BOOLEAN
    OBVIOUS
  <2>4. Attesting(w, "rehash", "outputs", same, Incomplete(w)) /\ UNCHANGED wreceipt
    BY <1>2 DEF Rehash
  <2> HIDE DEF same
  <2> QED BY <2>2, <2>3, <2>4, AttestingStep
<1>3. ASSUME NEW w \in Wrappers, NEW ok \in BOOLEAN, HashOutputs(w, ok)
      PROVE  WrapInv'
  <2>1. wpc[w] = "outputs"
    BY <1>3 DEF HashOutputs, Attesting
  <2>2. Incomplete(w) \in Nat \ {0}
    BY <2>1, IncompleteCode
  <2> QED BY <1>3, <2>2, AttestingStep DEF HashOutputs
<1>4. ASSUME NEW w \in Wrappers, NEW ok \in BOOLEAN, Attest(w, ok)
      PROVE  WrapInv'
  <2>1. 2 \in Nat \ {0}
    OBVIOUS
  <2> QED BY <1>4, <2>1, AttestingStep DEF Attest
<1>5. CASE WrapNext
  BY <1>2, <1>3, <1>4, <1>5, MeddleStep, BeginStep, LookStep, ProtectStep, HashStep, SpawnStep,
     EndStep, ReceiptStep, ReportStep, KillStep DEF WrapNext
<1> QED BY <1>1, <1>5

\* The inductive invariant of `attest run --wrap`: what each process has protected it still
\* holds, what it will restore is what it found, and how it ends follows from what its build
\* and its receipt did (run_wrap_with_report, wrap.rs:92).
THEOREM WrapInvariant == WrapSpec => []WrapInv
<1>1. WrapInit => WrapInv
  BY WrapFirst
<1>2. WrapInv /\ [WrapNext]_wrapVars => WrapInv'
  BY WrapStep
<1> QED BY <1>1, <1>2, PTL DEF WrapSpec

\* For any number of processes of `attest run --wrap`, any inputs and any exit codes: the
\* exit code of a build that failed is that of the process, and 0 means a build that
\* succeeded and a receipt (run_wrap_with_report, wrap.rs:92).
THEOREM ExitCodeHolds == WrapSpec => []FailureNeverMasked
<1>1. WrapInv => FailureNeverMasked
  BY DEF WrapInv, OutcomePart, OutcomeKnown, FailureNeverMasked
<1> QED BY <1>1, WrapInvariant, PTL

\* For any number of overlapping guards over any inputs, and whatever is done to these
\* meanwhile: once all guards are dropped no input is left without the write bits it had
\* (InputGuard, executor/mod.rs:302).
THEOREM PermissionsHold == WrapSpec => []PermissionsRestored
<1>1. WrapInv => PermissionsRestored
  BY DEF WrapInv, HoldPart, GuardPart, PermissionsRestored
<1> QED BY <1>1, WrapInvariant, PTL

----------------------------------------------------------------------------
(* The step cache.  The sum of the sizes is a fold that takes the members  *)
(* of a set in some order; that no order matters, and that a smaller set   *)
(* has no larger sum, is shown by taking a smallest counterexample.        *)

\* A set of numbers with a member has a least one.
LEMMA LeastOf ==
  ASSUME NEW T \in SUBSET Nat, T # {}
  PROVE  \E x \in T : \A y \in T : x <= y
<1> DEFINE R == OpToRel(<, Nat)
<1>1. IsWellFoundedOn(R, Nat)
  BY NatLessThanWellFounded
<1>2. \A x, y \in Nat : x < y => <<x, y>> \in R
  BY DEF OpToRel
<1> HIDE DEF R
<1>3. PICK x \in T : \A y \in T : ~ (<<y, x>> \in R)
  BY <1>1, WFMin, Zenon
<1>4. ASSUME NEW y \in T PROVE x <= y
  <2>1. x \in Nat /\ y \in Nat
    OBVIOUS
  <2>2. ~(y < x)
    BY <1>2, <1>3, <2>1, Zenon
  <2> QED BY <2>1, <2>2
<1> QED BY <1>4

\* Among finite sets there is one with the fewest members.
LEMMA SmallestOf ==
  ASSUME NEW F, F # {}, \A s \in F : IsFiniteSet(s)
  PROVE  \E s \in F : \A t \in F : ~(Cardinality(t) < Cardinality(s))
<1> DEFINE R == OpToRel(<, Nat)
           T == {Cardinality(s) : s \in F}
<1>1. IsWellFoundedOn(R, Nat)
  BY NatLessThanWellFounded
<1>2. \A x, y \in Nat : x < y => <<x, y>> \in R
  BY DEF OpToRel
<1>3. T \in SUBSET Nat /\ T # {}
  BY FS_CardinalityType
<1> HIDE DEF R, T
<1>4. PICK x \in T : \A y \in T : ~ (<<y, x>> \in R)
  BY <1>1, <1>3, WFMin, Zenon
<1>5. PICK s \in F : x = Cardinality(s)
  BY <1>4 DEF T
<1>6. ASSUME NEW t \in F PROVE ~(Cardinality(t) < Cardinality(s))
  <2>1. Cardinality(t) \in T /\ Cardinality(t) \in Nat /\ x \in Nat
    BY <1>3 DEF T
  <2> QED BY <1>2, <1>4, <1>5, <2>1
<1> QED BY <1>6

\* The member the fold takes first.
Pick(s) == CHOOSE x \in s : TRUE

IsSum(f, S) ==
  f = [s \in SUBSET S |-> IF s = {} THEN 0 ELSE EntrySize[Pick(s)] + f[s \ {Pick(s)}]]

LEMMA BytesDef == \A S : Bytes(S) = (CHOOSE f : IsSum(f, S))[S]
BY DEF Bytes, SumFunctionOnSet, FoldFunctionOnSet, MapThenFoldSet, IsSum, Pick

LEMMA SumStep ==
  ASSUME NEW f, NEW S, IsSum(f, S), NEW s \in SUBSET S
  PROVE  /\ s = {} => f[s] = 0
         /\ s # {} => f[s] = EntrySize[Pick(s)] + f[s \ {Pick(s)}]
BY DEF IsSum

\* Taking the first member leaves a smaller set.
LEMMA Rest ==
  ASSUME NEW s, IsFiniteSet(s), s # {}
  PROVE  /\ Pick(s) \in s /\ IsFiniteSet(s \ {Pick(s)})
         /\ Cardinality(s \ {Pick(s)}) < Cardinality(s)
<1>1. Pick(s) \in s
  BY DEF Pick
<1>2. Cardinality(s) \in Nat
  BY FS_CardinalityType
<1>3. IsFiniteSet(s \ {Pick(s)}) /\ Cardinality(s \ {Pick(s)}) = Cardinality(s) - 1
  BY <1>1, FS_RemoveElement
<1> QED BY <1>1, <1>2, <1>3

\* Two sums agree where both are defined.
LEMMA SumsAgree ==
  ASSUME NEW f, NEW A, IsSum(f, A), NEW g, NEW B, IsSum(g, B),
         NEW s, s \subseteq A, s \subseteq B, IsFiniteSet(s)
  PROVE  f[s] = g[s]
<1> DEFINE F == {t \in SUBSET s : f[t] # g[t]}
<1> SUFFICES ASSUME F # {} PROVE FALSE
  OBVIOUS
<1>1. \A t \in F : IsFiniteSet(t)
  BY FS_Subset
<1> HIDE DEF F
<1>2. PICK t \in F : \A u \in F : ~(Cardinality(u) < Cardinality(t))
  BY <1>1, SmallestOf
<1>3. t \in SUBSET A /\ t \in SUBSET B /\ t \in SUBSET s /\ f[t] # g[t] /\ IsFiniteSet(t)
  BY <1>1, <1>2 DEF F
<1>4. CASE t = {}
  BY <1>3, <1>4, SumStep
<1>5. CASE t # {}
  <2> DEFINE r == t \ {Pick(t)}
  <2>1. r \notin F /\ r \in SUBSET s
    BY <1>2, <1>3, <1>5, Rest
  <2>2. f[r] = g[r]
    BY <2>1 DEF F
  <2>3. f[t] = EntrySize[Pick(t)] + f[r] /\ g[t] = EntrySize[Pick(t)] + g[r]
    BY <1>3, <1>5, SumStep
  <2> QED BY <2>2, <2>3, <1>3
<1> QED BY <1>4, <1>5

\* The fold over a finite set is defined.
LEMMA SumExists ==
  ASSUME NEW S, IsFiniteSet(S)
  PROVE  \E f : IsSum(f, S)
<1> DEFINE F == {t \in SUBSET S : ~ \E f : IsSum(f, t)}
<1> SUFFICES ASSUME F # {} PROVE FALSE
  OBVIOUS
<1>1. \A t \in F : IsFiniteSet(t)
  BY FS_Subset
<1> HIDE DEF F
<1>2. PICK t \in F : \A u \in F : ~(Cardinality(u) < Cardinality(t))
  BY <1>1, SmallestOf
<1>3. t \in SUBSET S /\ IsFiniteSet(t) /\ ~ \E f : IsSum(f, t)
  BY <1>1, <1>2 DEF F
<1> DEFINE G(u) == CHOOSE f : IsSum(f, u)
           W == [s \in SUBSET t |->
                   IF s = {} THEN 0 ELSE EntrySize[Pick(s)] + G(s \ {Pick(s)})[s \ {Pick(s)}]]
<1>4. ASSUME NEW u \in SUBSET t, Cardinality(u) < Cardinality(t)
      PROVE  IsSum(G(u), u)
  <2>1. u \notin F /\ u \in SUBSET S
    BY <1>2, <1>3, <1>4
  <2> QED BY <2>1 DEF F
<1>5. ASSUME NEW s \in SUBSET t, s # {}
      PROVE  W[s \ {Pick(s)}] = G(s \ {Pick(s)})[s \ {Pick(s)}]
  <2> DEFINE r == s \ {Pick(s)}
  <2>1. IsFiniteSet(s) /\ Cardinality(s) <= Cardinality(t)
    BY <1>3, FS_Subset
  <2>2. r \in SUBSET t /\ IsFiniteSet(r) /\ Cardinality(r) < Cardinality(s)
    BY <1>5, <2>1, Rest
  <2> HIDE DEF r
  <2>3. /\ Cardinality(r) \in Nat /\ Cardinality(s) \in Nat /\ Cardinality(t) \in Nat
    BY <1>3, <2>1, <2>2, FS_CardinalityType
  <2>4. Cardinality(r) < Cardinality(t)
    BY <2>1, <2>2, <2>3
  <2>5. IsSum(G(r), r)
    BY <1>4, <2>2, <2>4
  <2> HIDE DEF G
  <2> SUFFICES W[r] = G(r)[r]
    BY DEF r
  <2>6. CASE r = {}
    <3>1. W[r] = 0
      BY <2>2, <2>6
    <3>2. G(r)[r] = 0
      BY <2>5, <2>6, SumStep
    <3> QED BY <3>1, <3>2
  <2>7. CASE r # {}
    <3> DEFINE q == r \ {Pick(r)}
    <3>1. q \in SUBSET t /\ q \subseteq r /\ IsFiniteSet(q) /\ Cardinality(q) < Cardinality(r)
      BY <2>2, <2>7, Rest
    <3>2. Cardinality(q) < Cardinality(t)
      BY <3>1, <2>3, <2>4, FS_CardinalityType
    <3>3. IsSum(G(q), q)
      BY <1>4, <3>1, <3>2
    <3>4. G(q)[q] = G(r)[q]
      BY <2>5, <3>1, <3>3, SumsAgree
    <3>5. G(r)[r] = EntrySize[Pick(r)] + G(r)[q]
      BY <2>5, <2>7, SumStep
    <3>6. W[r] = EntrySize[Pick(r)] + G(q)[q]
      BY <2>2, <2>7
    <3> HIDE DEF W, q
    <3> QED BY <3>4, <3>5, <3>6
  <2> QED BY <2>6, <2>7
<1>6. IsSum(W, t)
  <2> DEFINE V == [s \in SUBSET t |-> IF s = {} THEN 0 ELSE EntrySize[Pick(s)] + W[s \ {Pick(s)}]]
  <2>1. ASSUME NEW s \in SUBSET t PROVE W[s] = V[s]
    <3>1. CASE s = {}
      BY <3>1
    <3>2. CASE s # {}
      <4>1. V[s] = EntrySize[Pick(s)] + W[s \ {Pick(s)}]
        BY <3>2
      <4>2. W[s] = EntrySize[Pick(s)] + G(s \ {Pick(s)})[s \ {Pick(s)}]
        BY <3>2
      <4> HIDE DEF W, V, G
      <4> QED BY <4>1, <4>2, <3>2, <1>5
    <3> QED BY <3>1, <3>2
  <2>2. W = V
    <3>1. W = [s \in SUBSET t |-> W[s]] /\ V = [s \in SUBSET t |-> V[s]]
      OBVIOUS
    <3> HIDE DEF W, V
    <3> QED BY <2>1, <3>1
  <2> HIDE DEF W
  <2> QED BY <2>2 DEF IsSum
<1> HIDE DEF W
<1> QED BY <1>3, <1>6

\* The sum of a set is that of its first member and the rest.
LEMMA BytesStep ==
  ASSUME NEW S, IsFiniteSet(S)
  PROVE  /\ S = {} => Bytes(S) = 0
         /\ S # {} => Bytes(S) = EntrySize[Pick(S)] + Bytes(S \ {Pick(S)})
<1> DEFINE G(u) == CHOOSE f : IsSum(f, u)
<1>1. \A u : IsFiniteSet(u) => IsSum(G(u), u)
  BY SumExists
<1>2. \A u : Bytes(u) = G(u)[u]
  BY BytesDef
<1> HIDE DEF G
<1>3. CASE S = {}
  BY <1>1, <1>2, <1>3, SumStep
<1>4. CASE S # {}
  <2> DEFINE r == S \ {Pick(S)}
  <2>1. r \subseteq S /\ IsFiniteSet(r)
    BY <1>4, Rest
  <2>2. G(S)[S] = EntrySize[Pick(S)] + G(S)[r]
    BY <1>1, <1>4, SumStep
  <2>3. G(S)[r] = G(r)[r]
    <3>1. IsSum(G(S), S) /\ IsSum(G(r), r)
      BY <1>1, <2>1
    <3> HIDE DEF r
    <3> QED BY <3>1, <2>1, SumsAgree
  <2> QED BY <1>2, <1>4, <2>2, <2>3
<1> QED BY <1>3, <1>4

\* A sum of sizes is a number.
LEMMA BytesNat ==
  ASSUME NEW S \in SUBSET CacheKeys, IsFiniteSet(S)
  PROVE  Bytes(S) \in Nat
<1> DEFINE F == {t \in SUBSET S : Bytes(t) \notin Nat}
<1> SUFFICES ASSUME F # {} PROVE FALSE
  OBVIOUS
<1>1. \A t \in F : IsFiniteSet(t)
  BY FS_Subset
<1> HIDE DEF F
<1>2. PICK t \in F : \A u \in F : ~(Cardinality(u) < Cardinality(t))
  BY <1>1, SmallestOf
<1>3. t \in SUBSET S /\ Bytes(t) \notin Nat /\ IsFiniteSet(t)
  BY <1>1, <1>2 DEF F
<1>4. t # {}
  BY <1>3, BytesStep
<1> DEFINE r == t \ {Pick(t)}
<1>5. r \notin F /\ r \in SUBSET S /\ Pick(t) \in CacheKeys
  BY <1>2, <1>3, <1>4, Rest
<1>6. Bytes(r) \in Nat /\ Bytes(t) = EntrySize[Pick(t)] + Bytes(r)
  BY <1>3, <1>4, <1>5, BytesStep DEF F
<1>7. EntrySize[Pick(t)] \in Nat
  BY <1>5, CacheAssumption
<1> HIDE DEF r
<1> QED BY <1>3, <1>6, <1>7

\* Any member may be taken first.
LEMMA BytesTake ==
  ASSUME NEW S \in SUBSET CacheKeys, IsFiniteSet(S), NEW x \in S
  PROVE  Bytes(S) = EntrySize[x] + Bytes(S \ {x})
<1> DEFINE F == {t \in SUBSET S : \E y \in t : Bytes(t) # EntrySize[y] + Bytes(t \ {y})}
<1> SUFFICES ASSUME F # {} PROVE FALSE
  OBVIOUS
<1>1. \A t \in F : IsFiniteSet(t)
  BY FS_Subset
<1> HIDE DEF F
<1>2. PICK t \in F : \A u \in F : ~(Cardinality(u) < Cardinality(t))
  BY <1>1, SmallestOf
<1>3. PICK y \in t : Bytes(t) # EntrySize[y] + Bytes(t \ {y})
  BY <1>2 DEF F
<1>4. t \in SUBSET S /\ IsFiniteSet(t) /\ t # {} /\ t \in SUBSET CacheKeys
  BY <1>1, <1>2, <1>3 DEF F
<1> DEFINE p == Pick(t)
           a == t \ {p}
           b == t \ {y}
           z == t \ {p, y}
<1>5. p \in t /\ Bytes(t) = EntrySize[p] + Bytes(a)
  BY <1>4, Rest, BytesStep
<1> HIDE DEF p
<1>6. p # y
  BY <1>3, <1>5
<1>7. /\ IsFiniteSet(a) /\ IsFiniteSet(b) /\ IsFiniteSet(z)
      /\ Cardinality(a) < Cardinality(t) /\ Cardinality(b) < Cardinality(t)
  <2>1. Cardinality(t) \in Nat
    BY <1>4, FS_CardinalityType
  <2>2. /\ IsFiniteSet(a) /\ Cardinality(a) = Cardinality(t) - 1
        /\ IsFiniteSet(b) /\ Cardinality(b) = Cardinality(t) - 1
    BY <1>4, <1>5, FS_RemoveElement
  <2>3. IsFiniteSet(z)
    BY <1>4, FS_Subset
  <2> QED BY <2>1, <2>2, <2>3
<1>8. a \notin F /\ b \notin F /\ a \in SUBSET S /\ b \in SUBSET S
  BY <1>2, <1>4, <1>7
<1>9. Bytes(a) = EntrySize[y] + Bytes(z)
  <2>1. y \in a /\ a \ {y} = z
    BY <1>6
  <2> QED BY <1>8, <2>1 DEF F
<1>10. Bytes(b) = EntrySize[p] + Bytes(z)
  <2>1. p \in b /\ b \ {p} = z
    BY <1>5, <1>6
  <2> QED BY <1>8, <2>1 DEF F
<1>11. Bytes(z) \in Nat /\ EntrySize[p] \in Nat /\ EntrySize[y] \in Nat
  BY <1>4, <1>5, <1>7, BytesNat, CacheAssumption
<1> HIDE DEF a, b, z
<1>12. Bytes(t) = EntrySize[y] + Bytes(b)
  BY <1>5, <1>9, <1>10, <1>11
<1> QED BY <1>3, <1>12 DEF b

\* Fewer entries are no more bytes.
LEMMA BytesMonotone ==
  ASSUME NEW S \in SUBSET CacheKeys, IsFiniteSet(S), NEW U \in SUBSET S
  PROVE  Bytes(U) <= Bytes(S)
<1> DEFINE F == {t \in SUBSET S : U \subseteq t /\ ~(Bytes(U) <= Bytes(t))}
<1> SUFFICES ASSUME F # {} PROVE FALSE
  OBVIOUS
<1>1. \A t \in F : IsFiniteSet(t)
  BY FS_Subset
<1> HIDE DEF F
<1>2. PICK t \in F : \A u \in F : ~(Cardinality(u) < Cardinality(t))
  BY <1>1, SmallestOf
<1>3. /\ t \in SUBSET S /\ IsFiniteSet(t) /\ t \in SUBSET CacheKeys
      /\ U \subseteq t /\ ~(Bytes(U) <= Bytes(t))
  BY <1>1, <1>2 DEF F
<1>4. Bytes(U) \in Nat /\ Bytes(t) \in Nat
  <2>1. IsFiniteSet(U) /\ U \in SUBSET CacheKeys
    BY FS_Subset
  <2> QED BY <2>1, <1>3, BytesNat
<1>5. U # t
  BY <1>3, <1>4
<1>6. PICK x \in t : x \notin U
  BY <1>3, <1>5
<1> DEFINE r == t \ {x}
<1>7. IsFiniteSet(r) /\ Cardinality(r) < Cardinality(t) /\ r \in SUBSET S /\ U \subseteq r
      /\ r \in SUBSET CacheKeys
  <2>1. Cardinality(t) \in Nat
    BY <1>3, FS_CardinalityType
  <2>2. IsFiniteSet(r) /\ Cardinality(r) = Cardinality(t) - 1
    BY <1>3, FS_RemoveElement
  <2> QED BY <2>1, <2>2, <1>3, <1>6
<1>8. Bytes(U) <= Bytes(r)
  BY <1>2, <1>7 DEF F
<1>9. Bytes(t) = EntrySize[x] + Bytes(r) /\ EntrySize[x] \in Nat /\ Bytes(r) \in Nat
  BY <1>3, <1>7, BytesTake, BytesNat, CacheAssumption
<1> HIDE DEF r
<1> QED BY <1>3, <1>4, <1>8, <1>9

\* What a clean-up leaves of the index it read is within the bound.
LEMMA CleanupBound ==
  ASSUME NEW index \in SUBSET CacheKeys, IsFiniteSet(index), NEW old \in SUBSET index,
         NEW order \in SetToSeqs(index \ old)
  PROVE  Bytes(index \ ToRemove(index, old, order)) <= MaxBytes
<1> DEFINE X == index \ old
           c == Cardinality(X)
           Before(i) == index \ (old \cup {order[j] : j \in 1 .. i - 1})
           I == {i \in 1 .. c : Bytes(Before(i)) > MaxBytes}
           gone == old \cup {order[i] : i \in I}
<1>1. IsFiniteSet(X) /\ c \in Nat
  BY FS_Subset, FS_CardinalityType
<1>2. order \in [1 .. c -> X] /\ \A i, j \in 1 .. c : i # j => order[i] # order[j]
  BY DEF SetToSeqs
<1>3. gone = ToRemove(index, old, order)
  <2>1. DOMAIN order = 1 .. c
    BY <1>2
  <2> QED BY <2>1 DEF ToRemove
<1> SUFFICES Bytes(index \ gone) <= MaxBytes
  BY <1>3
<1>4. {order[i] : i \in 1 .. c} = X
  <2> DEFINE Y == {order[i] : i \in 1 .. c}
  <2>1. Y \in SUBSET X
    BY <1>2
  <2>2. order \in Bijection(1 .. c, Y)
    BY <1>2 DEF Bijection, Injection, Surjection, IsInjective
  <2> HIDE DEF Y, X, c
  <2>3. Cardinality(Y) = c
    BY <1>1, <2>2, FS_CountingElements DEF ExistsBijection
  <2>4. Y = X
    BY <1>1, <2>1, <2>3, FS_Subset DEF c
  <2> QED BY <2>4 DEF Y
<1> HIDE DEF c, X
<1>5. \A i \in 1 .. c : Before(i) \in SUBSET index /\ Bytes(Before(i)) \in Nat
  <2>1. \A i : Before(i) \in SUBSET index
    OBVIOUS
  <2> HIDE DEF Before
  <2> QED BY <2>1, FS_Subset, BytesNat
<1>6. CASE I = 1 .. c
  <2>1. index \ gone = {}
    BY <1>4, <1>6 DEF X
  <2>2. Bytes({}) = 0
    BY BytesStep, FS_EmptySet
  <2>3. 0 <= MaxBytes
    BY CacheAssumption
  <2> HIDE DEF gone
  <2> QED BY <2>1, <2>2, <2>3
<1>7. CASE I # 1 .. c
  <2> DEFINE N == (1 .. c) \ I
  <2>0. I \in SUBSET (1 .. c)
    OBVIOUS
  <2> HIDE DEF I
  <2>1. N \in SUBSET Nat /\ N # {}
    <3>1. 1 .. c \in SUBSET Nat
      BY <1>1
    <3> DEFINE C == 1 .. c
    <3> HIDE DEF C
    <3>2. C \ I \in SUBSET C /\ C \ I # {}
      BY <1>7, <2>0 DEF C
    <3> QED BY <3>1, <3>2 DEF C
  <2>2. PICK m \in N : \A i \in N : m <= i
    <3> HIDE DEF N
    <3> QED BY <2>1, LeastOf
  <2>3. m \in 1 .. c /\ m \notin I /\ \A i \in 1 .. m - 1 : i \in I
    BY <1>1, <2>1, <2>2
  <2>4. ~(Bytes(Before(m)) > MaxBytes) /\ Bytes(Before(m)) \in Nat /\ Before(m) \in SUBSET index
    BY <2>3, <1>5 DEF I
  <2>5. index \ gone \in SUBSET Before(m)
    BY <2>3
  <2> HIDE DEF Before, gone
  <2>6. IsFiniteSet(Before(m)) /\ Before(m) \in SUBSET CacheKeys
    BY <2>4, FS_Subset
  <2>7. IsFiniteSet(index \ gone) /\ index \ gone \in SUBSET CacheKeys
    BY FS_Subset
  <2>8. Bytes(index \ gone) <= Bytes(Before(m)) /\ Bytes(index \ gone) \in Nat
    BY <2>5, <2>6, <2>7, BytesMonotone, BytesNat
  <2> DEFINE v == Bytes(index \ gone)
             w == Bytes(Before(m))
  <2>9. v <= w /\ v \in Nat /\ w \in Nat /\ ~(w > MaxBytes)
    BY <2>4, <2>8
  <2> HIDE DEF v, w
  <2>10. v <= MaxBytes
    BY <2>9, CacheAssumption
  <2> QED BY <2>10 DEF v
<1> QED BY <1>6, <1>7

Indices == {S \in SUBSET CacheKeys : IsFiniteSet(S)}

CacheTypes ==
  /\ cfile \in [CacheKeys -> CacheKeys \cup {None, "torn"}]
  /\ cindex \in Indices \cup {None, {"torn"}}
  /\ cpc \in [CacheUsers -> {"idle", "entry", "read", "remove", "save", "index", "killed"}]
  /\ ckey \in [CacheUsers -> CacheKeys \cup {None}]
  /\ mine \in [CacheUsers -> Indices]
  /\ doomed \in [CacheUsers -> SUBSET CacheKeys]
  /\ hit \in [CacheUsers -> CacheKeys \cup {None}]
  /\ DOMAIN cleaned = CacheUsers

\* A look-up is over, with what it found, before its process begins anything else.
HitPart ==
  \A u \in CacheUsers :
    /\ hit[u] # None => hit[u] = ckey[u]
    /\ cpc[u] # "idle" => hit[u] = None

\* A store is about a key, a clean-up about none; what a clean-up will leave of
\* its copy of the index is within the bound.
CleanupPart ==
  \A u \in CacheUsers :
    /\ cpc[u] \in {"entry", "read", "save"} => ckey[u] \in CacheKeys
    /\ cpc[u] = "remove" => ckey[u] = None /\ Bytes(mine[u] \ doomed[u]) <= MaxBytes
    /\ cpc[u] = "index" /\ ckey[u] = None => Bytes(mine[u]) <= MaxBytes
    /\ cleaned[u] # None => Bytes(cleaned[u]) <= MaxBytes

CacheInv == CacheTypes /\ HitPart /\ CleanupPart

\* A look-up returns the entry of its key or nothing.
LEMMA LookupStep ==
  ASSUME CacheInv, NEW u \in CacheUsers, NEW k \in CacheKeys, Lookup(u, k)
  PROVE  CacheInv'
<1>1. CacheTypes'
  BY DEF CacheInv, CacheTypes, Lookup
<1>2. HitPart'
  BY DEF CacheInv, CacheTypes, HitPart, Lookup
<1>3. CleanupPart'
  BY DEF CacheInv, CacheTypes, CleanupPart, Lookup
<1> QED BY <1>1, <1>2, <1>3 DEF CacheInv

LEMMA StoreStep ==
  ASSUME CacheInv, NEW u \in CacheUsers,
         (\E k \in CacheKeys : BeginStore(u, k)) \/ EndStore(u)
  PROVE  CacheInv'
<1>1. CASE \E k \in CacheKeys : BeginStore(u, k)
  <2>1. PICK k \in CacheKeys : BeginStore(u, k)
    BY <1>1
  <2>2. CacheTypes'
    BY <2>1 DEF CacheInv, CacheTypes, BeginStore
  <2>3. HitPart'
    BY <2>1 DEF CacheInv, CacheTypes, HitPart, BeginStore
  <2>4. CleanupPart'
    BY <2>1 DEF CacheInv, CacheTypes, CleanupPart, BeginStore
  <2> QED BY <2>2, <2>3, <2>4 DEF CacheInv
<1>2. CASE EndStore(u)
  <2>1. ckey[u] \in CacheKeys
    BY <1>2 DEF CacheInv, CleanupPart, EndStore
  <2>2. CacheTypes'
    BY <1>2, <2>1 DEF CacheInv, CacheTypes, EndStore
  <2>3. HitPart'
    BY <1>2 DEF CacheInv, CacheTypes, HitPart, EndStore
  <2>4. CleanupPart'
    BY <1>2 DEF CacheInv, CacheTypes, CleanupPart, EndStore
  <2> QED BY <2>2, <2>3, <2>4 DEF CacheInv
<1> QED BY <1>1, <1>2

LEMMA ReadIndexStep ==
  ASSUME CacheInv, NEW u \in CacheUsers, ReadIndex(u)
  PROVE  CacheInv'
<1>1. ckey[u] \in CacheKeys /\ cpc[u] = "read"
  BY DEF CacheInv, CleanupPart, ReadIndex
<1>2. CASE cindex = {"torn"}
  <2>1. /\ cpc' = [cpc EXCEPT ![u] = "idle"] /\ ckey' = [ckey EXCEPT ![u] = None]
        /\ UNCHANGED <<mine, cfile, cindex, doomed, hit, cleaned>>
    BY <1>2 DEF ReadIndex
  <2>2. CacheTypes'
    BY <2>1 DEF CacheInv, CacheTypes
  <2>3. HitPart'
    BY <1>1, <2>1 DEF CacheInv, CacheTypes, HitPart
  <2>4. CleanupPart'
    BY <2>1 DEF CacheInv, CacheTypes, CleanupPart
  <2> QED BY <2>2, <2>3, <2>4 DEF CacheInv
<1>3. CASE cindex # {"torn"}
  <2> DEFINE S == IF cindex = None THEN {} ELSE cindex
             T == S \cup {ckey[u]}
  <2>1. /\ mine' = [mine EXCEPT ![u] = T] /\ cpc' = [cpc EXCEPT ![u] = "save"]
        /\ UNCHANGED <<ckey, cfile, cindex, doomed, hit, cleaned>>
    BY <1>3 DEF ReadIndex
  <2>2. S \in Indices
    BY <1>3, FS_EmptySet DEF CacheInv, CacheTypes, Indices
  <2> HIDE DEF S
  <2>3. T \in Indices
    BY <1>1, <2>2, FS_AddElement DEF Indices
  <2> HIDE DEF T
  <2>4. CacheTypes'
    BY <2>1, <2>3 DEF CacheInv, CacheTypes
  <2>5. HitPart'
    BY <1>1, <2>1 DEF CacheInv, CacheTypes, HitPart
  <2>6. CleanupPart'
    BY <1>1, <2>1 DEF CacheInv, CacheTypes, CleanupPart
  <2> QED BY <2>4, <2>5, <2>6 DEF CacheInv
<1> QED BY <1>2, <1>3

LEMMA CleanupStep ==
  ASSUME CacheInv, NEW u \in CacheUsers, NEW old \in SUBSET CacheKeys, BeginCleanup(u, old)
  PROVE  CacheInv'
<1>1. cindex \in Indices /\ old \in SUBSET cindex
  BY DEF CacheInv, CacheTypes, BeginCleanup
<1>2. PICK order \in SetToSeqs(cindex \ old) :
        doomed' = [doomed EXCEPT ![u] = ToRemove(cindex, old, order)]
  BY DEF BeginCleanup
<1> DEFINE gone == ToRemove(cindex, old, order)
<1>3. Bytes(cindex \ gone) <= MaxBytes
  BY <1>1, CleanupBound DEF Indices
<1>4. gone \in SUBSET CacheKeys
  BY <1>1, <1>2 DEF ToRemove, SetToSeqs, Indices
<1> HIDE DEF gone
<1>5. /\ mine' = [mine EXCEPT ![u] = cindex] /\ ckey' = [ckey EXCEPT ![u] = None]
      /\ doomed' = [doomed EXCEPT ![u] = gone] /\ cpc' = [cpc EXCEPT ![u] = "remove"]
      /\ UNCHANGED <<cfile, cindex, hit, cleaned>> /\ hit[u] = None
  BY <1>2 DEF BeginCleanup, gone
<1>6. CacheTypes'
  BY <1>1, <1>4, <1>5 DEF CacheInv, CacheTypes
<1>7. HitPart'
  BY <1>5 DEF CacheInv, CacheTypes, HitPart
<1>8. CleanupPart'
  BY <1>3, <1>5 DEF CacheInv, CacheTypes, CleanupPart
<1> QED BY <1>6, <1>7, <1>8 DEF CacheInv

LEMMA RemoveStep ==
  ASSUME CacheInv, NEW u \in CacheUsers, NEW k \in CacheKeys, RemoveEntry(u, k)
  PROVE  CacheInv'
<1> DEFINE M == mine[u] \ {k}
           D == doomed[u] \ {k}
<1>1. /\ cpc[u] = "remove" /\ k \in doomed[u]
      /\ cfile' = [cfile EXCEPT ![k] = None]
      /\ mine' = [mine EXCEPT ![u] = M] /\ doomed' = [doomed EXCEPT ![u] = D]
      /\ UNCHANGED <<cindex, cpc, ckey, hit, cleaned>>
  BY DEF RemoveEntry
<1>2. M \in Indices /\ D \in SUBSET CacheKeys
  BY FS_Subset DEF CacheInv, CacheTypes, Indices
<1>3. M \ D = mine[u] \ doomed[u]
  BY <1>1
<1> HIDE DEF M, D
<1>4. CacheTypes'
  BY <1>1, <1>2 DEF CacheInv, CacheTypes
<1>5. HitPart'
  BY <1>1 DEF CacheInv, CacheTypes, HitPart
<1>6. CleanupPart'
  BY <1>1, <1>3 DEF CacheInv, CacheTypes, CleanupPart
<1> QED BY <1>4, <1>5, <1>6 DEF CacheInv

LEMMA SaveStep ==
  ASSUME CacheInv, NEW u \in CacheUsers, BeginSave(u) \/ EndSave(u)
  PROVE  CacheInv'
<1>1. CASE BeginSave(u)
  <2>1. CacheTypes'
    BY <1>1 DEF CacheInv, CacheTypes, BeginSave
  <2>2. HitPart'
    BY <1>1 DEF CacheInv, CacheTypes, HitPart, BeginSave
  <2>3. ckey[u] = None => Bytes(mine[u]) <= MaxBytes
    <3>1. CASE cpc[u] = "save"
      BY <3>1, CacheAssumption DEF CacheInv, CleanupPart
    <3>2. CASE cpc[u] = "remove" /\ doomed[u] = {}
      <4>1. mine[u] \ doomed[u] = mine[u]
        BY <3>2
      <4> QED BY <3>2, <4>1 DEF CacheInv, CleanupPart
    <3> QED BY <1>1, <3>1, <3>2 DEF BeginSave
  <2>4. CleanupPart'
    BY <1>1, <2>3 DEF CacheInv, CacheTypes, CleanupPart, BeginSave
  <2> QED BY <2>1, <2>2, <2>4 DEF CacheInv
<1>2. CASE EndSave(u)
  <2>1. {} \in Indices
    BY FS_EmptySet DEF Indices
  <2>2. CacheTypes'
    BY <1>2, <2>1 DEF CacheInv, CacheTypes, EndSave
  <2>3. HitPart'
    BY <1>2 DEF CacheInv, CacheTypes, HitPart, EndSave
  <2>4. /\ cpc' = [cpc EXCEPT ![u] = "idle"] /\ ckey' = [ckey EXCEPT ![u] = None]
        /\ mine' = [mine EXCEPT ![u] = {}] /\ UNCHANGED doomed
        /\ \A w \in CacheUsers : \/ cleaned'[w] = cleaned[w]
                                 \/ w = u /\ ckey[u] = None /\ cleaned'[w] = mine[u]
        /\ cpc[u] = "index"
    BY <1>2 DEF CacheInv, CacheTypes, EndSave
  <2>5. CleanupPart'
    BY <2>4 DEF CacheInv, CacheTypes, CleanupPart
  <2> QED BY <2>2, <2>3, <2>5 DEF CacheInv
<1> QED BY <1>1, <1>2

LEMMA KillUserStep ==
  ASSUME CacheInv, NEW u \in CacheUsers, KillUser(u)
  PROVE  CacheInv'
<1>1. CacheTypes'
  BY DEF CacheInv, CacheTypes, KillUser
<1>2. HitPart'
  BY DEF CacheInv, CacheTypes, HitPart, KillUser
<1>3. CleanupPart'
  BY DEF CacheInv, CacheTypes, CleanupPart, KillUser
<1> QED BY <1>1, <1>2, <1>3 DEF CacheInv

LEMMA MisplaceStep ==
  ASSUME CacheInv, NEW k \in CacheKeys, NEW j \in CacheKeys, Misplace(k, j)
  PROVE  CacheInv'
<1>1. CacheTypes'
  BY DEF CacheInv, CacheTypes, Misplace
<1>2. HitPart' /\ CleanupPart'
  BY DEF CacheInv, HitPart, CleanupPart, Misplace
<1> QED BY <1>1, <1>2 DEF CacheInv

\* For any number of processes without a lock, killed anywhere, and any entries: a
\* look-up returns an entry stored under its key or nothing, and a clean-up leaves an
\* index within max_size_bytes (get_cached_entry and cleanup_cache, storage/mod.rs).
THEOREM CacheHolds == CacheSpec => []CacheHonest
<1>1. CacheInit => CacheInv
  <2>1. {} \in Indices
    BY FS_EmptySet DEF Indices
  <2> QED BY <2>1 DEF CacheInit, CacheInv, CacheTypes, HitPart, CleanupPart
<1>2. CacheInv /\ [CacheNext]_cacheVars => CacheInv'
  <2> SUFFICES ASSUME CacheInv, [CacheNext]_cacheVars PROVE CacheInv'
    OBVIOUS
  <2>1. CASE UNCHANGED cacheVars
    BY <2>1 DEF CacheInv, CacheTypes, HitPart, CleanupPart, cacheVars
  <2> QED BY <2>1, LookupStep, StoreStep, ReadIndexStep, CleanupStep, RemoveStep, SaveStep,
             KillUserStep, MisplaceStep DEF CacheNext
<1>3. CacheInv => CacheHonest
  BY DEF CacheInv, HitPart, CleanupPart, CacheHonest
<1> QED BY <1>1, <1>2, <1>3, PTL DEF CacheSpec
=============================================================================
