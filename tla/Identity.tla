------------------------------ MODULE Identity ------------------------------
(***************************************************************************)
(* src/identity.rs: workflows sign a receipt through cosign, each on its   *)
(* own and into the same bundle file, and a recipient verifies the bundle  *)
(* against a policy of his own, while the receipt file may be replaced.    *)
(*                                                                         *)
(* cosign and Sigstore are external: a signature is over the bytes cosign  *)
(* was given, its certificate states what the provider knows of the        *)
(* workflow.                                                               *)
(***************************************************************************)
EXTENDS Verdicts, Naturals, Sequences, FiniteSets

CONSTANTS
  Workflows,     \* the jobs that may sign
  Claims,        \* per workflow: what its certificate states
  ReceiptFiles,  \* contents the receipt file may have
  Foreign,       \* bundles somebody else may put in place
  Policies       \* what a recipient may demand

VARIABLES
  onDisk,    \* the receipt file
  bundle,    \* the bundle file, or None
  ipc,       \* per workflow: idle, snapshot, sign, persist, signed, failed
  snapshot,  \* per workflow: the bytes it read
  logged,    \* the transparency log: what was ever signed
  vcheck     \* the recipient: what was verified, or the refusal

identityVars == <<onDisk, bundle, ipc, snapshot, logged, vcheck>>

\* `commit`: the source revision the receipt states, if it states one.
ReceiptFileType == [id : Nat, commit : Nat \cup {None}]

\* A certificate: its subject, and the values of its source extensions, each of which
\* may be absent or repeated.
CertificateType == [workflow : Nat, issuer : Nat, repository : Seq(Nat), revision : Seq(Nat)]

\* `genuine`: cosign accepts the signature, the certificate and the log entry under the
\* trusted root the recipient configured.
BundleType == [over : ReceiptFileType, certificate : CertificateType, genuine : BOOLEAN]

PolicyType == [valid : BOOLEAN, workflow : Nat, issuer : Nat, repository : Nat, revision : Nat]

ASSUME IdentityAssumption ==
  /\ ReceiptFiles \subseteq ReceiptFileType
  /\ Claims \in [Workflows -> CertificateType]
  /\ Foreign \subseteq BundleType /\ Policies \subseteq PolicyType
  /\ None \notin ReceiptFiles /\ None \notin BundleType /\ None \notin Nat

----------------------------------------------------------------------------
\* The receipt file is replaced.
ReplaceReceipt(r) ==
  /\ r # onDisk /\ vcheck = None
  /\ onDisk' = r
  /\ UNCHANGED <<bundle, ipc, snapshot, logged, vcheck>>

\* sign_with_cosign: nothing is signed if there is a bundle already.
BeginSign(w) ==
  /\ ipc[w] = "idle"
  /\ ipc' = [ipc EXCEPT ![w] = IF bundle # None THEN "failed" ELSE "snapshot"]
  /\ UNCHANGED <<onDisk, bundle, snapshot, logged, vcheck>>

\* The receipt is read once; cosign is given the copy.
Snapshot(w) ==
  /\ ipc[w] = "snapshot"
  /\ snapshot' = [snapshot EXCEPT ![w] = onDisk]
  /\ ipc' = [ipc EXCEPT ![w] = "sign"]
  /\ UNCHANGED <<onDisk, bundle, logged, vcheck>>

\* certificate_source: each extension exactly once.
SourceStated(c) == Len(c.repository) = 1 /\ Len(c.revision) = 1

Signature(w) == [over |-> snapshot[w], certificate |-> Claims[w], genuine |-> TRUE]

\* cosign sign-blob publishes what it signs, or fails.
SignBlob(w, ok) ==
  /\ ipc[w] = "sign"
  /\ logged' = IF ok THEN logged \cup {Signature(w)} ELSE logged
  /\ ipc' = [ipc EXCEPT ![w] = IF ok THEN "persist" ELSE "failed"]
  /\ UNCHANGED <<onDisk, bundle, snapshot, vcheck>>

\* Fault: the bundle is moved into place over whatever is there.
PersistOver(w) ==
  /\ ipc[w] = "persist"
  /\ bundle' = Signature(w) /\ ipc' = [ipc EXCEPT ![w] = "signed"]
  /\ UNCHANGED <<onDisk, snapshot, logged, vcheck>>

\* persist_noclobber: a bundle that appeared meanwhile stays.
Persist(w) ==
  /\ ipc[w] = "persist"
  /\ IF bundle = None
     THEN bundle' = Signature(w) /\ ipc' = [ipc EXCEPT ![w] = "signed"]
     ELSE UNCHANGED bundle /\ ipc' = [ipc EXCEPT ![w] = "failed"]
  /\ UNCHANGED <<onDisk, snapshot, logged, vcheck>>

\* Somebody else's bundle is put in place.
Plant(b) ==
  /\ bundle = None
  /\ bundle' = b
  /\ UNCHANGED <<onDisk, ipc, snapshot, logged, vcheck>>

----------------------------------------------------------------------------
\* verify_blob_bytes: cosign checks the signature and the certificate's subject; what
\* the certificate states of the source is compared here.
VerifyBlob(r, b, p) ==
  /\ b.genuine /\ b.over = r
  /\ b.certificate.workflow = p.workflow /\ b.certificate.issuer = p.issuer
  /\ SourceStated(b.certificate)
  /\ b.certificate.repository[1] = p.repository
  /\ b.certificate.revision[1] = p.revision

\* Fault: the revision the receipt states is not looked at.
VerifyIdentityBlind(p) ==
  /\ bundle # None /\ vcheck = None
  /\ vcheck' = [policy |-> p, receipt |-> onDisk, bundle |-> bundle,
                verified |-> p.valid /\ VerifyBlob(onDisk, bundle, p)]
  /\ UNCHANGED <<onDisk, bundle, ipc, snapshot, logged>>

\* verify_with_cosign, on a copy of the receipt and of the bundle.
VerifyIdentity(p) ==
  /\ bundle # None /\ vcheck = None
  /\ vcheck' = [policy |-> p, receipt |-> onDisk, bundle |-> bundle,
                verified |-> /\ p.valid
                             /\ onDisk.commit # None /\ onDisk.commit = p.revision
                             /\ VerifyBlob(onDisk, bundle, p)]
  /\ UNCHANGED <<onDisk, bundle, ipc, snapshot, logged>>

IdentityInit ==
  /\ onDisk \in ReceiptFiles /\ bundle = None
  /\ ipc = [w \in Workflows |-> "idle"] /\ snapshot = [w \in Workflows |-> None]
  /\ logged = {} /\ vcheck = None

IdentityNext ==
  \/ \E r \in ReceiptFiles : ReplaceReceipt(r)
  \/ \E w \in Workflows :
       \/ BeginSign(w) \/ Snapshot(w) \/ Persist(w)
       \/ \E ok \in BOOLEAN : SignBlob(w, ok)
  \/ \E b \in Foreign : Plant(b)
  \/ \E p \in Policies : VerifyIdentity(p)

IdentitySpec == IdentityInit /\ [][IdentityNext]_identityVars

----------------------------------------------------------------------------
\* A workflow that reports success left its own signature, over the receipt it read, in
\* the bundle file, and it is still there: of workflows that sign at once into one file,
\* one succeeds, and no proof is replaced by another.
SignedIsKept ==
  \A w \in Workflows :
    ipc[w] = "signed" => bundle = Signature(w) /\ bundle \in logged

\* If identity passes, the receipt that was verified states the revision the
\* recipient demands, and the provider certified that very revision for a signature over
\* these bytes: neither the receipt's own word nor the certificate's alone decides.
IdentityGrounded ==
  vcheck # None => (vcheck.verified =>
    /\ vcheck.receipt.commit = vcheck.policy.revision
    /\ vcheck.bundle.over = vcheck.receipt
    /\ vcheck.bundle \in logged \/ vcheck.bundle \in Foreign
    /\ \A i \in DOMAIN vcheck.bundle.certificate.revision :
         vcheck.bundle.certificate.revision[i] = vcheck.policy.revision)
=============================================================================
