------------------------------- MODULE Images -------------------------------
(***************************************************************************)
(* src/crypto/image_signing.rs and src/crypto/supply_chain.rs: an image is *)
(* signed from a working tree that others commit to and edit, and verified *)
(* by somebody who states what he requires of it.                          *)
(*                                                                         *)
(* The registry holds per image what its digest fixes (SBOM and provenance *)
(* documents), the keyless signatures that workflows elsewhere added       *)
(* before, and the signatures that are added to it here.                   *)
(*                                                                         *)
(* The signer is at idle, clean (the tree is to be checked), cosign (the   *)
(* image is to be signed), receipt (the receipt is to be written) or done; *)
(* the verifier at idle, provenance, signature, receipt or done.           *)
(***************************************************************************)
EXTENDS Verdicts, Naturals, FiniteSets

CONSTANTS
  ImageDocs,       \* what may be attached to the image
  SignRequests,    \* what a signer may be asked for
  VerifyRequests,  \* what a verifier may be asked for
  MaxHead          \* bound on the commits: revisions are 1 .. MaxHead

VARIABLES
  head, dirty,  \* HEAD, and whether the tree differs from it
  spc,          \* where the signer stands
  sreq,         \* what it was asked for
  revision,     \* the annotation it puts on the image
  began,        \* history: HEAD when it started
  sawClean,     \* history: HEAD when git status found nothing, or None
  sexit,        \* its exit code
  sreceipt,     \* the signing receipt: the revision it states, or None
  image,        \* the documents of the image and its signatures
  ypc, yreq,    \* the verifier, and what it was asked for
  ychecks,      \* its checks
  yreceipt,     \* the exit code its receipt states, or None
  yexit         \* its exit code

imageVars == <<head, dirty, spc, sreq, revision, began, sawClean, sexit, sreceipt, image,
               ypc, yreq, ychecks, yreceipt, yexit>>
signerVars == <<spc, sreq, revision, began, sawClean, sexit, sreceipt>>
verifierVars == <<ypc, yreq, ychecks, yreceipt, yexit>>

Revisions == 1 .. MaxHead

\* SPDX documents, each sound or not; SLSA documents of some version, with the revision
\* BuildKit recorded, if any.
SlsaType == [version : {"v1", "v02", "unsound"}, revision : Revisions \cup {None}]
\* A keyless signature: who the certificate names, and the annotation.
KeylessType == [identity : {1, 2}, issuer : {1, 2}, revision : Revisions]
DocsType == [sbom : SUBSET BOOLEAN, slsa : SUBSET SlsaType, keyless : SUBSET KeylessType]

SignatureType == [key : {"kms", "file"}, revision : Revisions]

\* `ref`: by digest or by tag; `explicit`: a revision the caller states, malformed
\* if it is 0.
SignRequestType ==
  [ref : {"digest", "tag"}, key : {"kms", "file"}, allowFile : BOOLEAN,
   explicit : {None, 0} \cup Revisions, requireClean : BOOLEAN]

VerifyRequestType ==
  [ref : {"digest", "tag"}, sbom : BOOLEAN, provenance : BOOLEAN,
   expected : {None, 0} \cup Revisions, key : {"kms", "file", None},
   identity : {1, 2, None}, issuer : {1, 2, None}, record : BOOLEAN]

ImageChecks == {"sbom", "provenance", "revision", "signature"}

ASSUME ImagesAssumption ==
  /\ MaxHead \in Nat \ {0} /\ None \notin Nat
  /\ ImageDocs \subseteq DocsType
  /\ SignRequests \subseteq SignRequestType /\ VerifyRequests \subseteq VerifyRequestType

----------------------------------------------------------------------------
\* Somebody commits what is in the tree, or edits it.
Commit ==
  /\ spc # "done" /\ head < MaxHead
  /\ head' = head + 1 /\ dirty' = FALSE
  /\ UNCHANGED <<signerVars, image, verifierVars>>

EditTree ==
  /\ spc # "done" /\ ~ dirty
  /\ dirty' = TRUE
  /\ UNCHANGED <<head, signerVars, image, verifierVars>>

\* The requests that are not refused outright: validate_digest_ref, validate_key_uri and
\* validate_revision.
SignValid(q) ==
  /\ q.ref = "digest"
  /\ q.key = "kms" \/ q.allowFile
  /\ q.explicit # 0

\* sign_image up to git status: the revision is the caller's or HEAD as it is now.
BeginSignImage(q) ==
  /\ spc = "idle"
  /\ sreq' = q /\ began' = head
  /\ IF SignValid(q)
     THEN /\ spc' = "clean"
          /\ revision' = IF q.explicit # None THEN q.explicit ELSE head
          /\ UNCHANGED sexit
     ELSE spc' = "done" /\ sexit' = 2 /\ UNCHANGED revision
  /\ UNCHANGED <<head, dirty, sawClean, sreceipt, image, verifierVars>>

\* Fault: a dirty tree is only warned about.
CheckCleanLenient ==
  /\ spc = "clean"
  /\ spc' = "cosign"
  /\ sawClean' = IF dirty THEN None ELSE head
  /\ UNCHANGED <<head, dirty, sreq, revision, began, sexit, sreceipt, image, verifierVars>>

\* git status, unless the caller does without.
CheckClean ==
  /\ spc = "clean"
  /\ IF sreq.requireClean /\ dirty
     THEN spc' = "done" /\ sexit' = 1
     ELSE spc' = "cosign" /\ UNCHANGED sexit
  /\ sawClean' = IF dirty THEN None ELSE head
  /\ UNCHANGED <<head, dirty, sreq, revision, began, sreceipt, image, verifierVars>>

\* cosign is missing or too old, or fails, or adds a signature.
CosignSign(ok) ==
  /\ spc = "cosign"
  /\ IF ok
     THEN /\ image' = [image EXCEPT !.signatures =
                         @ \cup {[key |-> sreq.key, revision |-> revision]}]
          /\ spc' = "receipt" /\ UNCHANGED sexit
     ELSE spc' = "done" /\ sexit' = 2 /\ UNCHANGED image
  /\ UNCHANGED <<head, dirty, sreq, revision, began, sawClean, sreceipt, verifierVars>>

\* write_signing_receipt; that it fails does not take the signature back.
WriteSignReceipt(ok) ==
  /\ spc = "receipt"
  /\ spc' = "done"
  /\ sreceipt' = IF ok THEN revision ELSE None
  /\ sexit' = IF ok THEN 0 ELSE 2
  /\ UNCHANGED <<head, dirty, sreq, revision, began, sawClean, image, verifierVars>>

----------------------------------------------------------------------------
\* Fault: it is enough that there are provenance documents.
CheckProvenanceExists(docs) == docs.slsa # {}

\* check_sbom, check_provenance: there are documents, and all of them are sound.
CheckSbom(docs)       == docs.sbom = {TRUE}
CheckProvenance(docs) == docs.slsa # {} /\ \A d \in docs.slsa : d.version # "unsound"

\* signature_requested: a key, or an identity together with its issuer.
SignatureAsked(q) == q.key # None \/ (q.identity # None /\ q.issuer # None)

\* SupplyChainRequest::required
Required(q) ==
  {c \in ImageChecks :
     \/ c = "sbom" /\ q.sbom
     \/ c = "provenance" /\ q.provenance
     \/ c = "revision" /\ q.expected # None
     \/ c = "signature" /\ SignatureAsked(q)}

\* The requests that are not refused outright: an identity and an issuer go together, and
\* not with a key; something is asked for; then validate_digest_ref and validate_revision.
VerifyValid(q) ==
  /\ (q.identity = None) = (q.issuer = None)
  /\ q.key = None \/ q.identity = None
  /\ Required(q) # {}
  /\ q.ref = "digest" /\ q.expected # 0

\* check_revision_binding: there is a v1 document, and each states this revision.
RevisionBound(docs, expected) ==
  /\ \E d \in docs.slsa : d.version = "v1"
  /\ \A d \in docs.slsa : d.version = "v1" => d.revision = expected

\* `attest image verify` up to the SBOM.  `reachable`: docker, and cosign if a signature is
\* asked for, are there, and the registry answers.
BeginVerifyImage(q, reachable) ==
  /\ ypc = "idle"
  /\ yreq' = q
  /\ IF VerifyValid(q) /\ reachable
     THEN /\ ypc' = "provenance" /\ UNCHANGED yexit
          /\ ychecks' = [c \in ImageChecks |->
               IF c = "sbom" /\ q.sbom THEN Status(CheckSbom(image)) ELSE "skipped"]
     ELSE ypc' = "done" /\ yexit' = 2 /\ UNCHANGED ychecks
  /\ UNCHANGED <<head, dirty, signerVars, image, yreceipt>>

\* Provenance and revision, from one look at the registry.
InspectProvenance(reachable) ==
  /\ ypc = "provenance"
  /\ IF reachable \/ (~ yreq.provenance /\ yreq.expected = None)
     THEN /\ ypc' = "signature" /\ UNCHANGED yexit
          /\ ychecks' = [ychecks EXCEPT
               !["provenance"] = IF yreq.provenance THEN Status(CheckProvenance(image))
                                 ELSE "skipped",
               !["revision"] = IF yreq.expected # None
                               THEN Status(RevisionBound(image, yreq.expected))
                               ELSE "skipped"]
     ELSE ypc' = "done" /\ yexit' = 2 /\ UNCHANGED ychecks
  /\ UNCHANGED <<head, dirty, signerVars, image, yreq, yreceipt>>

\* cosign verify, by the key or by the identity and its issuer, with the revision as a
\* required annotation.
SignatureFound(q) ==
  \E s \in IF q.key # None THEN {t \in image.signatures : t.key = q.key}
            ELSE {t \in image.keyless : t.identity = q.identity /\ t.issuer = q.issuer} :
    q.expected \in {None, s.revision}

\* The signature, as it is in the registry now.  The public key of a KMS key is
\* exported first, without which there is no verdict.
VerifyImageSignature(exported) ==
  /\ ypc = "signature"
  /\ IF yreq.key = "kms" /\ ~ exported
     THEN ypc' = "done" /\ yexit' = 2 /\ UNCHANGED ychecks
     ELSE /\ ypc' = "receipt" /\ UNCHANGED yexit
          /\ ychecks' = [ychecks EXCEPT !["signature"] =
               IF SignatureAsked(yreq) THEN Status(SignatureFound(yreq)) ELSE "skipped"]
  /\ UNCHANGED <<head, dirty, signerVars, image, yreq, yreceipt>>

\* The verdict.
ImagePasses == PolicyMet(ychecks, Required(yreq))

\* write_verification_receipt if the caller wants one, for either verdict; then the exit
\* code.
WriteVerifyReceipt(ok) ==
  /\ ypc = "receipt"
  /\ ypc' = "done"
  /\ yreceipt' = IF ok /\ yreq.record THEN IF ImagePasses THEN 0 ELSE 1 ELSE None
  /\ yexit' = IF ~ ok /\ yreq.record THEN 2 ELSE IF ImagePasses THEN 0 ELSE 1
  /\ UNCHANGED <<head, dirty, signerVars, image, yreq, ychecks>>

ImagesInit ==
  /\ head = 1 /\ dirty = FALSE
  /\ spc = "idle" /\ sreq = None /\ revision = None /\ began = None
  /\ sawClean = None /\ sexit = None /\ sreceipt = None
  /\ \E d \in ImageDocs : image = [sbom |-> d.sbom, slsa |-> d.slsa, keyless |-> d.keyless,
                                   signatures |-> {}]
  /\ ypc = "idle" /\ yreq = None /\ ychecks = None /\ yreceipt = None /\ yexit = None

ImagesNext ==
  \/ Commit \/ EditTree
  \/ \E q \in SignRequests : BeginSignImage(q)
  \/ CheckClean
  \/ \E ok \in BOOLEAN : CosignSign(ok) \/ WriteSignReceipt(ok)
  \/ \E q \in VerifyRequests, r \in BOOLEAN : BeginVerifyImage(q, r)
  \/ \E r \in BOOLEAN : InspectProvenance(r) \/ VerifyImageSignature(r)
  \/ \E ok \in BOOLEAN : WriteVerifyReceipt(ok)

ImagesSpec == ImagesInit /\ [][ImagesNext]_imageVars

----------------------------------------------------------------------------
\* A signing receipt states what was signed, and exit codes what happened: with 0 the
\* image has a signature with the revision of the receipt, with 1 nothing was signed.
\* Where the revision comes from HEAD and a clean tree is demanded, git status saw
\* that revision without changes, unless somebody committed while the command ran.
SigningAccountable ==
  /\ sexit = 0 => sreceipt # None
  /\ sexit = 1 => image.signatures = {}
  /\ sreceipt # None => [key |-> sreq.key, revision |-> sreceipt] \in image.signatures
  /\ image.signatures # {} /\ sreq.requireClean =>
       /\ sawClean # None
       /\ sreq.explicit = None => revision = sawClean \/ head # began

\* Exit 0 of `attest image verify` means that something was required and each thing
\* required is so: documents are there and all of them sound, every v1 document states the
\* expected revision and there is one, and a signature carries that revision that was made
\* by the key asked for or, without a key, by the identity with its issuer.  A receipt of
\* a verification that refused the image does not state success.
ImageVerdictMeans ==
  /\ yexit = 0 =>
       /\ yreq.sbom \/ yreq.provenance \/ yreq.expected # None \/ yreq.key # None
          \/ (yreq.identity # None /\ yreq.issuer # None)
       /\ yreq.sbom => image.sbom # {} /\ FALSE \notin image.sbom
       /\ yreq.provenance =>
            image.slsa # {} /\ \A d \in image.slsa : d.version \in {"v1", "v02"}
       /\ yreq.expected # None =>
            /\ \E d \in image.slsa : d.version = "v1" /\ d.revision = yreq.expected
            /\ \A d \in image.slsa : d.version = "v1" => d.revision = yreq.expected
       /\ yreq.key # None =>
            \E s \in image.signatures : s.key = yreq.key /\ yreq.expected \in {None, s.revision}
       /\ yreq.identity # None =>
            \E s \in image.keyless : /\ s.identity = yreq.identity /\ s.issuer = yreq.issuer
                                     /\ yreq.expected \in {None, s.revision}
  /\ yexit # None /\ yreceipt # None => yreceipt = yexit
=============================================================================
