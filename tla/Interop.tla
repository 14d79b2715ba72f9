------------------------------ MODULE Interop ------------------------------
(***************************************************************************)
(* src/interop.rs: a receipt exported as an in-toto statement in a DSSE    *)
(* envelope, and such a statement imported by somebody who has a trust     *)
(* store of his own, while keys are revoked.                               *)
(*                                                                         *)
(* The statement is a projection: it repeats what the receipt it carries   *)
(* says.  Time is what a revocation tells apart: something is dated        *)
(* `before` or `after` the revocation of the key it is signed with.  A     *)
(* signature `holds` over what it came with or does not.                   *)
(*                                                                         *)
(* The exporter is at idle, artifacts (the workspace is to be read), sign  *)
(* (a key is to be chosen) or done; the importer at idle, original (the    *)
(* envelope is checked, the receipt it carries is not) or done.            *)
(***************************************************************************)
EXTENDS Verdicts, Naturals, FiniteSets

CONSTANTS
  SigningKeys,  \* keys
  Local,        \* those whose private half the exporter has
  Authorized,   \* those its own trust policy allows it to sign with
  NoPolicy,     \* keys in the recipient's store that have a file but no entry
  Originals,    \* the receipts there are
  Exports,      \* what the exporter may be asked for
  Received,     \* statements somebody else sends
  Imports       \* how the recipient may ask

VARIABLES
  xpc,        \* where the exporter stands
  export,     \* what it was asked for
  delivered,  \* artifacts as they are now: `signed` or `changed`
  statement,  \* the statement the recipient is given
  mpc,        \* where the importer stands
  import,     \* how the recipient asked
  status,     \* the recipient's trust policy: per key trusted, revoked or none
  revoked,    \* history: the keys that were revoked when the import began
  found       \* the checks of the import

interopVars == <<xpc, export, delivered, statement, mpc, import, status, revoked, found>>

\* A receipt.  `sound`: it is coherent and of a schema this version knows; `token`: when
\* its time-stamp token dates its signature, `broken` if it does not cover it; `bound`: it
\* has an inventory of files; `bundle`: of which workflow there is a Sigstore bundle over
\* exactly these bytes.
OriginalType ==
  [signer : SigningKeys \cup {None}, holds : BOOLEAN, sound : BOOLEAN,
   token : {None, "before", "after", "broken"}, bound : BOOLEAN,
   bundle : {None, "ours", "theirs"}]

\* A statement.  `claims`: it says what the receipt and the semantics say; `signatures`:
\* of its envelope, each the key and whether it holds; `workflow`: the workflow it
\* claims; `finished`: its own word on when it ended.
StatementType ==
  [parses : BOOLEAN, coherent : BOOLEAN, build : {"current", "legacy"},
   original : Originals \cup {None}, claims : BOOLEAN, workflow : {None, "ours", "theirs"},
   bundle : {None, "ours", "theirs"}, finished : {"before", "after"},
   signatures : SUBSET [key : SigningKeys, holds : BOOLEAN]]

ExportType ==
  [original : Originals, allowUnsigned : BOOLEAN, key : SigningKeys \cup {None},
   identity : {None, "ours", "theirs"}]

\* `policy`: the recipient demands workflow ours; `root`: there are delivered files to
\* compare; `tsa`: the recipient has pinned the authority that issued the token.
ImportType == [ownTime : BOOLEAN, policy : BOOLEAN, root : BOOLEAN, tsa : BOOLEAN]

ImportChecks ==
  {"schema", "consistency", "dsse", "original", "timestamp", "artifacts", "identity", "signature"}

ASSUME InteropAssumption ==
  /\ Authorized \subseteq Local /\ Local \subseteq SigningKeys /\ NoPolicy \subseteq SigningKeys
  /\ None \notin SigningKeys \cup {"ours", "theirs"} /\ IsFiniteSet(SigningKeys)
  /\ Originals \subseteq OriginalType /\ None \notin Originals
  /\ \A r \in Originals : r.signer = None => ~ r.holds
  /\ Exports \subseteq ExportType /\ Received \subseteq StatementType
  /\ Imports \subseteq ImportType /\ None \notin Imports \cup Exports \cup Received

----------------------------------------------------------------------------
\* Artifacts in the hands of the exporter or of the recipient are changed.
ChangeArtifacts ==
  /\ delivered = "signed" /\ mpc # "done"
  /\ delivered' = "changed"
  /\ UNCHANGED <<xpc, export, statement, mpc, import, status, revoked, found>>

\* export_receipt_file up to the artifacts: a receipt whose signature is broken is not
\* exported, an unsigned one only if the caller allows it.
BeginExport(x) ==
  LET r == x.original IN
  /\ xpc = "idle" /\ statement = None
  /\ export' = x
  /\ xpc' = IF IF r.signer # None THEN r.holds ELSE x.allowUnsigned
            THEN "artifacts" ELSE "done"
  /\ UNCHANGED <<delivered, statement, mpc, import, status, revoked, found>>

\* Fault: the bundle is exported without a look at what it was made over.
ReadWorkspaceOnly ==
  /\ xpc = "artifacts"
  /\ xpc' = IF export.original.bound => delivered = "signed" THEN "sign" ELSE "done"
  /\ UNCHANGED <<export, delivered, statement, mpc, import, status, revoked, found>>

\* The files are compared with the inventory.  A workflow is exported only if
\* its bundle is one over these bytes by the workflow the exporter names.
ReadWorkspace ==
  LET r == export.original IN
  /\ xpc = "artifacts"
  /\ xpc' = IF /\ r.bound => delivered = "signed"
               /\ export.identity # None => r.bundle = export.identity
            THEN "sign" ELSE "done"
  /\ UNCHANGED <<export, delivered, statement, mpc, import, status, revoked, found>>

\* select_signing_key for the envelope: the key asked for, else the receipt's if it is
\* here, else the only one here, if the exporter's policy allows it.  With several keys
\* and none asked for there is none to choose.
EnvelopeKeys ==
  LET chosen == IF export.key # None THEN {export.key}
                ELSE IF export.original.signer \in Local THEN {export.original.signer}
                ELSE IF Cardinality(Local) = 1 THEN Local ELSE {}
  IN chosen \cap Authorized

\* project_receipt: what the statement says.
Projection(sigs) ==
  [parses |-> TRUE, coherent |-> TRUE, build |-> "current", original |-> export.original,
   claims |-> TRUE, workflow |-> export.identity, bundle |-> export.identity,
   finished |-> "before", signatures |-> sigs]

\* An unsigned receipt has an unsigned envelope.  A signed one without a key to sign the
\* envelope is exported only if the caller allows that and there is no key at all.
SignEnvelope ==
  LET signed == export.original.signer # None IN
  /\ xpc = "sign"
  /\ xpc' = "done"
  /\ statement' =
       IF ~ signed THEN Projection({})
       ELSE IF EnvelopeKeys # {}
         THEN Projection({[key |-> k, holds |-> TRUE] : k \in EnvelopeKeys})
       ELSE IF export.allowUnsigned /\ export.key = None /\ Local = {} THEN Projection({})
       ELSE None
  /\ UNCHANGED <<export, delivered, mpc, import, status, revoked, found>>

\* Somebody else's statement.
Deliver ==
  /\ xpc = "idle" /\ statement = None
  /\ xpc' = "done"
  /\ statement' \in Received
  /\ UNCHANGED <<export, delivered, mpc, import, status, revoked, found>>

----------------------------------------------------------------------------
\* The recipient revokes a key, at any time.
RevokeSigner(k) ==
  /\ status[k] = "trusted" /\ mpc # "done"
  /\ status' = [status EXCEPT ![k] = "revoked"]
  /\ UNCHANGED <<xpc, export, delivered, statement, mpc, import, revoked, found>>

\* Fault: a revoked key is judged by the time the statement claims.
EnvelopeTrustedByClaim(s, how) ==
  \E sig \in s.signatures :
    /\ Cardinality(s.signatures) = 1 /\ sig.holds
    /\ \/ status[sig.key] = "trusted"
       \/ status[sig.key] = "revoked" /\ s.finished = "before"

\* signature_check: one signature, that holds, by a key with an entry; a revoked key
\* only on the statement's own word, if the caller takes it.
EnvelopeTrusted(s, how) ==
  \E sig \in s.signatures :
    /\ Cardinality(s.signatures) = 1 /\ sig.holds
    /\ \/ status[sig.key] = "trusted"
       \/ status[sig.key] = "revoked" /\ how.ownTime /\ s.finished = "before"

\* import_statement_file: the envelope, by the store as it is now.  What is not a
\* statement has no further checks.
BeginImport(how) ==
  LET s == statement IN
  /\ mpc = "idle" /\ xpc = "done" /\ s # None
  /\ import' = how
  /\ revoked' = {k \in SigningKeys : status[k] = "revoked"}
  /\ mpc' = IF s.parses THEN "original" ELSE "done"
  /\ found' = [c \in ImportChecks |->
       CASE c = "schema" -> Status(s.parses)
         [] c = "consistency" /\ s.parses -> Status(s.coherent)
         [] c = "dsse" /\ s.parses -> Status(EnvelopeTrusted(s, how))
         [] OTHER -> "skipped"]
  /\ UNCHANGED <<xpc, export, delivered, statement, status>>

\* Fault: a token nobody here can verify is passed over.
TokenPassedOver(r, how) == how.tsa => r.token \in {None, "before", "after"}

\* timestamp_check does not fail: there is no token, or it covers the signature and the
\* recipient has pinned its authority.
TokenStands(r, how) == r.token = None \/ (how.tsa /\ r.token # "broken")

\* verify_receipt_bytes of the receipt inside, signature required (see Verify): no check
\* fails.  A revoked key counts if a token dates the signature before; a key without an
\* entry only if it is the recipient's own loose one.
OriginalTrusted(r, how) ==
  /\ r.sound /\ TokenStands(r, how)
  /\ r.signer # None /\ r.holds
  /\ \/ status[r.signer] = "trusted"
     \/ status[r.signer] = "none" /\ r.signer \in NoPolicy
     \/ status[r.signer] = "revoked" /\ r.token = "before"

\* The bundle is over these bytes, by the workflow the recipient demands, and the
\* statement claims that workflow.
IdentityMatches(s) ==
  /\ s.bundle # None /\ s.original.bundle = s.bundle
  /\ s.bundle = "ours" /\ s.workflow = s.bundle

\* verify_original_projection.  A projection that is not what the receipt says ends it
\* at once, with no checks but the one that failed.
ProjectionHolds(s) ==
  /\ s.original # None /\ s.claims
  /\ (s.workflow # None) <=> (s.bundle # None)

\* The inventory of the receipt is that of the files at the artifact root.
DeliveredMatch(s) == s.original.bound /\ delivered = "signed"

\* The rest of import_statement_file: the original, if the statement is of the kind that
\* carries one, by the store and the files as they are now.
VerifyOriginal ==
  LET s    == statement
      held == s.build = "current" /\ ProjectionHolds(s)
      orig == held /\ OriginalTrusted(s.original, import) IN
  /\ mpc = "original"
  /\ mpc' = "done"
  /\ found' = [found EXCEPT
       !["original"]  = IF s.build = "legacy" THEN "skipped" ELSE Status(orig),
       !["timestamp"] = IF ~ held \/ s.original.token = None THEN "skipped"
                        ELSE Status(TokenStands(s.original, import)),
       !["identity"]  = IF ~ import.policy \/ (s.build = "current" /\ ~ held) THEN "skipped"
                        ELSE Status(held /\ IdentityMatches(s)),
       !["artifacts"] = IF ~ held \/ ~ import.root THEN "skipped"
                        ELSE Status(DeliveredMatch(s)),
       !["signature"] = Status(found["dsse"] = "pass" /\ (s.build = "legacy" \/ orig))]
  /\ UNCHANGED <<xpc, export, delivered, statement, import, status, revoked>>

\* The verdict; a recipient with an identity policy requires identity.
ImportPasses(required) ==
  /\ mpc = "done"
  /\ PolicyMet(found, required \cup {q \in {"identity"} : import.policy})

InteropInit ==
  /\ xpc = "idle" /\ mpc = "idle"
  /\ export = None /\ statement = None /\ import = None /\ found = None
  /\ delivered = "signed"
  /\ status \in {s \in [SigningKeys -> {"trusted", "revoked", "none"}] :
                   \A k \in NoPolicy : s[k] = "none"}
  /\ revoked = {}

InteropNext ==
  \/ ChangeArtifacts
  \/ \E x \in Exports : BeginExport(x)
  \/ ReadWorkspace \/ SignEnvelope
  \/ Deliver
  \/ \E k \in SigningKeys : RevokeSigner(k)
  \/ \E how \in Imports : BeginImport(how)
  \/ VerifyOriginal

InteropSpec == InteropInit /\ [][InteropNext]_interopVars

----------------------------------------------------------------------------
\* Export and import do not launder a signature `attest verify` refuses, and what a
\* recipient requires of a passing statement holds of the receipt it carries.  Whatever is
\* required and whoever sent it: it is not signed with a key that was revoked before
\* the import (unless the caller takes the statement's word), and a receipt inside is signed
\* by a key that was not, or dated by a token; a token is of an authority the recipient
\* pinned.  `artifacts` means the files delivered are the inventory's, `identity` that the certificate is the one demanded and the one the
\* statement claims; a legacy statement, which carries no receipt, satisfies neither.
ImportEstablishes ==
  mpc = "done" => \A required \in SUBSET ImportChecks :
    ImportPasses(required) =>
      /\ import.ownTime \/ \E sig \in statement.signatures : sig.key \notin revoked
      /\ statement.build = "current" =>
           LET r == statement.original IN
           /\ r.sound /\ r.holds /\ r.signer # None /\ statement.claims
           /\ r.token # None => import.tsa /\ r.token # "broken"
           /\ r.signer \in revoked => r.token = "before"
      /\ "timestamp" \in required =>
           statement.build = "current" /\ statement.original.token # None
      /\ "artifacts" \in required =>
           /\ statement.build = "current" /\ statement.original.bound
           /\ import.root /\ delivered = "signed"
      /\ "identity" \in required \/ import.policy =>
           /\ statement.build = "current"
           /\ statement.original.bundle = "ours" /\ statement.workflow = "ours"

\* Export looks at the signature of a receipt and at its files, not at its coherence or
\* its token.  So to a recipient who trusts the keys and has the files as they were, a
\* signed envelope passes with signature and original required, and with the workflow it
\* claims demanded, exactly if the receipt is sound and any token it has covers the
\* signature and is of an authority that recipient pinned; the statement of an unsigned
\* receipt never passes.
ExportedImports ==
  export # None /\ mpc = "done" /\ statement # None =>
    LET r == export.original IN
    /\ r.signer = None => ~ ImportPasses({})
    /\ /\ statement.signatures # {} /\ \A k \in SigningKeys : status[k] = "trusted"
       /\ import.policy => export.identity = "ours"
       /\ import.root => r.bound /\ delivered = "signed"
       => (ImportPasses({"signature", "original"}) <=>
             r.sound /\ (r.token # None => import.tsa /\ r.token # "broken"))
=============================================================================
