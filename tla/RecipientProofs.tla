-------------------------- MODULE RecipientProofs --------------------------
(***************************************************************************)
(* Proofs about what a recipient may conclude: from a statement (Interop), *)
(* for any keys, receipts, senders and revocations, from a package         *)
(* (Evidence), for any files, receipts, senders and histories of the log,  *)
(* and from a path of hashes (Tiles), for trees of every size: what it     *)
(* proves is true, and the tiles of an honest log prove what is true.      *)
(***************************************************************************)
EXTENDS Interop, Evidence, Tiles, FiniteSetTheorems, SequenceTheorems, TLAPS

----------------------------------------------------------------------------
\* Interop.
InteropTypes ==
  /\ xpc \in {"idle", "artifacts", "sign", "done"}
  /\ export \in Exports \cup {None}
  /\ xpc \in {"artifacts", "sign"} => export # None
  /\ xpc = "idle" => export = None
  /\ statement \in StatementType \cup {None}
  /\ statement # None => xpc = "done"
  /\ mpc \in {"idle", "original", "done"}
  /\ status \in [SigningKeys -> {"trusted", "revoked", "none"}]

\* Once the import has begun: a key revoked then is revoked now, and an envelope that
\* passed was signed with a key that was not, unless the caller takes its word.
Begun ==
  mpc # "idle" =>
    /\ statement # None
    /\ import \in ImportType
    /\ \A k \in revoked : k \in SigningKeys /\ status[k] = "revoked"
    /\ DOMAIN found = ImportChecks
    /\ found["dsse"] = "pass" =>
         \E sig \in statement.signatures : import.ownTime \/ sig.key \notin revoked

InteropInv == InteropTypes /\ Begun /\ ImportEstablishes

LEMMA InteropFirst ==
  ASSUME InteropInit
  PROVE  InteropInv
BY DEF InteropInit, InteropInv, InteropTypes, Begun, ImportEstablishes

LEMMA ExportStep ==
  ASSUME InteropInv, NEW x \in Exports, BeginExport(x)
  PROVE  InteropInv'
<1>1. x # None
  BY InteropAssumption
<1>2. xpc = "idle" /\ statement = None /\ export' = x /\ mpc = "idle" /\ mpc' = mpc /\ statement' = statement /\ status' = status
      /\ xpc' \in {"artifacts", "done"}
  BY DEF BeginExport, InteropInv, InteropTypes, Begun
<1> QED BY <1>1, <1>2 DEF InteropInv, InteropTypes, Begun, ImportEstablishes

LEMMA EnvelopeStep ==
  ASSUME InteropInv, SignEnvelope
  PROVE  InteropInv'
<1>1. xpc = "sign" /\ xpc' = "done" /\ mpc = "idle" /\ mpc' = mpc /\ status' = status /\ export' = export
  BY DEF SignEnvelope, InteropInv, InteropTypes, Begun
<1>2. export \in ExportType
  BY <1>1, InteropAssumption DEF InteropInv, InteropTypes
<1>3. EnvelopeKeys \subseteq SigningKeys
  BY InteropAssumption DEF EnvelopeKeys
<1>4. ASSUME NEW sigs \in SUBSET [key : SigningKeys, holds : BOOLEAN]
      PROVE  Projection(sigs) \in StatementType
  BY <1>2 DEF Projection, StatementType, ExportType
<1>5. {[key |-> k, holds |-> TRUE] : k \in EnvelopeKeys} \in SUBSET [key : SigningKeys, holds : BOOLEAN]
  <2>1. \A k \in SigningKeys : [key |-> k, holds |-> TRUE] \in [key : SigningKeys, holds : BOOLEAN]
    OBVIOUS
  <2> QED BY <2>1, <1>3
<1>6. {} \in SUBSET [key : SigningKeys, holds : BOOLEAN]
  OBVIOUS
<1>7. statement' \in StatementType \cup {None}
  BY <1>4, <1>5, <1>6 DEF SignEnvelope
<1> QED BY <1>1, <1>7 DEF InteropInv, InteropTypes, Begun, ImportEstablishes

LEMMA DeliverStep ==
  ASSUME InteropInv, Deliver
  PROVE  InteropInv'
<1>1. xpc' = "done" /\ mpc = "idle" /\ mpc' = mpc /\ status' = status /\ export' = export
  BY DEF Deliver, InteropInv, InteropTypes, Begun
<1>2. statement' \in StatementType
  BY InteropAssumption DEF Deliver
<1> QED BY <1>1, <1>2 DEF InteropInv, InteropTypes, Begun, ImportEstablishes

LEMMA RevokeStep ==
  ASSUME InteropInv, NEW k \in SigningKeys, RevokeSigner(k)
  PROVE  InteropInv'
<1>1. /\ status[k] = "trusted" /\ mpc # "done" /\ status' = [status EXCEPT ![k] = "revoked"]
      /\ UNCHANGED <<xpc, export, delivered, statement, mpc, import, revoked, found>>
  BY DEF RevokeSigner
<1>2. InteropTypes'
  BY <1>1 DEF InteropInv, InteropTypes
<1>3. Begun'
  BY <1>1 DEF InteropInv, InteropTypes, Begun
<1>4. ImportEstablishes'
  BY <1>1 DEF ImportEstablishes
<1> QED BY <1>2, <1>3, <1>4 DEF InteropInv

LEMMA BeginImportStep ==
  ASSUME InteropInv, NEW how \in Imports, BeginImport(how)
  PROVE  InteropInv'
<1>1. /\ mpc = "idle" /\ xpc = "done" /\ statement # None /\ import' = how
      /\ revoked' = {k \in SigningKeys : status[k] = "revoked"}
      /\ mpc' = IF statement.parses THEN "original" ELSE "done"
      /\ UNCHANGED <<xpc, export, delivered, statement, status>>
  BY DEF BeginImport
<1>2. InteropTypes'
  BY <1>1 DEF InteropInv, InteropTypes
<1>3. how \in ImportType /\ statement \in StatementType
  BY <1>1, InteropAssumption DEF InteropInv, InteropTypes
<1>4. /\ DOMAIN found' = ImportChecks
      /\ found'["schema"] = Status(statement.parses)
      /\ found'["dsse"] = "pass" => EnvelopeTrusted(statement, how)
  BY DEF BeginImport, ImportChecks, Status
<1>5. ASSUME EnvelopeTrusted(statement, how)
      PROVE  \E sig \in statement.signatures : how.ownTime \/ sig.key \notin revoked'
  <2>1. PICK sig \in statement.signatures :
          status[sig.key] = "trusted" \/ how.ownTime
    BY <1>5 DEF EnvelopeTrusted
  <2>2. status[sig.key] = "trusted" => sig.key \notin revoked'
    BY <1>1
  <2> QED BY <2>1, <2>2
<1>6. Begun'
  BY <1>1, <1>3, <1>4, <1>5 DEF Begun
<1>7. ImportEstablishes'
  <2>1. CASE statement.parses
    BY <2>1, <1>1 DEF ImportEstablishes
  <2>2. CASE ~ statement.parses
    <3>1. found'["schema"] = "fail" /\ "schema" \in DOMAIN found'
      BY <2>2, <1>4 DEF Status, ImportChecks
    <3>2. ASSUME NEW required \in SUBSET ImportChecks PROVE ~ ImportPasses(required)'
      BY <3>1 DEF ImportPasses, PolicyMet
    <3> QED BY <3>2 DEF ImportEstablishes
  <2> QED BY <2>1, <2>2
<1> QED BY <1>2, <1>6, <1>7 DEF InteropInv

LEMMA OriginalStep ==
  ASSUME InteropInv, VerifyOriginal
  PROVE  InteropInv'
<1> DEFINE s    == statement
           held == s.build = "current" /\ ProjectionHolds(s)
           orig == held /\ OriginalTrusted(s.original, import)
<1>1. /\ mpc = "original" /\ mpc' = "done"
      /\ UNCHANGED <<xpc, export, delivered, statement, import, status, revoked>>
  BY DEF VerifyOriginal
<1>2. /\ s \in StatementType /\ import \in ImportType /\ DOMAIN found = ImportChecks
      /\ \A k \in revoked : k \in SigningKeys /\ status[k] = "revoked"
      /\ found["dsse"] = "pass" =>
           \E sig \in s.signatures : import.ownTime \/ sig.key \notin revoked
  BY <1>1 DEF InteropInv, InteropTypes, Begun
<1>3. /\ DOMAIN found' = ImportChecks
      /\ found'["dsse"] = found["dsse"]
      /\ found'["timestamp"] = IF ~ held \/ s.original.token = None THEN "skipped"
                               ELSE Status(TokenStands(s.original, import))
      /\ found'["signature"] = Status(found["dsse"] = "pass" /\ (s.build = "legacy" \/ orig))
      /\ found'["artifacts"] = IF ~ held \/ ~ import.root THEN "skipped" ELSE Status(DeliveredMatch(s))
      /\ found'["identity"] = IF ~ import.policy \/ (s.build = "current" /\ ~ held) THEN "skipped"
                              ELSE Status(held /\ IdentityMatches(s))
  BY <1>2 DEF VerifyOriginal, ImportChecks
<1>4. InteropTypes'
  BY <1>1 DEF InteropInv, InteropTypes
<1>5. Begun'
  BY <1>1, <1>2, <1>3 DEF InteropInv, Begun
<1>6. ASSUME NEW required \in SUBSET ImportChecks, ImportPasses(required)'
      PROVE  /\ import.ownTime \/ \E sig \in s.signatures : sig.key \notin revoked
             /\ s.build = "current" =>
                  /\ s.original.sound /\ s.original.holds /\ s.original.signer # None /\ s.claims
                  /\ s.original.token # None => import.tsa /\ s.original.token # "broken"
                  /\ s.original.signer \in revoked => s.original.token = "before"
             /\ "timestamp" \in required => s.build = "current" /\ s.original.token # None
             /\ "artifacts" \in required =>
                  /\ s.build = "current" /\ s.original.bound
                  /\ import.root /\ delivered = "signed"
             /\ "identity" \in required \/ import.policy =>
                  /\ s.build = "current"
                  /\ s.original.bundle = "ours" /\ s.workflow = "ours"
  <2>1. /\ \A c \in ImportChecks : found'[c] # "fail"
        /\ \A q \in required : found'[q] = "pass"
        /\ import.policy => found'["identity"] = "pass"
    BY <1>6, <1>1, <1>3 DEF ImportPasses, PolicyMet
  <2>2. found["dsse"] = "pass" /\ (s.build = "legacy" \/ orig)
    BY <2>1, <1>3 DEF Status, ImportChecks
  <2>3. import.ownTime \/ \E sig \in s.signatures : sig.key \notin revoked
    BY <2>2, <1>2
  <2>4. ASSUME s.build = "current"
        PROVE  /\ s.original.sound /\ s.original.holds /\ s.original.signer # None /\ s.claims
               /\ s.original.token # None => import.tsa /\ s.original.token # "broken"
               /\ s.original.signer \in revoked => s.original.token = "before"
    BY <2>2, <2>4, <1>2 DEF OriginalTrusted, TokenStands, ProjectionHolds
  <2>5. ASSUME "artifacts" \in required
        PROVE  /\ s.build = "current" /\ s.original.bound
               /\ import.root /\ delivered = "signed"
    <3>1. found'["artifacts"] = "pass"
      BY <2>1, <2>5
    <3>2. held /\ import.root /\ DeliveredMatch(s)
      BY <3>1, <1>3 DEF Status
    <3> QED BY <3>2 DEF DeliveredMatch
  <2>6. ASSUME "identity" \in required \/ import.policy
        PROVE  /\ s.build = "current"
               /\ s.original.bundle = "ours" /\ s.workflow = "ours"
    <3>1. found'["identity"] = "pass"
      BY <2>1, <2>6
    <3>2. held /\ IdentityMatches(s)
      BY <3>1, <1>3 DEF Status
    <3> QED BY <3>2 DEF IdentityMatches
  <2>7. ASSUME "timestamp" \in required
        PROVE  s.build = "current" /\ s.original.token # None
    <3>1. found'["timestamp"] = "pass"
      BY <2>1, <2>7
    <3> QED BY <3>1, <1>3
  <2> QED BY <2>3, <2>4, <2>5, <2>6, <2>7
<1>7. ImportEstablishes'
  <2> HIDE DEF orig, held
  <2> QED BY <1>6, <1>1 DEF ImportEstablishes
<1> QED BY <1>4, <1>5, <1>7 DEF InteropInv

LEMMA InteropStep ==
  ASSUME InteropInv, [InteropNext]_interopVars
  PROVE  InteropInv'
<1>1. CASE UNCHANGED interopVars
  BY <1>1 DEF interopVars, InteropInv, InteropTypes, Begun, ImportEstablishes, ImportPasses
<1>2. CASE ChangeArtifacts
  BY <1>2 DEF ChangeArtifacts, InteropInv, InteropTypes, Begun, ImportEstablishes
<1>3. CASE ReadWorkspace
  BY <1>3 DEF ReadWorkspace, InteropInv, InteropTypes, Begun, ImportEstablishes
<1> QED BY <1>1, <1>2, <1>3, ExportStep, EnvelopeStep, DeliverStep, RevokeStep,
           BeginImportStep, OriginalStep DEF InteropNext

\* The inductive invariant behind ImportHolds: the recipient's keys, the envelope and the
\* checks found so far stand in the relation `Begun` (import_statement_file, interop.rs).
THEOREM InteropInvariant == InteropSpec => []InteropInv
<1>1. InteropInit => InteropInv
  BY InteropFirst
<1>2. InteropInv /\ [InteropNext]_interopVars => InteropInv'
  BY InteropStep
<1> QED BY <1>1, <1>2, PTL DEF InteropSpec

\* For any keys, senders, receipts and requirements, and keys revoked at any time: what a
\* recipient requires of a statement that passes holds of the receipt it carries
\* (import_statement_file, interop.rs).
THEOREM ImportHolds == InteropSpec => []ImportEstablishes
<1>1. InteropInv => ImportEstablishes
  BY DEF InteropInv
<1> QED BY <1>1, InteropInvariant, PTL

----------------------------------------------------------------------------
\* What the exporter has established of the receipt when it gets so far, and what its
\* statement then says.
Sole(sigs) == \E k \in SigningKeys : sigs = {[key |-> k, holds |-> TRUE]}

ExportedPart ==
  export # None =>
    LET r == export.original IN
    /\ xpc \in {"artifacts", "sign"} => (r.signer # None => r.holds)
    /\ xpc = "sign" => (export.identity # None => r.bundle = export.identity)
    /\ statement # None =>
         /\ statement = Projection(statement.signatures)
         /\ statement.signatures # {} =>
              r.signer # None /\ r.holds /\ Sole(statement.signatures)
         /\ export.identity # None => r.bundle = export.identity

\* What the import of such a statement has found of its envelope.
FoundPart ==
  export # None /\ mpc = "original" =>
    /\ found["schema"] = "pass" /\ found["consistency"] = "pass"
    /\ found["dsse"] = Status(found["dsse"] = "pass")
    /\ statement.signatures = {} => found["dsse"] = "fail"
    /\ (statement.signatures # {} /\ \A k \in SigningKeys : status[k] = "trusted")
         => found["dsse"] = "pass"

RoundTrip == ExportedPart /\ FoundPart /\ ExportedImports

\* There is at most one key to sign an envelope with.
LEMMA OneEnvelopeKey ==
  ASSUME export \in ExportType, EnvelopeKeys # {}
  PROVE  \E k \in SigningKeys : EnvelopeKeys = {k}
<1> DEFINE chosen == IF export.key # None THEN {export.key}
                     ELSE IF export.original.signer \in Local THEN {export.original.signer}
                     ELSE IF Cardinality(Local) = 1 THEN Local ELSE {}
<1>1. EnvelopeKeys = chosen \cap Authorized
  BY DEF EnvelopeKeys
<1>2. IsFiniteSet(Local)
  BY InteropAssumption, FS_Subset
<1>3. Cardinality(Local) = 1 => \E k : Local = {k}
  BY <1>2, FS_Singleton
<1>4. chosen = {} \/ \E k : chosen = {k}
  BY <1>3
<1>5. PICK k : chosen = {k}
  BY <1>1, <1>4
<1>6. EnvelopeKeys = {k}
  <2> HIDE DEF chosen
  <2> QED BY <1>1, <1>5
<1>7. k \in SigningKeys
  BY <1>1, <1>6, InteropAssumption
<1> QED BY <1>6, <1>7

LEMMA RoundTripFirst ==
  ASSUME InteropInit
  PROVE  RoundTrip
BY DEF InteropInit, RoundTrip, ExportedPart, FoundPart, ExportedImports

LEMMA RoundTripExport ==
  ASSUME InteropInv, RoundTrip, NEW x \in Exports, BeginExport(x)
  PROVE  RoundTrip'
<1>1. xpc = "idle" /\ statement' = None /\ mpc' = "idle" /\ export' = x
  BY DEF BeginExport, InteropInv, InteropTypes, Begun
<1>2. xpc' # "sign" /\ (xpc' = "artifacts" => (x.original.signer # None => x.original.holds))
  BY DEF BeginExport
<1> QED BY <1>1, <1>2 DEF RoundTrip, ExportedPart, FoundPart, ExportedImports

LEMMA RoundTripEnvelope ==
  ASSUME InteropInv, RoundTrip, SignEnvelope
  PROVE  RoundTrip'
<1> DEFINE r == export.original
           one == {[key |-> k, holds |-> TRUE] : k \in EnvelopeKeys}
<1>1. xpc = "sign" /\ xpc' = "done" /\ mpc' = "idle" /\ export' = export /\ export # None
  BY DEF SignEnvelope, InteropInv, InteropTypes, Begun
<1>2. export \in ExportType
  BY <1>1, InteropAssumption DEF InteropInv, InteropTypes
<1>3. (r.signer # None => r.holds) /\ (export.identity # None => r.bundle = export.identity)
  BY <1>1 DEF RoundTrip, ExportedPart
<1>4. \/ statement' = None
      \/ statement' = Projection({})
      \/ r.signer # None /\ EnvelopeKeys # {} /\ statement' = Projection(one)
  BY DEF SignEnvelope
<1>5. ASSUME EnvelopeKeys # {} PROVE Sole(one)
  <2>1. PICK k \in SigningKeys : EnvelopeKeys = {k}
    BY <1>2, <1>5, OneEnvelopeKey
  <2>2. one = {[key |-> k, holds |-> TRUE]}
    BY <2>1
  <2> QED BY <2>2 DEF Sole
<1>6. ASSUME NEW sigs PROVE Projection(sigs)' = Projection(sigs) /\ Projection(sigs).signatures = sigs
  BY <1>1 DEF Projection
<1>7. statement' # None =>
         /\ statement' = Projection(statement'.signatures)
         /\ statement'.signatures # {} => r.signer # None /\ Sole(statement'.signatures)
  <2> HIDE DEF one
  <2> QED BY <1>4, <1>5, <1>6
<1>8. ExportedPart'
  BY <1>1, <1>3, <1>6, <1>7 DEF ExportedPart, Sole, Projection
<1> QED BY <1>1, <1>8 DEF RoundTrip, FoundPart, ExportedImports

LEMMA RoundTripRevoke ==
  ASSUME InteropInv, RoundTrip, NEW k \in SigningKeys, RevokeSigner(k)
  PROVE  RoundTrip'
<1>1. /\ status[k] = "trusted" /\ mpc # "done" /\ status' = [status EXCEPT ![k] = "revoked"]
      /\ UNCHANGED <<xpc, export, delivered, statement, mpc, import, revoked, found>>
  BY DEF RevokeSigner
<1>2. status'[k] # "trusted"
  BY <1>1 DEF InteropInv, InteropTypes
<1>3. FoundPart'
  BY <1>1, <1>2 DEF RoundTrip, FoundPart
<1>4. ExportedPart'
  BY <1>1 DEF RoundTrip, ExportedPart, Projection, Sole
<1> QED BY <1>1, <1>3, <1>4 DEF RoundTrip, ExportedImports

LEMMA RoundTripBegins ==
  ASSUME InteropInv, RoundTrip, NEW how \in Imports, BeginImport(how)
  PROVE  RoundTrip'
<1>1. /\ mpc = "idle" /\ xpc = "done" /\ statement # None
      /\ mpc' = IF statement.parses THEN "original" ELSE "done"
      /\ UNCHANGED <<xpc, export, delivered, statement, status>>
  BY DEF BeginImport
<1>2. ExportedPart'
  BY <1>1 DEF RoundTrip, ExportedPart, Projection, Sole
<1>3. ASSUME export # None
      PROVE  /\ statement.parses /\ statement.coherent
             /\ statement.signatures # {} => Sole(statement.signatures)
  BY <1>1, <1>3 DEF RoundTrip, ExportedPart, Projection
<1>4. ASSUME statement.parses
      PROVE  /\ found'["schema"] = Status(TRUE) /\ found'["consistency"] = Status(statement.coherent)
             /\ found'["dsse"] = Status(EnvelopeTrusted(statement, how))
  BY <1>4 DEF BeginImport, ImportChecks
<1>5. statement.signatures = {} => ~ EnvelopeTrusted(statement, how)
  BY DEF EnvelopeTrusted
<1>6. ASSUME Sole(statement.signatures), \A k \in SigningKeys : status[k] = "trusted"
      PROVE  EnvelopeTrusted(statement, how)
  <2>1. PICK k \in SigningKeys : statement.signatures = {[key |-> k, holds |-> TRUE]}
    BY <1>6 DEF Sole
  <2>2. Cardinality(statement.signatures) = 1
    BY <2>1, FS_Singleton
  <2>3. status[k] = "trusted"
    BY <1>6
  <2> QED BY <2>1, <2>2, <2>3 DEF EnvelopeTrusted
<1>7. ASSUME export # None
      PROVE  FoundPart' /\ mpc' = "original"
  BY <1>1, <1>3, <1>4, <1>5, <1>6, <1>7 DEF FoundPart, Status
<1> QED BY <1>1, <1>2, <1>7 DEF RoundTrip, FoundPart, ExportedImports

LEMMA RoundTripEnds ==
  ASSUME InteropInv, RoundTrip, VerifyOriginal
  PROVE  RoundTrip'
<1> DEFINE s    == statement
           r    == export.original
           held == s.build = "current" /\ ProjectionHolds(s)
           orig == held /\ OriginalTrusted(s.original, import)
<1>1. /\ mpc = "original" /\ mpc' = "done"
      /\ UNCHANGED <<xpc, export, delivered, statement, import, status, revoked>>
  BY DEF VerifyOriginal
<1>2. DOMAIN found = ImportChecks /\ s # None /\ import \in ImportType
  BY <1>1 DEF InteropInv, Begun
<1>3. /\ DOMAIN found' = ImportChecks
      /\ \A c \in {"schema", "consistency", "dsse"} : found'[c] = found[c]
      /\ found'["timestamp"] = IF ~ held \/ s.original.token = None THEN "skipped"
                               ELSE Status(TokenStands(s.original, import))
      /\ found'["original"] = IF s.build = "legacy" THEN "skipped" ELSE Status(orig)
      /\ found'["signature"] = Status(found["dsse"] = "pass" /\ (s.build = "legacy" \/ orig))
      /\ found'["artifacts"] = IF ~ held \/ ~ import.root THEN "skipped" ELSE Status(DeliveredMatch(s))
      /\ found'["identity"] = IF ~ import.policy \/ (s.build = "current" /\ ~ held) THEN "skipped"
                              ELSE Status(held /\ IdentityMatches(s))
  BY <1>2 DEF VerifyOriginal, ImportChecks
<1>4. ExportedPart'
  BY <1>1 DEF RoundTrip, ExportedPart, Projection, Sole
<1>5. ASSUME export # None
      PROVE  /\ s.build = "current" /\ s.original = r /\ s.claims
             /\ s.workflow = export.identity /\ s.bundle = export.identity
             /\ s.signatures # {} => r.signer # None /\ r.holds
             /\ export.identity # None => r.bundle = export.identity
             /\ r # None /\ r \in OriginalType
             /\ r.signer = None => s.signatures = {}
  <2>1. export \in ExportType
    BY <1>5, InteropAssumption DEF InteropInv, InteropTypes
  <2>2. r \in OriginalType /\ r # None
    BY <2>1, InteropAssumption DEF ExportType
  <2> QED BY <2>2, <1>2, <1>5 DEF RoundTrip, ExportedPart, Projection
<1>6. ASSUME export # None, r.signer = None
      PROVE  ~ ImportPasses({})'
  <2>1. found'["dsse"] = "fail" /\ "dsse" \in DOMAIN found'
    BY <1>1, <1>3, <1>5, <1>6 DEF RoundTrip, FoundPart, ImportChecks
  <2> QED BY <2>1 DEF ImportPasses, PolicyMet
<1>7. ASSUME export # None, s.signatures # {}, \A k \in SigningKeys : status[k] = "trusted",
             import.policy => export.identity = "ours",
             import.root => r.bound /\ delivered = "signed",
             r.sound, r.token # None => import.tsa /\ r.token # "broken"
      PROVE  ImportPasses({"signature", "original"})'
  <2>1. found["schema"] = "pass" /\ found["consistency"] = "pass" /\ found["dsse"] = "pass"
    BY <1>1, <1>7 DEF RoundTrip, FoundPart
  <2>2. held
    BY <1>5, <1>7 DEF ProjectionHolds
  <2>3. OriginalTrusted(s.original, import) /\ TokenStands(s.original, import)
    BY <1>5, <1>7 DEF OriginalTrusted, TokenStands, OriginalType
  <2>4. import.root => DeliveredMatch(s)
    BY <1>5, <1>7 DEF DeliveredMatch
  <2>5. import.policy => IdentityMatches(s)
    BY <1>5, <1>7, InteropAssumption DEF IdentityMatches
  <2>6. /\ found'["original"] = "pass" /\ found'["signature"] = "pass"
        /\ found'["artifacts"] # "fail" /\ found'["timestamp"] # "fail"
        /\ found'["identity"] # "fail" /\ (import.policy => found'["identity"] = "pass")
    BY <1>3, <1>5, <1>7, <2>1, <2>2, <2>3, <2>4, <2>5 DEF Status
  <2>7. \A c \in DOMAIN found' : found'[c] # "fail"
    BY <1>3, <2>1, <2>6 DEF ImportChecks
  <2> QED BY <1>1, <2>6, <2>7 DEF ImportPasses, PolicyMet
<1>8. ASSUME export # None, ~ (r.sound /\ (r.token # None => import.tsa /\ r.token # "broken"))
      PROVE  ~ ImportPasses({"signature", "original"})'
  <2>1. ~ OriginalTrusted(s.original, import)
    BY <1>5, <1>8 DEF OriginalTrusted, TokenStands
  <2>2. found'["original"] = "fail" /\ "original" \in DOMAIN found'
    BY <1>3, <1>5, <1>8, <2>1 DEF Status, ImportChecks
  <2> QED BY <2>2 DEF ImportPasses, PolicyMet
<1>9. ExportedImports'
  <2> HIDE DEF held, orig
  <2> QED BY <1>1, <1>6, <1>7, <1>8 DEF ExportedImports
<1> QED BY <1>1, <1>4, <1>9 DEF RoundTrip, FoundPart

LEMMA RoundTripStep ==
  ASSUME InteropInv, RoundTrip, [InteropNext]_interopVars
  PROVE  RoundTrip'
<1>1. CASE UNCHANGED interopVars
  BY <1>1 DEF interopVars, RoundTrip, ExportedPart, FoundPart, ExportedImports, ImportPasses,
              Projection, Sole
<1>2. CASE ChangeArtifacts
  BY <1>2 DEF ChangeArtifacts, RoundTrip, ExportedPart, FoundPart, ExportedImports, Projection,
              Sole
<1>3. CASE ReadWorkspace
  <2>1. xpc = "artifacts" /\ statement = None /\ mpc = "idle"
    BY <1>3 DEF ReadWorkspace, InteropInv, InteropTypes, Begun
  <2> QED BY <1>3, <2>1 DEF ReadWorkspace, RoundTrip, ExportedPart, FoundPart, ExportedImports
<1>4. CASE Deliver
  <2>1. export' = None
    BY <1>4 DEF Deliver, InteropInv, InteropTypes
  <2> QED BY <1>4, <2>1 DEF RoundTrip, ExportedPart, FoundPart, ExportedImports
<1> QED BY <1>1, <1>2, <1>3, <1>4, RoundTripExport, RoundTripEnvelope, RoundTripRevoke,
           RoundTripBegins, RoundTripEnds DEF InteropNext

\* For any keys, receipts and requests: a recipient takes what export writes, unless a key
\* is not trusted or the files were changed since (export_receipt_file and
\* import_statement_file, interop.rs).
THEOREM RoundTripHolds == InteropSpec => []ExportedImports
<1>1. InteropInit => RoundTrip
  BY RoundTripFirst
<1>2. InteropInv /\ RoundTrip /\ [InteropNext]_interopVars => RoundTrip'
  BY RoundTripStep
<1>3. RoundTrip => ExportedImports
  BY DEF RoundTrip
<1> QED BY <1>1, <1>2, <1>3, InteropInvariant, PTL DEF InteropSpec

----------------------------------------------------------------------------
\* Evidence.  A package names one of the receipts; a verdict is of the package and the
\* reader as they are, as neither changes after it.
EvidenceTypes ==
  /\ ppc \in {"idle", "proofs", "log", "artifacts", "write", "done"}
  /\ ppc \notin {"idle", "done"} => job \in Asked
  /\ job \in Asked \cup {None}
  /\ ppc = "idle" => package = None /\ job = None
  /\ package # None =>
       /\ package.receipt \in Receipts \cup {None}
       /\ package.publication \in Records \cup {None}
       /\ package.comparison \in Comparisons \cup {None}

Judged ==
  /\ reader # None => reader \in Readers /\ package # None /\ ppc = "done"
  /\ checks # None => reader # None
  /\ reader # None =>
       checks = IF ~ Readable(package) THEN None
                ELSE IF package.kind = "evidence" THEN VerifyEvidence(package, reader)
                ELSE VerifyArchive(package, reader)

EvidenceInv == EvidenceTypes /\ Judged

LEMMA EvidenceFirst ==
  ASSUME EvidenceInit
  PROVE  EvidenceInv
BY DEF EvidenceInit, EvidenceInv, EvidenceTypes, Judged

LEMMA PackedTypes ==
  ASSUME job \in Asked, NEW fits
  PROVE  /\ Packed(fits).receipt \in Receipts
         /\ Packed(fits).publication \in Records \cup {None}
         /\ Packed(fits).comparison \in Comparisons \cup {None}
BY EvidenceAssumption DEF Packed, Jobs

LEMMA EvidenceStep ==
  ASSUME EvidenceInv, [EvidenceNext]_evidenceVars
  PROVE  EvidenceInv'
<1> USE DEF EvidenceInv
<1>1. CASE UNCHANGED evidenceVars
  BY <1>1 DEF evidenceVars, EvidenceTypes, Judged
<1>2. ASSUME NEW f \in Files, NEW c \in Contents(f), EditFile(f, c)
      PROVE  EvidenceInv'
  BY <1>2 DEF EditFile, EvidenceTypes, Judged
<1>3. ASSUME NEW j \in Asked, BeginPack(j)
      PROVE  EvidenceInv'
  <2>1. ppc = "idle" /\ job' = j /\ ppc' \in {"proofs", "done"} /\ reader = None
        /\ UNCHANGED <<package, reader, checks>>
    BY <1>3 DEF BeginPack, Judged
  <2> QED BY <2>1 DEF EvidenceTypes, Judged
<1>4. CASE Collect
  <2>1. /\ ppc = "proofs" /\ ppc' \in {"log", "done"} /\ UNCHANGED <<job, package, reader, checks>>
    BY <1>4 DEF Collect
  <2> QED BY <2>1 DEF EvidenceTypes, Judged
<1>5. CASE CollectEvents
  <2>1. /\ ppc = "proofs" /\ ppc' \in {"write", "done"} /\ UNCHANGED <<job, package, reader, checks>>
    BY <1>5 DEF CollectEvents
  <2> QED BY <2>1 DEF EvidenceTypes, Judged
<1>6. CASE ReadLog
  BY <1>6 DEF ReadLog, EvidenceTypes, Judged
<1>7. ASSUME NEW a \in Artifacts, ReadArtifact(a)
      PROVE  EvidenceInv'
  <2>1. /\ ppc = "artifacts" /\ ppc' \in {"artifacts", "done"}
        /\ UNCHANGED <<job, package, reader, checks>>
    BY <1>7 DEF ReadArtifact
  <2> QED BY <2>1 DEF EvidenceTypes, Judged
<1>8. CASE ArtifactsRead
  BY <1>8 DEF ArtifactsRead, EvidenceTypes, Judged
<1>9. ASSUME NEW fits \in BOOLEAN, WritePackage(fits)
      PROVE  EvidenceInv'
  <2>1. /\ ppc = "write" /\ ppc' = "done" /\ job \in Asked /\ reader = None /\ checks = None
        /\ package' = package \/ package' = Packed(fits)
        /\ UNCHANGED <<job, reader, checks>>
    BY <1>9 DEF WritePackage, EvidenceTypes, Judged
  <2> QED BY <2>1, PackedTypes DEF EvidenceTypes, Judged
<1>10. CASE KillPacker
  <2>1. /\ ppc \notin {"idle", "done"} /\ ppc' = "done" /\ job \in Asked /\ reader = None /\ checks = None
        /\ package' = package \/ package' = Packed(FALSE)
        /\ UNCHANGED <<job, reader, checks>>
    BY <1>10 DEF KillPacker, EvidenceTypes, Judged
  <2> QED BY <2>1, PackedTypes DEF EvidenceTypes, Judged
<1>11. CASE Send
  <2>1. /\ ppc' = "done" /\ reader = None /\ checks = None /\ package' \in PackageType
        /\ UNCHANGED <<job, reader, checks>>
    BY <1>11, EvidenceAssumption DEF Send, EvidenceTypes, Judged
  <2> QED BY <2>1 DEF EvidenceTypes, Judged, PackageType
<1>12. ASSUME NEW m \in Readers, Receive(m)
      PROVE  EvidenceInv'
  <2>1. m # None
    BY EvidenceAssumption
  <2> QED BY <1>12, <2>1 DEF Receive, EvidenceTypes, Judged
<1> QED BY <1>1, <1>2, <1>3, <1>4, <1>5, <1>6, <1>7, <1>8, <1>9, <1>10, <1>11, <1>12 DEF EvidenceNext

\* The inductive invariant behind the theorems on packages: a verdict is of the package and
\* the reader's material as they are, whatever the sender does (verify_with_policy_and_log,
\* evidence.rs).
THEOREM EvidenceInvariant == EvidenceSpec => []EvidenceInv
<1>1. EvidenceInit => EvidenceInv
  BY EvidenceFirst
<1>2. EvidenceInv /\ [EvidenceNext]_evidenceVars => EvidenceInv'
  BY EvidenceStep
<1> QED BY <1>1, <1>2, PTL DEF EvidenceSpec

----------------------------------------------------------------------------
\* Trees of one history: of the same history, or one of them within what all share.
LEMMA TreeShape ==
  ASSUME NEW t \in Trees
  PROVE  /\ t.size \in Nat
         /\ \E h \in Histories : t = Tree(h, t.size)
BY LogAssumption DEF Trees, Tree

LEMMA ShortPrefix ==
  ASSUME NEW t \in Trees, NEW u \in Trees, t.size = 0
  PROVE  OneHistory(t, u)
<1>1. PICK h \in Histories : u = Tree(h, u.size)
  BY TreeShape
<1>2. t = Tree(h, t.size)
  BY TreeShape, LogAssumption DEF Tree
<1> QED BY <1>1, <1>2 DEF OneHistory

LEMMA ConsistentTrees ==
  ASSUME NEW t \in Trees, NEW u \in Trees, NEW w, VerifyConsistency(t, u, w)
  PROVE  OneHistory(t, u)
<1>1. CASE t = u
  BY <1>1, TreeShape DEF OneHistory
<1>2. CASE t # u /\ t.size = 0
  BY <1>2, ShortPrefix
<1>3. CASE t # u /\ t.size # 0
  BY <1>3 DEF VerifyConsistency
<1> QED BY <1>1, <1>2, <1>3

LEMMA CompareMeans ==
  ASSUME NEW published \in Trees, NEW m, m.reference.tree \in Trees,
         m.comparison = None \/ m.comparison \in Comparisons,
         Compare(published, m) = "pass"
  PROVE  OneHistory(m.reference.tree, published)
<1> DEFINE t == m.reference.tree
<1>1. CASE m.comparison # None
  <2> DEFINE c == m.comparison
  <2>1. Covers(c, t, published)
    BY <1>1 DEF Compare
  <2>2. c.first.tree \in Trees /\ c.second.tree \in Trees
    BY <1>1 DEF Comparisons, Checkpoints
  <2>3. OneHistory(c.first.tree, c.second.tree)
    BY <2>1, <2>2, ConsistentTrees DEF Covers, VerifyComparison
  <2>4. \/ c.first.tree = t /\ c.second.tree = published
        \/ c.first.tree = published /\ c.second.tree = t
    BY <2>1 DEF Covers
  <2> QED BY <2>3, <2>4 DEF OneHistory
<1>2. CASE m.comparison = None
  <2>1. t = published \/ t.size = 0
    BY <1>2 DEF Compare
  <2>2. CASE t = published
    BY <2>2, TreeShape DEF OneHistory
  <2> QED BY <2>1, <2>2, ShortPrefix
<1> QED BY <1>1, <1>2

LEMMA AssessMeans ==
  ASSUME NEW rooted, NEW r \in Records \cup {None}, NEW m \in Material,
         Assess(rooted, r, m)[2] = "pass"
  PROVE  /\ r # None /\ m.trust /\ m.reference # None /\ r.checkpoint.ours
         /\ OneHistory(m.reference.tree, r.checkpoint.tree)
<1>1. /\ r # None /\ m.trust /\ r.checkpoint # None /\ VerifyRecord(r) /\ m.reference # None
      /\ Compare(r.checkpoint.tree, m) = "pass"
  BY DEF Assess
<1>2. r.checkpoint \in Checkpoints /\ m.reference \in Checkpoints
  BY <1>1 DEF Records, Material
<1>3. r.checkpoint.tree \in Trees /\ m.reference.tree \in Trees
  BY <1>2 DEF Checkpoints
<1>4. m.comparison = None \/ m.comparison \in Comparisons
  BY DEF Material
<1> QED BY <1>1, <1>3, <1>4, CompareMeans DEF VerifyRecord

LEMMA JudgedNoFork ==
  ASSUME EvidenceInv
  PROVE  ConsistencyIsNoFork
<1> SUFFICES ASSUME checks # None, checks.consistency = "pass"
             PROVE  /\ reader.log.trust /\ reader.log.reference # None
                    /\ package.publication.checkpoint.ours
                    /\ OneHistory(reader.log.reference.tree, package.publication.checkpoint.tree)
  BY DEF ConsistencyIsNoFork
<1>1. reader \in ReaderType /\ package # None
  BY EvidenceAssumption DEF EvidenceInv, Judged
<1>2. reader.log \in Material
  BY <1>1 DEF ReaderType
<1> DEFINE given == [reader.log EXCEPT !.comparison = IF @ # None THEN @ ELSE package.comparison]
           rec == IF package.format = "v3" THEN package.publication ELSE None
           rooted == package.receipt.root # None
<1>3. LogChecks(package, reader)[2] = "pass"
  BY DEF EvidenceInv, Judged, VerifyEvidence, VerifyArchive
<1>4. Assess(rooted, rec, given)[2] = "pass"
  BY <1>3 DEF LogChecks
<1>5. package.comparison \in Comparisons \cup {None} /\ package.publication \in Records \cup {None}
  BY <1>1 DEF EvidenceInv, EvidenceTypes
<1>6. given \in Material /\ given.trust = reader.log.trust /\ given.reference = reader.log.reference
  BY <1>2, <1>5 DEF Material
<1>7. rec \in Records \cup {None}
  BY <1>5
<1>8. /\ rec # None /\ given.trust /\ given.reference # None /\ rec.checkpoint.ours
      /\ OneHistory(given.reference.tree, rec.checkpoint.tree)
  <2> HIDE DEF given, rec, rooted
  <2> QED BY <1>4, <1>6, <1>7, AssessMeans
<1> QED BY <1>6, <1>8

\* For any histories of the log, any sender and any reader: log-consistency passes only if
\* one history explains the reader's reference and the publication's checkpoint (assess,
\* publication/record.rs).
THEOREM NoForkHolds == EvidenceSpec => []ConsistencyIsNoFork
<1>1. EvidenceInv => ConsistencyIsNoFork
  BY JudgedNoFork
<1> QED BY <1>1, EvidenceInvariant, PTL

----------------------------------------------------------------------------
\* What the checks of a release package mean for its files.
LEMMA ReleaseFiles ==
  ASSUME NEW p, NEW m, p.receipt \in Receipts,
         ArtifactsCheck(p, m) = "pass", CapsuleCheck(p) # "fail", CausalCheck(p) # "fail"
  PROVE  LET r == p.receipt IN
         /\ \A f \in Files :
              p.files[f] # None =>
                /\ f \in r.artifacts \cup r.capsules \cup Range(r.events)
                /\ f \in Events => p.files[f].of = f /\ ~ p.files[f].metadata
                /\ f \notin Events => p.files[f] = f
         /\ \A a \in r.artifacts : p.files[a] # None
<1> DEFINE r == p.receipt
<1>1. r \in ReceiptType
  BY EvidenceAssumption
<1>2. r.artifacts \subseteq Artifacts /\ r.capsules \subseteq Capsules /\ r.events \in Seq(Events)
  BY <1>1 DEF ReceiptType
<1>3. Range(r.events) \subseteq Events
  BY <1>2 DEF Range
<1>4. ArtifactBytes(p, m) /\ Accounted(p)
  BY DEF ArtifactsCheck, Status
<1>5. \A a \in r.artifacts : p.files[a] = a /\ a # None
  BY <1>2, <1>4, EvidenceAssumption DEF ArtifactBytes, Files
<1>6. \A c \in r.capsules : p.files[c] # None => p.files[c] = c
  BY DEF CapsuleCheck
<1>7. ASSUME NEW e \in Range(r.events), p.files[e] # None
      PROVE  p.files[e].of = e /\ ~ p.files[e].metadata
  <2>1. r.events # <<>>
    BY <1>7 DEF Range
  <2>2. EventHolds(r, e, p.files[e])
    BY <1>7, <2>1 DEF CausalCheck
  <2> QED BY <2>2 DEF EventHolds, Authentic
<1>8. \A f \in Files : p.files[f] # None => f \in r.artifacts \cup r.capsules \cup Range(r.events)
  BY <1>4 DEF Accounted
<1> QED BY <1>2, <1>3, <1>5, <1>6, <1>7, <1>8, EvidenceAssumption DEF Files

\* What the linkage check means, of a release package and of an archive.
LEMMA LinkedFiles ==
  ASSUME NEW r \in ReceiptType, NEW held, NEW partial, ChainLinkage(r, held, partial) = "pass"
  PROVE  /\ \A i \in DOMAIN r.events : held[r.events[i]] # None
         /\ r.root = [i \in DOMAIN r.events |-> held[r.events[i]].of]
<1>1. \A e \in Range(r.events) : held[e] # None
  BY DEF ChainLinkage
<1>2. r.root = [i \in DOMAIN r.events |-> held[r.events[i]].of]
  BY <1>1 DEF ChainLinkage, Status
<1> QED BY <1>1, <1>2 DEF Range

LEMMA JudgedSigned ==
  ASSUME EvidenceInv
  PROVE  AcceptedIsSigned
<1> SUFFICES ASSUME checks # None, NEW required \in SUBSET Requirements, PackagePasses(required)
             PROVE  LET r == package.receipt IN
                    /\ package.kind = "evidence" =>
                         /\ r.signature = "holds" /\ reader.trusted /\ r.success
                         /\ r.inventory /\ r.artifacts # {}
                         /\ \A f \in Files :
                              package.files[f] # None =>
                                /\ f \in r.artifacts \cup r.capsules \cup Range(r.events)
                                /\ f \in Events => package.files[f].of = f /\ ~ package.files[f].metadata
                                /\ f \notin Events => package.files[f] = f
                         /\ \A a \in r.artifacts : package.files[a] # None
                         /\ "capsule" \in required => \A c \in r.capsules : package.files[c] # None
                    /\ "linkage" \in required /\ r.events # <<>> =>
                         /\ \A i \in DOMAIN r.events : package.files[r.events[i]] \notin {None, Other}
                         /\ r.root = [i \in DOMAIN r.events |-> package.files[r.events[i]].of]
  BY DEF AcceptedIsSigned
<1> DEFINE r == package.receipt
<1>1. Readable(package) /\ package # None
  BY DEF EvidenceInv, Judged
<1>2. r \in Receipts
  BY <1>1 DEF EvidenceInv, EvidenceTypes, Readable
<1>3. r \in ReceiptType
  BY <1>2, EvidenceAssumption
<1>4. r.events \in Seq(Events) /\ Range(r.events) \subseteq Events
      /\ \A i \in DOMAIN r.events : r.events[i] \in Range(r.events)
  BY <1>3 DEF ReceiptType, Range
<1>5. CASE package.kind = "evidence"
  <2>1. checks = VerifyEvidence(package, reader)
    BY <1>5, <1>1 DEF EvidenceInv, Judged
  <2>2. /\ \A c \in DOMAIN checks : checks[c] # "fail"
        /\ \A q \in required : checks[q] = "pass"
        /\ checks["signature"] = "pass" /\ checks["success"] = "pass" /\ checks["artifacts"] = "pass"
    BY <1>5 DEF PackagePasses, PolicyMet, Floor
  <2>3. /\ SignatureCheck(r, reader) = "pass" /\ Outcome(r) = "pass"
        /\ ArtifactsCheck(package, reader) = "pass" /\ CapsuleCheck(package) # "fail"
        /\ CausalCheck(package) # "fail"
        /\ "capsule" \in required => CapsuleCheck(package) = "pass"
        /\ "linkage" \in required => CausalCheck(package) = "pass"
    BY <2>1, <2>2 DEF VerifyEvidence
  <2>4. /\ r.signature = "holds" /\ reader.trusted /\ r.success
        /\ r.inventory /\ r.artifacts # {}
    BY <2>3 DEF SignatureCheck, Outcome, ArtifactsCheck, Status
  <2>5. "capsule" \in required => \A c \in r.capsules : package.files[c] # None
    BY <2>3 DEF CapsuleCheck
  <2>6. ASSUME "linkage" \in required, r.events # <<>>
        PROVE  /\ \A i \in DOMAIN r.events : package.files[r.events[i]] \notin {None, Other}
               /\ r.root = [i \in DOMAIN r.events |-> package.files[r.events[i]].of]
    <3>1. CausalCheck(package) = "pass"
      BY <2>3, <2>6
    <3>2. ChainLinkage(r, package.files, FALSE) = "pass"
      BY <3>1, <2>6 DEF CausalCheck, Status
    <3>3. \A e \in Range(r.events) : package.files[e] # None => package.files[e] # Other
      BY <3>1, <2>6 DEF CausalCheck, EventHolds
    <3>4. /\ \A i \in DOMAIN r.events : package.files[r.events[i]] # None
          /\ r.root = [i \in DOMAIN r.events |-> package.files[r.events[i]].of]
      BY <3>2, <1>3, LinkedFiles
    <3>5. \A i \in DOMAIN r.events : package.files[r.events[i]] # Other
      BY <3>3, <3>4, <1>4
    <3> QED BY <3>4, <3>5
  <2> QED BY <1>2, <2>3, <2>4, <2>5, <2>6, ReleaseFiles
<1>6. CASE package.kind # "evidence"
  <2> DEFINE held == [e \in Events |-> IF package.files[e] = Other THEN None ELSE package.files[e]]
  <2>1. checks = VerifyArchive(package, reader)
    BY <1>6, <1>1 DEF EvidenceInv, Judged
  <2>2. ASSUME "linkage" \in required
        PROVE  ChainLinkage(r, held, package.partial) = "pass"
    <3>1. checks["linkage"] = "pass"
      BY <2>2 DEF PackagePasses, PolicyMet
    <3> QED BY <3>1, <2>1 DEF VerifyArchive
  <2>3. ASSUME "linkage" \in required
        PROVE  /\ \A i \in DOMAIN r.events : held[r.events[i]] # None
               /\ r.root = [i \in DOMAIN r.events |-> held[r.events[i]].of]
    <3> HIDE DEF held
    <3> QED BY <2>2, <2>3, <1>3, LinkedFiles
  <2>4. \A e \in Events : held[e] # None => package.files[e] \notin {None, Other} /\ held[e] = package.files[e]
    OBVIOUS
  <2>5. ASSUME "linkage" \in required
        PROVE  /\ \A i \in DOMAIN r.events : package.files[r.events[i]] \notin {None, Other}
               /\ r.root = [i \in DOMAIN r.events |-> package.files[r.events[i]].of]
    <3> HIDE DEF held
    <3>1. \A i \in DOMAIN r.events : r.events[i] \in Events
      BY <1>4
    <3>2. \A i \in DOMAIN r.events : /\ package.files[r.events[i]] \notin {None, Other}
                                     /\ held[r.events[i]] = package.files[r.events[i]]
      BY <3>1, <2>3, <2>4, <2>5
    <3>3. [i \in DOMAIN r.events |-> held[r.events[i]].of]
            = [i \in DOMAIN r.events |-> package.files[r.events[i]].of]
      BY <3>2
    <3> QED BY <3>2, <3>3, <2>3, <2>5
  <2> QED BY <1>6, <2>5
<1> QED BY <1>5, <1>6

\* For any receipts, files and senders: a package that passes holds what was signed, and
\* neither a missing proof nor the sender's word lowers what the reader requires
\* (verify_with_policy_and_log, evidence.rs, and verify_archive, archive.rs).
THEOREM AcceptedHolds == EvidenceSpec => []AcceptedIsSigned
<1>1. EvidenceInv => AcceptedIsSigned
  BY JudgedSigned
<1> QED BY <1>1, EvidenceInvariant, PTL

----------------------------------------------------------------------------
\* The packer.  As long as nobody edits them, the files are those the run left.
Untouched == edits \in Nat /\ (edits = 0 => \E s \in {"holds", "none"} : disk = LeftByRun(s))

\* What is established of a receipt before anything is read for it.
Packable ==
  LET r == job.receipt IN
  /\ job.comparison # None => job.publication # None
  /\ r.inventory /\ r.artifacts # {}

FromRun(e, x) ==
  \E s \in {"holds", "none"} :
    x = [of |-> e, id |-> e, signature |-> s, metadata |-> FALSE]

\* What has been read: the capsules asked for, events the receipt refers to, and artifacts.
Gathered ==
  LET r == job.receipt IN
  /\ Distinct(r) /\ job.given \subseteq r.capsules
  /\ DOMAIN staged = Files
  /\ \A c \in Capsules : staged[c] = IF c \in job.given THEN c ELSE None
  /\ \A a \in Artifacts : staged[a] # None => a \in r.artifacts /\ staged[a] = a
  /\ \A e \in Events : staged[e] # None => e \in Range(r.events)
  /\ edits = 0 => \A e \in Range(r.events) : FromRun(e, staged[e])

PackerPart ==
  /\ Untouched
  /\ package # None => ppc = "done"
  /\ job # None /\ job.kind = "evidence" =>
       /\ ppc \in {"proofs", "log", "artifacts", "write"} \/ package # None => Packable
       /\ ppc \in {"log", "artifacts", "write"} \/ package # None => Gathered
       /\ ppc = "write" \/ package # None => \A a \in job.receipt.artifacts : staged[a] = a
       /\ package # None => package = Packed(TRUE)

LEMMA AskedTypes ==
  ASSUME job \in Asked
  PROVE  /\ job.receipt \in ReceiptType
         /\ job.receipt.artifacts \subseteq Artifacts /\ job.receipt.capsules \subseteq Capsules
         /\ job.receipt.events \in Seq(Events) /\ Range(job.receipt.events) \subseteq Events
<1>1. job.receipt \in ReceiptType
  BY EvidenceAssumption DEF Jobs
<1> QED BY <1>1 DEF ReceiptType, Range

LEMMA PackerFirst ==
  ASSUME EvidenceInit
  PROVE  PackerPart
BY DEF EvidenceInit, PackerPart, Untouched

\* The first reading: capsule manifests and events.
LEMMA CollectPacks ==
  ASSUME EvidenceInv, PackerPart, Collect
  PROVE  PackerPart'
<1> DEFINE r      == job.receipt
           events == {e \in Range(r.events) : disk[e] # None}
<1>1. /\ ppc = "proofs" /\ job.kind = "evidence" /\ ppc' \in {"log", "done"} /\ package = None
      /\ UNCHANGED <<disk, edits, job, package, reader, checks>>
  BY DEF Collect, PackerPart
<1>2. job \in Asked
  BY <1>1 DEF EvidenceInv, EvidenceTypes
<1>3. r.capsules \subseteq Capsules /\ Range(r.events) \subseteq Events
  BY <1>2, AskedTypes
<1>4. job # None /\ Packable
  BY <1>1, <1>2, EvidenceAssumption DEF PackerPart
<1>5. CASE ppc' = "done"
  BY <1>1, <1>5 DEF PackerPart, Untouched
<1>6. CASE ppc' = "log"
  <2>1. /\ \A c \in job.given : c \in r.capsules /\ disk[c] = c
        /\ Distinct(r)
        /\ staged' = [f \in Files |-> CASE f \in job.given -> disk[f]
                                        [] f \in events -> Projected(disk[f])
                                        [] OTHER -> None]
    BY <1>6 DEF Collect
  <2>2. DOMAIN staged' = Files
    BY <2>1
  <2>3. \A c \in Capsules : staged'[c] = IF c \in job.given THEN c ELSE None
    <3> SUFFICES ASSUME NEW c \in Capsules
                 PROVE  staged'[c] = IF c \in job.given THEN c ELSE None
      OBVIOUS
    <3>1. c \in Files /\ c \notin events
      BY <1>3, EvidenceAssumption DEF Files
    <3> HIDE DEF events
    <3> QED BY <2>1, <3>1
  <2>4. \A a \in Artifacts : staged'[a] = None
    <3> SUFFICES ASSUME NEW a \in Artifacts PROVE staged'[a] = None
      OBVIOUS
    <3>1. a \in Files /\ a \notin events /\ a \notin job.given
      BY <1>3, <2>1, EvidenceAssumption DEF Files
    <3> HIDE DEF events
    <3> QED BY <2>1, <3>1
  <2>5. \A e \in Events : e \in Files /\ e \notin job.given
    BY <1>3, <2>1, EvidenceAssumption DEF Files
  <2>6. \A e \in Events : staged'[e] # None => e \in Range(r.events)
    BY <2>1, <2>5
  <2>7. ASSUME edits = 0 PROVE \A e \in Range(r.events) : FromRun(e, staged'[e])
    <3> SUFFICES ASSUME NEW e \in Range(r.events) PROVE FromRun(e, staged'[e])
      OBVIOUS
    <3>1. PICK s \in {"holds", "none"} : disk = LeftByRun(s)
      BY <2>7 DEF PackerPart, Untouched
    <3>2. e \in Events /\ e \in Files /\ e \notin job.given
      BY <1>3, <2>5
    <3>3. disk[e] = [of |-> e, id |-> e, signature |-> s, metadata |-> TRUE]
      BY <3>1, <3>2 DEF LeftByRun
    <3>4. disk[e] \in EventFiles
      BY <3>2, <3>3 DEF EventFiles
    <3>5. disk[e] # None
      BY <3>4, EvidenceAssumption
    <3>6. staged'[e] = Projected(disk[e])
      BY <2>1, <3>2, <3>5
    <3>7. Projected(disk[e]) = [of |-> e, id |-> e, signature |-> s, metadata |-> FALSE]
      BY <3>3 DEF Projected
    <3> QED BY <3>6, <3>7 DEF FromRun
  <2>8. Gathered'
    <3> HIDE DEF events
    <3>1. job.given \subseteq r.capsules
      BY <2>1
    <3>2. Distinct(r)'
      BY <1>1, <2>1 DEF Distinct
    <3>3. edits' = 0 => \A e \in Range(r.events) : FromRun(e, staged'[e])
      BY <1>1, <2>7
    <3> QED BY <1>1, <2>2, <2>3, <2>4, <2>6, <3>1, <3>2, <3>3 DEF Gathered, FromRun
  <2> QED BY <1>1, <1>4, <1>6, <2>8 DEF PackerPart, Packable, Untouched
<1> QED BY <1>1, <1>5, <1>6

\* One artifact.
LEMMA ArtifactPacks ==
  ASSUME EvidenceInv, PackerPart, NEW a \in Artifacts, ReadArtifact(a)
  PROVE  PackerPart'
<1>1. /\ ppc = "artifacts" /\ package = None /\ a \in job.receipt.artifacts
      /\ UNCHANGED <<disk, edits, job, package, reader, checks>>
      /\ \/ staged' = [staged EXCEPT ![a] = a] /\ ppc' = ppc
         \/ ppc' = "done" /\ staged' = staged
  BY DEF ReadArtifact, PackerPart
<1>2. CASE ppc' = "done"
  BY <1>1, <1>2 DEF PackerPart, Untouched
<1>3. CASE staged' = [staged EXCEPT ![a] = a] /\ ppc' = ppc
  <2>1. job # None /\ job \in Asked
    BY <1>1, EvidenceAssumption DEF EvidenceInv, EvidenceTypes
  <2>2. CASE job.kind = "evidence"
    <3>1. Gathered /\ Packable
      BY <1>1, <2>1, <2>2 DEF PackerPart
    <3>2. /\ DOMAIN staged' = Files
          /\ staged'[a] = a /\ \A f \in Files \ {a} : staged'[f] = staged[f]
      BY <1>3, <3>1 DEF Gathered, Files
    <3>3. /\ \A c \in Capsules : c \in Files \ {a}
          /\ \A e \in Events : e \in Files \ {a}
          /\ \A b \in Artifacts : b \in Files
          /\ Range(job.receipt.events) \subseteq Events
      BY EvidenceAssumption, <2>1, AskedTypes DEF Files
    <3>4. Gathered'
      <4>1. Distinct(job.receipt)' /\ (job.given \subseteq job.receipt.capsules)'
        BY <1>1, <3>1 DEF Gathered, Distinct
      <4>2. \A c \in Capsules : staged'[c] = IF c \in job.given THEN c ELSE None
        BY <3>1, <3>2, <3>3 DEF Gathered
      <4>3. \A b \in Artifacts : staged'[b] # None => b \in job.receipt.artifacts /\ staged'[b] = b
        BY <1>1, <3>1, <3>2, <3>3 DEF Gathered
      <4>4. \A e \in Events : staged'[e] # None => e \in Range(job.receipt.events)
        BY <3>1, <3>2, <3>3 DEF Gathered
      <4>5. edits = 0 => \A e \in Range(job.receipt.events) : FromRun(e, staged'[e])
        <5>1. \A e \in Range(job.receipt.events) : staged'[e] = staged[e]
          BY <3>2, <3>3
        <5> QED BY <3>1, <5>1 DEF Gathered
      <4> QED BY <1>1, <3>2, <4>1, <4>2, <4>3, <4>4, <4>5 DEF Gathered, FromRun
    <3> QED BY <1>1, <1>3, <3>1, <3>4 DEF PackerPart, Packable, Untouched
  <2>3. CASE job.kind # "evidence"
    BY <1>1, <1>3, <2>3 DEF PackerPart, Untouched
  <2> QED BY <2>2, <2>3
<1> QED BY <1>1, <1>2, <1>3

LEMMA PackerStep ==
  ASSUME EvidenceInv, PackerPart, [EvidenceNext]_evidenceVars
  PROVE  PackerPart'
<1>1. CASE UNCHANGED evidenceVars
  BY <1>1 DEF evidenceVars, PackerPart, Untouched, Packable, Gathered, Packed, FromRun, Distinct
<1>2. ASSUME NEW f \in Files, NEW c \in Contents(f), EditFile(f, c)
      PROVE  PackerPart'
  <2>1. /\ ppc \in {"proofs", "log", "artifacts"} /\ edits' = edits + 1 /\ package = None
        /\ UNCHANGED <<ppc, job, staged, package, reader, checks>>
    BY <1>2 DEF EditFile, PackerPart
  <2>2. edits' \in Nat /\ edits' # 0
    BY <2>1 DEF PackerPart, Untouched
  <2>3. Gathered => Gathered'
    BY <2>1, <2>2 DEF Gathered, Distinct
  <2> QED BY <2>1, <2>2, <2>3 DEF PackerPart, Untouched, Packable
<1>3. ASSUME NEW j \in Asked, BeginPack(j)
      PROVE  PackerPart'
  <2>1. /\ ppc = "idle" /\ job' = j /\ package = None /\ ppc' \in {"proofs", "done"}
        /\ UNCHANGED <<disk, edits, package, reader, checks>>
    BY <1>3 DEF BeginPack, EvidenceInv, EvidenceTypes
  <2>2. ppc' = "proofs" /\ j.kind = "evidence" => Packable'
    BY <1>3 DEF BeginPack, Packable
  <2> QED BY <2>1, <2>2 DEF PackerPart, Untouched
<1>4. CASE CollectEvents
  <2>1. /\ ppc = "proofs" /\ job.kind = "archive" /\ package = None
        /\ UNCHANGED <<disk, edits, job, package, reader, checks>>
    BY <1>4 DEF CollectEvents, PackerPart
  <2> QED BY <2>1 DEF PackerPart, Untouched
<1>5. CASE ReadLog
  <2>1. /\ ppc = "log" /\ package = None /\ ppc' \in {"artifacts", "done"}
        /\ UNCHANGED <<disk, edits, job, staged, package, reader, checks>>
    BY <1>5 DEF ReadLog, PackerPart
  <2> QED BY <2>1 DEF PackerPart, Untouched, Packable, Gathered, FromRun, Distinct
<1>6. CASE ArtifactsRead
  <2>1. /\ ppc = "artifacts" /\ package = None /\ ppc' = "write"
        /\ \A a \in job.receipt.artifacts : staged[a] # None
        /\ UNCHANGED <<disk, edits, job, staged, package, reader, checks>>
    BY <1>6 DEF ArtifactsRead, PackerPart
  <2>2. job \in Asked
    BY <2>1 DEF EvidenceInv, EvidenceTypes
  <2>3. job # None /\ job.kind = "evidence" => \A a \in job.receipt.artifacts : staged[a] = a
    BY <2>1, <2>2, AskedTypes DEF PackerPart, Gathered
  <2> QED BY <2>1, <2>3 DEF PackerPart, Untouched, Packable, Gathered, FromRun, Distinct
<1>7. ASSUME NEW fits \in BOOLEAN, WritePackage(fits)
      PROVE  PackerPart'
  <2>1. /\ ppc = "write" /\ package = None /\ ppc' = "done"
        /\ job.kind = "evidence" => package' = None \/ (package' = Packed(fits) /\ fits = TRUE)
        /\ UNCHANGED <<disk, edits, job, staged, reader, checks>>
    BY <1>7 DEF WritePackage, PackerPart
  <2>2. Packed(TRUE)' = Packed(TRUE)
    BY <2>1 DEF Packed
  <2> QED BY <2>1, <2>2 DEF PackerPart, Untouched, Packable, Gathered, FromRun, Distinct
<1>8. CASE KillPacker
  <2>1. /\ ppc' = "done" /\ package = None
        /\ job.kind = "evidence" => package' = None
        /\ UNCHANGED <<disk, edits, job, staged, reader, checks>>
    BY <1>8 DEF KillPacker, PackerPart
  <2> QED BY <2>1 DEF PackerPart, Untouched
<1>9. CASE Send
  <2>1. ppc' = "done" /\ job' = None /\ UNCHANGED <<disk, edits>>
    BY <1>9 DEF Send, EvidenceInv, EvidenceTypes
  <2> QED BY <2>1 DEF PackerPart, Untouched
<1>10. ASSUME NEW m \in Readers, Receive(m)
      PROVE  PackerPart'
  BY <1>10 DEF Receive, PackerPart, Untouched, Packable, Gathered, Packed, FromRun, Distinct
<1> QED BY <1>1, <1>2, <1>3, <1>4, <1>5, <1>6, <1>7, <1>8, <1>9, <1>10, CollectPacks, ArtifactPacks
        DEF EvidenceNext

\* The reader of what pack wrote.
LEMMA PackedFits ==
  ASSUME EvidenceInv, PackerPart, job # None, job.kind = "evidence", package # None
  PROVE  /\ job \in Asked /\ Packable /\ Gathered
         /\ \A a \in job.receipt.artifacts : staged[a] = a
         /\ package.kind = "evidence" /\ package.fits = TRUE /\ package.receipt = job.receipt
         /\ package.files = staged /\ ~ package.stray
         /\ package.format = IF job.publication # None THEN "v3" ELSE "v2"
         /\ package.publication = job.publication /\ package.comparison = job.comparison
<1>1. /\ job \in Asked /\ Packable /\ Gathered /\ package = Packed(TRUE)
      /\ \A a \in job.receipt.artifacts : staged[a] = a
  BY DEF EvidenceInv, EvidenceTypes, PackerPart
<1>2. Distinct(job.receipt)
  BY <1>1 DEF Gathered
<1> QED BY <1>1, <1>2 DEF Packed

LEMMA PackedLinks ==
  ASSUME EvidenceInv, PackerPart, job # None, job.kind = "evidence", package # None,
         edits = 0, WellLinked(job.receipt)
  PROVE  CausalCheck(package) = "pass"
<1> DEFINE r == job.receipt
<1>1. /\ job \in Asked /\ Distinct(r) /\ package.receipt = r /\ package.files = staged
      /\ \A e \in Range(r.events) : FromRun(e, staged[e])
  BY PackedFits DEF Gathered
<1>2. r.events \in Seq(Events) /\ Range(r.events) \subseteq Events
  BY <1>1, AskedTypes
<1>3. CASE r.events = <<>>
  BY <1>1, <1>3 DEF CausalCheck, WellLinked, Status
<1>4. CASE r.events # <<>>
  <2>1. ASSUME NEW e \in Range(r.events)
        PROVE  /\ staged[e] # None /\ EventHolds(r, e, staged[e])
               /\ staged[e].of = e /\ Authentic(staged[e]) /\ SignatureSane(staged[e])
    <3>1. PICK s \in {"holds", "none"} :
            staged[e] = [of |-> e, id |-> e, signature |-> s, metadata |-> FALSE]
      BY <1>1 DEF FromRun
    <3>2. e \in Events
      BY <1>2
    <3>3. staged[e] \in EventFiles
      BY <3>1, <3>2 DEF EventFiles
    <3>4. staged[e] # None /\ staged[e] # Other
      BY <3>3, EvidenceAssumption
    <3>5. staged[e].of = e /\ staged[e].id = e /\ staged[e].signature # "broken" /\ ~ staged[e].metadata
      BY <3>1
    <3>6. Parents[e] \subseteq Range(r.events)
      BY DEF WellLinked
    <3> QED BY <3>4, <3>5, <3>6 DEF EventHolds, Authentic, SignatureSane
  <2>2. \A i \in DOMAIN r.events : r.events[i] \in Range(r.events)
    BY DEF Range
  <2>3. r.root = r.events
    BY <1>4 DEF WellLinked
  <2>4. [i \in DOMAIN r.events |-> staged[r.events[i]].of] = r.events
    <3>1. \A i \in DOMAIN r.events : staged[r.events[i]].of = r.events[i]
      BY <2>1, <2>2
    <3>2. r.events = [i \in DOMAIN r.events |-> r.events[i]]
      BY <1>2
    <3>3. [i \in DOMAIN r.events |-> staged[r.events[i]].of] = [i \in DOMAIN r.events |-> r.events[i]]
      BY <3>1
    <3> QED BY <3>2, <3>3
  <2>5. ChainLinkage(r, staged, FALSE) = "pass"
    BY <1>4, <2>1, <2>3, <2>4 DEF ChainLinkage, Status
  <2>6. {e \in Range(r.events) : staged[e] # None} = Range(r.events)
    BY <2>1
  <2> QED BY <1>1, <1>4, <2>1, <2>5, <2>6 DEF CausalCheck, Status
<1> QED BY <1>3, <1>4

LEMMA VerdictTypes ==
  ASSUME NEW p, NEW m
  PROVE  /\ LogChecks(p, m)[1] \in Statuses /\ LogChecks(p, m)[2] \in Statuses
         /\ CausalCheck(p) \in Statuses /\ CapsuleCheck(p) \in Statuses
         /\ VerifyEvidence(p, m) \in CheckType
<1>1. \A b : Status(b) \in Statuses
  BY DEF Status, Statuses
<1>2. \A t, n : Compare(t, n) \in Statuses
  BY DEF Compare, Statuses
<1>3. \A b, r, n : Assess(b, r, n)[1] \in Statuses /\ Assess(b, r, n)[2] \in Statuses
  BY <1>2 DEF Assess, Statuses
<1>4. LogChecks(p, m)[1] \in Statuses /\ LogChecks(p, m)[2] \in Statuses
  <2>1. <<"skipped", "skipped">>[1] \in Statuses /\ <<"skipped", "skipped">>[2] \in Statuses
    BY DEF Statuses
  <2> QED BY <1>3, <2>1 DEF LogChecks
<1>5. CausalCheck(p) \in Statuses
  BY <1>1 DEF CausalCheck, Statuses
<1>6. CapsuleCheck(p) \in Statuses
  BY DEF CapsuleCheck, Statuses
<1>7. /\ SchemaCheck(p.receipt) \in Statuses /\ SignatureCheck(p.receipt, m) \in Statuses
      /\ Outcome(p.receipt) \in Statuses /\ ArtifactsCheck(p, m) \in Statuses
      /\ IdentityCheck(p, m) \in Statuses
  BY <1>1 DEF SchemaCheck, SignatureCheck, Outcome, ArtifactsCheck, IdentityCheck, Statuses
<1>8. VerifyEvidence(p, m) \in CheckType
  BY <1>4, <1>5, <1>6, <1>7 DEF VerifyEvidence, CheckType
<1> QED BY <1>4, <1>5, <1>6, <1>8

LEMMA PackedPasses ==
  ASSUME EvidenceInv, PackerPart
  PROVE  PackedIsAccepted
<1> SUFFICES ASSUME job # None, job.kind = "evidence", package # None, reader # None
             PROVE  /\ checks # None
                    /\ checks.artifacts = "pass" \/ reader.root = "differs"
                    /\ checks.capsule = IF job.given = job.receipt.capsules THEN "pass" ELSE "skipped"
                    /\ edits = 0 /\ WellLinked(job.receipt) => checks.linkage = "pass"
  BY DEF PackedIsAccepted
<1> DEFINE r == job.receipt
<1>1. /\ job \in Asked /\ Packable /\ Gathered
      /\ \A a \in r.artifacts : staged[a] = a
      /\ package.kind = "evidence" /\ package.fits = TRUE /\ package.receipt = r
      /\ package.files = staged /\ ~ package.stray
      /\ package.format = IF job.publication # None THEN "v3" ELSE "v2"
      /\ package.publication = job.publication /\ package.comparison = job.comparison
  BY PackedFits
<1>2. /\ r # None
      /\ r.artifacts \subseteq Artifacts /\ r.capsules \subseteq Capsules
      /\ Range(r.events) \subseteq Events
  BY <1>1, AskedTypes, EvidenceAssumption DEF Jobs
<1>3. Readable(package)
  BY <1>1, <1>2 DEF Readable
<1>4. checks = VerifyEvidence(package, reader)
  BY <1>1, <1>3 DEF EvidenceInv, Judged
<1>5. checks # None
  BY <1>4, VerdictTypes, EvidenceAssumption
<1>6. Accounted(package)
  <2>1. \A f \in Files : staged[f] # None => f \in r.artifacts \cup r.capsules \cup Range(r.events)
    <3>1. \A c \in Capsules : staged[c] # None => c \in r.capsules
      BY <1>1 DEF Gathered
    <3> QED BY <1>1, <3>1 DEF Gathered, Files
  <2>2. Distinct(r)
    BY <1>1 DEF Gathered
  <2>3. IF package.format = "v3" THEN package.publication # None
        ELSE package.publication = None /\ package.comparison = None
    BY <1>1 DEF Packable
  <2> QED BY <1>1, <2>1, <2>2, <2>3 DEF Accounted
<1>7. reader.root # "differs" => ArtifactsCheck(package, reader) = "pass"
  <2>1. reader.root # "differs" => ArtifactBytes(package, reader)
    BY <1>1 DEF ArtifactBytes
  <2> QED BY <1>1, <1>6, <2>1 DEF ArtifactsCheck, Packable, Status
<1>8. CapsuleCheck(package) = IF job.given = r.capsules THEN "pass" ELSE "skipped"
  <2>1. job.given \subseteq r.capsules
    BY <1>1 DEF Gathered
  <2>2. \A c \in r.capsules : staged[c] = IF c \in job.given THEN c ELSE None
    BY <1>1, <1>2 DEF Gathered
  <2>3. \A c \in r.capsules : c # None
    BY <1>2, EvidenceAssumption DEF Files
  <2>4. {c \in r.capsules : staged[c] # None} = job.given
    BY <2>1, <2>2, <2>3
  <2>5. \A c \in job.given : staged[c] = c
    BY <2>1, <2>2
  <2> QED BY <1>1, <2>4, <2>5 DEF CapsuleCheck
<1>9. edits = 0 /\ WellLinked(r) => CausalCheck(package) = "pass"
  BY PackedLinks
<1>10. /\ checks.artifacts = ArtifactsCheck(package, reader) /\ checks.capsule = CapsuleCheck(package)
       /\ checks.linkage = CausalCheck(package)
  BY <1>4 DEF VerifyEvidence
<1> QED BY <1>5, <1>7, <1>8, <1>9, <1>10

\* For any receipts, files and edits, and wherever the packer is killed: a recipient can
\* read what pack writes and finds its artifacts and capsules complete (pack_with_publication
\* and verify_with_policy_and_log, evidence.rs).
THEOREM PackedHolds == EvidenceSpec => []PackedIsAccepted
<1>1. EvidenceInit => PackerPart
  BY PackerFirst
<1>2. EvidenceInv /\ PackerPart /\ [EvidenceNext]_evidenceVars => PackerPart'
  BY PackerStep
<1>3. EvidenceInv /\ PackerPart => PackedIsAccepted
  BY PackedPasses
<1> QED BY <1>1, <1>2, <1>3, EvidenceInvariant, PTL DEF EvidenceSpec

----------------------------------------------------------------------------
(* Tiles.  What a path proves, for every size of the tree and every path.  *)
(* Merkle is written with recursive functions: that each of them exists,   *)
(* so that it is what its equation says, is shown for sizes up to a bound, *)
(* with a least counterexample, and then for all.                          *)

\* A set of numbers with a member has a least one.
LEMMA LeastOf ==
  ASSUME NEW T \in SUBSET Nat, T # {}
  PROVE  \E x \in T : \A y \in T : x <= y
<1> DEFINE R == OpToRel(<, Nat)
<1>1. IsWellFoundedOn(R, Nat)
  BY NatLessThanWellFounded
<1>2. \A x, y \in Nat : x < y => <<x, y>> \in R
  BY DEF OpToRel
<1> HIDE DEF R
<1>3. PICK x \in T : \A y \in T : ~ (<<y, x>> \in R)
  BY <1>1, WFMin, Zenon
<1>4. ASSUME NEW y \in T PROVE x <= y
  <2>1. x \in Nat /\ y \in Nat
    OBVIOUS
  <2>2. ~(y < x)
    BY <1>2, <1>3, <2>1, Zenon
  <2> QED BY <2>1, <2>2
<1> QED BY <1>4

BitsUpTo(f, b) == \A m \in 0 .. b : f[m] = IF m <= 1 THEN m ELSE 2 * f[m \div 2]

LEMMA Halved ==
  ASSUME NEW m \in Nat, m > 1
  PROVE  m \div 2 \in Nat /\ m \div 2 >= 1 /\ m \div 2 < m /\ 2 * (m \div 2) <= m
OBVIOUS

LEMMA BitsAgree ==
  ASSUME NEW f, NEW g, NEW b \in Nat, BitsUpTo(f, b), BitsUpTo(g, b)
  PROVE  \A m \in 0 .. b : f[m] = g[m]
<1> DEFINE T == {m \in 0 .. b : f[m] # g[m]}
<1> SUFFICES ASSUME T # {} PROVE FALSE
  OBVIOUS
<1>1. T \in SUBSET Nat
  OBVIOUS
<1> HIDE DEF T
<1>2. PICK m \in T : \A i \in T : m <= i
  BY <1>1, LeastOf
<1>3. m \in 0 .. b /\ m \in Nat /\ f[m] # g[m]
  BY <1>2 DEF T
<1>4. /\ f[m] = IF m <= 1 THEN m ELSE 2 * f[m \div 2]
      /\ g[m] = IF m <= 1 THEN m ELSE 2 * g[m \div 2]
  BY <1>3 DEF BitsUpTo
<1>5. m > 1
  BY <1>3, <1>4
<1>6. m \div 2 \in 0 .. b /\ ~(m <= m \div 2)
  BY <1>3, <1>5, Halved
<1>7. f[m \div 2] = g[m \div 2]
  BY <1>2, <1>6 DEF T
<1> QED BY <1>3, <1>4, <1>5, <1>7

LEMMA BitsExist ==
  ASSUME NEW b \in Nat
  PROVE  \E f : BitsUpTo(f, b)
<1> DEFINE T == {i \in Nat : \A f : ~ BitsUpTo(f, i)}
<1> SUFFICES ASSUME T # {} PROVE FALSE
  OBVIOUS
<1>1. T \in SUBSET Nat
  OBVIOUS
<1> HIDE DEF T
<1>2. PICK n \in T : \A i \in T : n <= i
  BY <1>1, LeastOf
<1>3. n \in Nat /\ \A f : ~ BitsUpTo(f, n)
  BY <1>2 DEF T
<1>4. CASE n = 0
  <2> DEFINE f == [m \in {0} |-> 0]
  <2>1. BitsUpTo(f, 0)
    BY DEF BitsUpTo
  <2> HIDE DEF f
  <2> QED BY <1>3, <1>4, <2>1
<1>5. CASE n # 0
  <2>1. n - 1 \in Nat /\ ~(n <= n - 1)
    BY <1>3, <1>5
  <2>2. PICK f : BitsUpTo(f, n - 1)
    BY <1>2, <2>1 DEF T
  <2> DEFINE g == [m \in 0 .. n |-> IF m = n THEN IF n <= 1 THEN n ELSE 2 * f[n \div 2] ELSE f[m]]
  <2>3. ASSUME NEW m \in 0 .. n PROVE g[m] = IF m <= 1 THEN m ELSE 2 * g[m \div 2]
    <3>1. m > 1 => m \div 2 \in 0 .. n - 1 /\ m \div 2 \in 0 .. n /\ m \div 2 # n
      BY <1>3, Halved
    <3>2. m > 1 => g[m \div 2] = f[m \div 2]
      BY <3>1
    <3>3. CASE m = n
      BY <3>2, <3>3, <1>3
    <3>4. CASE m # n
      <4>1. m \in 0 .. n - 1
        BY <1>3, <3>4
      <4>2. f[m] = IF m <= 1 THEN m ELSE 2 * f[m \div 2]
        BY <2>2, <4>1 DEF BitsUpTo
      <4>3. g[m] = f[m]
        BY <3>4
      <4> HIDE DEF g
      <4> QED BY <3>2, <4>1, <4>2, <4>3
    <3> QED BY <3>3, <3>4
  <2>4. BitsUpTo(g, n)
    BY <2>3 DEF BitsUpTo
  <2> HIDE DEF g
  <2> QED BY <1>3, <2>4
<1> QED BY <1>4, <1>5

\* HighBit is what its equation says.
LEMMA HighBitDef ==
  \A m \in Nat : HighBit[m] = IF m <= 1 THEN m ELSE 2 * HighBit[m \div 2]
<1> DEFINE F(m) == CHOOSE f : BitsUpTo(f, m)
           h == [m \in Nat |-> F(m)[m]]
           Eq(f) == f = [m \in Nat |-> IF m <= 1 THEN m ELSE 2 * f[m \div 2]]
<1>1. \A m \in Nat : BitsUpTo(F(m), m)
  BY BitsExist
<1> HIDE DEF F
<1>2. ASSUME NEW m \in Nat PROVE h[m] = IF m <= 1 THEN m ELSE 2 * h[m \div 2]
  <2>1. F(m)[m] = IF m <= 1 THEN m ELSE 2 * F(m)[m \div 2]
    BY <1>1 DEF BitsUpTo
  <2>2. CASE m > 1
    <3>1. m \div 2 \in Nat /\ m \div 2 < m
      BY <2>2, Halved
    <3>2. BitsUpTo(F(m), m \div 2)
      BY <1>1, <3>1 DEF BitsUpTo
    <3>3. F(m)[m \div 2] = F(m \div 2)[m \div 2]
      BY <1>1, <3>1, <3>2, BitsAgree
    <3> QED BY <2>1, <3>1, <3>3
  <2> QED BY <2>1, <2>2
<1>3. Eq(h)
  BY <1>2
<1>4. HighBit = CHOOSE f : Eq(f)
  BY DEF HighBit
<1> HIDE DEF h
<1>5. Eq(HighBit)
  BY <1>3, <1>4
<1> QED BY <1>5

LEMMA HighBitRange == \A m \in Positive : HighBit[m] \in 1 .. m
<1> DEFINE T == {m \in Positive : HighBit[m] \notin 1 .. m}
<1> SUFFICES ASSUME T # {} PROVE FALSE
  OBVIOUS
<1>1. T \in SUBSET Nat
  BY DEF Positive
<1> HIDE DEF T
<1>2. PICK m \in T : \A i \in T : m <= i
  BY <1>1, LeastOf
<1>3. m \in Nat /\ m # 0 /\ HighBit[m] \notin 1 .. m
  BY <1>2 DEF T, Positive
<1>4. HighBit[m] = IF m <= 1 THEN m ELSE 2 * HighBit[m \div 2]
  BY <1>3, HighBitDef
<1>5. m > 1
  BY <1>3, <1>4
<1>6. m \div 2 \in Nat /\ m \div 2 >= 1 /\ m \div 2 < m /\ 2 * (m \div 2) <= m
  BY <1>3, <1>5, Halved
<1>7. HighBit[m \div 2] \in 1 .. (m \div 2)
  BY <1>2, <1>6 DEF T, Positive
<1>a. HighBit[m] = 2 * HighBit[m \div 2]
  BY <1>3, <1>4, <1>5
<1> DEFINE d == m \div 2
           h == HighBit[d]
<1>8. d \in Nat /\ 2 * d <= m /\ h \in 1 .. d /\ HighBit[m] = 2 * h
  <2>1. d \in Nat /\ 2 * d <= m
    BY <1>6
  <2>2. h \in 1 .. d
    BY <1>7
  <2> QED BY <2>1, <2>2, <1>a
<1> HIDE DEF d, h
<1>9. HighBit[m] \in 1 .. m
  BY <1>3, <1>8
<1> QED BY <1>3, <1>9

\* Numbers between the highest bit of a number and that number have the same.
LEMMA HighBitSame ==
  ASSUME NEW q0 \in Nat, NEW m0 \in Nat, HighBit[m0] <= q0, q0 <= m0
  PROVE  HighBit[q0] = HighBit[m0]
<1> DEFINE T == {m \in Nat : \E q \in Nat : HighBit[m] <= q /\ q <= m /\ HighBit[q] # HighBit[m]}
<1> SUFFICES ASSUME T # {} PROVE FALSE
  OBVIOUS
<1>1. T \in SUBSET Nat
  OBVIOUS
<1> HIDE DEF T
<1>2. PICK m \in T : \A i \in T : m <= i
  BY <1>1, LeastOf
<1>3. m \in Nat
  BY <1>1
<1>4. PICK q \in Nat : HighBit[m] <= q /\ q <= m /\ HighBit[q] # HighBit[m]
  BY <1>2 DEF T
<1>5. /\ HighBit[m] = IF m <= 1 THEN m ELSE 2 * HighBit[m \div 2]
      /\ HighBit[q] = IF q <= 1 THEN q ELSE 2 * HighBit[q \div 2]
  BY <1>3, HighBitDef
<1>6. m > 1
  BY <1>3, <1>4, <1>5
<1> DEFINE d == m \div 2
           e == q \div 2
<1>7. d \in Nat /\ d >= 1 /\ d < m /\ HighBit[d] \in 1 .. d /\ HighBit[m] = 2 * HighBit[d]
  BY <1>3, <1>5, <1>6, Halved, HighBitRange DEF Positive
<1>8. q > 1
  BY <1>4, <1>7
<1>9. \A h \in Nat : 2 * h <= q => h <= e
  OBVIOUS
<1>10. e \in Nat /\ HighBit[d] <= e /\ e <= d /\ HighBit[q] = 2 * HighBit[e]
  BY <1>3, <1>4, <1>5, <1>7, <1>8, <1>9
<1> HIDE DEF d, e
<1>11. ~(m <= d)
  BY <1>3, <1>7
<1>12. HighBit[e] = HighBit[d]
  BY <1>2, <1>7, <1>10, <1>11 DEF T
<1> QED BY <1>4, <1>7, <1>10, <1>12

\* split divides a tree into two that are smaller and not empty.
LEMMA SplitRange ==
  ASSUME NEW n \in Nat, n > 1
  PROVE  Split(n) \in Nat /\ 1 <= Split(n) /\ Split(n) < n /\ n - Split(n) \in Positive
<1>1. n - 1 \in Positive
  BY DEF Positive
<1>2. Split(n) \in 1 .. n - 1
  BY <1>1, HighBitRange DEF Split
<1> HIDE DEF Split
<1> QED BY <1>2 DEF Positive

\* An older tree that reaches into the right part is divided at the same place.
LEMMA SplitSame ==
  ASSUME NEW n \in Nat, n > 1, NEW old \in Nat, Split(n) < old, old <= n
  PROVE  Split(old) = Split(n) /\ old > 1
<1>1. Split(n) \in Nat /\ 1 <= Split(n)
  BY SplitRange
<1>2. old - 1 \in Nat /\ n - 1 \in Nat /\ Split(n) <= old - 1 /\ old - 1 <= n - 1 /\ old > 1
  BY <1>1
<1>3. HighBit[old - 1] = HighBit[n - 1]
  BY <1>2, HighBitSame DEF Split
<1> QED BY <1>2, <1>3 DEF Split

LEMMA RootSize == \A t \in Nat \X Nat : t[2] \in Nat
OBVIOUS

RootBody(leaves, f, t) ==
  LET k == Split(t[2]) IN
  IF t[2] = 0 THEN EmptyRoot
  ELSE IF t[2] = 1 THEN LeafHash(leaves[t[1] + 1])
  ELSE NodeHash(f[<<t[1], k>>], f[<<t[1] + k, t[2] - k>>])

RootUpTo(leaves, f, b) == \A t \in Nat \X Nat : t[2] <= b => f[t] = RootBody(leaves, f, t)

RootCall(leaves) == CHOOSE f : f = [t \in Nat \X Nat |-> RootBody(leaves, f, t)]

\* The root of a tree is made of those of smaller ones.
LEMMA RootLocal ==
  ASSUME NEW leaves, NEW f, NEW g, NEW t \in Nat \X Nat, \A s \in Nat \X Nat : s[2] < t[2] => f[s] = g[s]
  PROVE  RootBody(leaves, f, t) = RootBody(leaves, g, t)
<1> DEFINE k == Split(t[2])
           a == <<t[1], k>>
           b == <<t[1] + k, t[2] - k>>
<1>1. t[1] \in Nat /\ t[2] \in Nat
  OBVIOUS
<1>2. CASE t[2] <= 1
  BY <1>1, <1>2 DEF RootBody
<1>3. CASE t[2] > 1
  <2>1. k \in Nat /\ 1 <= k /\ k < t[2]
    BY <1>1, <1>3, SplitRange
  <2> HIDE DEF k
  <2>2. a \in Nat \X Nat /\ a[2] < t[2] /\ b \in Nat \X Nat /\ b[2] < t[2]
    BY <1>1, <2>1
  <2>3. f[a] = g[a] /\ f[b] = g[b]
    BY <2>2
  <2>4. RootBody(leaves, f, t) = NodeHash(f[a], f[b]) /\ RootBody(leaves, g, t) = NodeHash(g[a], g[b])
    BY <1>1, <1>3 DEF RootBody, k
  <2> QED BY <2>3, <2>4
<1> QED BY <1>1, <1>2, <1>3

LEMMA RootAgree ==
  ASSUME NEW leaves, NEW f, NEW g, NEW b \in Nat, RootUpTo(leaves, f, b), RootUpTo(leaves, g, b)
  PROVE  \A t \in Nat \X Nat : t[2] <= b => f[t] = g[t]
<1> DEFINE T == {n \in Nat : n <= b /\ \E t \in Nat \X Nat : t[2] = n /\ f[t] # g[t]}
<1> SUFFICES ASSUME T # {} PROVE FALSE
  BY RootSize
<1>1. T \in SUBSET Nat
  OBVIOUS
<1> HIDE DEF T
<1>2. PICK n \in T : \A i \in T : n <= i
  BY <1>1, LeastOf
<1>3. n \in Nat /\ n <= b
  BY <1>2 DEF T
<1>4. PICK t \in Nat \X Nat : t[2] = n /\ f[t] # g[t]
  BY <1>2 DEF T
<1>5. \A s \in Nat \X Nat : s[2] < t[2] => f[s] = g[s]
  BY <1>2, <1>3, <1>4, RootSize DEF T
<1>6. RootBody(leaves, f, t) = RootBody(leaves, g, t)
  BY <1>5, RootLocal
<1>7. f[t] = RootBody(leaves, f, t) /\ g[t] = RootBody(leaves, g, t)
  BY <1>3, <1>4 DEF RootUpTo
<1> QED BY <1>4, <1>6, <1>7

LEMMA RootExist ==
  ASSUME NEW leaves, NEW b \in Nat
  PROVE  \E f : RootUpTo(leaves, f, b)
<1> DEFINE T == {i \in Nat : \A f : ~ RootUpTo(leaves, f, i)}
<1> SUFFICES ASSUME T # {} PROVE FALSE
  OBVIOUS
<1>1. T \in SUBSET Nat
  OBVIOUS
<1> HIDE DEF T
<1>2. PICK n \in T : \A i \in T : n <= i
  BY <1>1, LeastOf
<1>3. n \in Nat /\ \A f : ~ RootUpTo(leaves, f, n)
  BY <1>2 DEF T
<1>4. PICK f : n = 0 \/ RootUpTo(leaves, f, n - 1)
  <2>1. n # 0 => n - 1 \in Nat /\ ~(n <= n - 1)
    BY <1>3
  <2> QED BY <1>2, <1>3, <2>1 DEF T
<1> DEFINE g == [t \in Nat \X Nat |-> RootBody(leaves, f, t)]
<1>5. \A t \in Nat \X Nat : g[t] = RootBody(leaves, f, t)
  OBVIOUS
<1> HIDE DEF g
<1>6. ASSUME NEW t \in Nat \X Nat, t[2] <= n PROVE g[t] = RootBody(leaves, g, t)
  <2>1. ASSUME NEW s \in Nat \X Nat, s[2] < t[2] PROVE f[s] = g[s]
    <3>1. n # 0 /\ s[2] <= n - 1
      BY <1>3, <1>6, <2>1, RootSize
    <3>2. f[s] = RootBody(leaves, f, s)
      BY <1>4, <3>1 DEF RootUpTo
    <3> QED BY <1>5, <3>2
  <2>2. RootBody(leaves, f, t) = RootBody(leaves, g, t)
    BY <2>1, RootLocal
  <2> QED BY <1>5, <2>2
<1>7. RootUpTo(leaves, g, n)
  BY <1>6 DEF RootUpTo
<1> QED BY <1>3, <1>7

\* RootCall is what its equation says.
LEMMA RootDef ==
  ASSUME NEW leaves, NEW t \in Nat \X Nat
  PROVE  RootCall(leaves)[t] = RootBody(leaves, RootCall(leaves), t)
<1> DEFINE F(b) == CHOOSE f : RootUpTo(leaves, f, b)
           h == [s \in Nat \X Nat |-> F(s[2])[s]]
           Eq(f) == f = [s \in Nat \X Nat |-> RootBody(leaves, f, s)]
<1>1. \A b \in Nat : RootUpTo(leaves, F(b), b)
  BY RootExist
<1> HIDE DEF F
<1>2. \A s \in Nat \X Nat : h[s] = F(s[2])[s]
  OBVIOUS
<1>3. h = [s \in Nat \X Nat |-> h[s]]
  OBVIOUS
<1> HIDE DEF h
<1>4. ASSUME NEW s \in Nat \X Nat PROVE h[s] = RootBody(leaves, h, s)
  <2> DEFINE f == F(s[2])
  <2>1. s[2] \in Nat /\ RootUpTo(leaves, f, s[2])
    BY <1>1, RootSize
  <2> HIDE DEF f
  <2>2. ASSUME NEW r \in Nat \X Nat, r[2] < s[2] PROVE f[r] = h[r]
    <3>1. r[2] \in Nat /\ r[2] <= r[2] /\ RootUpTo(leaves, F(r[2]), r[2])
      BY <1>1, RootSize
    <3>2. RootUpTo(leaves, f, r[2])
      BY <2>1, <2>2, <3>1, RootSize DEF RootUpTo
    <3>3. f[r] = F(r[2])[r]
      BY <3>1, <3>2, RootAgree
    <3> QED BY <1>2, <3>3
  <2>3. RootBody(leaves, f, s) = RootBody(leaves, h, s)
    BY <2>2, RootLocal
  <2>4. f[s] = RootBody(leaves, f, s)
    BY <2>1 DEF RootUpTo
  <2>5. h[s] = f[s]
    BY <1>2 DEF f
  <2> QED BY <2>3, <2>4, <2>5
<1>5. Eq(h)
  BY <1>3, <1>4
<1>6. RootCall(leaves) = CHOOSE f : Eq(f)
  BY DEF RootCall
<1>7. Eq(RootCall(leaves))
  BY <1>5, <1>6
<1> HIDE DEF h
<1> QED BY <1>7

LEMMA TreeHashCall ==
  ASSUME NEW leaves, NEW start, NEW n
  PROVE  TreeHash(leaves, start, n) = RootCall(leaves)[<<start, n>>]
BY DEF TreeHash, RootCall, RootBody

LEMMA TreeHashDef ==
  ASSUME NEW leaves, NEW start \in Nat, NEW n \in Nat
  PROVE  /\ n = 0 => TreeHash(leaves, start, n) = EmptyRoot
         /\ n = 1 => TreeHash(leaves, start, n) = LeafHash(leaves[start + 1])
         /\ n > 1 => TreeHash(leaves, start, n) =
                       NodeHash(TreeHash(leaves, start, Split(n)),
                                TreeHash(leaves, start + Split(n), n - Split(n)))
<1> DEFINE t == <<start, n>>
           k == Split(n)
<1>1. t \in Nat \X Nat /\ t[1] = start /\ t[2] = n
  OBVIOUS
<1>2. RootCall(leaves)[t] = RootBody(leaves, RootCall(leaves), t)
  BY <1>1, RootDef
<1>3. RootBody(leaves, RootCall(leaves), t) =
        IF n = 0 THEN EmptyRoot ELSE IF n = 1 THEN LeafHash(leaves[start + 1])
        ELSE NodeHash(RootCall(leaves)[<<start, k>>], RootCall(leaves)[<<start + k, n - k>>])
  BY <1>1 DEF RootBody
<1> HIDE DEF k
<1>4. TreeHash(leaves, start, n) =
        IF n = 0 THEN EmptyRoot ELSE IF n = 1 THEN LeafHash(leaves[start + 1])
        ELSE NodeHash(TreeHash(leaves, start, k), TreeHash(leaves, start + k, n - k))
  BY <1>2, <1>3, TreeHashCall, Zenon
<1> QED BY <1>4 DEF k

LEMMA NodeInjective ==
  ASSUME NEW a, NEW b, NEW c, NEW d, NodeHash(a, b) = NodeHash(c, d)
  PROVE  a = c /\ b = d
BY DEF NodeHash

LEMMA LeafInjective ==
  ASSUME NEW a, NEW b, LeafHash(a) = LeafHash(b)
  PROVE  a = b
BY DEF LeafHash

\* Trees of one size with one root have the same leaves.
LEMMA RootBindsLeaves ==
  ASSUME NEW l1, NEW l2, NEW n0 \in Nat, NEW start0 \in Nat,
         TreeHash(l1, start0, n0) = TreeHash(l2, start0, n0)
  PROVE  \A i \in 1 .. n0 : l1[start0 + i] = l2[start0 + i]
<1> DEFINE Differ(n, start) == \E i \in 1 .. n : l1[start + i] # l2[start + i]
           T == {n \in Nat : \E start \in Nat :
                   TreeHash(l1, start, n) = TreeHash(l2, start, n) /\ Differ(n, start)}
<1> SUFFICES ASSUME T # {} PROVE FALSE
  OBVIOUS
<1>1. T \in SUBSET Nat
  OBVIOUS
<1> HIDE DEF T
<1>2. PICK n \in T : \A j \in T : n <= j
  BY <1>1, LeastOf
<1>3. n \in Nat
  BY <1>1
<1>4. PICK start \in Nat : TreeHash(l1, start, n) = TreeHash(l2, start, n) /\ Differ(n, start)
  BY <1>2 DEF T
<1>5. PICK i \in 1 .. n : l1[start + i] # l2[start + i]
  BY <1>4
<1> HIDE DEF Differ
<1>6. CASE n <= 1
  <2>1. n = 1 /\ i = 1
    BY <1>3, <1>5, <1>6
  <2>2. LeafHash(l1[start + 1]) = LeafHash(l2[start + 1])
    BY <1>3, <1>4, <2>1, TreeHashDef
  <2> QED BY <1>5, <2>1, <2>2, LeafInjective
<1>7. CASE n > 1
  <2> DEFINE k == Split(n)
  <2>1. k \in Nat /\ 1 <= k /\ k < n
    BY <1>3, <1>7, SplitRange
  <2>2. /\ TreeHash(l1, start, n) = NodeHash(TreeHash(l1, start, k), TreeHash(l1, start + k, n - k))
        /\ TreeHash(l2, start, n) = NodeHash(TreeHash(l2, start, k), TreeHash(l2, start + k, n - k))
    BY <1>3, <1>7, TreeHashDef
  <2> HIDE DEF k
  <2>3. /\ TreeHash(l1, start, k) = TreeHash(l2, start, k)
        /\ TreeHash(l1, start + k, n - k) = TreeHash(l2, start + k, n - k)
    <3>1. NodeHash(TreeHash(l1, start, k), TreeHash(l1, start + k, n - k))
            = NodeHash(TreeHash(l2, start, k), TreeHash(l2, start + k, n - k))
      BY <1>4, <2>2, Zenon
    <3> QED BY <3>1 DEF NodeHash
  <2>4. start + k \in Nat /\ n - k \in Nat /\ ~(n <= k) /\ ~(n <= n - k)
    BY <1>3, <2>1
  <2>5. k \notin T /\ n - k \notin T
    BY <1>2, <2>4
  <2>6. ~ Differ(k, start)
    BY <2>1, <2>3, <2>5 DEF T
  <2>7. ~ Differ(n - k, start + k)
    BY <2>3, <2>4, <2>5 DEF T
  <2>8. CASE i <= k
    <3>1. i \in 1 .. k
      BY <2>1, <2>8
    <3> QED BY <1>5, <2>6, <3>1 DEF Differ
  <2>9. CASE i > k
    <3>1. i - k \in 1 .. n - k /\ (start + k) + (i - k) = start + i
      BY <1>3, <2>1, <2>9
    <3> QED BY <1>5, <2>7, <3>1 DEF Differ
  <2> QED BY <2>1, <2>8, <2>9
<1> QED BY <1>3, <1>6, <1>7

OnLeft(S) ==
  {[root |-> NodeHash(sub.root, Head(sub.rest)), rest |-> Tail(sub.rest)] :
     sub \in {s \in S : s.rest # <<>>}}

OnRight(S) ==
  {[root |-> NodeHash(Head(sub.rest), sub.root), rest |-> Tail(sub.rest)] :
     sub \in {s \in S : s.rest # <<>>}}

LEMMA AscentSize == \A t \in Nat \X Positive : t[2] \in Nat
BY DEF Positive

AscentBody(leaf, p, f, t) ==
  LET k == Split(t[2]) IN
  IF t[2] = 1 THEN {[root |-> leaf, rest |-> p]}
  ELSE IF t[1] < k THEN OnLeft(f[<<t[1], k>>]) ELSE OnRight(f[<<t[1] - k, t[2] - k>>])

AscentUpTo(leaf, p, f, b) == \A t \in Nat \X Positive : t[2] <= b => f[t] = AscentBody(leaf, p, f, t)

AscentCall(leaf, p) == CHOOSE f : f = [t \in Nat \X Positive |-> AscentBody(leaf, p, f, t)]

\* A leaf of a tree is one of a smaller tree.
LEMMA AscentLocal ==
  ASSUME NEW leaf, NEW p, NEW f, NEW g, NEW t \in Nat \X Positive, \A s \in Nat \X Positive : s[2] < t[2] => f[s] = g[s]
  PROVE  AscentBody(leaf, p, f, t) = AscentBody(leaf, p, g, t)
<1> DEFINE k == Split(t[2])
           a == <<t[1], k>>
           b == <<t[1] - k, t[2] - k>>
<1>1. t[1] \in Nat /\ t[2] \in Nat /\ t[2] >= 1
  BY DEF Positive
<1>2. CASE t[2] = 1
  BY <1>2 DEF AscentBody
<1>3. CASE t[2] # 1
  <2>1. k \in Nat /\ 1 <= k /\ k < t[2]
    BY <1>1, <1>3, SplitRange
  <2> HIDE DEF k
  <2>2. a \in Nat \X Positive /\ a[2] < t[2]
    BY <1>1, <2>1 DEF Positive
  <2>3. ~(t[1] < k) => b \in Nat \X Positive /\ b[2] < t[2]
    BY <1>1, <2>1 DEF Positive
  <2>4. f[a] = g[a] /\ (~(t[1] < k) => f[b] = g[b])
    BY <2>2, <2>3
  <2>5. /\ AscentBody(leaf, p, f, t) = IF t[1] < k THEN OnLeft(f[a]) ELSE OnRight(f[b])
        /\ AscentBody(leaf, p, g, t) = IF t[1] < k THEN OnLeft(g[a]) ELSE OnRight(g[b])
    BY <1>3 DEF AscentBody, k
  <2> QED BY <2>4, <2>5
<1> QED BY <1>2, <1>3

LEMMA AscentAgree ==
  ASSUME NEW leaf, NEW p, NEW f, NEW g, NEW b \in Nat, AscentUpTo(leaf, p, f, b), AscentUpTo(leaf, p, g, b)
  PROVE  \A t \in Nat \X Positive : t[2] <= b => f[t] = g[t]
<1> DEFINE T == {n \in Nat : n <= b /\ \E t \in Nat \X Positive : t[2] = n /\ f[t] # g[t]}
<1> SUFFICES ASSUME T # {} PROVE FALSE
  BY AscentSize
<1>1. T \in SUBSET Nat
  OBVIOUS
<1> HIDE DEF T
<1>2. PICK n \in T : \A i \in T : n <= i
  BY <1>1, LeastOf
<1>3. n \in Nat /\ n <= b
  BY <1>2 DEF T
<1>4. PICK t \in Nat \X Positive : t[2] = n /\ f[t] # g[t]
  BY <1>2 DEF T
<1>5. \A s \in Nat \X Positive : s[2] < t[2] => f[s] = g[s]
  BY <1>2, <1>3, <1>4, AscentSize DEF T
<1>6. AscentBody(leaf, p, f, t) = AscentBody(leaf, p, g, t)
  BY <1>5, AscentLocal
<1>7. f[t] = AscentBody(leaf, p, f, t) /\ g[t] = AscentBody(leaf, p, g, t)
  BY <1>3, <1>4 DEF AscentUpTo
<1> QED BY <1>4, <1>6, <1>7

LEMMA AscentExist ==
  ASSUME NEW leaf, NEW p, NEW b \in Nat
  PROVE  \E f : AscentUpTo(leaf, p, f, b)
<1> DEFINE T == {i \in Nat : \A f : ~ AscentUpTo(leaf, p, f, i)}
<1> SUFFICES ASSUME T # {} PROVE FALSE
  OBVIOUS
<1>1. T \in SUBSET Nat
  OBVIOUS
<1> HIDE DEF T
<1>2. PICK n \in T : \A i \in T : n <= i
  BY <1>1, LeastOf
<1>3. n \in Nat /\ \A f : ~ AscentUpTo(leaf, p, f, n)
  BY <1>2 DEF T
<1>4. PICK f : n = 0 \/ AscentUpTo(leaf, p, f, n - 1)
  <2>1. n # 0 => n - 1 \in Nat /\ ~(n <= n - 1)
    BY <1>3
  <2> QED BY <1>2, <1>3, <2>1 DEF T
<1> DEFINE g == [t \in Nat \X Positive |-> AscentBody(leaf, p, f, t)]
<1>5. \A t \in Nat \X Positive : g[t] = AscentBody(leaf, p, f, t)
  OBVIOUS
<1> HIDE DEF g
<1>6. ASSUME NEW t \in Nat \X Positive, t[2] <= n PROVE g[t] = AscentBody(leaf, p, g, t)
  <2>1. ASSUME NEW s \in Nat \X Positive, s[2] < t[2] PROVE f[s] = g[s]
    <3>1. n # 0 /\ s[2] <= n - 1
      BY <1>3, <1>6, <2>1, AscentSize
    <3>2. f[s] = AscentBody(leaf, p, f, s)
      BY <1>4, <3>1 DEF AscentUpTo
    <3> QED BY <1>5, <3>2
  <2>2. AscentBody(leaf, p, f, t) = AscentBody(leaf, p, g, t)
    BY <2>1, AscentLocal
  <2> QED BY <1>5, <2>2
<1>7. AscentUpTo(leaf, p, g, n)
  BY <1>6 DEF AscentUpTo
<1> QED BY <1>3, <1>7

\* AscentCall is what its equation says.
LEMMA AscentDef ==
  ASSUME NEW leaf, NEW p, NEW t \in Nat \X Positive
  PROVE  AscentCall(leaf, p)[t] = AscentBody(leaf, p, AscentCall(leaf, p), t)
<1> DEFINE F(b) == CHOOSE f : AscentUpTo(leaf, p, f, b)
           h == [s \in Nat \X Positive |-> F(s[2])[s]]
           Eq(f) == f = [s \in Nat \X Positive |-> AscentBody(leaf, p, f, s)]
<1>1. \A b \in Nat : AscentUpTo(leaf, p, F(b), b)
  BY AscentExist
<1> HIDE DEF F
<1>2. \A s \in Nat \X Positive : h[s] = F(s[2])[s]
  OBVIOUS
<1>3. h = [s \in Nat \X Positive |-> h[s]]
  OBVIOUS
<1> HIDE DEF h
<1>4. ASSUME NEW s \in Nat \X Positive PROVE h[s] = AscentBody(leaf, p, h, s)
  <2> DEFINE f == F(s[2])
  <2>1. s[2] \in Nat /\ AscentUpTo(leaf, p, f, s[2])
    BY <1>1, AscentSize
  <2> HIDE DEF f
  <2>2. ASSUME NEW r \in Nat \X Positive, r[2] < s[2] PROVE f[r] = h[r]
    <3>1. r[2] \in Nat /\ r[2] <= r[2] /\ AscentUpTo(leaf, p, F(r[2]), r[2])
      BY <1>1, AscentSize
    <3>2. AscentUpTo(leaf, p, f, r[2])
      BY <2>1, <2>2, <3>1, AscentSize DEF AscentUpTo
    <3>3. f[r] = F(r[2])[r]
      BY <3>1, <3>2, AscentAgree
    <3> QED BY <1>2, <3>3
  <2>3. AscentBody(leaf, p, f, s) = AscentBody(leaf, p, h, s)
    BY <2>2, AscentLocal
  <2>4. f[s] = AscentBody(leaf, p, f, s)
    BY <2>1 DEF AscentUpTo
  <2>5. h[s] = f[s]
    BY <1>2 DEF f
  <2> QED BY <2>3, <2>4, <2>5
<1>5. Eq(h)
  BY <1>3, <1>4
<1>6. AscentCall(leaf, p) = CHOOSE f : Eq(f)
  BY DEF AscentCall
<1>7. Eq(AscentCall(leaf, p))
  BY <1>5, <1>6
<1> HIDE DEF h
<1> QED BY <1>7

LEMMA InclusionRootCall ==
  ASSUME NEW index, NEW n, NEW leaf, NEW p
  PROVE  InclusionRoot(index, n, leaf, p) = AscentCall(leaf, p)[<<index, n>>]
BY DEF InclusionRoot, AscentCall, AscentBody, OnLeft, OnRight

AscentEq(leaf, p, index, n) ==
  InclusionRoot(index, n, leaf, p) =
    IF n = 1 THEN {[root |-> leaf, rest |-> p]}
    ELSE IF index < Split(n) THEN OnLeft(InclusionRoot(index, Split(n), leaf, p))
    ELSE OnRight(InclusionRoot(index - Split(n), n - Split(n), leaf, p))

LEMMA InclusionRootDef ==
  ASSUME NEW leaf, NEW p, NEW index \in Nat, NEW n \in Nat, n >= 1
  PROVE  AscentEq(leaf, p, index, n)
<1> DEFINE t == <<index, n>>
           k == Split(n)
<1>1. t \in Nat \X Positive /\ t[1] = index /\ t[2] = n
  BY DEF Positive
<1>2. AscentCall(leaf, p)[t] = AscentBody(leaf, p, AscentCall(leaf, p), t)
  BY <1>1, AscentDef
<1>3. AscentBody(leaf, p, AscentCall(leaf, p), t) =
        IF n = 1 THEN {[root |-> leaf, rest |-> p]}
        ELSE IF index < k THEN OnLeft(AscentCall(leaf, p)[<<index, k>>])
        ELSE OnRight(AscentCall(leaf, p)[<<index - k, n - k>>])
  BY <1>1 DEF AscentBody
<1> HIDE DEF k
<1>4. InclusionRoot(index, n, leaf, p) =
        IF n = 1 THEN {[root |-> leaf, rest |-> p]}
        ELSE IF index < k THEN OnLeft(InclusionRoot(index, k, leaf, p))
        ELSE OnRight(InclusionRoot(index - k, n - k, leaf, p))
  BY <1>2, <1>3, InclusionRootCall, Zenon
<1> QED BY <1>4 DEF k, AscentEq

\* A path from a leaf to the root of a tree is one from the leaf at that place.
LEMMA InclusionSound ==
  ASSUME NEW leaves, NEW leaf, NEW p, NEW n0 \in Nat, NEW index0 \in Nat, index0 < n0,
         NEW start0 \in Nat, NEW r0 \in InclusionRoot(index0, n0, leaf, p),
         r0.root = TreeHash(leaves, start0, n0)
  PROVE  leaf = LeafHash(leaves[start0 + index0 + 1])
<1> DEFINE Led(n, index, start) ==
             \E r \in InclusionRoot(index, n, leaf, p) : r.root = TreeHash(leaves, start, n)
           T == {n \in Nat : \E index, start \in Nat :
                   index < n /\ Led(n, index, start) /\ leaf # LeafHash(leaves[start + index + 1])}
<1> SUFFICES ASSUME T # {} PROVE FALSE
  OBVIOUS
<1>1. T \in SUBSET Nat
  OBVIOUS
<1> HIDE DEF T
<1>2. PICK n \in T : \A j \in T : n <= j
  BY <1>1, LeastOf
<1>3. n \in Nat
  BY <1>1
<1>4. PICK index \in Nat, start \in Nat :
        index < n /\ Led(n, index, start) /\ leaf # LeafHash(leaves[start + index + 1])
  BY <1>2 DEF T
<1>5. PICK r \in InclusionRoot(index, n, leaf, p) : r.root = TreeHash(leaves, start, n)
  BY <1>4
<1> HIDE DEF Led
<1> DEFINE k == Split(n)
<1>6. InclusionRoot(index, n, leaf, p) =
        IF n = 1 THEN {[root |-> leaf, rest |-> p]}
        ELSE IF index < k THEN OnLeft(InclusionRoot(index, k, leaf, p))
        ELSE OnRight(InclusionRoot(index - k, n - k, leaf, p))
  <2>1. AscentEq(leaf, p, index, n)
    BY <1>3, <1>4, InclusionRootDef
  <2> QED BY <2>1 DEF AscentEq
<1>7. CASE n = 1
  <2>1. r.root = leaf /\ index = 0
    BY <1>3, <1>4, <1>5, <1>6, <1>7
  <2>2. r.root = LeafHash(leaves[start + 1])
    BY <1>5, <1>7, TreeHashDef
  <2> QED BY <1>4, <2>1, <2>2
<1>8. CASE n # 1
  <2>1. n > 1
    BY <1>3, <1>4, <1>8
  <2>2. k \in Nat /\ 1 <= k /\ k < n
    BY <1>3, <2>1, SplitRange
  <2>3. r.root = NodeHash(TreeHash(leaves, start, k), TreeHash(leaves, start + k, n - k))
    BY <1>3, <1>5, <2>1, TreeHashDef
  <2> HIDE DEF k
  <2>4. CASE index < k
    <3>1. r \in OnLeft(InclusionRoot(index, k, leaf, p))
      BY <1>5, <1>6, <1>8, <2>4
    <3>2. PICK s \in InclusionRoot(index, k, leaf, p) : r.root = NodeHash(s.root, Head(s.rest))
      BY <3>1 DEF OnLeft
    <3>3. s.root = TreeHash(leaves, start, k)
      BY <2>3, <3>2, NodeInjective
    <3>4. Led(k, index, start)
      BY <3>3 DEF Led
    <3>5. k \in T
      BY <1>4, <2>2, <2>4, <3>4 DEF T
    <3> QED BY <1>2, <1>3, <2>2, <3>5
  <2>5. CASE ~(index < k)
    <3>1. r \in OnRight(InclusionRoot(index - k, n - k, leaf, p))
      BY <1>5, <1>6, <1>8, <2>5
    <3>2. PICK s \in InclusionRoot(index - k, n - k, leaf, p) : r.root = NodeHash(Head(s.rest), s.root)
      BY <3>1 DEF OnRight
    <3>3. s.root = TreeHash(leaves, start + k, n - k)
      BY <2>3, <3>2, NodeInjective
    <3>4. Led(n - k, index - k, start + k)
      BY <3>3 DEF Led
    <3>5. /\ index - k \in Nat /\ start + k \in Nat /\ n - k \in Nat /\ index - k < n - k
          /\ (start + k) + (index - k) + 1 = start + index + 1 /\ ~(n <= n - k)
      BY <1>3, <1>4, <2>2, <2>5
    <3>6. n - k \in T
      BY <1>4, <3>4, <3>5 DEF T
    <3> QED BY <1>2, <3>5, <3>6
  <2> QED BY <2>4, <2>5
<1> QED BY <1>7, <1>8

Whole(known, p, whole) ==
  IF whole THEN {[old |-> known, new |-> known, rest |-> p]}
  ELSE {[old |-> Head(q), new |-> Head(q), rest |-> Tail(q)] : q \in {p} \ {<<>>}}

GrownLeft(S) ==
  {[old |-> sub.old, new |-> NodeHash(sub.new, Head(sub.rest)), rest |-> Tail(sub.rest)] :
     sub \in {s \in S : s.rest # <<>>}}

GrownRight(S) ==
  {[old |-> NodeHash(Head(sub.rest), sub.old), new |-> NodeHash(Head(sub.rest), sub.new),
    rest |-> Tail(sub.rest)] : sub \in {s \in S : s.rest # <<>>}}

LEMMA InGrownLeft ==
  ASSUME NEW S, NEW r \in GrownLeft(S)
  PROVE  \E s \in S : r.old = s.old /\ r.new = NodeHash(s.new, Head(s.rest))
<1>1. PICK s \in S : r = [old |-> s.old, new |-> NodeHash(s.new, Head(s.rest)), rest |-> Tail(s.rest)]
  BY Zenon DEF GrownLeft
<1> QED BY <1>1

LEMMA InGrownRight ==
  ASSUME NEW S, NEW r \in GrownRight(S)
  PROVE  \E s \in S : r.old = NodeHash(Head(s.rest), s.old) /\ r.new = NodeHash(Head(s.rest), s.new)
<1>1. PICK s \in S : r = [old |-> NodeHash(Head(s.rest), s.old),
                          new |-> NodeHash(Head(s.rest), s.new), rest |-> Tail(s.rest)]
  BY Zenon DEF GrownRight
<1> QED BY <1>1

LEMMA GrowthSize == \A t \in Growth : t[2] \in Nat
BY DEF Growth, Positive

GrowthBody(known, p, f, t) ==
  LET k == Split(t[2]) IN
  IF t[1] = t[2] THEN Whole(known, p, t[3])
  ELSE IF t[1] <= k THEN GrownLeft(f[<<t[1], k, t[3]>>])
  ELSE GrownRight(f[<<t[1] - k, t[2] - k, FALSE>>])

GrowthUpTo(known, p, f, b) == \A t \in Growth : t[2] <= b => f[t] = GrowthBody(known, p, f, t)

GrowthCall(known, p) == CHOOSE f : f = [t \in Growth |-> GrowthBody(known, p, f, t)]

\* Two sizes of a log are compared by two smaller ones.
LEMMA GrowthLocal ==
  ASSUME NEW known, NEW p, NEW f, NEW g, NEW t \in Growth, \A s \in Growth : s[2] < t[2] => f[s] = g[s]
  PROVE  GrowthBody(known, p, f, t) = GrowthBody(known, p, g, t)
<1> DEFINE k == Split(t[2])
           a == <<t[1], k, t[3]>>
           b == <<t[1] - k, t[2] - k, FALSE>>
<1>1. t[1] \in Nat /\ t[2] \in Nat /\ t[1] >= 1 /\ t[1] <= t[2] /\ t[3] \in BOOLEAN
  BY DEF Growth, Positive
<1>2. CASE t[1] = t[2]
  BY <1>2 DEF GrowthBody
<1>3. CASE t[1] # t[2]
  <2>1. k \in Nat /\ 1 <= k /\ k < t[2]
    BY <1>1, <1>3, SplitRange
  <2> HIDE DEF k
  <2>2. t[1] <= k => a \in Growth /\ a[2] < t[2]
    BY <1>1, <2>1 DEF Growth, Positive
  <2>3. ~(t[1] <= k) => b \in Growth /\ b[2] < t[2]
    <3>1. ~(t[1] <= k) => /\ t[1] - k \in Positive /\ t[2] - k \in Positive
                          /\ t[1] - k <= t[2] - k /\ t[2] - k < t[2]
      BY <1>1, <2>1 DEF Positive
    <3> QED BY <3>1 DEF Growth
  <2>4. (t[1] <= k => f[a] = g[a]) /\ (~(t[1] <= k) => f[b] = g[b])
    BY <2>2, <2>3
  <2>5. /\ GrowthBody(known, p, f, t) = IF t[1] <= k THEN GrownLeft(f[a]) ELSE GrownRight(f[b])
        /\ GrowthBody(known, p, g, t) = IF t[1] <= k THEN GrownLeft(g[a]) ELSE GrownRight(g[b])
    BY <1>3 DEF GrowthBody, k
  <2> QED BY <2>4, <2>5
<1> QED BY <1>2, <1>3

LEMMA GrowthAgree ==
  ASSUME NEW known, NEW p, NEW f, NEW g, NEW b \in Nat, GrowthUpTo(known, p, f, b), GrowthUpTo(known, p, g, b)
  PROVE  \A t \in Growth : t[2] <= b => f[t] = g[t]
<1> DEFINE T == {n \in Nat : n <= b /\ \E t \in Growth : t[2] = n /\ f[t] # g[t]}
<1> SUFFICES ASSUME T # {} PROVE FALSE
  BY GrowthSize
<1>1. T \in SUBSET Nat
  OBVIOUS
<1> HIDE DEF T
<1>2. PICK n \in T : \A i \in T : n <= i
  BY <1>1, LeastOf
<1>3. n \in Nat /\ n <= b
  BY <1>2 DEF T
<1>4. PICK t \in Growth : t[2] = n /\ f[t] # g[t]
  BY <1>2 DEF T
<1>5. \A s \in Growth : s[2] < t[2] => f[s] = g[s]
  BY <1>2, <1>3, <1>4, GrowthSize DEF T
<1>6. GrowthBody(known, p, f, t) = GrowthBody(known, p, g, t)
  BY <1>5, GrowthLocal
<1>7. f[t] = GrowthBody(known, p, f, t) /\ g[t] = GrowthBody(known, p, g, t)
  BY <1>3, <1>4 DEF GrowthUpTo
<1> QED BY <1>4, <1>6, <1>7

LEMMA GrowthExist ==
  ASSUME NEW known, NEW p, NEW b \in Nat
  PROVE  \E f : GrowthUpTo(known, p, f, b)
<1> DEFINE T == {i \in Nat : \A f : ~ GrowthUpTo(known, p, f, i)}
<1> SUFFICES ASSUME T # {} PROVE FALSE
  OBVIOUS
<1>1. T \in SUBSET Nat
  OBVIOUS
<1> HIDE DEF T
<1>2. PICK n \in T : \A i \in T : n <= i
  BY <1>1, LeastOf
<1>3. n \in Nat /\ \A f : ~ GrowthUpTo(known, p, f, n)
  BY <1>2 DEF T
<1>4. PICK f : n = 0 \/ GrowthUpTo(known, p, f, n - 1)
  <2>1. n # 0 => n - 1 \in Nat /\ ~(n <= n - 1)
    BY <1>3
  <2> QED BY <1>2, <1>3, <2>1 DEF T
<1> DEFINE g == [t \in Growth |-> GrowthBody(known, p, f, t)]
<1>5. \A t \in Growth : g[t] = GrowthBody(known, p, f, t)
  OBVIOUS
<1> HIDE DEF g
<1>6. ASSUME NEW t \in Growth, t[2] <= n PROVE g[t] = GrowthBody(known, p, g, t)
  <2>1. ASSUME NEW s \in Growth, s[2] < t[2] PROVE f[s] = g[s]
    <3>1. n # 0 /\ s[2] <= n - 1
      BY <1>3, <1>6, <2>1, GrowthSize
    <3>2. f[s] = GrowthBody(known, p, f, s)
      BY <1>4, <3>1 DEF GrowthUpTo
    <3> QED BY <1>5, <3>2
  <2>2. GrowthBody(known, p, f, t) = GrowthBody(known, p, g, t)
    BY <2>1, GrowthLocal
  <2> QED BY <1>5, <2>2
<1>7. GrowthUpTo(known, p, g, n)
  BY <1>6 DEF GrowthUpTo
<1> QED BY <1>3, <1>7

\* GrowthCall is what its equation says.
LEMMA GrowthDef ==
  ASSUME NEW known, NEW p, NEW t \in Growth
  PROVE  GrowthCall(known, p)[t] = GrowthBody(known, p, GrowthCall(known, p), t)
<1> DEFINE F(b) == CHOOSE f : GrowthUpTo(known, p, f, b)
           h == [s \in Growth |-> F(s[2])[s]]
           Eq(f) == f = [s \in Growth |-> GrowthBody(known, p, f, s)]
<1>1. \A b \in Nat : GrowthUpTo(known, p, F(b), b)
  BY GrowthExist
<1> HIDE DEF F
<1>2. \A s \in Growth : h[s] = F(s[2])[s]
  OBVIOUS
<1>3. h = [s \in Growth |-> h[s]]
  OBVIOUS
<1> HIDE DEF h
<1>4. ASSUME NEW s \in Growth PROVE h[s] = GrowthBody(known, p, h, s)
  <2> DEFINE f == F(s[2])
  <2>1. s[2] \in Nat /\ GrowthUpTo(known, p, f, s[2])
    BY <1>1, GrowthSize
  <2> HIDE DEF f
  <2>2. ASSUME NEW r \in Growth, r[2] < s[2] PROVE f[r] = h[r]
    <3>1. r[2] \in Nat /\ r[2] <= r[2] /\ GrowthUpTo(known, p, F(r[2]), r[2])
      BY <1>1, GrowthSize
    <3>2. GrowthUpTo(known, p, f, r[2])
      BY <2>1, <2>2, <3>1, GrowthSize DEF GrowthUpTo
    <3>3. f[r] = F(r[2])[r]
      BY <3>1, <3>2, GrowthAgree
    <3> QED BY <1>2, <3>3
  <2>3. GrowthBody(known, p, f, s) = GrowthBody(known, p, h, s)
    BY <2>2, GrowthLocal
  <2>4. f[s] = GrowthBody(known, p, f, s)
    BY <2>1 DEF GrowthUpTo
  <2>5. h[s] = f[s]
    BY <1>2 DEF f
  <2> QED BY <2>3, <2>4, <2>5
<1>5. Eq(h)
  BY <1>3, <1>4
<1>6. GrowthCall(known, p) = CHOOSE f : Eq(f)
  BY DEF GrowthCall
<1>7. Eq(GrowthCall(known, p))
  BY <1>5, <1>6
<1> HIDE DEF h
<1> QED BY <1>7

LEMMA ConsistencyRootsCall ==
  ASSUME NEW old, NEW new, NEW known, NEW p
  PROVE  ConsistencyRoots(old, new, known, p) = GrowthCall(known, p)[<<old, new, TRUE>>]
BY DEF ConsistencyRoots, GrowthCall, GrowthBody, Whole, GrownLeft, GrownRight

Tells(leaves, start, t, r) ==
  r.new = TreeHash(leaves, start, t[2]) => r.old = TreeHash(leaves, start, t[1])

\* A path to the root of a tree tells the root of the tree that its first leaves make.
LEMMA ConsistencySound ==
  ASSUME NEW leaves, NEW known, NEW p, NEW t0 \in Growth, NEW start0 \in Nat
  PROVE  \A r \in GrowthCall(known, p)[t0] : Tells(leaves, start0, t0, r)
<1> DEFINE Misled(t, start) ==
             \E r \in GrowthCall(known, p)[t] :
               r.new = TreeHash(leaves, start, t[2]) /\ r.old # TreeHash(leaves, start, t[1])
           T == {m \in Nat : \E t \in Growth : t[2] = m /\ \E start \in Nat : Misled(t, start)}
<1> SUFFICES ASSUME T # {} PROVE FALSE
  <2> SUFFICES ASSUME NEW r0 \in GrowthCall(known, p)[t0], r0.new = TreeHash(leaves, start0, t0[2]),
                      r0.old # TreeHash(leaves, start0, t0[1])
               PROVE T # {}
    BY DEF Tells
  <2>1. Misled(t0, start0) /\ t0[2] \in Nat
    BY GrowthSize
  <2> HIDE DEF Misled
  <2>2. t0[2] \in T
    BY <2>1
  <2> QED BY <2>2
<1>1. T \in SUBSET Nat
  OBVIOUS
<1> HIDE DEF T
<1>2. PICK n \in T : \A j \in T : n <= j
  BY <1>1, LeastOf
<1>3. PICK t \in Growth, start \in Nat : t[2] = n /\ Misled(t, start)
  BY <1>2 DEF T
<1>4. PICK r \in GrowthCall(known, p)[t] :
        r.new = TreeHash(leaves, start, n) /\ r.old # TreeHash(leaves, start, t[1])
  BY <1>3
<1> HIDE DEF Misled
<1> DEFINE old == t[1]
           k == Split(n)
           a == <<old, k, t[3]>>
           b == <<old - k, n - k, FALSE>>
<1>5. old \in Nat /\ n \in Nat /\ 1 <= old /\ old <= n /\ t[3] \in BOOLEAN
  BY <1>3 DEF Growth, Positive
<1>6. GrowthCall(known, p)[t] =
        IF old = n THEN Whole(known, p, t[3])
        ELSE IF old <= k THEN GrownLeft(GrowthCall(known, p)[a]) ELSE GrownRight(GrowthCall(known, p)[b])
  <2>1. GrowthCall(known, p)[t] = GrowthBody(known, p, GrowthCall(known, p), t)
    BY GrowthDef
  <2> QED BY <1>3, <2>1 DEF GrowthBody
<1>7. CASE old = n
  <2>1. r \in Whole(known, p, t[3])
    BY <1>4, <1>6, <1>7
  <2>2. r.old = r.new
    BY <2>1 DEF Whole
  <2> QED BY <1>4, <1>7, <2>2
<1>8. CASE old # n
  <2>1. n > 1
    BY <1>5, <1>8
  <2>2. k \in Nat /\ 1 <= k /\ k < n
    BY <1>5, <2>1, SplitRange
  <2>3. r.new = NodeHash(TreeHash(leaves, start, k), TreeHash(leaves, start + k, n - k))
    BY <1>4, <1>5, <2>1, TreeHashDef
  <2>4. ~(old <= k) => Split(old) = k /\ old > 1
    BY <1>5, <2>1, <2>2, SplitSame
  <2> HIDE DEF k, old
  <2>5. CASE old <= k
    <3>1. a \in Growth /\ a[1] = old /\ a[2] = k
      BY <1>5, <2>2, <2>5 DEF Growth, Positive
    <3>2. r \in GrownLeft(GrowthCall(known, p)[a])
      BY <1>4, <1>6, <1>8, <2>5
    <3> HIDE DEF a
    <3>3. PICK s \in GrowthCall(known, p)[a] : r.old = s.old /\ r.new = NodeHash(s.new, Head(s.rest))
      BY <3>2, InGrownLeft, Zenon
    <3>4. s.new = TreeHash(leaves, start, k)
      BY <2>3, <3>3, NodeInjective
    <3>5. Misled(a, start)
      BY <1>4, <3>1, <3>3, <3>4 DEF Misled, old
    <3>6. k \in T
      BY <2>2, <3>1, <3>5 DEF T
    <3> QED BY <1>2, <1>5, <2>2, <3>6
  <2>6. CASE ~(old <= k)
    <3>1. old - k \in Positive /\ n - k \in Positive /\ old - k <= n - k /\ n - k \in Nat /\ start + k \in Nat
      BY <1>5, <2>2, <2>6 DEF Positive
    <3>2. b \in Growth /\ b[1] = old - k /\ b[2] = n - k
      BY <3>1 DEF Growth
    <3>3. r \in GrownRight(GrowthCall(known, p)[b])
      BY <1>4, <1>6, <1>8, <2>6
    <3> HIDE DEF b
    <3>4. PICK s \in GrowthCall(known, p)[b] :
            r.old = NodeHash(Head(s.rest), s.old) /\ r.new = NodeHash(Head(s.rest), s.new)
      BY <3>3, InGrownRight, Zenon
    <3>5. Head(s.rest) = TreeHash(leaves, start, k) /\ s.new = TreeHash(leaves, start + k, n - k)
      BY <2>3, <3>4, NodeInjective
    <3>6. TreeHash(leaves, start, old) =
            NodeHash(TreeHash(leaves, start, k), TreeHash(leaves, start + k, old - k))
      BY <1>5, <2>4, <2>6, TreeHashDef
    <3>7. s.old # TreeHash(leaves, start + k, old - k)
      BY <1>4, <3>4, <3>5, <3>6 DEF old
    <3>8. Misled(b, start + k)
      BY <3>2, <3>5, <3>7 DEF Misled
    <3>9. n - k \in T
      BY <3>1, <3>2, <3>8 DEF T
    <3> QED BY <1>2, <1>5, <2>2, <3>9
  <2> QED BY <2>5, <2>6
<1> QED BY <1>7, <1>8

LEMMA InclusionProves ==
  ASSUME NEW entry, NEW index \in Nat, NEW n \in Nat, NEW p, NEW leaves,
         VerifyInclusion(entry, index, n, p, TreeHash(leaves, 0, n))
  PROVE  entry = leaves[index + 1]
<1> DEFINE r == [root |-> TreeHash(leaves, 0, n), rest |-> <<>>]
<1>1. index < n /\ r \in InclusionRoot(index, n, LeafHash(entry), p)
  BY DEF VerifyInclusion
<1>2. r.root = TreeHash(leaves, 0, n)
  OBVIOUS
<1> HIDE DEF r
<1>3. LeafHash(entry) = LeafHash(leaves[0 + index + 1])
  BY <1>1, <1>2, InclusionSound
<1> QED BY <1>3, LeafInjective

LEMMA ConsistencyRootsSound ==
  ASSUME NEW old \in Nat, NEW n \in Nat, 1 <= old, old <= n, NEW known, NEW p, NEW leaves,
         ConsistencyRoots(old, n, known, p)
           = {[old |-> known, new |-> TreeHash(leaves, 0, n), rest |-> <<>>]}
  PROVE  known = TreeHash(leaves, 0, old)
<1> DEFINE t == <<old, n, TRUE>>
           r == [old |-> known, new |-> TreeHash(leaves, 0, n), rest |-> <<>>]
<1>1. old \in Positive /\ n \in Positive
  BY DEF Positive
<1>2. t \in Growth /\ t[1] = old /\ t[2] = n
  BY <1>1 DEF Growth
<1>3. r \in GrowthCall(known, p)[t]
  BY ConsistencyRootsCall
<1>4. r.new = TreeHash(leaves, 0, n) /\ r.old = known
  OBVIOUS
<1> HIDE DEF t, r
<1>5. \A s \in GrowthCall(known, p)[t] : Tells(leaves, 0, t, s)
  <2>1. t \in Growth /\ 0 \in Nat
    BY <1>2
  <2> QED BY <2>1, ConsistencySound, Zenon
<1>6. Tells(leaves, 0, t, r)
  BY <1>3, <1>5, Zenon
<1> QED BY <1>2, <1>4, <1>6 DEF Tells

LEMMA ConsistencyProves ==
  ASSUME NEW old \in Nat, NEW n \in Nat, NEW p, NEW leaves, NEW earlier,
         VerifyConsistencyPath(old, n, TreeHash(earlier, 0, old), TreeHash(leaves, 0, n), p)
  PROVE  \A i \in 1 .. old : earlier[i] = leaves[i]
<1>1. CASE old = 0
  BY <1>1
<1>2. CASE old # 0
  <2>1. TreeHash(earlier, 0, old) = TreeHash(leaves, 0, old)
    <3>1. CASE old = n
      BY <3>1 DEF VerifyConsistencyPath
    <3>2. CASE old # n
      <4> DEFINE known == TreeHash(earlier, 0, old)
      <4>1. /\ 1 <= old /\ old <= n
            /\ ConsistencyRoots(old, n, known, p)
                 = {[old |-> known, new |-> TreeHash(leaves, 0, n), rest |-> <<>>]}
        BY <1>2, <3>2 DEF VerifyConsistencyPath
      <4> HIDE DEF known
      <4>2. known = TreeHash(leaves, 0, old)
        BY <4>1, ConsistencyRootsSound
      <4> QED BY <4>2 DEF known
    <3> QED BY <3>1, <3>2
  <2>2. \A i \in 1 .. old : earlier[0 + i] = leaves[0 + i]
    BY <2>1, RootBindsLeaves
  <2>3. \A i \in 1 .. old : 0 + i = i
    OBVIOUS
  <2> QED BY <2>2, <2>3
<1> QED BY <1>1, <1>2

----------------------------------------------------------------------------
\* Powers of two.
LEMMA PowerSize == \A t \in Nat : t \in Nat
OBVIOUS

PowerBody(f, t) ==
  IF t = 0 THEN 1 ELSE 2 * f[t - 1]

PowerUpTo(f, b) == \A t \in Nat : t <= b => f[t] = PowerBody(f, t)

PowerCall == CHOOSE f : f = [t \in Nat |-> PowerBody(f, t)]

\* A power of two is made of the one below.
LEMMA PowerLocal ==
  ASSUME NEW f, NEW g, NEW t \in Nat, \A s \in Nat : s < t => f[s] = g[s]
  PROVE  PowerBody(f, t) = PowerBody(g, t)
<1>1. CASE t = 0
  BY <1>1 DEF PowerBody
<1>2. CASE t # 0
  <2>1. t - 1 \in Nat /\ t - 1 < t
    BY <1>2
  <2>2. f[t - 1] = g[t - 1]
    BY <2>1
  <2> QED BY <1>2, <2>2 DEF PowerBody
<1> QED BY <1>1, <1>2

LEMMA PowerAgree ==
  ASSUME NEW f, NEW g, NEW b \in Nat, PowerUpTo(f, b), PowerUpTo(g, b)
  PROVE  \A t \in Nat : t <= b => f[t] = g[t]
<1> DEFINE T == {n \in Nat : n <= b /\ \E t \in Nat : t = n /\ f[t] # g[t]}
<1> SUFFICES ASSUME T # {} PROVE FALSE
  BY PowerSize
<1>1. T \in SUBSET Nat
  OBVIOUS
<1> HIDE DEF T
<1>2. PICK n \in T : \A i \in T : n <= i
  BY <1>1, LeastOf
<1>3. n \in Nat /\ n <= b
  BY <1>2 DEF T
<1>4. PICK t \in Nat : t = n /\ f[t] # g[t]
  BY <1>2 DEF T
<1>5. \A s \in Nat : s < t => f[s] = g[s]
  BY <1>2, <1>3, <1>4, PowerSize DEF T
<1>6. PowerBody(f, t) = PowerBody(g, t)
  BY <1>5, PowerLocal
<1>7. f[t] = PowerBody(f, t) /\ g[t] = PowerBody(g, t)
  BY <1>3, <1>4 DEF PowerUpTo
<1> QED BY <1>4, <1>6, <1>7

LEMMA PowerExist ==
  ASSUME NEW b \in Nat
  PROVE  \E f : PowerUpTo(f, b)
<1> DEFINE T == {i \in Nat : \A f : ~ PowerUpTo(f, i)}
<1> SUFFICES ASSUME T # {} PROVE FALSE
  OBVIOUS
<1>1. T \in SUBSET Nat
  OBVIOUS
<1> HIDE DEF T
<1>2. PICK n \in T : \A i \in T : n <= i
  BY <1>1, LeastOf
<1>3. n \in Nat /\ \A f : ~ PowerUpTo(f, n)
  BY <1>2 DEF T
<1>4. PICK f : n = 0 \/ PowerUpTo(f, n - 1)
  <2>1. n # 0 => n - 1 \in Nat /\ ~(n <= n - 1)
    BY <1>3
  <2> QED BY <1>2, <1>3, <2>1 DEF T
<1> DEFINE g == [t \in Nat |-> PowerBody(f, t)]
<1>5. \A t \in Nat : g[t] = PowerBody(f, t)
  OBVIOUS
<1> HIDE DEF g
<1>6. ASSUME NEW t \in Nat, t <= n PROVE g[t] = PowerBody(g, t)
  <2>1. ASSUME NEW s \in Nat, s < t PROVE f[s] = g[s]
    <3>1. n # 0 /\ s <= n - 1
      BY <1>3, <1>6, <2>1, PowerSize
    <3>2. f[s] = PowerBody(f, s)
      BY <1>4, <3>1 DEF PowerUpTo
    <3> QED BY <1>5, <3>2
  <2>2. PowerBody(f, t) = PowerBody(g, t)
    BY <2>1, PowerLocal
  <2> QED BY <1>5, <2>2
<1>7. PowerUpTo(g, n)
  BY <1>6 DEF PowerUpTo
<1> QED BY <1>3, <1>7

\* PowerCall is what its equation says.
LEMMA PowerDef ==
  ASSUME NEW t \in Nat
  PROVE  PowerCall[t] = PowerBody(PowerCall, t)
<1> DEFINE F(b) == CHOOSE f : PowerUpTo(f, b)
           h == [s \in Nat |-> F(s)[s]]
           Eq(f) == f = [s \in Nat |-> PowerBody(f, s)]
<1>1. \A b \in Nat : PowerUpTo(F(b), b)
  BY PowerExist
<1> HIDE DEF F
<1>2. \A s \in Nat : h[s] = F(s)[s]
  OBVIOUS
<1>3. h = [s \in Nat |-> h[s]]
  OBVIOUS
<1> HIDE DEF h
<1>4. ASSUME NEW s \in Nat PROVE h[s] = PowerBody(h, s)
  <2> DEFINE f == F(s)
  <2>1. s \in Nat /\ PowerUpTo(f, s)
    BY <1>1, PowerSize
  <2> HIDE DEF f
  <2>2. ASSUME NEW r \in Nat, r < s PROVE f[r] = h[r]
    <3>1. r \in Nat /\ r <= r /\ PowerUpTo(F(r), r)
      BY <1>1, PowerSize
    <3>2. PowerUpTo(f, r)
      BY <2>1, <2>2, <3>1, PowerSize DEF PowerUpTo
    <3>3. f[r] = F(r)[r]
      BY <3>1, <3>2, PowerAgree
    <3> QED BY <1>2, <3>3
  <2>3. PowerBody(f, s) = PowerBody(h, s)
    BY <2>2, PowerLocal
  <2>4. f[s] = PowerBody(f, s)
    BY <2>1 DEF PowerUpTo
  <2>5. h[s] = f[s]
    BY <1>2 DEF f
  <2> QED BY <2>3, <2>4, <2>5
<1>5. Eq(h)
  BY <1>3, <1>4
<1>6. PowerCall = CHOOSE f : Eq(f)
  BY DEF PowerCall
<1>7. Eq(PowerCall)
  BY <1>5, <1>6
<1> HIDE DEF h
<1> QED BY <1>7

LEMMA PowerStep ==
  /\ Power[0] = 1
  /\ \A n \in Nat : Power[n + 1] = 2 * Power[n]
<1>1. Power = PowerCall
  BY DEF Power, PowerCall, PowerBody
<1>2. \A n \in Nat : Power[n] = PowerBody(Power, n)
  BY <1>1, PowerDef
<1>3. Power[0] = 1
  BY <1>2 DEF PowerBody
<1>4. ASSUME NEW n \in Nat PROVE Power[n + 1] = 2 * Power[n]
  <2>1. n + 1 \in Nat /\ n + 1 # 0 /\ (n + 1) - 1 = n
    OBVIOUS
  <2>2. Power[n + 1] = IF n + 1 = 0 THEN 1 ELSE 2 * Power[(n + 1) - 1]
    BY <1>2, <2>1 DEF PowerBody
  <2> QED BY <2>1, <2>2
<1> QED BY <1>3, <1>4

LEMMA PowerNat == \A n \in Nat : Power[n] \in Nat /\ n < Power[n]
<1> DEFINE T == {n \in Nat : ~ (Power[n] \in Nat /\ n < Power[n])}
<1> SUFFICES ASSUME T # {} PROVE FALSE
  OBVIOUS
<1>1. T \in SUBSET Nat
  OBVIOUS
<1> HIDE DEF T
<1>2. PICK n \in T : \A j \in T : n <= j
  BY <1>1, LeastOf
<1>3. n \in Nat /\ ~ (Power[n] \in Nat /\ n < Power[n])
  BY <1>2 DEF T
<1>4. n # 0
  BY <1>3, PowerStep
<1>5. n - 1 \in Nat /\ ~(n <= n - 1) /\ (n - 1) + 1 = n
  BY <1>3, <1>4
<1>6. Power[n - 1] \in Nat /\ n - 1 < Power[n - 1]
  BY <1>2, <1>5 DEF T
<1>7. Power[n] = 2 * Power[n - 1]
  BY <1>5, PowerStep
<1> DEFINE x == Power[n - 1]
<1>8. x \in Nat /\ n - 1 < x /\ Power[n] = 2 * x
  BY <1>6, <1>7
<1> HIDE DEF x
<1> QED BY <1>3, <1>5, <1>8

LEMMA PowerSum ==
  ASSUME NEW a \in Nat, NEW b \in Nat
  PROVE  Power[a + b] = Power[a] * Power[b]
<1> DEFINE T == {n \in Nat : Power[a + n] # Power[a] * Power[n]}
<1> SUFFICES ASSUME T # {} PROVE FALSE
  OBVIOUS
<1>1. T \in SUBSET Nat
  OBVIOUS
<1> HIDE DEF T
<1>2. PICK n \in T : \A j \in T : n <= j
  BY <1>1, LeastOf
<1>3. n \in Nat /\ Power[a + n] # Power[a] * Power[n]
  BY <1>2 DEF T
<1>4. Power[a] \in Nat
  BY PowerNat
<1>5. n # 0
  BY <1>3, <1>4, PowerStep
<1>6. n - 1 \in Nat /\ ~(n <= n - 1) /\ (n - 1) + 1 = n /\ (a + (n - 1)) + 1 = a + n /\ a + (n - 1) \in Nat
  BY <1>3, <1>5
<1> DEFINE x == Power[n - 1]
           y == Power[a]
<1>7. Power[a + (n - 1)] = y * x
  BY <1>2, <1>6 DEF T
<1>8. Power[a + n] = 2 * Power[a + (n - 1)] /\ Power[n] = 2 * x /\ x \in Nat /\ y \in Nat
  BY <1>4, <1>6, PowerStep, PowerNat
<1> HIDE DEF x, y
<1>9. Power[a + n] = y * Power[n]
  BY <1>7, <1>8
<1> QED BY <1>3, <1>9 DEF y

\* Of two powers the larger is a multiple of the smaller.
LEMMA PowerDivides ==
  ASSUME NEW a \in Nat, NEW b \in Nat, a <= b
  PROVE  \E m \in Nat : m >= 1 /\ Power[b] = m * Power[a] /\ Power[a] <= Power[b]
<1> DEFINE m == Power[b - a]
<1>1. b - a \in Nat /\ a + (b - a) = b
  OBVIOUS
<1>2. m \in Nat /\ m >= 1 /\ Power[a] \in Nat
  BY <1>1, PowerNat
<1>3. Power[b] = Power[a] * m
  BY <1>1, PowerSum
<1> HIDE DEF m
<1> DEFINE x == Power[a]
<1>4. x \in Nat /\ Power[b] = x * m
  BY <1>2, <1>3
<1> HIDE DEF x
<1>5. Power[b] = m * x /\ x <= Power[b]
  BY <1>2, <1>4
<1> QED BY <1>2, <1>5 DEF x

LEMMA PowerOrder ==
  ASSUME NEW a \in Nat, NEW b \in Nat
  PROVE  /\ a <= b <=> Power[a] <= Power[b]
         /\ a < b <=> 2 * Power[a] <= Power[b]
         /\ Power[a] = Power[b] => a = b
<1>1. Power[a] \in Nat /\ Power[b] \in Nat /\ Power[a] >= 1 /\ Power[b] >= 1
  BY PowerNat
<1>2. Power[a + 1] = 2 * Power[a] /\ Power[b + 1] = 2 * Power[b]
  BY PowerStep
<1>3. a <= b => Power[a] <= Power[b]
  BY PowerDivides
<1>4. a + 1 <= b => Power[a + 1] <= Power[b]
  BY PowerDivides
<1>5. b + 1 <= a => Power[b + 1] <= Power[a]
  BY PowerDivides
<1>6. b <= a => Power[b] <= Power[a]
  BY PowerDivides
<1> QED BY <1>1, <1>2, <1>3, <1>4, <1>5, <1>6

LEMMA HighBitPower ==
  ASSUME NEW m0 \in Nat, m0 >= 1
  PROVE  \E e \in Nat : HighBit[m0] = Power[e] /\ m0 < 2 * Power[e]
<1> DEFINE Good(m) == \E e \in Nat : HighBit[m] = Power[e] /\ m < 2 * Power[e]
           T == {m \in Nat : m >= 1 /\ ~ Good(m)}
<1> SUFFICES ASSUME T # {} PROVE FALSE
  OBVIOUS
<1>1. T \in SUBSET Nat
  OBVIOUS
<1> HIDE DEF T
<1>2. PICK m \in T : \A j \in T : m <= j
  BY <1>1, LeastOf
<1>3. m \in Nat /\ m >= 1 /\ ~ Good(m)
  BY <1>2 DEF T
<1>4. HighBit[m] = IF m <= 1 THEN m ELSE 2 * HighBit[m \div 2]
  BY <1>3, HighBitDef
<1>5. CASE m = 1
  BY <1>3, <1>4, <1>5, PowerStep
<1>6. CASE m # 1
  <2> DEFINE d == m \div 2
  <2>1. d \in Nat /\ d >= 1 /\ d < m /\ m <= 2 * d + 1
    BY <1>3, <1>6
  <2>2. HighBit[m] = 2 * HighBit[d]
    BY <1>3, <1>4, <1>6
  <2> HIDE DEF d
  <2>3. Good(d)
    BY <1>2, <1>3, <2>1 DEF T
  <2>4. PICK e \in Nat : HighBit[d] = Power[e] /\ d < 2 * Power[e]
    BY <2>3
  <2> DEFINE x == Power[e]
  <2>5. x \in Nat /\ Power[e + 1] = 2 * x
    BY PowerStep, PowerNat
  <2>6. HighBit[m] = 2 * x /\ d < 2 * x
    BY <2>2, <2>4
  <2> HIDE DEF x
  <2>7. m < 2 * (2 * x)
    BY <1>3, <2>1, <2>5, <2>6
  <2>8. e + 1 \in Nat /\ HighBit[m] = Power[e + 1] /\ m < 2 * Power[e + 1]
    BY <2>5, <2>6, <2>7
  <2> QED BY <1>3, <2>8
<1> QED BY <1>5, <1>6

\* split is a power of two, and at least half of what it divides.
LEMMA SplitPower ==
  ASSUME NEW n \in Nat, n > 1
  PROVE  \E e \in Nat : Split(n) = Power[e] /\ Power[e] < n /\ n <= 2 * Power[e]
<1>1. n - 1 \in Nat /\ n - 1 >= 1
  OBVIOUS
<1>2. PICK e \in Nat : HighBit[n - 1] = Power[e] /\ n - 1 < 2 * Power[e]
  BY <1>1, HighBitPower
<1>3. Power[e] \in Nat
  BY PowerNat
<1>4. Split(n) = Power[e] /\ Split(n) < n
  BY <1>2, SplitRange DEF Split
<1> QED BY <1>2, <1>3, <1>4

LEMMA SplitDouble ==
  ASSUME NEW e \in Nat
  PROVE  Split(Power[e + 1]) = Power[e] /\ Power[e + 1] > 1
<1> DEFINE x == Power[e]
<1>1. x \in Nat /\ x >= 1 /\ Power[e + 1] = 2 * x
  BY PowerStep, PowerNat
<1>2. 2 * x \in Nat /\ 2 * x > 1
  BY <1>1
<1>3. PICK f \in Nat : Split(2 * x) = Power[f] /\ Power[f] < 2 * x /\ 2 * x <= 2 * Power[f]
  BY <1>2, SplitPower
<1>4. Power[f] \in Nat /\ Power[f + 1] = 2 * Power[f]
  BY PowerStep, PowerNat
<1>5. f + 1 \in Nat /\ e + 1 \in Nat
  OBVIOUS
<1>6. ~(e + 1 <= f)
  BY <1>1, <1>3, <1>4, <1>5, PowerOrder
<1>7. e + 1 <= f + 1
  BY <1>1, <1>3, <1>4, <1>5, PowerOrder
<1>8. e = f
  BY <1>6, <1>7
<1> QED BY <1>1, <1>2, <1>3, <1>8

----------------------------------------------------------------------------
\* Where the root of a perfect subtree is found.
LEMMA HeightOf ==
  ASSUME NEW e \in Nat
  PROVE  (CHOOSE f \in 0 .. Power[e] : Power[f] = Power[e]) = e
<1>1. e \in 0 .. Power[e]
  BY PowerNat
<1> DEFINE h == CHOOSE f \in 0 .. Power[e] : Power[f] = Power[e]
<1>2. h \in 0 .. Power[e] /\ Power[h] = Power[e]
  BY <1>1
<1> HIDE DEF h
<1>3. h \in Nat
  BY <1>2
<1>4. h = e
  BY <1>2, <1>3, PowerOrder
<1> QED BY <1>4 DEF h

LEMMA Remainder ==
  ASSUME NEW q \in Nat, NEW r \in Nat, NEW b \in Nat, r < b
  PROVE  (q * b + r) \div b = q /\ (q * b + r) % b = r
OBVIOUS

LEMMA Divided ==
  ASSUME NEW a \in Nat, NEW b \in Nat, b > 0
  PROVE  a \div b \in Nat /\ a % b \in Nat /\ a % b < b /\ a = (a \div b) * b + (a % b)
OBVIOUS

LEMMA PlaceArithmetic ==
  ASSUME NEW c \in Nat, NEW k \in Nat, NEW d \in Nat, NEW unit \in Nat, NEW n \in Nat,
         k >= 1, d >= 1, unit >= 1, c * (k * unit) + k * unit <= n
  PROVE  LET node == (c * (k * unit)) \div unit
             w    == k * d
             tile == node \div w
             offset == node % w
         IN /\ node = c * k /\ tile \in Nat /\ offset \in Nat /\ tile * w + offset = c * k
            /\ tile = c \div d
            /\ offset + k <= w
            /\ offset + k <= (n \div unit) - tile * w
<1> DEFINE node == (c * (k * unit)) \div unit
           w == k * d
           q == c \div d
           y == c % d
<1>1. q \in Nat /\ y \in Nat /\ y < d /\ c = q * d + y
  BY Divided
<1>2. node = c * k
  <2>1. c * (k * unit) = (c * k) * unit + 0 /\ c * k \in Nat
    OBVIOUS
  <2> QED BY <2>1, Remainder
<1> HIDE DEF q, y
<1>3. c * k = q * w + k * y
  <2>1. (q * d) * k = q * (k * d)
    BY <1>1
  <2>2. c * k = (q * d) * k + y * k
    BY <1>1
  <2> QED BY <1>1, <2>1, <2>2
<1>4. k * y + k <= w
  <2>1. k * (y + 1) <= k * d
    BY <1>1
  <2>2. k * (y + 1) = k * y + k
    BY <1>1
  <2> QED BY <1>1, <2>1, <2>2
<1>5. w \in Nat /\ k * y \in Nat /\ k * y < w
  BY <1>1, <1>4
<1> HIDE DEF w, node
<1> DEFINE z == k * y
<1>6. node = q * w + z /\ z \in Nat /\ z < w
  BY <1>2, <1>3, <1>5
<1> HIDE DEF z
<1>7. node \div w = q /\ node % w = z
  BY <1>1, <1>5, <1>6, Remainder
<1>8. c * k + k <= n \div unit
  <2> DEFINE u == c * k + k
  <2>1. u \in Nat /\ u * unit <= n
    OBVIOUS
  <2> HIDE DEF u
  <2>2. u <= n \div unit
    BY <2>1
  <2> QED BY <2>2 DEF u
<1>9. n \div unit \in Nat
  OBVIOUS
<1> DEFINE v == n \div unit
           ck == c * k
           qw == q * w
<1>10. ck \in Nat /\ qw \in Nat /\ ck = qw + z /\ ck + k <= v /\ v \in Nat
  BY <1>1, <1>2, <1>5, <1>6, <1>8, <1>9
<1> HIDE DEF v, ck, qw
<1>11. z + k <= v - qw
  BY <1>6, <1>10
<1>12. /\ node = c * k /\ node \div w \in Nat /\ node % w \in Nat
       /\ (node \div w) * w + (node % w) = c * k /\ node \div w = c \div d
       /\ (node % w) + k <= w /\ (node % w) + k <= (n \div unit) - (node \div w) * w
  BY <1>1, <1>2, <1>4, <1>6, <1>7, <1>11 DEF v, qw, z, q
<1> QED BY <1>12 DEF w, node

\* The width of a tile that the tree of the proof has.
WidthAt(level, tile) ==
  LET have == (proof.size \div Power[TileHeight * level]) - tile * TileWidth
  IN IF have < TileWidth THEN have ELSE TileWidth

LEMMA LevelOf ==
  ASSUME NEW e \in Nat
  PROVE  LET level == e \div TileHeight
             unit  == Power[TileHeight * level]
             count == Power[e % TileHeight]
         IN /\ level \in Nat /\ unit \in Nat /\ count \in Nat /\ unit >= 1 /\ count >= 1
            /\ Power[e] = count * unit
            /\ e % TileHeight \in Nat /\ e % TileHeight < TileHeight
            /\ TileHeight - (e % TileHeight) \in Nat
            /\ TileWidth = count * Power[TileHeight - (e % TileHeight)]
<1> DEFINE h == TileHeight
           level == e \div h
           r == e % h
<1>1. h \in Nat /\ h > 0
  BY TilesAssumption
<1>2. level \in Nat /\ r \in Nat /\ r < h /\ e = level * h + r
  BY <1>1, Divided
<1> HIDE DEF level, r, h
<1>3. h * level \in Nat /\ r + h * level = e /\ h - r \in Nat /\ r + (h - r) = h
  BY <1>1, <1>2
<1>4. Power[e] = Power[r] * Power[h * level] /\ Power[h] = Power[r] * Power[h - r]
  BY <1>2, <1>3, PowerSum
<1>5. Power[r] \in Nat /\ Power[r] >= 1 /\ Power[h * level] \in Nat /\ Power[h * level] >= 1
  BY <1>2, <1>3, PowerNat
<1> QED BY <1>2, <1>3, <1>4, <1>5 DEF level, r, h, TileWidth

LEMMA PlaceAt ==
  ASSUME NEW e \in Nat, NEW start
  PROVE  LET level == e \div TileHeight
             unit  == Power[TileHeight * level]
             node  == start \div unit
             tile  == node \div TileWidth
         IN Place(start, Power[e]) =
              [level |-> level, tile |-> tile, offset |-> node % TileWidth,
               count |-> Power[e % TileHeight], width |-> WidthAt(level, tile)]
<1> DEFINE h == CHOOSE f \in 0 .. Power[e] : Power[f] = Power[e]
           In(f) ==
             LET level == f \div TileHeight
                 unit  == Power[TileHeight * level]
                 node  == start \div unit
                 tile  == node \div TileWidth
             IN [level |-> level, tile |-> tile, offset |-> node % TileWidth,
                 count |-> Power[f % TileHeight], width |-> WidthAt(level, tile)]
<1>1. Place(start, Power[e]) = In(h)
  BY Zenon DEF Place, WidthAt
<1>2. h = e
  BY HeightOf
<1> HIDE DEF h, In
<1>3. Place(start, Power[e]) = In(e)
  BY <1>1, <1>2
<1> QED BY <1>3 DEF In

\* The tile and the place in it of a subtree that the tree of the proof has.
LEMMA PlaceOf ==
  ASSUME NEW e \in Nat, NEW c \in Nat, proof.size \in Nat, c * Power[e] + Power[e] <= proof.size
  PROVE  LET p    == Place(c * Power[e], Power[e])
             unit == Power[TileHeight * p.level]
         IN /\ p.level = e \div TileHeight /\ p.level \in Nat /\ p.tile \in Nat /\ p.offset \in Nat
            /\ p.count = Power[e % TileHeight]
            /\ p.tile = c \div Power[TileHeight - (e % TileHeight)]
            /\ unit \in Nat /\ unit >= 1 /\ Power[e] = p.count * unit
            /\ (p.tile * TileWidth + p.offset) * unit = c * Power[e]
            /\ p.offset + p.count <= p.width
            /\ p.width = WidthAt(p.level, p.tile) /\ p.width <= TileWidth /\ p.width \in Int
<1> DEFINE level == e \div TileHeight
           unit  == Power[TileHeight * level]
           k     == Power[e % TileHeight]
           d     == Power[TileHeight - (e % TileHeight)]
           start == c * Power[e]
           node  == start \div unit
           n     == proof.size
           w     == TileWidth
           tile  == node \div w
           have  == (n \div unit) - tile * w
           p     == Place(start, Power[e])
<1>1. /\ level \in Nat /\ unit \in Nat /\ k \in Nat /\ unit >= 1 /\ k >= 1
      /\ Power[e] = k * unit /\ w = k * d /\ TileHeight - (e % TileHeight) \in Nat
  BY LevelOf
<1>2. d \in Nat /\ d >= 1
  BY <1>1, PowerNat
<1>3. p = [level |-> level, tile |-> tile, offset |-> node % w, count |-> k, width |-> WidthAt(level, tile)]
  BY PlaceAt
<1>b. n \in Nat
  OBVIOUS
<1>c. WidthAt(level, tile) = IF have < w THEN have ELSE w
  BY DEF WidthAt
<1>5. c * (k * unit) + k * unit <= n /\ start = c * (k * unit)
  BY <1>1
<1> HIDE DEF level, unit, k, d, p, start, n, w
<1>6. /\ node = c * k /\ tile \in Nat /\ node % w \in Nat
      /\ tile * w + (node % w) = c * k
      /\ tile = c \div d
      /\ (node % w) + k <= w
      /\ (node % w) + k <= have
  <2>1. n \in Nat /\ c * (k * unit) + k * unit <= n /\ start = c * (k * unit) /\ w = k * d
    BY <1>b, <1>5, <1>1
  <2>2. LET node1 == (c * (k * unit)) \div unit
             w1    == k * d
             tile1 == node1 \div w1
             offset1 == node1 % w1
         IN /\ node1 = c * k /\ tile1 \in Nat /\ offset1 \in Nat /\ tile1 * w1 + offset1 = c * k
            /\ tile1 = c \div d
            /\ offset1 + k <= w1
            /\ offset1 + k <= (n \div unit) - tile1 * w1
    BY <2>1, <1>1, <1>2, PlaceArithmetic
  <2> QED BY <2>1, <2>2, Zenon
<1>4. /\ p.level = level /\ p.tile = tile /\ p.offset = node % w /\ p.count = k
      /\ p.width = IF have < w THEN have ELSE w
  BY <1>3, <1>c
<1>7. (c * k) * unit = start
  BY <1>1, <1>5
<1>8. w \in Nat
  BY <1>1, <1>2
<1>10. have \in Int
  <2>1. n \div unit \in Nat
    BY <1>1, <1>b
  <2>2. tile * w \in Nat
    BY <1>6, <1>8
  <2> QED BY <2>1, <2>2
<1> HIDE DEF have, tile, node
<1>9. p.offset + p.count <= p.width
  BY <1>4, <1>6
<1>11. p.width <= w /\ p.width \in Int
  BY <1>4, <1>8, <1>10
<1>12. p.width = WidthAt(p.level, p.tile)
  BY <1>3, <1>4, <1>c
<1>13. (p.tile * w + p.offset) * unit = start
  BY <1>4, <1>6, <1>7
<1>14. /\ p.level = level /\ p.level \in Nat /\ p.tile \in Nat /\ p.offset \in Nat
       /\ p.count = k /\ p.tile = c \div d
  BY <1>1, <1>4, <1>6
<1>15. unit = Power[TileHeight * p.level]
  BY <1>4 DEF unit
<1>16. Power[e] = p.count * unit
  BY <1>1, <1>14
<1> QED BY <1>1, <1>9, <1>11, <1>12, <1>13, <1>14, <1>15, <1>16, Zenon DEF p, level, k, d, start, w

----------------------------------------------------------------------------
\* Pairs of hashes joined turn by turn.
LEMMA TurnSize == \A t \in Nat : t \in Nat
OBVIOUS

Paired(p) == [i \in 1 .. Len(p) \div 2 |-> NodeHash(p[2 * i - 1], p[2 * i])]

TurnBody(row, f, t) ==
  IF t = 0 THEN row ELSE Paired(f[t - 1])

TurnUpTo(row, f, b) == \A t \in Nat : t <= b => f[t] = TurnBody(row, f, t)

TurnCall(row) == CHOOSE f : f = [t \in Nat |-> TurnBody(row, f, t)]

\* A turn is made of the one before.
LEMMA TurnLocal ==
  ASSUME NEW row, NEW f, NEW g, NEW t \in Nat, \A s \in Nat : s < t => f[s] = g[s]
  PROVE  TurnBody(row, f, t) = TurnBody(row, g, t)
<1>1. CASE t = 0
  BY <1>1 DEF TurnBody
<1>2. CASE t # 0
  <2>1. t - 1 \in Nat /\ t - 1 < t
    BY <1>2
  <2>2. f[t - 1] = g[t - 1]
    BY <2>1
  <2> QED BY <1>2, <2>2 DEF TurnBody
<1> QED BY <1>1, <1>2

LEMMA TurnAgree ==
  ASSUME NEW row, NEW f, NEW g, NEW b \in Nat, TurnUpTo(row, f, b), TurnUpTo(row, g, b)
  PROVE  \A t \in Nat : t <= b => f[t] = g[t]
<1> DEFINE T == {n \in Nat : n <= b /\ \E t \in Nat : t = n /\ f[t] # g[t]}
<1> SUFFICES ASSUME T # {} PROVE FALSE
  BY TurnSize
<1>1. T \in SUBSET Nat
  OBVIOUS
<1> HIDE DEF T
<1>2. PICK n \in T : \A i \in T : n <= i
  BY <1>1, LeastOf
<1>3. n \in Nat /\ n <= b
  BY <1>2 DEF T
<1>4. PICK t \in Nat : t = n /\ f[t] # g[t]
  BY <1>2 DEF T
<1>5. \A s \in Nat : s < t => f[s] = g[s]
  BY <1>2, <1>3, <1>4, TurnSize DEF T
<1>6. TurnBody(row, f, t) = TurnBody(row, g, t)
  BY <1>5, TurnLocal
<1>7. f[t] = TurnBody(row, f, t) /\ g[t] = TurnBody(row, g, t)
  BY <1>3, <1>4 DEF TurnUpTo
<1> QED BY <1>4, <1>6, <1>7

LEMMA TurnExist ==
  ASSUME NEW row, NEW b \in Nat
  PROVE  \E f : TurnUpTo(row, f, b)
<1> DEFINE T == {i \in Nat : \A f : ~ TurnUpTo(row, f, i)}
<1> SUFFICES ASSUME T # {} PROVE FALSE
  OBVIOUS
<1>1. T \in SUBSET Nat
  OBVIOUS
<1> HIDE DEF T
<1>2. PICK n \in T : \A i \in T : n <= i
  BY <1>1, LeastOf
<1>3. n \in Nat /\ \A f : ~ TurnUpTo(row, f, n)
  BY <1>2 DEF T
<1>4. PICK f : n = 0 \/ TurnUpTo(row, f, n - 1)
  <2>1. n # 0 => n - 1 \in Nat /\ ~(n <= n - 1)
    BY <1>3
  <2> QED BY <1>2, <1>3, <2>1 DEF T
<1> DEFINE g == [t \in Nat |-> TurnBody(row, f, t)]
<1>5. \A t \in Nat : g[t] = TurnBody(row, f, t)
  OBVIOUS
<1> HIDE DEF g
<1>6. ASSUME NEW t \in Nat, t <= n PROVE g[t] = TurnBody(row, g, t)
  <2>1. ASSUME NEW s \in Nat, s < t PROVE f[s] = g[s]
    <3>1. n # 0 /\ s <= n - 1
      BY <1>3, <1>6, <2>1, TurnSize
    <3>2. f[s] = TurnBody(row, f, s)
      BY <1>4, <3>1 DEF TurnUpTo
    <3> QED BY <1>5, <3>2
  <2>2. TurnBody(row, f, t) = TurnBody(row, g, t)
    BY <2>1, TurnLocal
  <2> QED BY <1>5, <2>2
<1>7. TurnUpTo(row, g, n)
  BY <1>6 DEF TurnUpTo
<1> QED BY <1>3, <1>7

\* TurnCall is what its equation says.
LEMMA TurnDef ==
  ASSUME NEW row, NEW t \in Nat
  PROVE  TurnCall(row)[t] = TurnBody(row, TurnCall(row), t)
<1> DEFINE F(b) == CHOOSE f : TurnUpTo(row, f, b)
           h == [s \in Nat |-> F(s)[s]]
           Eq(f) == f = [s \in Nat |-> TurnBody(row, f, s)]
<1>1. \A b \in Nat : TurnUpTo(row, F(b), b)
  BY TurnExist
<1> HIDE DEF F
<1>2. \A s \in Nat : h[s] = F(s)[s]
  OBVIOUS
<1>3. h = [s \in Nat |-> h[s]]
  OBVIOUS
<1> HIDE DEF h
<1>4. ASSUME NEW s \in Nat PROVE h[s] = TurnBody(row, h, s)
  <2> DEFINE f == F(s)
  <2>1. s \in Nat /\ TurnUpTo(row, f, s)
    BY <1>1, TurnSize
  <2> HIDE DEF f
  <2>2. ASSUME NEW r \in Nat, r < s PROVE f[r] = h[r]
    <3>1. r \in Nat /\ r <= r /\ TurnUpTo(row, F(r), r)
      BY <1>1, TurnSize
    <3>2. TurnUpTo(row, f, r)
      BY <2>1, <2>2, <3>1, TurnSize DEF TurnUpTo
    <3>3. f[r] = F(r)[r]
      BY <3>1, <3>2, TurnAgree
    <3> QED BY <1>2, <3>3
  <2>3. TurnBody(row, f, s) = TurnBody(row, h, s)
    BY <2>2, TurnLocal
  <2>4. f[s] = TurnBody(row, f, s)
    BY <2>1 DEF TurnUpTo
  <2>5. h[s] = f[s]
    BY <1>2 DEF f
  <2> QED BY <2>3, <2>4, <2>5
<1>5. Eq(h)
  BY <1>3, <1>4
<1>6. TurnCall(row) = CHOOSE f : Eq(f)
  BY DEF TurnCall
<1>7. Eq(TurnCall(row))
  BY <1>5, <1>6
<1> HIDE DEF h
<1> QED BY <1>7

LEMMA JoinPairsCall ==
  ASSUME NEW row
  PROVE  JoinPairs(row) = TurnCall(row)[CHOOSE j \in 0 .. Len(row) : Len(TurnCall(row)[j]) = 1][1]
BY DEF JoinPairs, TurnCall, TurnBody, Paired

LEMMA TurnStep ==
  ASSUME NEW row
  PROVE  /\ TurnCall(row)[0] = row
         /\ \A j \in Nat : TurnCall(row)[j + 1] = Paired(TurnCall(row)[j])
<1>1. \A j \in Nat : TurnCall(row)[j] = TurnBody(row, TurnCall(row), j)
  BY TurnDef
<1>2. TurnCall(row)[0] = row
  BY <1>1 DEF TurnBody
<1>3. ASSUME NEW j \in Nat PROVE TurnCall(row)[j + 1] = Paired(TurnCall(row)[j])
  <2>1. j + 1 \in Nat /\ j + 1 # 0 /\ (j + 1) - 1 = j
    OBVIOUS
  <2>2. TurnCall(row)[j + 1] = IF j + 1 = 0 THEN row ELSE Paired(TurnCall(row)[(j + 1) - 1])
    BY <1>1, <2>1 DEF TurnBody
  <2> QED BY <2>1, <2>2
<1> QED BY <1>2, <1>3

LEMMA LenPaired ==
  ASSUME NEW p, NEW m \in Nat, Len(p) \div 2 = m
  PROVE  Len(Paired(p)) = m /\ \A i \in 1 .. m : Paired(p)[i] = NodeHash(p[2 * i - 1], p[2 * i])
<1>1. Paired(p) = [i \in 1 .. m |-> NodeHash(p[2 * i - 1], p[2 * i])]
  BY DEF Paired
<1> QED BY <1>1

\* The root of a perfect tree is that of two halves.
LEMMA PerfectHalves ==
  ASSUME NEW leaves, NEW start \in Nat, NEW e \in Nat
  PROVE  TreeHash(leaves, start, Power[e + 1]) =
           NodeHash(TreeHash(leaves, start, Power[e]), TreeHash(leaves, start + Power[e], Power[e]))
<1> DEFINE x == Power[e]
           y == Power[e + 1]
<1>1. x \in Nat /\ y = 2 * x
  BY PowerStep, PowerNat
<1>2. Split(y) = x /\ y > 1
  BY SplitDouble
<1> HIDE DEF x, y
<1>3. y \in Nat /\ y - x = x
  BY <1>1
<1>4. TreeHash(leaves, start, y) =
        NodeHash(TreeHash(leaves, start, x), TreeHash(leaves, start + x, y - x))
  BY <1>2, <1>3, TreeHashDef
<1> QED BY <1>3, <1>4 DEF x, y

Row(leaves, row, start, e, m) ==
  Len(row) = m /\ \A i \in 1 .. m : row[i] = TreeHash(leaves, start + (i - 1) * Power[e], Power[e])

LEMMA PairedRow ==
  ASSUME NEW leaves, NEW row, NEW start \in Nat, NEW e \in Nat, NEW m \in Nat,
         Row(leaves, row, start, e, 2 * m)
  PROVE  Row(leaves, Paired(row), start, e + 1, m)
<1>1. Len(row) \div 2 = m
  BY DEF Row
<1>2. Len(Paired(row)) = m /\ \A i \in 1 .. m : Paired(row)[i] = NodeHash(row[2 * i - 1], row[2 * i])
  BY <1>1, LenPaired
<1>3. ASSUME NEW i \in 1 .. m
      PROVE  Paired(row)[i] = TreeHash(leaves, start + (i - 1) * Power[e + 1], Power[e + 1])
  <2> DEFINE x == Power[e]
             y == Power[e + 1]
             a == start + (i - 1) * y
  <2>1. x \in Nat /\ y = 2 * x
    BY PowerStep, PowerNat
  <2>2. a \in Nat
    <3>1. i - 1 \in Nat /\ y \in Nat
      BY <2>1
    <3> HIDE DEF x, y
    <3>2. (i - 1) * y \in Nat
      BY <3>1
    <3> QED BY <3>2
  <2>3. TreeHash(leaves, a, y) = NodeHash(TreeHash(leaves, a, x), TreeHash(leaves, a + x, x))
    BY <2>2, PerfectHalves
  <2>4. 2 * i - 1 \in 1 .. 2 * m /\ 2 * i \in 1 .. 2 * m
    OBVIOUS
  <2>5. /\ row[2 * i - 1] = TreeHash(leaves, start + ((2 * i - 1) - 1) * x, x)
        /\ row[2 * i] = TreeHash(leaves, start + (2 * i - 1) * x, x)
    BY <2>4 DEF Row
  <2> HIDE DEF x, y
  <2>6. start + ((2 * i - 1) - 1) * x = a
    BY <2>1
  <2>7. start + (2 * i - 1) * x = a + x
    BY <2>1
  <2> QED BY <1>2, <2>3, <2>5, <2>6, <2>7 DEF y
<1> QED BY <1>2, <1>3 DEF Row

JoinsTo(leaves, row, start, n) == JoinPairs(row) = TreeHash(leaves, start, n)

\* The turns end at the root of the tree that the hashes are a row of.
LEMMA JoinPairsRoot ==
  ASSUME NEW leaves, NEW row, NEW start \in Nat, NEW e \in Nat, NEW h \in Nat,
         Row(leaves, row, start, e, Power[h])
  PROVE  JoinsTo(leaves, row, start, Power[e + h])
<1> DEFINE turn == TurnCall(row)
           Good(j) == IF j <= h THEN Row(leaves, turn[j], start, e + j, Power[h - j]) ELSE Len(turn[j]) = 0
           T == {j \in Nat : ~ Good(j)}
<1>1. \A j \in Nat : Good(j)
  <2> SUFFICES ASSUME T # {} PROVE FALSE
    OBVIOUS
  <2>1. T \in SUBSET Nat
    OBVIOUS
  <2> HIDE DEF T
  <2>2. PICK n \in T : \A j \in T : n <= j
    BY <2>1, LeastOf
  <2>3. n \in Nat /\ ~ Good(n)
    BY <2>2 DEF T
  <2>4. n # 0
    <3>1. h - 0 = h /\ e + 0 = e /\ 0 <= h
      OBVIOUS
    <3>2. turn[0] = row
      BY TurnStep
    <3> QED BY <2>3, <3>1, <3>2
  <2> DEFINE j == n - 1
  <2>5. j \in Nat /\ ~(n <= j) /\ n = j + 1
    BY <2>3, <2>4
  <2>6. Good(j)
    BY <2>2, <2>5 DEF T
  <2>7. turn[n] = Paired(turn[j])
    BY <2>5, TurnStep
  <2> HIDE DEF j, turn
  <2>8. CASE n <= h
    <3>1. h - n \in Nat /\ h - j = (h - n) + 1 /\ j <= h /\ e + j \in Nat /\ (e + j) + 1 = e + n
      BY <2>3, <2>5, <2>8
    <3>2. Power[h - j] = 2 * Power[h - n] /\ Power[h - n] \in Nat
      BY <3>1, PowerStep, PowerNat
    <3>3. Row(leaves, turn[j], start, e + j, 2 * Power[h - n])
      BY <2>6, <3>1, <3>2
    <3>4. Row(leaves, turn[n], start, (e + j) + 1, Power[h - n])
      BY <2>7, <3>1, <3>2, <3>3, PairedRow
    <3> QED BY <2>3, <2>8, <3>1, <3>4
  <2>9. CASE j = h
    <3>1. h - j = 0 /\ ~(n <= h)
      BY <2>5, <2>9
    <3>a. j <= h
      BY <2>5, <2>9
    <3>b. Row(leaves, turn[j], start, e + j, Power[h - j])
      BY <2>6, <3>a
    <3>c. Power[h - j] = 1
      BY <3>1, PowerStep
    <3>2. Len(turn[j]) = 1
      BY <3>b, <3>c DEF Row
    <3>3. Len(turn[j]) \div 2 = 0
      BY <3>2
    <3>4. Len(turn[n]) = 0
      BY <2>7, <3>3, LenPaired
    <3> QED BY <2>3, <3>1, <3>4
  <2>10. CASE j > h
    <3>1. ~(j <= h) /\ ~(n <= h)
      BY <2>5, <2>10
    <3>a. Len(turn[j]) = 0
      BY <2>6, <3>1, Zenon
    <3>2. Len(turn[j]) \div 2 = 0
      BY <3>a
    <3>3. Len(turn[n]) = 0
      BY <2>7, <3>2, LenPaired
    <3> QED BY <2>3, <3>1, <3>3
  <2> QED BY <2>5, <2>8, <2>9, <2>10
<1>2. h \in 0 .. Len(row)
  BY PowerNat DEF Row
<1>3. h - h = 0 /\ h <= h
  OBVIOUS
<1>4. Row(leaves, turn[h], start, e + h, 1)
  BY <1>1, <1>3, PowerStep
<1>5. Len(turn[h]) = 1
  BY <1>4 DEF Row
<1>6. turn[h][1] = TreeHash(leaves, start, Power[e + h])
  <2>1. 1 \in 1 .. 1 /\ (1 - 1) = 0
    OBVIOUS
  <2>2. Power[e + h] \in Nat
    BY PowerNat
  <2>3. turn[h][1] = TreeHash(leaves, start + (1 - 1) * Power[e + h], Power[e + h])
    BY <1>4, <2>1 DEF Row
  <2>4. start + (1 - 1) * Power[e + h] = start
    BY <2>2
  <2> QED BY <2>3, <2>4
<1>7. ASSUME NEW j \in 0 .. Len(row), Len(turn[j]) = 1 PROVE j = h
  <2>1. j \in Nat /\ Good(j)
    BY <1>1, <1>2
  <2>2. j <= h /\ Row(leaves, turn[j], start, e + j, Power[h - j])
    BY <1>7, <2>1
  <2>3. Power[h - j] = 1
    BY <1>7, <2>2 DEF Row
  <2>4. h - j \in Nat /\ h - j < 1
    BY <2>1, <2>2, <2>3, PowerNat
  <2> QED BY <2>1, <2>4
<1> DEFINE last == CHOOSE j \in 0 .. Len(row) : Len(turn[j]) = 1
<1>8. JoinPairs(row) = turn[last][1]
  BY JoinPairsCall
<1>9. last \in 0 .. Len(row) /\ Len(turn[last]) = 1
  BY <1>2, <1>5
<1> HIDE DEF last, turn
<1>10. last = h
  BY <1>7, <1>9
<1> QED BY <1>6, <1>8, <1>10 DEF JoinsTo

\* A part of a row of hashes, joined in pairs.
LEMMA RowRoot ==
  ASSUME NEW leaves, NEW b \in Nat, NEW o \in Nat, NEW r \in Nat, NEW g \in Nat, NEW w \in Nat,
         o + Power[r] <= w, NEW s, s = [i \in 1 .. w |-> TreeHash(leaves, (b + i - 1) * Power[g], Power[g])]
  PROVE  JoinsTo(leaves, SubSeq(s, o + 1, o + Power[r]), (b + o) * Power[g], Power[g + r])
<1> DEFINE k == Power[r]
           unit == Power[g]
           v == b + o
           start == v * unit
           row == SubSeq(s, o + 1, o + k)
<1>1. k \in Nat /\ k >= 1 /\ unit \in Nat /\ unit >= 1 /\ v \in Nat
  BY PowerNat
<1>2. s = [i \in 1 .. w |-> TreeHash(leaves, (b + i - 1) * unit, unit)] /\ o + k <= w
  OBVIOUS
<1> HIDE DEF k, unit
<1>4. start \in Nat
  BY <1>1
<1>7. row = [i \in 1 .. k |-> s[i + o]]
  <2>2. (o + k) - (o + 1) + 1 = k
    BY <1>1
  <2>3. \A i \in 1 .. k : i + (o + 1) - 1 = i + o
    BY <1>1
  <2> QED BY <1>1, <2>2, <2>3
<1> HIDE DEF row
<1>8. Len(row) = k
  BY <1>1, <1>7
<1>9. ASSUME NEW i \in 1 .. k PROVE row[i] = TreeHash(leaves, start + (i - 1) * unit, unit)
  <2>1. i + o \in 1 .. w
    BY <1>1, <1>2
  <2>2. row[i] = TreeHash(leaves, (b + (i + o) - 1) * unit, unit)
    BY <1>2, <1>7, <2>1
  <2> DEFINE j == i - 1
  <2>3. j \in Nat /\ b + (i + o) - 1 = v + j
    BY <1>1
  <2> HIDE DEF j, v
  <2>4. (v + j) * unit = v * unit + j * unit
    BY <1>1, <2>3
  <2> QED BY <2>2, <2>3, <2>4 DEF j
<1>11. Row(leaves, row, start, g, Power[r])
  BY <1>8, <1>9 DEF Row, unit, k
<1> HIDE DEF start
<1>13. JoinsTo(leaves, row, start, Power[g + r])
  BY <1>4, <1>11, JoinPairsRoot
<1> QED BY <1>13 DEF row, start, unit, k

\* A tile that is as wide as the tree of the proof has it gives the root of every perfect
\* subtree that is placed in it.
LEMMA TileServes ==
  ASSUME NEW e \in Nat, NEW c \in Nat, proof.size \in Nat, c * Power[e] + Power[e] <= proof.size,
         NEW w \in Nat, Place(c * Power[e], Power[e]).width <= w
  PROVE  LET p == Place(c * Power[e], Power[e])
         IN JoinPairs(SubSeq(TileOf(MainLog, p, w), p.offset + 1, p.offset + p.count))
              = TreeHash(LeavesOf(MainLog), c * Power[e], Power[e])
<1> DEFINE p == Place(c * Power[e], Power[e])
           g == TileHeight * p.level
           leaves == LeavesOf(MainLog)
           start == c * Power[e]
           r == e % TileHeight
           o == p.offset
           b == p.tile * TileWidth
           s == TileOf(MainLog, p, w)
<1>1. /\ p.level = e \div TileHeight /\ p.level \in Nat /\ p.tile \in Nat /\ o \in Nat
      /\ p.count = Power[r] /\ (b + o) * Power[g] = start
      /\ o + p.count <= p.width /\ p.width <= TileWidth /\ p.width \in Int
  BY PlaceOf
<1>a. p.width <= w
  OBVIOUS
<1>5. s = [i \in 1 .. w |-> TreeHash(leaves, (b + i - 1) * Power[g], Power[g])]
  BY DEF TileOf
<1>2. TileWidth \in Nat /\ TileHeight \in Nat /\ TileHeight > 0
  BY TilesAssumption, PowerNat DEF TileWidth
<1>3. r \in Nat /\ e = (e \div TileHeight) * TileHeight + r
  BY <1>2, Divided
<1> HIDE DEF p, leaves, start, r, s
<1>4. b \in Nat /\ g \in Nat
  BY <1>1, <1>2
<1>6. g + r = e
  BY <1>1, <1>2, <1>3
<1> HIDE DEF b, g, o
<1>7. Power[r] \in Nat /\ o + Power[r] <= w
  BY <1>1, <1>a, <1>3, PowerNat
<1>8. JoinsTo(leaves, SubSeq(s, o + 1, o + Power[r]), (b + o) * Power[g], Power[g + r])
  BY <1>1, <1>3, <1>4, <1>5, <1>7, RowRoot, Zenon
<1>9. JoinPairs(SubSeq(s, o + 1, o + p.count)) = TreeHash(leaves, start, Power[e])
  BY <1>1, <1>6, <1>8 DEF JoinsTo
<1> QED BY <1>9, Zenon DEF p, s, o, leaves, start

LEMMA PerfectPower ==
  ASSUME NEW size \in Nat, Perfect(size)
  PROVE  \E e \in Nat : size = Power[e]
BY DEF Perfect

----------------------------------------------------------------------------
\* The subtrees that a proof is made of.  One begins at a multiple of a power that it does
\* not exceed; and it ends where the tree ends, or is perfect.
Node(start, n, end) ==
  \E e, c \in Nat : /\ start = c * Power[e] /\ n <= Power[e]
                    /\ start + n = end \/ n = Power[e]

Near(start, e, x) == start \div Power[e + 1] = x \div Power[e + 1]

\* It is next to one of the leaves in X, or ends with it.
Beside(r, X) ==
  /\ r[1] \in Nat /\ r[2] \in Nat /\ r[2] >= 1
  /\ \E e, c \in Nat : \E x \in X :
       /\ r[1] = c * Power[e] /\ r[2] <= Power[e]
       /\ r[1] + r[2] = x + 1 \/ (r[2] = Power[e] /\ Near(r[1], e, x))

LEMMA NearBlock ==
  ASSUME NEW c \in Nat, NEW y \in Nat, NEW u \in Nat, NEW v \in Nat, u < y, v < y
  PROVE  (c * y + u) \div y = (c * y + v) \div y
BY Remainder

LEMMA NodeSplit ==
  ASSUME NEW start \in Nat, NEW n \in Nat, n > 1, NEW end \in Nat, Node(start, n, end),
         NEW x \in Nat, start <= x, x < start + n
  PROVE  LET k == Split(n) IN
         /\ Node(start, k, end) /\ Node(start + k, n - k, end)
         /\ Beside(<<start, k>>, {x})
         /\ Beside(<<start + k, n - k>>, {x, end - 1})
<1> DEFINE k == Split(n)
<1>1. PICK e \in Nat, c \in Nat : /\ start = c * Power[e] /\ n <= Power[e]
                                  /\ start + n = end \/ n = Power[e]
  BY DEF Node
<1>2. PICK f \in Nat : k = Power[f] /\ Power[f] < n /\ n <= 2 * Power[f]
  BY SplitPower
<1>3. Power[e] \in Nat /\ Power[f] \in Nat /\ Power[f + 1] = 2 * Power[f] /\ Power[f] >= 1
  BY PowerNat, PowerStep
<1>4. f < e
  <2>1. ~(Power[e] <= Power[f])
    BY <1>1, <1>2, <1>3
  <2>2. ~(e <= f)
    BY <2>1, PowerOrder
  <2> QED BY <2>2
<1>5. PICK m \in Nat : m >= 1 /\ Power[e] = m * Power[f + 1]
  BY <1>4, PowerDivides
<1> DEFINE y == Power[f + 1]
           d == c * m
<1> HIDE DEF k, y, d
<1>a. y = 2 * k /\ k \in Nat /\ k >= 1 /\ y \in Nat
  BY <1>2, <1>3 DEF y
<1>6. d \in Nat /\ start = d * y
  <2>1. start = c * (m * y)
    BY <1>1, <1>5 DEF y
  <2> QED BY <1>a, <1>5, <2>1 DEF d
<1>7. start = (2 * d) * k /\ start + k = (2 * d + 1) * k
  BY <1>a, <1>6
<1>8. k < n /\ n <= 2 * k /\ n - k \in Nat /\ n - k <= k /\ n - k >= 1
  BY <1>2, <1>a
<1>9. n = Power[e] => n - k = k
  <2> SUFFICES ASSUME n = Power[e] PROVE n - k = k
    OBVIOUS
  <2>1. n = m * y
    BY <1>5 DEF y
  <2>2. n >= y
    BY <1>5, <1>a, <2>1
  <2> QED BY <1>8, <1>a, <2>2
<1>10. Node(start, k, end)
  <2>1. f \in Nat /\ 2 * d \in Nat /\ start = (2 * d) * Power[f] /\ k <= Power[f] /\ k = Power[f]
    BY <1>2, <1>6, <1>7, <1>a
  <2> QED BY <2>1 DEF Node
<1>11. start + k + (n - k) = start + n
  BY <1>8, <1>a
<1>12. Node(start + k, n - k, end)
  <2>1. 2 * d + 1 \in Nat /\ start + k = (2 * d + 1) * Power[f] /\ n - k <= Power[f]
    BY <1>2, <1>6, <1>7, <1>8
  <2>2. start + k + (n - k) = end \/ n - k = Power[f]
    BY <1>1, <1>2, <1>9, <1>11
  <2> QED BY <2>1, <2>2 DEF Node
<1>13. Near(start, f, x) /\ Near(start + k, f, x)
  <2> DEFINE v == x - start
  <2>1. v \in Nat /\ v < y /\ k < y /\ 0 < y /\ x = d * y + v /\ start = d * y + 0 /\ start + k = d * y + k
    BY <1>6, <1>8, <1>a
  <2> HIDE DEF v
  <2>2. (d * y + v) \div y = (d * y + 0) \div y
    BY <1>6, <1>a, <2>1, NearBlock
  <2>3. (d * y + v) \div y = (d * y + k) \div y
    BY <1>6, <1>a, <2>1, NearBlock
  <2> QED BY <2>1, <2>2, <2>3 DEF Near, y
<1>14. Beside(<<start, k>>, {x})
  <2>1. 2 * d \in Nat /\ start = (2 * d) * Power[f] /\ k = Power[f] /\ k <= Power[f] /\ Near(start, f, x)
    BY <1>2, <1>6, <1>7, <1>13, <1>a
  <2> QED BY <1>a, <2>1 DEF Beside
<1>15. Beside(<<start + k, n - k>>, {x, end - 1})
  <2>1. 2 * d + 1 \in Nat /\ start + k = (2 * d + 1) * Power[f] /\ n - k <= Power[f]
    BY <1>2, <1>6, <1>7, <1>8
  <2>2. start + k \in Nat /\ n - k \in Nat /\ n - k >= 1
    BY <1>8, <1>a
  <2>3. CASE n = Power[e]
    BY <1>2, <1>9, <1>13, <2>1, <2>2, <2>3 DEF Beside
  <2>4. CASE start + n = end
    <3>1. (start + k) + (n - k) = (end - 1) + 1
      BY <1>11, <2>4
    <3> QED BY <2>1, <2>2, <3>1 DEF Beside
  <2> QED BY <1>1, <2>3, <2>4
<1> QED BY <1>10, <1>12, <1>14, <1>15 DEF k

\* The same of the parts of a subtree that is not perfect.
LEMMA BesideDivided ==
  ASSUME NEW X \in SUBSET Nat, NEW start, NEW n, Beside(<<start, n>>, X), ~ Perfect(n)
  PROVE  LET k == Split(n) IN
         n > 1 /\ Beside(<<start, k>>, X) /\ Beside(<<start + k, n - k>>, X)
<1>1. start \in Nat /\ n \in Nat /\ n >= 1
  BY DEF Beside
<1>2. PICK e \in Nat, c \in Nat, x \in X :
        /\ start = c * Power[e] /\ n <= Power[e]
        /\ start + n = x + 1 \/ (n = Power[e] /\ Near(start, e, x))
  BY DEF Beside
<1>3. Power[e] \in Nat /\ e < Power[e]
  BY PowerNat
<1>4. n # Power[e]
  BY <1>1, <1>3 DEF Perfect
<1>5. n # 1
  BY PowerStep DEF Perfect
<1>6. x \in Nat /\ start + n = x + 1 /\ n > 1 /\ start <= x /\ x < start + n /\ x + 1 \in Nat
  BY <1>1, <1>2, <1>4, <1>5
<1>7. Node(start, n, x + 1)
  BY <1>2, <1>6 DEF Node
<1>8. Beside(<<start, Split(n)>>, {x}) /\ Beside(<<start + Split(n), n - Split(n)>>, {x, (x + 1) - 1})
  BY <1>1, <1>6, <1>7, NodeSplit
<1>9. (x + 1) - 1 = x
  BY <1>6
<1>10. {x, x} \subseteq X
  OBVIOUS
<1>11. ASSUME NEW r, Beside(r, {x}) PROVE Beside(r, X)
  BY <1>11 DEF Beside
<1>12. {x, (x + 1) - 1} = {x}
  BY <1>9
<1> QED BY <1>6, <1>8, <1>11, <1>12

LEMMA BesideMore ==
  ASSUME NEW X, NEW Y, X \subseteq Y, NEW r, Beside(r, X)
  PROVE  Beside(r, Y)
BY DEF Beside

\* A perfect one begins at a multiple of its size.
LEMMA BesidePerfect ==
  ASSUME NEW X \in SUBSET Nat, NEW start, NEW n, Beside(<<start, n>>, X), Perfect(n)
  PROVE  \E f, c \in Nat : \E x \in X : n = Power[f] /\ start = c * Power[f] /\ Near(start, f, x)
<1>1. start \in Nat /\ n \in Nat /\ n >= 1
  BY DEF Beside
<1>2. PICK e \in Nat, c \in Nat, x \in X :
        /\ start = c * Power[e] /\ n <= Power[e]
        /\ start + n = x + 1 \/ (n = Power[e] /\ Near(start, e, x))
  BY DEF Beside
<1>3. CASE n = Power[e] /\ Near(start, e, x)
  BY <1>2, <1>3
<1>4. CASE start + n = x + 1
  <2>1. PICK f \in Nat : n = Power[f]
    BY <1>1, PerfectPower
  <2>2. Power[e] \in Nat /\ Power[f] \in Nat /\ Power[f + 1] = 2 * Power[f] /\ Power[f] >= 1
    BY PowerNat, PowerStep
  <2>3. f <= e
    BY <1>2, <2>1, PowerOrder
  <2>4. PICK m \in Nat : Power[e] = m * Power[f]
    BY <2>3, PowerDivides
  <2> DEFINE z == Power[f]
             y == Power[f + 1]
             d == c * m
             q == d \div 2
             r == d % 2
  <2>5. z \in Nat /\ y = 2 * z /\ z >= 1 /\ n = z
    BY <2>1, <2>2
  <2>6. d \in Nat /\ start = d * z
    <3>1. start = c * (m * z)
      BY <1>2, <2>4
    <3> HIDE DEF z
    <3> QED BY <2>5, <3>1
  <2>7. q \in Nat /\ r \in Nat /\ r < 2 /\ d = q * 2 + r
    BY <2>6
  <2> HIDE DEF z, y, d, q, r
  <2>8. start = q * y + r * z /\ r * z \in Nat /\ r * z <= z
    <3>1. r = 0 \/ r = 1
      BY <2>7
    <3>2. d * z = (q * 2) * z + r * z
      BY <2>5, <2>6, <2>7
    <3>3. (q * 2) * z = q * y
      BY <2>5, <2>7
    <3>4. r * z \in Nat /\ r * z <= z
      BY <2>5, <3>1
    <3> QED BY <2>6, <3>2, <3>3, <3>4
  <2> DEFINE u == r * z
             v == r * z + (z - 1)
             t == q * y
  <2>9. u \in Nat /\ u < y /\ v \in Nat /\ v < y /\ t \in Nat /\ y \in Nat
    BY <2>5, <2>7, <2>8
  <2>10. x \in Nat /\ start = q * y + u /\ x = q * y + v
    <3>1. x \in Nat /\ x = start + z - 1
      BY <1>1, <1>4, <2>5
    <3>2. start = t + u /\ v = u + (z - 1)
      BY <2>8
    <3> HIDE DEF u, v, t
    <3>3. x = t + v
      BY <2>5, <2>9, <3>1, <3>2
    <3> QED BY <3>1, <3>2, <3>3 DEF t
  <2> HIDE DEF u, v, t
  <2>11. (q * y + u) \div y = (q * y + v) \div y
    BY <2>7, <2>9, NearBlock
  <2>12. Near(start, f, x)
    BY <2>10, <2>11 DEF Near, y
  <2> QED BY <2>1, <2>6, <2>12 DEF z
<1> QED BY <1>2, <1>3, <1>4

LEMMA DivideTwice ==
  ASSUME NEW a \in Nat, NEW b \in Nat, NEW c \in Nat, b >= 1, c >= 1
  PROVE  (a \div b) \div c = a \div (b * c)
<1> DEFINE q == a \div b
           r == a % b
           u == q \div c
           v == q % c
<1>1. q \in Nat /\ r \in Nat /\ r < b /\ a = q * b + r
  BY Divided
<1> HIDE DEF q, r
<1>2. u \in Nat /\ v \in Nat /\ v < c /\ q = u * c + v
  BY <1>1, Divided
<1> HIDE DEF u, v
<1> DEFINE w == v * b + r
           y == b * c
<1>3. a = u * y + w
  <2>1. q * b = (u * c) * b + v * b
    BY <1>2
  <2>2. (u * c) * b = u * (b * c)
    BY <1>2
  <2> QED BY <1>1, <1>2, <2>1, <2>2
<1>4. w \in Nat /\ w < y
  <2>1. (v + 1) * b <= c * b
    BY <1>2
  <2>2. (v + 1) * b = v * b + b
    BY <1>2
  <2>3. v * b \in Nat /\ c * b = b * c
    BY <1>2
  <2> QED BY <1>1, <2>1, <2>2, <2>3
<1>5. y \in Nat
  OBVIOUS
<1> HIDE DEF w, y
<1>6. a \div y = u
  BY <1>2, <1>3, <1>4, <1>5, Remainder
<1> QED BY <1>6 DEF y, u, q

\* The tile of level l that the leaf x is below.
TileAbove(x, l) == x \div Power[TileHeight * (l + 1)]

LEMMA PlaceBeside ==
  ASSUME NEW f \in Nat, NEW c \in Nat, NEW x \in Nat, Near(c * Power[f], f, x),
         proof.size \in Nat, c * Power[f] + Power[f] <= proof.size
  PROVE  LET p == Place(c * Power[f], Power[f]) IN p.tile = TileAbove(x, p.level)
<1> DEFINE p == Place(c * Power[f], Power[f])
           r == f % TileHeight
           j == TileHeight - r
           g == TileHeight * (p.level + 1)
           s == c * Power[f]
<1>1. p.level = f \div TileHeight /\ p.level \in Nat /\ p.tile = c \div Power[j]
  BY PlaceOf
<1>2. TileHeight \in Nat /\ TileHeight > 0
  BY TilesAssumption
<1>3. r \in Nat /\ r < TileHeight /\ f = (f \div TileHeight) * TileHeight + r
  BY <1>2, Divided
<1>4. s \div Power[f + 1] = x \div Power[f + 1]
  BY DEF Near
<1> HIDE DEF p, r
<1>5. j \in Nat /\ j - 1 \in Nat /\ g = f + j /\ g = (f + 1) + (j - 1)
  <2> DEFINE a == p.level * TileHeight
  <2>1. a \in Nat /\ f = a + r /\ g = a + TileHeight
    BY <1>1, <1>2, <1>3
  <2> HIDE DEF a
  <2> QED BY <1>2, <1>3, <2>1
<1> HIDE DEF j, g
<1>6. /\ Power[g] = Power[f] * Power[j] /\ Power[g] = Power[f + 1] * Power[j - 1]
      /\ Power[f] \in Nat /\ Power[f] >= 1 /\ Power[j] \in Nat /\ Power[j] >= 1
      /\ Power[f + 1] \in Nat /\ Power[f + 1] >= 1 /\ Power[j - 1] \in Nat /\ Power[j - 1] >= 1
  <2>1. Power[f + j] = Power[f] * Power[j]
    BY <1>5, PowerSum
  <2>2. f + 1 \in Nat /\ j - 1 \in Nat
    BY <1>5
  <2>3. Power[(f + 1) + (j - 1)] = Power[f + 1] * Power[j - 1]
    BY <2>2, PowerSum
  <2>4. /\ Power[f] \in Nat /\ Power[f] >= 1 /\ Power[j] \in Nat /\ Power[j] >= 1
        /\ Power[f + 1] \in Nat /\ Power[f + 1] >= 1 /\ Power[j - 1] \in Nat /\ Power[j - 1] >= 1
    BY <1>5, <2>2, PowerNat
  <2>5. Power[g] = Power[f + j] /\ Power[g] = Power[(f + 1) + (j - 1)]
    BY <1>5
  <2> QED BY <2>1, <2>3, <2>4, <2>5, Zenon
<1>7. s \in Nat
  BY <1>6
<1>8. s \div Power[f] = c
  <2>1. s = c * Power[f] + 0
    BY <1>6
  <2> QED BY <1>6, <2>1, Remainder
<1> HIDE DEF s
<1>9. (s \div Power[f]) \div Power[j] = s \div (Power[f] * Power[j])
  BY <1>6, <1>7, DivideTwice
<1>10. (s \div Power[f + 1]) \div Power[j - 1] = s \div (Power[f + 1] * Power[j - 1])
  BY <1>6, <1>7, DivideTwice
<1>11. (x \div Power[f + 1]) \div Power[j - 1] = x \div (Power[f + 1] * Power[j - 1])
  BY <1>6, DivideTwice
<1>12. c \div Power[j] = x \div Power[g]
  BY <1>4, <1>6, <1>8, <1>9, <1>10, <1>11, Zenon
<1> QED BY <1>1, <1>12 DEF TileAbove, g, p

----------------------------------------------------------------------------
\* The subtrees of an inclusion proof.
LEMMA DescentSize == \A t \in Nat \X Nat \X Positive : t[3] \in Nat
BY DEF Positive

DescentBody(f, t) ==
  LET k == Split(t[3]) IN
  IF t[3] = 1 THEN <<>>
  ELSE IF t[1] < k THEN Append(f[<<t[1], t[2], k>>], <<t[2] + k, t[3] - k>>)
  ELSE Append(f[<<t[1] - k, t[2] + k, t[3] - k>>], <<t[2], k>>)

DescentUpTo(f, b) == \A t \in Nat \X Nat \X Positive : t[3] <= b => f[t] = DescentBody(f, t)

DescentCall == CHOOSE f : f = [t \in Nat \X Nat \X Positive |-> DescentBody(f, t)]

\* The subtrees beside a leaf are those of a smaller tree and one more.
LEMMA DescentLocal ==
  ASSUME NEW f, NEW g, NEW t \in Nat \X Nat \X Positive, \A s \in Nat \X Nat \X Positive : s[3] < t[3] => f[s] = g[s]
  PROVE  DescentBody(f, t) = DescentBody(g, t)
<1> DEFINE k == Split(t[3])
           a == <<t[1], t[2], k>>
           b == <<t[1] - k, t[2] + k, t[3] - k>>
<1>1. t[1] \in Nat /\ t[2] \in Nat /\ t[3] \in Nat /\ t[3] >= 1
  BY DEF Positive
<1>2. CASE t[3] = 1
  BY <1>2 DEF DescentBody
<1>3. CASE ~(t[3] = 1)
  <2>1. k \in Nat /\ 1 <= k /\ k < t[3]
    BY <1>1, <1>3, SplitRange
  <2> HIDE DEF k
  <2>2. t[1] < k => a \in Nat \X Nat \X Positive /\ a[3] < t[3]
    BY <1>1, <2>1 DEF Positive
  <2>3. ~(t[1] < k) => b \in Nat \X Nat \X Positive /\ b[3] < t[3]
    <3>1. ~(t[1] < k) => /\ t[1] - k \in Nat /\ t[2] + k \in Nat /\ t[3] - k \in Positive
                       /\ t[3] - k < t[3]
      BY <1>1, <2>1 DEF Positive
    <3> QED BY <3>1
  <2>4. (t[1] < k => f[a] = g[a]) /\ (~(t[1] < k) => f[b] = g[b])
    BY <2>2, <2>3
  <2>5. /\ DescentBody(f, t) = IF t[1] < k THEN Append(f[a], <<t[2] + k, t[3] - k>>) ELSE Append(f[b], <<t[2], k>>)
        /\ DescentBody(g, t) = IF t[1] < k THEN Append(g[a], <<t[2] + k, t[3] - k>>) ELSE Append(g[b], <<t[2], k>>)
    BY <1>3 DEF DescentBody, k
  <2> QED BY <2>4, <2>5
<1> QED BY <1>2, <1>3

LEMMA DescentAgree ==
  ASSUME NEW f, NEW g, NEW b \in Nat, DescentUpTo(f, b), DescentUpTo(g, b)
  PROVE  \A t \in Nat \X Nat \X Positive : t[3] <= b => f[t] = g[t]
<1> DEFINE T == {n \in Nat : n <= b /\ \E t \in Nat \X Nat \X Positive : t[3] = n /\ f[t] # g[t]}
<1> SUFFICES ASSUME T # {} PROVE FALSE
  BY DescentSize
<1>1. T \in SUBSET Nat
  OBVIOUS
<1> HIDE DEF T
<1>2. PICK n \in T : \A i \in T : n <= i
  BY <1>1, LeastOf
<1>3. n \in Nat /\ n <= b
  BY <1>2 DEF T
<1>4. PICK t \in Nat \X Nat \X Positive : t[3] = n /\ f[t] # g[t]
  BY <1>2 DEF T
<1>5. \A s \in Nat \X Nat \X Positive : s[3] < t[3] => f[s] = g[s]
  BY <1>2, <1>3, <1>4, DescentSize DEF T
<1>6. DescentBody(f, t) = DescentBody(g, t)
  BY <1>5, DescentLocal
<1>7. f[t] = DescentBody(f, t) /\ g[t] = DescentBody(g, t)
  BY <1>3, <1>4 DEF DescentUpTo
<1> QED BY <1>4, <1>6, <1>7

LEMMA DescentExist ==
  ASSUME NEW b \in Nat
  PROVE  \E f : DescentUpTo(f, b)
<1> DEFINE T == {i \in Nat : \A f : ~ DescentUpTo(f, i)}
<1> SUFFICES ASSUME T # {} PROVE FALSE
  OBVIOUS
<1>1. T \in SUBSET Nat
  OBVIOUS
<1> HIDE DEF T
<1>2. PICK n \in T : \A i \in T : n <= i
  BY <1>1, LeastOf
<1>3. n \in Nat /\ \A f : ~ DescentUpTo(f, n)
  BY <1>2 DEF T
<1>4. PICK f : n = 0 \/ DescentUpTo(f, n - 1)
  <2>1. n # 0 => n - 1 \in Nat /\ ~(n <= n - 1)
    BY <1>3
  <2> QED BY <1>2, <1>3, <2>1 DEF T
<1> DEFINE g == [t \in Nat \X Nat \X Positive |-> DescentBody(f, t)]
<1>5. \A t \in Nat \X Nat \X Positive : g[t] = DescentBody(f, t)
  OBVIOUS
<1> HIDE DEF g
<1>6. ASSUME NEW t \in Nat \X Nat \X Positive, t[3] <= n PROVE g[t] = DescentBody(g, t)
  <2>1. ASSUME NEW s \in Nat \X Nat \X Positive, s[3] < t[3] PROVE f[s] = g[s]
    <3>1. n # 0 /\ s[3] <= n - 1
      BY <1>3, <1>6, <2>1, DescentSize
    <3>2. f[s] = DescentBody(f, s)
      BY <1>4, <3>1 DEF DescentUpTo
    <3> QED BY <1>5, <3>2
  <2>2. DescentBody(f, t) = DescentBody(g, t)
    BY <2>1, DescentLocal
  <2> QED BY <1>5, <2>2
<1>7. DescentUpTo(g, n)
  BY <1>6 DEF DescentUpTo
<1> QED BY <1>3, <1>7

\* DescentCall is what its equation says.
LEMMA DescentDef ==
  ASSUME NEW t \in Nat \X Nat \X Positive
  PROVE  DescentCall[t] = DescentBody(DescentCall, t)
<1> DEFINE F(b) == CHOOSE f : DescentUpTo(f, b)
           h == [s \in Nat \X Nat \X Positive |-> F(s[3])[s]]
           Eq(f) == f = [s \in Nat \X Nat \X Positive |-> DescentBody(f, s)]
<1>1. \A b \in Nat : DescentUpTo(F(b), b)
  BY DescentExist
<1> HIDE DEF F
<1>2. \A s \in Nat \X Nat \X Positive : h[s] = F(s[3])[s]
  OBVIOUS
<1>3. h = [s \in Nat \X Nat \X Positive |-> h[s]]
  OBVIOUS
<1> HIDE DEF h
<1>4. ASSUME NEW s \in Nat \X Nat \X Positive PROVE h[s] = DescentBody(h, s)
  <2> DEFINE f == F(s[3])
  <2>1. s[3] \in Nat /\ DescentUpTo(f, s[3])
    BY <1>1, DescentSize
  <2> HIDE DEF f
  <2>2. ASSUME NEW r \in Nat \X Nat \X Positive, r[3] < s[3] PROVE f[r] = h[r]
    <3>1. r[3] \in Nat /\ r[3] <= r[3] /\ DescentUpTo(F(r[3]), r[3])
      BY <1>1, DescentSize
    <3>2. DescentUpTo(f, r[3])
      BY <2>1, <2>2, <3>1, DescentSize DEF DescentUpTo
    <3>3. f[r] = F(r[3])[r]
      BY <3>1, <3>2, DescentAgree
    <3> QED BY <1>2, <3>3
  <2>3. DescentBody(f, s) = DescentBody(h, s)
    BY <2>2, DescentLocal
  <2>4. f[s] = DescentBody(f, s)
    BY <2>1 DEF DescentUpTo
  <2>5. h[s] = f[s]
    BY <1>2 DEF f
  <2> QED BY <2>3, <2>4, <2>5
<1>5. Eq(h)
  BY <1>3, <1>4
<1>6. DescentCall = CHOOSE f : Eq(f)
  BY DEF DescentCall
<1>7. Eq(DescentCall)
  BY <1>5, <1>6
<1> HIDE DEF h
<1> QED BY <1>7

Descend(index, start, n) == DescentCall[<<index, start, n>>]

LEMMA InclusionRangesCall ==
  ASSUME NEW index, NEW n
  PROVE  InclusionRanges(index, n) = Descend(index, 0, n)
BY DEF InclusionRanges, Descend, DescentCall, DescentBody

LEMMA DescendDef ==
  ASSUME NEW index \in Nat, NEW start \in Nat, NEW n \in Nat, n >= 1
  PROVE  Descend(index, start, n) =
           LET k == Split(n) IN
           IF n = 1 THEN <<>>
           ELSE IF index < k THEN Append(Descend(index, start, k), <<start + k, n - k>>)
           ELSE Append(Descend(index - k, start + k, n - k), <<start, k>>)
<1> DEFINE t == <<index, start, n>>
           k == Split(n)
<1>1. t \in Nat \X Nat \X Positive /\ t[1] = index /\ t[2] = start /\ t[3] = n
  BY DEF Positive
<1>2. DescentCall[t] = DescentBody(DescentCall, t)
  BY <1>1, DescentDef
<1>3. DescentBody(DescentCall, t) =
        IF n = 1 THEN <<>>
        ELSE IF index < k THEN Append(DescentCall[<<index, start, k>>], <<start + k, n - k>>)
        ELSE Append(DescentCall[<<index - k, start + k, n - k>>], <<start, k>>)
  BY <1>1 DEF DescentBody
<1> HIDE DEF k
<1> QED BY <1>2, <1>3, Zenon DEF Descend, k

----------------------------------------------------------------------------
\* The subtrees of a consistency proof.
LEMMA WalkSize == \A t \in Placed : t[3] \in Nat
BY DEF Placed, Positive

WalkBody(f, t) ==
  LET k == Split(t[3]) IN
  IF t[1] = t[3] THEN IF t[4] THEN <<>> ELSE <<<<t[2], t[3]>>>>
  ELSE IF t[1] <= k THEN Append(f[<<t[1], t[2], k, t[4]>>], <<t[2] + k, t[3] - k>>)
  ELSE Append(f[<<t[1] - k, t[2] + k, t[3] - k, FALSE>>], <<t[2], k>>)

WalkUpTo(f, b) == \A t \in Placed : t[3] <= b => f[t] = WalkBody(f, t)

WalkCall == CHOOSE f : f = [t \in Placed |-> WalkBody(f, t)]

\* The subtrees of two sizes are those of two smaller ones and one more.
LEMMA WalkLocal ==
  ASSUME NEW f, NEW g, NEW t \in Placed, \A s \in Placed : s[3] < t[3] => f[s] = g[s]
  PROVE  WalkBody(f, t) = WalkBody(g, t)
<1> DEFINE k == Split(t[3])
           a == <<t[1], t[2], k, t[4]>>
           b == <<t[1] - k, t[2] + k, t[3] - k, FALSE>>
<1>1. t[1] \in Nat /\ t[2] \in Nat /\ t[3] \in Nat /\ t[3] >= 1 /\ t[1] >= 1 /\ t[1] <= t[3] /\ t[4] \in BOOLEAN
  BY DEF Placed, Positive
<1>2. CASE t[1] = t[3]
  BY <1>2 DEF WalkBody
<1>3. CASE ~(t[1] = t[3])
  <2>1. k \in Nat /\ 1 <= k /\ k < t[3]
    BY <1>1, <1>3, SplitRange
  <2> HIDE DEF k
  <2>2. t[1] <= k => a \in Placed /\ a[3] < t[3]
    BY <1>1, <2>1 DEF Placed, Positive
  <2>3. ~(t[1] <= k) => b \in Placed /\ b[3] < t[3]
    <3>1. ~(t[1] <= k) => /\ t[1] - k \in Positive /\ t[2] + k \in Nat /\ t[3] - k \in Positive
                       /\ t[3] - k < t[3] /\ t[1] - k <= t[3] - k
      BY <1>1, <2>1 DEF Positive
    <3> QED BY <3>1 DEF Placed
  <2>4. (t[1] <= k => f[a] = g[a]) /\ (~(t[1] <= k) => f[b] = g[b])
    BY <2>2, <2>3
  <2>5. /\ WalkBody(f, t) = IF t[1] <= k THEN Append(f[a], <<t[2] + k, t[3] - k>>) ELSE Append(f[b], <<t[2], k>>)
        /\ WalkBody(g, t) = IF t[1] <= k THEN Append(g[a], <<t[2] + k, t[3] - k>>) ELSE Append(g[b], <<t[2], k>>)
    BY <1>3 DEF WalkBody, k
  <2> QED BY <2>4, <2>5
<1> QED BY <1>2, <1>3

LEMMA WalkAgree ==
  ASSUME NEW f, NEW g, NEW b \in Nat, WalkUpTo(f, b), WalkUpTo(g, b)
  PROVE  \A t \in Placed : t[3] <= b => f[t] = g[t]
<1> DEFINE T == {n \in Nat : n <= b /\ \E t \in Placed : t[3] = n /\ f[t] # g[t]}
<1> SUFFICES ASSUME T # {} PROVE FALSE
  BY WalkSize
<1>1. T \in SUBSET Nat
  OBVIOUS
<1> HIDE DEF T
<1>2. PICK n \in T : \A i \in T : n <= i
  BY <1>1, LeastOf
<1>3. n \in Nat /\ n <= b
  BY <1>2 DEF T
<1>4. PICK t \in Placed : t[3] = n /\ f[t] # g[t]
  BY <1>2 DEF T
<1>5. \A s \in Placed : s[3] < t[3] => f[s] = g[s]
  BY <1>2, <1>3, <1>4, WalkSize DEF T
<1>6. WalkBody(f, t) = WalkBody(g, t)
  BY <1>5, WalkLocal
<1>7. f[t] = WalkBody(f, t) /\ g[t] = WalkBody(g, t)
  BY <1>3, <1>4 DEF WalkUpTo
<1> QED BY <1>4, <1>6, <1>7

LEMMA WalkExist ==
  ASSUME NEW b \in Nat
  PROVE  \E f : WalkUpTo(f, b)
<1> DEFINE T == {i \in Nat : \A f : ~ WalkUpTo(f, i)}
<1> SUFFICES ASSUME T # {} PROVE FALSE
  OBVIOUS
<1>1. T \in SUBSET Nat
  OBVIOUS
<1> HIDE DEF T
<1>2. PICK n \in T : \A i \in T : n <= i
  BY <1>1, LeastOf
<1>3. n \in Nat /\ \A f : ~ WalkUpTo(f, n)
  BY <1>2 DEF T
<1>4. PICK f : n = 0 \/ WalkUpTo(f, n - 1)
  <2>1. n # 0 => n - 1 \in Nat /\ ~(n <= n - 1)
    BY <1>3
  <2> QED BY <1>2, <1>3, <2>1 DEF T
<1> DEFINE g == [t \in Placed |-> WalkBody(f, t)]
<1>5. \A t \in Placed : g[t] = WalkBody(f, t)
  OBVIOUS
<1> HIDE DEF g
<1>6. ASSUME NEW t \in Placed, t[3] <= n PROVE g[t] = WalkBody(g, t)
  <2>1. ASSUME NEW s \in Placed, s[3] < t[3] PROVE f[s] = g[s]
    <3>1. n # 0 /\ s[3] <= n - 1
      BY <1>3, <1>6, <2>1, WalkSize
    <3>2. f[s] = WalkBody(f, s)
      BY <1>4, <3>1 DEF WalkUpTo
    <3> QED BY <1>5, <3>2
  <2>2. WalkBody(f, t) = WalkBody(g, t)
    BY <2>1, WalkLocal
  <2> QED BY <1>5, <2>2
<1>7. WalkUpTo(g, n)
  BY <1>6 DEF WalkUpTo
<1> QED BY <1>3, <1>7

\* WalkCall is what its equation says.
LEMMA WalkDef ==
  ASSUME NEW t \in Placed
  PROVE  WalkCall[t] = WalkBody(WalkCall, t)
<1> DEFINE F(b) == CHOOSE f : WalkUpTo(f, b)
           h == [s \in Placed |-> F(s[3])[s]]
           Eq(f) == f = [s \in Placed |-> WalkBody(f, s)]
<1>1. \A b \in Nat : WalkUpTo(F(b), b)
  BY WalkExist
<1> HIDE DEF F
<1>2. \A s \in Placed : h[s] = F(s[3])[s]
  OBVIOUS
<1>3. h = [s \in Placed |-> h[s]]
  OBVIOUS
<1> HIDE DEF h
<1>4. ASSUME NEW s \in Placed PROVE h[s] = WalkBody(h, s)
  <2> DEFINE f == F(s[3])
  <2>1. s[3] \in Nat /\ WalkUpTo(f, s[3])
    BY <1>1, WalkSize
  <2> HIDE DEF f
  <2>2. ASSUME NEW r \in Placed, r[3] < s[3] PROVE f[r] = h[r]
    <3>1. r[3] \in Nat /\ r[3] <= r[3] /\ WalkUpTo(F(r[3]), r[3])
      BY <1>1, WalkSize
    <3>2. WalkUpTo(f, r[3])
      BY <2>1, <2>2, <3>1, WalkSize DEF WalkUpTo
    <3>3. f[r] = F(r[3])[r]
      BY <3>1, <3>2, WalkAgree
    <3> QED BY <1>2, <3>3
  <2>3. WalkBody(f, s) = WalkBody(h, s)
    BY <2>2, WalkLocal
  <2>4. f[s] = WalkBody(f, s)
    BY <2>1 DEF WalkUpTo
  <2>5. h[s] = f[s]
    BY <1>2 DEF f
  <2> QED BY <2>3, <2>4, <2>5
<1>5. Eq(h)
  BY <1>3, <1>4
<1>6. WalkCall = CHOOSE f : Eq(f)
  BY DEF WalkCall
<1>7. Eq(WalkCall)
  BY <1>5, <1>6
<1> HIDE DEF h
<1> QED BY <1>7

Walk(old, start, n, whole) == WalkCall[<<old, start, n, whole>>]

LEMMA ConsistencyRangesCall ==
  ASSUME NEW old, NEW n
  PROVE  ConsistencyRanges(old, n) = IF old = 0 THEN <<>> ELSE Walk(old, 0, n, TRUE)
BY DEF ConsistencyRanges, Walk, WalkCall, WalkBody

LEMMA WalkStep ==
  ASSUME NEW t \in Placed
  PROVE  LET old == t[1]
             start == t[2]
             n == t[3]
             whole == t[4]
             k == Split(n)
         IN Walk(old, start, n, whole) =
           IF old = n THEN IF whole THEN <<>> ELSE <<<<start, n>>>>
           ELSE IF old <= k THEN Append(Walk(old, start, k, whole), <<start + k, n - k>>)
           ELSE Append(Walk(old - k, start + k, n - k, FALSE), <<start, k>>)
<1> DEFINE k == Split(t[3])
<1>1. t = <<t[1], t[2], t[3], t[4]>>
  BY DEF Placed
<1>2. WalkCall[t] = WalkBody(WalkCall, t)
  BY WalkDef
<1>3. WalkBody(WalkCall, t) =
        IF t[1] = t[3] THEN IF t[4] THEN <<>> ELSE <<<<t[2], t[3]>>>>
        ELSE IF t[1] <= k THEN Append(WalkCall[<<t[1], t[2], k, t[4]>>], <<t[2] + k, t[3] - k>>)
        ELSE Append(WalkCall[<<t[1] - k, t[2] + k, t[3] - k, FALSE>>], <<t[2], k>>)
  BY DEF WalkBody
<1>4. Walk(t[1], t[2], t[3], t[4]) = WalkCall[t]
  BY <1>1 DEF Walk
<1> HIDE DEF k
<1> QED BY <1>2, <1>3, <1>4, Zenon DEF Walk, k

----------------------------------------------------------------------------
\* Subtrees as a proof has them: inside the tree, and next to one of the leaves in X.
Good(w, X, end) ==
  /\ w \in Seq(Nat \X Nat)
  /\ \A i \in 1 .. Len(w) : Beside(w[i], X) /\ w[i][1] + w[i][2] <= end

LEMMA GoodAppend ==
  ASSUME NEW w, NEW X, NEW end, Good(w, X, end), NEW a \in Nat, NEW b \in Nat,
         Beside(<<a, b>>, X), a + b <= end
  PROVE  Good(Append(w, <<a, b>>), X, end) /\ Len(Append(w, <<a, b>>)) = Len(w) + 1
         /\ Append(w, <<a, b>>)[Len(w) + 1] = <<a, b>>
         /\ \A i \in 1 .. Len(w) : Append(w, <<a, b>>)[i] = w[i]
<1> DEFINE r == <<a, b>>
           v == Append(w, r)
<1>1. w \in Seq(Nat \X Nat) /\ r \in Nat \X Nat
  BY DEF Good
<1>2. r[1] + r[2] <= end /\ Beside(r, X)
  OBVIOUS
<1> HIDE DEF r
<1>3. v \in Seq(Nat \X Nat) /\ Len(v) = Len(w) + 1 /\ v[Len(w) + 1] = r /\ Len(w) \in Nat
  BY <1>1
<1>4. \A i \in 1 .. Len(w) : v[i] = w[i]
  BY <1>1
<1> HIDE DEF v
<1>5. ASSUME NEW i \in 1 .. Len(v) PROVE Beside(v[i], X) /\ v[i][1] + v[i][2] <= end
  <2>1. CASE i \in 1 .. Len(w)
    <3>1. v[i] = w[i]
      BY <1>4, <2>1
    <3>2. Beside(w[i], X) /\ w[i][1] + w[i][2] <= end
      BY <2>1 DEF Good
    <3> QED BY <3>1, <3>2
  <2>2. CASE i = Len(w) + 1
    BY <1>2, <1>3, <2>2
  <2> QED BY <1>3, <2>1, <2>2
<1>6. Good(v, X, end)
  BY <1>3, <1>5 DEF Good
<1> QED BY <1>3, <1>4, <1>6 DEF v, r

LEMMA GoodEmpty == ASSUME NEW X, NEW end PROVE Good(<<>>, X, end)
BY DEF Good

LEMMA DescendGood ==
  ASSUME NEW end \in Nat, NEW x \in Nat, NEW index0 \in Nat, NEW start0 \in Nat, NEW n0 \in Nat,
         index0 < n0, x = start0 + index0, Node(start0, n0, end), start0 + n0 <= end
  PROVE  Good(Descend(index0, start0, n0), {x, end - 1}, end)
<1> DEFINE X == {x, end - 1}
           Bad(n) == \E index, start \in Nat : /\ index < n /\ x = start + index /\ Node(start, n, end)
                                               /\ start + n <= end
                                               /\ ~ Good(Descend(index, start, n), X, end)
           T == {n \in Nat : Bad(n)}
<1> SUFFICES ASSUME T # {} PROVE FALSE
  OBVIOUS
<1>1. T \in SUBSET Nat
  OBVIOUS
<1> HIDE DEF T
<1>2. PICK n \in T : \A j \in T : n <= j
  BY <1>1, LeastOf
<1>3. n \in Nat /\ Bad(n)
  BY <1>2 DEF T
<1>4. PICK index \in Nat, start \in Nat :
        /\ index < n /\ x = start + index /\ Node(start, n, end) /\ start + n <= end
        /\ ~ Good(Descend(index, start, n), X, end)
  BY <1>3
<1> DEFINE k == Split(n)
<1>5. Descend(index, start, n) =
        IF n = 1 THEN <<>>
        ELSE IF index < k THEN Append(Descend(index, start, k), <<start + k, n - k>>)
        ELSE Append(Descend(index - k, start + k, n - k), <<start, k>>)
  <2>1. n >= 1
    BY <1>3, <1>4
  <2>2. n \in Nat /\ index \in Nat /\ start \in Nat
    BY <1>3
  <2> QED BY <2>1, <2>2, DescendDef, Zenon
<1>6. n # 1
  BY <1>4, <1>5, GoodEmpty
<1>7. n > 1 /\ n >= 1
  BY <1>3, <1>4, <1>6
<1>8. k \in Nat /\ 1 <= k /\ k < n
  BY <1>3, <1>7, SplitRange
<1>9. /\ Node(start, k, end) /\ Node(start + k, n - k, end)
      /\ Beside(<<start, k>>, {x}) /\ Beside(<<start + k, n - k>>, X)
  <2>1. start <= x /\ x < start + n
    BY <1>3, <1>4
  <2> QED BY <1>3, <1>4, <1>7, <2>1, NodeSplit
<1>10. Beside(<<start, k>>, X)
  BY <1>9, BesideMore
<1> HIDE DEF k, X
<1>11. /\ start + k \in Nat /\ n - k \in Nat /\ (start + k) + (n - k) = start + n /\ start + k <= end
       /\ ~(n <= k) /\ ~(n <= n - k)
  BY <1>3, <1>4, <1>8
<1>12. CASE index < k
  <2>1. ~ Bad(k)
    BY <1>2, <1>8, <1>11 DEF T
  <2>2. Good(Descend(index, start, k), X, end)
    BY <1>4, <1>9, <1>11, <1>12, <2>1
  <2>3. Good(Append(Descend(index, start, k), <<start + k, n - k>>), X, end)
    BY <1>4, <1>9, <1>11, <2>2, GoodAppend
  <2> QED BY <1>4, <1>5, <1>6, <1>12, <2>3
<1>13. CASE ~(index < k)
  <2>1. ~ Bad(n - k)
    BY <1>2, <1>8, <1>11 DEF T
  <2>2. index - k \in Nat /\ index - k < n - k /\ x = (start + k) + (index - k)
    BY <1>3, <1>4, <1>8, <1>13
  <2>3. Good(Descend(index - k, start + k, n - k), X, end)
    BY <1>4, <1>9, <1>11, <2>1, <2>2
  <2>4. Good(Append(Descend(index - k, start + k, n - k), <<start, k>>), X, end)
    BY <1>8, <1>10, <1>11, <2>3, GoodAppend
  <2> QED BY <1>4, <1>5, <1>6, <1>13, <2>4
<1> QED BY <1>12, <1>13

LEMMA WalkGood ==
  ASSUME NEW end \in Nat, NEW x \in Nat, NEW t0 \in Placed,
         x + 1 = t0[2] + t0[1], Node(t0[2], t0[3], end), t0[2] + t0[3] <= end
  PROVE  Good(Walk(t0[1], t0[2], t0[3], t0[4]), {x, end - 1}, end)
<1> DEFINE X == {x, end - 1}
           Bad(n) == \E t \in Placed : /\ t[3] = n /\ x + 1 = t[2] + t[1] /\ Node(t[2], t[3], end)
                                       /\ t[2] + t[3] <= end
                                       /\ ~ Good(Walk(t[1], t[2], t[3], t[4]), X, end)
           T == {n \in Nat : Bad(n)}
<1> SUFFICES ASSUME T # {} PROVE FALSE
  BY WalkSize
<1>1. T \in SUBSET Nat
  OBVIOUS
<1> HIDE DEF T
<1>2. PICK n \in T : \A j \in T : n <= j
  BY <1>1, LeastOf
<1>3. n \in Nat /\ Bad(n)
  BY <1>2 DEF T
<1>4. PICK t \in Placed :
        /\ t[3] = n /\ x + 1 = t[2] + t[1] /\ Node(t[2], t[3], end) /\ t[2] + t[3] <= end
        /\ ~ Good(Walk(t[1], t[2], t[3], t[4]), X, end)
  BY <1>3
<1> DEFINE old == t[1]
           start == t[2]
           whole == t[4]
           k == Split(n)
<1>a. old \in Nat /\ old >= 1 /\ start \in Nat /\ old <= n /\ whole \in BOOLEAN
  BY <1>4 DEF Placed, Positive
<1>5. Walk(old, start, n, whole) =
        IF old = n THEN IF whole THEN <<>> ELSE <<<<start, n>>>>
        ELSE IF old <= k THEN Append(Walk(old, start, k, whole), <<start + k, n - k>>)
        ELSE Append(Walk(old - k, start + k, n - k, FALSE), <<start, k>>)
  BY <1>4, WalkStep
<1>b. /\ x + 1 = start + old /\ Node(start, n, end) /\ start + n <= end
      /\ ~ Good(Walk(old, start, n, whole), X, end)
  BY <1>4
<1> HIDE DEF old, start, whole
<1>6. CASE old = n
  <2>1. CASE whole
    BY <1>5, <1>b, <1>6, <2>1, GoodEmpty
  <2>2. CASE ~ whole
    <3>1. <<<<start, n>>>> = Append(<<>>, <<start, n>>)
      OBVIOUS
    <3>2. PICK e \in Nat, c \in Nat : start = c * Power[e] /\ n <= Power[e]
      BY <1>b DEF Node
    <3>3. start + n = x + 1 /\ n >= 1
      BY <1>a, <1>b, <1>6
    <3>4. Beside(<<start, n>>, X)
      BY <1>3, <1>a, <3>2, <3>3 DEF Beside
    <3>5. Good(Append(<<>>, <<start, n>>), X, end)
      BY <1>3, <1>a, <1>b, <3>4, GoodEmpty, GoodAppend
    <3> QED BY <1>5, <1>b, <1>6, <2>2, <3>1, <3>5
  <2> QED BY <2>1, <2>2
<1>7. CASE old # n
  <2>1. n > 1 /\ start <= x /\ x < start + n
    BY <1>3, <1>a, <1>b, <1>7
  <2>2. k \in Nat /\ 1 <= k /\ k < n
    BY <1>3, <2>1, SplitRange
  <2>3. /\ Node(start, k, end) /\ Node(start + k, n - k, end)
        /\ Beside(<<start, k>>, {x}) /\ Beside(<<start + k, n - k>>, X)
    BY <1>3, <1>a, <1>b, <2>1, NodeSplit
  <2>4. Beside(<<start, k>>, X)
    BY <2>3, BesideMore
  <2> HIDE DEF k, X
  <2>5. /\ start + k \in Nat /\ n - k \in Nat /\ (start + k) + (n - k) = start + n /\ start + k <= end
        /\ ~(n <= k) /\ ~(n <= n - k)
    BY <1>3, <1>a, <1>b, <2>2
  <2>6. CASE old <= k
    <3> DEFINE s == <<old, start, k, whole>>
    <3>1. s \in Placed /\ s[1] = old /\ s[2] = start /\ s[3] = k /\ s[4] = whole
      BY <1>a, <2>2, <2>6 DEF Placed, Positive
    <3> HIDE DEF s
    <3>2. ~ Bad(k)
      BY <1>2, <2>2, <2>5 DEF T
    <3>3. x + 1 = s[2] + s[1] /\ Node(s[2], s[3], end) /\ s[2] + s[3] <= end
      BY <1>b, <2>3, <2>5, <3>1
    <3>4. Good(Walk(s[1], s[2], s[3], s[4]), X, end)
      BY <3>1, <3>2, <3>3
    <3>5. Good(Walk(old, start, k, whole), X, end)
      BY <3>1, <3>4
    <3>6. Good(Append(Walk(old, start, k, whole), <<start + k, n - k>>), X, end)
      BY <1>b, <2>3, <2>5, <3>5, GoodAppend
    <3> QED BY <1>5, <1>b, <1>7, <2>6, <3>6
  <2>7. CASE ~(old <= k)
    <3> DEFINE s == <<old - k, start + k, n - k, FALSE>>
    <3>1. old - k \in Positive /\ n - k \in Positive /\ old - k <= n - k /\ x + 1 = (start + k) + (old - k)
      BY <1>3, <1>a, <1>b, <2>2, <2>7 DEF Positive
    <3>2. s \in Placed /\ s[1] = old - k /\ s[2] = start + k /\ s[3] = n - k /\ s[4] = FALSE
      BY <2>5, <3>1 DEF Placed
    <3> HIDE DEF s
    <3>3. ~ Bad(n - k)
      BY <1>2, <2>2, <2>5 DEF T
    <3>4. x + 1 = s[2] + s[1] /\ Node(s[2], s[3], end) /\ s[2] + s[3] <= end
      BY <1>b, <2>3, <2>5, <3>1, <3>2
    <3>5. Good(Walk(s[1], s[2], s[3], s[4]), X, end)
      BY <3>2, <3>3, <3>4
    <3>6. Good(Walk(old - k, start + k, n - k, FALSE), X, end)
      BY <3>2, <3>5
    <3>7. Good(Append(Walk(old - k, start + k, n - k, FALSE), <<start, k>>), X, end)
      BY <1>a, <2>2, <2>4, <2>5, <3>6, GoodAppend
    <3> QED BY <1>5, <1>b, <1>7, <2>7, <3>7
  <2> QED BY <2>6, <2>7
<1> QED BY <1>6, <1>7

----------------------------------------------------------------------------
\* A path whose nodes are the roots of the subtrees leads to the root of the tree.
Rest(p, j) == SubSeq(p, j + 1, Len(p))

LEMMA RestStep ==
  ASSUME NEW S, NEW p \in Seq(S), NEW j \in Nat, j < Len(p)
  PROVE  Rest(p, j) # <<>> /\ Head(Rest(p, j)) = p[j + 1] /\ Tail(Rest(p, j)) = Rest(p, j + 1)
<1> DEFINE n == Len(p)
           m == n - j
           r == Rest(p, j)
<1>1. n \in Nat /\ m \in Nat /\ m >= 1
  OBVIOUS
<1>2. r \in Seq(S) /\ Len(r) = m /\ \A i \in 1 .. m : r[i] = p[j + i]
  BY <1>1 DEF Rest
<1> HIDE DEF r
<1>3. r # <<>> /\ Head(r) = r[1] /\ 1 \in 1 .. m
  BY <1>1, <1>2
<1>4. Tail(r) = Rest(p, j + 1)
  <2> DEFINE u == Tail(r)
             v == Rest(p, j + 1)
  <2>1. u \in Seq(S) /\ Len(u) = m - 1 /\ \A i \in 1 .. m - 1 : u[i] = r[i + 1]
    BY <1>1, <1>2, <1>3
  <2>2. v \in Seq(S) /\ Len(v) = m - 1 /\ \A i \in 1 .. m - 1 : v[i] = p[(j + 1) + i]
    BY <1>1 DEF Rest
  <2> HIDE DEF u, v
  <2>3. \A i \in 1 .. m - 1 : i + 1 \in 1 .. m /\ j + (i + 1) = (j + 1) + i
    BY <1>1
  <2>4. \A i \in 1 .. m - 1 : u[i] = v[i]
    BY <1>2, <2>1, <2>2, <2>3
  <2>5. u = v
    BY <2>1, <2>2, <2>4
  <2> QED BY <2>5 DEF u, v
<1>5. r[1] = p[j + 1]
  BY <1>2, <1>3
<1> QED BY <1>3, <1>4, <1>5 DEF r

LEMMA RestEnds ==
  ASSUME NEW S, NEW p \in Seq(S)
  PROVE  Rest(p, 0) = p /\ Rest(p, Len(p)) = <<>>
BY DEF Rest

Leads(leaves, p, w) ==
  Len(w) <= Len(p) /\ \A i \in 1 .. Len(w) : p[i] = TreeHash(leaves, w[i][1], w[i][2])

OneMore(leaves, p, w, a, b) ==
  /\ Leads(leaves, p, w) /\ Len(w) \in Nat /\ Len(Append(w, <<a, b>>)) = Len(w) + 1
  /\ Rest(p, Len(w)) # <<>> /\ Head(Rest(p, Len(w))) = TreeHash(leaves, a, b)
  /\ Tail(Rest(p, Len(w))) = Rest(p, Len(w) + 1)

\* One node more.
LEMMA LeadsAppend ==
  ASSUME NEW leaves, NEW S, NEW p \in Seq(S), NEW w, NEW X, NEW end, Good(w, X, end),
         NEW a \in Nat, NEW b \in Nat, Beside(<<a, b>>, X), a + b <= end,
         Leads(leaves, p, Append(w, <<a, b>>))
  PROVE  OneMore(leaves, p, w, a, b)
<1> DEFINE v == Append(w, <<a, b>>)
           m == Len(w)
<1>1. m \in Nat
  BY DEF Good
<1>2. Len(v) = m + 1 /\ v[m + 1] = <<a, b>> /\ \A i \in 1 .. m : v[i] = w[i]
  BY GoodAppend
<1>3. Len(v) <= Len(p) /\ \A i \in 1 .. Len(v) : p[i] = TreeHash(leaves, v[i][1], v[i][2])
  BY DEF Leads
<1> HIDE DEF v, m
<1>4. m < Len(p) /\ m <= Len(p) /\ m + 1 \in 1 .. Len(v) /\ \A i \in 1 .. m : i \in 1 .. Len(v)
  BY <1>1, <1>2, <1>3
<1>5. \A i \in 1 .. m : p[i] = TreeHash(leaves, w[i][1], w[i][2])
  BY <1>2, <1>3, <1>4, Zenon
<1>6. p[m + 1] = TreeHash(leaves, a, b)
  BY <1>2, <1>3, <1>4
<1>7. Rest(p, m) # <<>> /\ Head(Rest(p, m)) = p[m + 1] /\ Tail(Rest(p, m)) = Rest(p, m + 1)
  BY <1>1, <1>4, RestStep
<1>8. Leads(leaves, p, w)
  BY <1>4, <1>5 DEF Leads, m
<1> QED BY <1>1, <1>2, <1>6, <1>7, <1>8 DEF m, v, OneMore

Arrives(S, root, rest) == S = {[root |-> root, rest |-> rest]}

LEMMA ArrivesOnLeft ==
  ASSUME NEW S, NEW a, NEW q, Arrives(S, a, q), q # <<>>
  PROVE  Arrives(OnLeft(S), NodeHash(a, Head(q)), Tail(q))
<1> DEFINE s == [root |-> a, rest |-> q]
<1>1. s.root = a /\ s.rest = q /\ S = {s}
  BY DEF Arrives
<1> HIDE DEF s
<1>2. {u \in S : u.rest # <<>>} = {s}
  BY <1>1
<1>3. OnLeft(S) = {[root |-> NodeHash(s.root, Head(s.rest)), rest |-> Tail(s.rest)]}
  BY <1>2 DEF OnLeft
<1> QED BY <1>1, <1>3 DEF Arrives

LEMMA ArrivesOnRight ==
  ASSUME NEW S, NEW a, NEW q, Arrives(S, a, q), q # <<>>
  PROVE  Arrives(OnRight(S), NodeHash(Head(q), a), Tail(q))
<1> DEFINE s == [root |-> a, rest |-> q]
<1>1. s.root = a /\ s.rest = q /\ S = {s}
  BY DEF Arrives
<1> HIDE DEF s
<1>2. {u \in S : u.rest # <<>>} = {s}
  BY <1>1
<1>3. OnRight(S) = {[root |-> NodeHash(Head(s.rest), s.root), rest |-> Tail(s.rest)]}
  BY <1>2 DEF OnRight
<1> QED BY <1>1, <1>3 DEF Arrives

LEMMA InclusionComplete ==
  ASSUME NEW leaves, NEW S, NEW p \in Seq(S), NEW end \in Nat, NEW x \in Nat,
         NEW index0 \in Nat, NEW start0 \in Nat, NEW n0 \in Nat,
         index0 < n0, x = start0 + index0, Node(start0, n0, end), start0 + n0 <= end,
         Leads(leaves, p, Descend(index0, start0, n0))
  PROVE  Arrives(InclusionRoot(index0, n0, LeafHash(leaves[x + 1]), p), TreeHash(leaves, start0, n0),
                 Rest(p, Len(Descend(index0, start0, n0))))
<1> DEFINE X == {x, end - 1}
           leaf == LeafHash(leaves[x + 1])
           Up(index, start, n) ==
             Arrives(InclusionRoot(index, n, leaf, p), TreeHash(leaves, start, n),
                     Rest(p, Len(Descend(index, start, n))))
           Bad(n) == \E index, start \in Nat : /\ index < n /\ x = start + index /\ Node(start, n, end)
                                               /\ start + n <= end
                                               /\ Leads(leaves, p, Descend(index, start, n))
                                               /\ ~ Up(index, start, n)
           T == {n \in Nat : Bad(n)}
<1> SUFFICES ASSUME T # {} PROVE FALSE
  OBVIOUS
<1>1. T \in SUBSET Nat
  OBVIOUS
<1> HIDE DEF T
<1>2. PICK n \in T : \A j \in T : n <= j
  BY <1>1, LeastOf
<1>3. n \in Nat /\ Bad(n)
  BY <1>2 DEF T
<1> HIDE DEF Up
<1>4. PICK index \in Nat, start \in Nat :
        /\ index < n /\ x = start + index /\ Node(start, n, end) /\ start + n <= end
        /\ Leads(leaves, p, Descend(index, start, n)) /\ ~ Up(index, start, n)
  BY <1>3
<1> DEFINE k == Split(n)
           w == Descend(index, start, n)
<1>5. n \in Nat /\ index \in Nat /\ start \in Nat /\ n >= 1
  BY <1>3, <1>4
<1>6. w = IF n = 1 THEN <<>>
          ELSE IF index < k THEN Append(Descend(index, start, k), <<start + k, n - k>>)
          ELSE Append(Descend(index - k, start + k, n - k), <<start, k>>)
  BY <1>5, DescendDef, Zenon
<1>7. InclusionRoot(index, n, leaf, p) =
        IF n = 1 THEN {[root |-> leaf, rest |-> p]}
        ELSE IF index < k THEN OnLeft(InclusionRoot(index, k, leaf, p))
        ELSE OnRight(InclusionRoot(index - k, n - k, leaf, p))
  <2>1. AscentEq(leaf, p, index, n)
    BY <1>5, InclusionRootDef, Zenon
  <2> QED BY <2>1 DEF AscentEq
<1>8. CASE n = 1
  <2>1. w = <<>> /\ Len(w) = 0
    BY <1>6, <1>8
  <2>2. Rest(p, Len(w)) = p
    BY <2>1, RestEnds
  <2>3. index = 0 /\ x = start
    BY <1>4, <1>5, <1>8
  <2>4. TreeHash(leaves, start, n) = leaf
    BY <1>5, <1>8, <2>3, TreeHashDef
  <2>5. Up(index, start, n)
    BY <1>7, <1>8, <2>2, <2>4 DEF Up, Arrives
  <2> QED BY <1>4, <2>5
<1>9. CASE n # 1
  <2>1. n > 1 /\ start <= x /\ x < start + n
    BY <1>4, <1>5, <1>9
  <2>2. k \in Nat /\ 1 <= k /\ k < n
    BY <1>5, <2>1, SplitRange
  <2>3. TreeHash(leaves, start, n) = NodeHash(TreeHash(leaves, start, k), TreeHash(leaves, start + k, n - k))
    BY <1>5, <2>1, TreeHashDef
  <2>4. /\ Node(start, k, end) /\ Node(start + k, n - k, end)
        /\ Beside(<<start, k>>, {x}) /\ Beside(<<start + k, n - k>>, X)
    BY <1>4, <1>5, <2>1, NodeSplit
  <2>5. Beside(<<start, k>>, X)
    BY <2>4, BesideMore
  <2>6. \A i, s, m \in Nat : i < m /\ x = s + i /\ Node(s, m, end) /\ s + m <= end
           => Good(Descend(i, s, m), X, end)
    BY DescendGood
  <2> HIDE DEF k, X, w
  <2>7. /\ start + k \in Nat /\ n - k \in Nat /\ (start + k) + (n - k) = start + n /\ start + k <= end
        /\ ~(n <= k) /\ ~(n <= n - k)
    BY <1>4, <1>5, <2>2
  <2>8. CASE index < k
    <3> DEFINE v == Descend(index, start, k)
    <3>1. Good(v, X, end)
      BY <1>4, <2>2, <2>4, <2>6, <2>7, <2>8
    <3>2. w = Append(v, <<start + k, n - k>>)
      BY <1>6, <1>9, <2>8
    <3>a. Leads(leaves, p, w)
      BY <1>4 DEF w
    <3> HIDE DEF v
    <3>3. /\ Leads(leaves, p, v) /\ Len(v) \in Nat /\ Len(w) = Len(v) + 1
          /\ Rest(p, Len(v)) # <<>> /\ Head(Rest(p, Len(v))) = TreeHash(leaves, start + k, n - k)
          /\ Tail(Rest(p, Len(v))) = Rest(p, Len(v) + 1)
      <4>1. (start + k) + (n - k) <= end
        BY <1>4, <2>7
      <4>2. Leads(leaves, p, Append(v, <<start + k, n - k>>))
        BY <3>2, <3>a
      <4>3. OneMore(leaves, p, v, start + k, n - k)
        BY <2>4, <2>7, <3>1, <4>1, <4>2, LeadsAppend, Zenon
      <4> QED BY <3>2, <4>3 DEF OneMore
    <3>4. ~ Bad(k)
      BY <1>2, <2>2, <2>7 DEF T
    <3>5. Up(index, start, k)
      BY <1>4, <2>2, <2>4, <2>7, <2>8, <3>3, <3>4 DEF v
    <3>6. Arrives(InclusionRoot(index, k, leaf, p), TreeHash(leaves, start, k), Rest(p, Len(v)))
      BY <3>5 DEF Up, v
    <3>7. Arrives(OnLeft(InclusionRoot(index, k, leaf, p)),
                  NodeHash(TreeHash(leaves, start, k), Head(Rest(p, Len(v)))), Tail(Rest(p, Len(v))))
      BY <3>3, <3>6, ArrivesOnLeft
    <3>8. Arrives(InclusionRoot(index, n, leaf, p), TreeHash(leaves, start, n), Rest(p, Len(w)))
      BY <1>7, <1>9, <2>3, <2>8, <3>3, <3>7
    <3> QED BY <1>4, <3>8 DEF Up, w
  <2>9. CASE ~(index < k)
    <3> DEFINE v == Descend(index - k, start + k, n - k)
    <3>b. index - k \in Nat /\ index - k < n - k /\ x = (start + k) + (index - k)
      BY <1>4, <1>5, <2>2, <2>9
    <3>1. Good(v, X, end)
      BY <1>4, <2>4, <2>6, <2>7, <3>b
    <3>2. w = Append(v, <<start, k>>)
      BY <1>6, <1>9, <2>9
    <3>a. Leads(leaves, p, w)
      BY <1>4 DEF w
    <3> HIDE DEF v
    <3>3. /\ Leads(leaves, p, v) /\ Len(v) \in Nat /\ Len(w) = Len(v) + 1
          /\ Rest(p, Len(v)) # <<>> /\ Head(Rest(p, Len(v))) = TreeHash(leaves, start, k)
          /\ Tail(Rest(p, Len(v))) = Rest(p, Len(v) + 1)
      <4>2. Leads(leaves, p, Append(v, <<start, k>>))
        BY <3>2, <3>a
      <4>3. OneMore(leaves, p, v, start, k)
        BY <1>5, <2>2, <2>5, <2>7, <3>1, <4>2, LeadsAppend, Zenon
      <4> QED BY <3>2, <4>3 DEF OneMore
    <3>4. ~ Bad(n - k)
      BY <1>2, <2>2, <2>7 DEF T
    <3>5. Up(index - k, start + k, n - k)
      BY <1>4, <2>2, <2>4, <2>7, <3>3, <3>4, <3>b DEF v
    <3>6. Arrives(InclusionRoot(index - k, n - k, leaf, p), TreeHash(leaves, start + k, n - k), Rest(p, Len(v)))
      BY <3>5 DEF Up, v
    <3>7. Arrives(OnRight(InclusionRoot(index - k, n - k, leaf, p)),
                  NodeHash(Head(Rest(p, Len(v))), TreeHash(leaves, start + k, n - k)), Tail(Rest(p, Len(v))))
      BY <3>3, <3>6, ArrivesOnRight
    <3>8. Arrives(InclusionRoot(index, n, leaf, p), TreeHash(leaves, start, n), Rest(p, Len(w)))
      BY <1>7, <1>9, <2>3, <2>9, <3>3, <3>7
    <3> QED BY <1>4, <3>8 DEF Up, w
  <2> QED BY <2>8, <2>9
<1> QED BY <1>8, <1>9

Compared(S, old, new, rest) == S = {[old |-> old, new |-> new, rest |-> rest]}

LEMMA ComparedLeft ==
  ASSUME NEW S, NEW a, NEW b, NEW q, Compared(S, a, b, q), q # <<>>
  PROVE  Compared(GrownLeft(S), a, NodeHash(b, Head(q)), Tail(q))
<1> DEFINE s == [old |-> a, new |-> b, rest |-> q]
<1>1. s.old = a /\ s.new = b /\ s.rest = q /\ S = {s}
  BY DEF Compared
<1> HIDE DEF s
<1>2. {u \in S : u.rest # <<>>} = {s}
  BY <1>1
<1>3. GrownLeft(S) = {[old |-> s.old, new |-> NodeHash(s.new, Head(s.rest)), rest |-> Tail(s.rest)]}
  BY <1>2 DEF GrownLeft
<1> QED BY <1>1, <1>3 DEF Compared

LEMMA ComparedRight ==
  ASSUME NEW S, NEW a, NEW b, NEW q, Compared(S, a, b, q), q # <<>>
  PROVE  Compared(GrownRight(S), NodeHash(Head(q), a), NodeHash(Head(q), b), Tail(q))
<1> DEFINE s == [old |-> a, new |-> b, rest |-> q]
<1>1. s.old = a /\ s.new = b /\ s.rest = q /\ S = {s}
  BY DEF Compared
<1> HIDE DEF s
<1>2. {u \in S : u.rest # <<>>} = {s}
  BY <1>1
<1>3. GrownRight(S) = {[old |-> NodeHash(Head(s.rest), s.old), new |-> NodeHash(Head(s.rest), s.new),
                        rest |-> Tail(s.rest)]}
  BY <1>2 DEF GrownRight
<1> QED BY <1>1, <1>3 DEF Compared

LEMMA ComparedWhole ==
  ASSUME NEW known, NEW S, NEW p \in Seq(S)
  PROVE  /\ Compared(Whole(known, p, TRUE), known, known, Rest(p, 0))
         /\ Len(p) >= 1 => Compared(Whole(known, p, FALSE), p[1], p[1], Rest(p, 1))
<1>1. Rest(p, 0) = p
  BY RestEnds
<1>2. Compared(Whole(known, p, TRUE), known, known, Rest(p, 0))
  BY <1>1 DEF Whole, Compared
<1>3. ASSUME Len(p) >= 1 PROVE Compared(Whole(known, p, FALSE), p[1], p[1], Rest(p, 1))
  <2>1. 0 < Len(p)
    BY <1>3
  <2>2. Rest(p, 0) # <<>> /\ Head(Rest(p, 0)) = p[0 + 1] /\ Tail(Rest(p, 0)) = Rest(p, 0 + 1)
    BY <2>1, RestStep
  <2>3. p # <<>> /\ Head(p) = p[1] /\ Tail(p) = Rest(p, 1)
    BY <1>1, <2>2
  <2>4. {p} \ {<<>>} = {p}
    BY <2>3
  <2>5. Whole(known, p, FALSE) = {[old |-> Head(p), new |-> Head(p), rest |-> Tail(p)]}
    BY <2>4 DEF Whole
  <2> QED BY <2>3, <2>5 DEF Compared
<1> QED BY <1>2, <1>3

GrowthEq(known, p, old, n, whole) ==
  GrowthCall(known, p)[<<old, n, whole>>] =
    IF old = n THEN Whole(known, p, whole)
    ELSE IF old <= Split(n) THEN GrownLeft(GrowthCall(known, p)[<<old, Split(n), whole>>])
    ELSE GrownRight(GrowthCall(known, p)[<<old - Split(n), n - Split(n), FALSE>>])

LEMMA GrowthEqHolds ==
  ASSUME NEW known, NEW p, NEW t \in Placed
  PROVE  GrowthEq(known, p, t[1], t[3], t[4])
<1> DEFINE g == <<t[1], t[3], t[4]>>
<1>1. g \in Growth /\ g[1] = t[1] /\ g[2] = t[3] /\ g[3] = t[4]
  BY DEF Growth, Placed, Positive
<1>2. GrowthCall(known, p)[g] = GrowthBody(known, p, GrowthCall(known, p), g)
  BY <1>1, GrowthDef
<1>3. GrowthBody(known, p, GrowthCall(known, p), g) =
        IF t[1] = t[3] THEN Whole(known, p, t[4])
        ELSE IF t[1] <= Split(t[3]) THEN GrownLeft(GrowthCall(known, p)[<<t[1], Split(t[3]), t[4]>>])
        ELSE GrownRight(GrowthCall(known, p)[<<t[1] - Split(t[3]), t[3] - Split(t[3]), FALSE>>])
  BY <1>1 DEF GrowthBody
<1> QED BY <1>2, <1>3, Zenon DEF GrowthEq

LEMMA ConsistencyComplete ==
  ASSUME NEW leaves, NEW S, NEW p \in Seq(S), NEW known, NEW end \in Nat, NEW x \in Nat, NEW t0 \in Placed,
         x + 1 = t0[2] + t0[1], Node(t0[2], t0[3], end), t0[2] + t0[3] <= end,
         t0[4] => known = TreeHash(leaves, t0[2], t0[1]),
         Leads(leaves, p, Walk(t0[1], t0[2], t0[3], t0[4]))
  PROVE  Compared(GrowthCall(known, p)[<<t0[1], t0[3], t0[4]>>],
                  TreeHash(leaves, t0[2], t0[1]), TreeHash(leaves, t0[2], t0[3]),
                  Rest(p, Len(Walk(t0[1], t0[2], t0[3], t0[4]))))
<1> DEFINE X == {x, end - 1}
           Up(t) == Compared(GrowthCall(known, p)[<<t[1], t[3], t[4]>>],
                      TreeHash(leaves, t[2], t[1]), TreeHash(leaves, t[2], t[3]),
                      Rest(p, Len(Walk(t[1], t[2], t[3], t[4]))))
           Bad(n) == \E t \in Placed : /\ t[3] = n /\ x + 1 = t[2] + t[1] /\ Node(t[2], t[3], end)
                                       /\ t[2] + t[3] <= end
                                       /\ t[4] => known = TreeHash(leaves, t[2], t[1])
                                       /\ Leads(leaves, p, Walk(t[1], t[2], t[3], t[4]))
                                       /\ ~ Up(t)
           T == {n \in Nat : Bad(n)}
<1> SUFFICES ASSUME T # {} PROVE FALSE
  BY WalkSize
<1>1. T \in SUBSET Nat
  OBVIOUS
<1> HIDE DEF T
<1>2. PICK n \in T : \A j \in T : n <= j
  BY <1>1, LeastOf
<1>3. n \in Nat /\ Bad(n)
  BY <1>2 DEF T
<1> HIDE DEF Up
<1>4. PICK t \in Placed :
        /\ t[3] = n /\ x + 1 = t[2] + t[1] /\ Node(t[2], t[3], end) /\ t[2] + t[3] <= end
        /\ t[4] => known = TreeHash(leaves, t[2], t[1])
        /\ Leads(leaves, p, Walk(t[1], t[2], t[3], t[4])) /\ ~ Up(t)
  BY <1>3
<1> DEFINE old == t[1]
           start == t[2]
           whole == t[4]
           k == Split(n)
           w == Walk(old, start, n, whole)
           G(a, b, c) == GrowthCall(known, p)[<<a, b, c>>]
<1>a. old \in Nat /\ old >= 1 /\ start \in Nat /\ old <= n /\ whole \in BOOLEAN
  BY <1>4 DEF Placed, Positive
<1>5. w = IF old = n THEN IF whole THEN <<>> ELSE <<<<start, n>>>>
          ELSE IF old <= k THEN Append(Walk(old, start, k, whole), <<start + k, n - k>>)
          ELSE Append(Walk(old - k, start + k, n - k, FALSE), <<start, k>>)
  BY <1>4, WalkStep
<1>6. G(old, n, whole) = IF old = n THEN Whole(known, p, whole)
                         ELSE IF old <= k THEN GrownLeft(G(old, k, whole))
                         ELSE GrownRight(G(old - k, n - k, FALSE))
  <2>1. GrowthEq(known, p, t[1], t[3], t[4])
    BY GrowthEqHolds
  <2> QED BY <1>4, <2>1, Zenon DEF GrowthEq
<1>b. /\ x + 1 = start + old /\ Node(start, n, end) /\ start + n <= end
      /\ whole => known = TreeHash(leaves, start, old)
      /\ Leads(leaves, p, w)
      /\ ~ Compared(G(old, n, whole), TreeHash(leaves, start, old), TreeHash(leaves, start, n), Rest(p, Len(w)))
  BY <1>4 DEF Up
<1> HIDE DEF old, start, whole, G, w
<1>7. CASE old = n
  <2>1. CASE whole
    <3>1. w = <<>> /\ Len(w) = 0 /\ whole = TRUE
      BY <1>5, <1>7, <1>a, <2>1
    <3>2. G(old, n, whole) = Whole(known, p, TRUE)
      BY <1>6, <1>7, <3>1
    <3>3. Compared(G(old, n, whole), known, known, Rest(p, Len(w)))
      BY <3>1, <3>2, ComparedWhole
    <3> QED BY <1>7, <1>b, <2>1, <3>3
  <2>2. CASE ~ whole
    <3>1. w = <<<<start, n>>>> /\ Len(w) = 1 /\ whole = FALSE
      BY <1>5, <1>7, <1>a, <2>2
    <3>2. G(old, n, whole) = Whole(known, p, FALSE)
      BY <1>6, <1>7, <3>1
    <3>3. Len(p) >= 1 /\ p[1] = TreeHash(leaves, start, n)
      <4>1. Len(w) <= Len(p) /\ \A i \in 1 .. Len(w) : p[i] = TreeHash(leaves, w[i][1], w[i][2])
        BY <1>b DEF Leads
      <4>2. 1 \in 1 .. Len(w) /\ w[1] = <<start, n>>
        BY <3>1
      <4>3. p[1] = TreeHash(leaves, w[1][1], w[1][2])
        BY <4>1, <4>2
      <4> QED BY <3>1, <4>1, <4>2, <4>3
    <3>4. Compared(G(old, n, whole), p[1], p[1], Rest(p, 1))
      BY <3>2, <3>3, ComparedWhole
    <3> QED BY <1>7, <1>b, <3>1, <3>3, <3>4
  <2> QED BY <2>1, <2>2
<1>8. CASE old # n
  <2>1. n > 1 /\ start <= x /\ x < start + n
    BY <1>3, <1>a, <1>b, <1>8
  <2>2. k \in Nat /\ 1 <= k /\ k < n
    BY <1>3, <2>1, SplitRange
  <2>3. TreeHash(leaves, start, n) = NodeHash(TreeHash(leaves, start, k), TreeHash(leaves, start + k, n - k))
    BY <1>3, <1>a, <2>1, TreeHashDef
  <2>4. /\ Node(start, k, end) /\ Node(start + k, n - k, end)
        /\ Beside(<<start, k>>, {x}) /\ Beside(<<start + k, n - k>>, X)
    BY <1>3, <1>a, <1>b, <2>1, NodeSplit
  <2>5. Beside(<<start, k>>, X)
    BY <2>4, BesideMore
  <2>6. \A s \in Placed : x + 1 = s[2] + s[1] /\ Node(s[2], s[3], end) /\ s[2] + s[3] <= end
           => Good(Walk(s[1], s[2], s[3], s[4]), X, end)
    BY WalkGood
  <2>7. ~(old <= k) => Split(old) = k /\ old > 1
    BY <1>3, <1>a, <2>1, <2>2, SplitSame
  <2> HIDE DEF k, X
  <2>8. /\ start + k \in Nat /\ n - k \in Nat /\ (start + k) + (n - k) = start + n /\ start + k <= end
        /\ ~(n <= k) /\ ~(n <= n - k)
    BY <1>3, <1>a, <1>b, <2>2
  <2>9. CASE old <= k
    <3> DEFINE s == <<old, start, k, whole>>
               v == Walk(old, start, k, whole)
    <3>1. s \in Placed /\ s[1] = old /\ s[2] = start /\ s[3] = k /\ s[4] = whole
      BY <1>a, <2>2, <2>9 DEF Placed, Positive
    <3> HIDE DEF s
    <3>2. Good(v, X, end)
      <4>1. x + 1 = s[2] + s[1] /\ Node(s[2], s[3], end) /\ s[2] + s[3] <= end
        BY <1>b, <2>4, <2>8, <3>1
      <4>2. Good(Walk(s[1], s[2], s[3], s[4]), X, end)
        BY <2>6, <3>1, <4>1
      <4> QED BY <3>1, <4>2
    <3>3. w = Append(v, <<start + k, n - k>>)
      BY <1>5, <1>8, <2>9
    <3> HIDE DEF v
    <3>4. OneMore(leaves, p, v, start + k, n - k)
      <4>1. (start + k) + (n - k) <= end
        BY <1>b, <2>8
      <4>2. Leads(leaves, p, Append(v, <<start + k, n - k>>))
        BY <1>b, <3>3
      <4> QED BY <2>4, <2>8, <3>2, <4>1, <4>2, LeadsAppend, Zenon
    <3>5. /\ Leads(leaves, p, v) /\ Len(v) \in Nat /\ Len(w) = Len(v) + 1
          /\ Rest(p, Len(v)) # <<>> /\ Head(Rest(p, Len(v))) = TreeHash(leaves, start + k, n - k)
          /\ Tail(Rest(p, Len(v))) = Rest(p, Len(v) + 1)
      BY <3>3, <3>4 DEF OneMore
    <3>6. ~ Bad(k)
      BY <1>2, <2>2, <2>8 DEF T
    <3>7. Up(s)
      <4>1. /\ s[3] = k /\ x + 1 = s[2] + s[1] /\ Node(s[2], s[3], end) /\ s[2] + s[3] <= end
            /\ s[4] => known = TreeHash(leaves, s[2], s[1])
            /\ Leads(leaves, p, Walk(s[1], s[2], s[3], s[4]))
        BY <1>b, <2>4, <2>8, <3>1, <3>5 DEF v
      <4> QED BY <3>1, <3>6, <4>1
    <3>8. Compared(G(old, k, whole), TreeHash(leaves, start, old), TreeHash(leaves, start, k), Rest(p, Len(v)))
      BY <3>1, <3>7 DEF Up, v, G
    <3>9. Compared(GrownLeft(G(old, k, whole)), TreeHash(leaves, start, old),
                   NodeHash(TreeHash(leaves, start, k), Head(Rest(p, Len(v)))), Tail(Rest(p, Len(v))))
      BY <3>5, <3>8, ComparedLeft
    <3>10. G(old, n, whole) = GrownLeft(G(old, k, whole))
      BY <1>6, <1>8, <2>9
    <3> QED BY <1>b, <2>3, <3>5, <3>9, <3>10
  <2>10. CASE ~(old <= k)
    <3> DEFINE s == <<old - k, start + k, n - k, FALSE>>
               v == Walk(old - k, start + k, n - k, FALSE)
    <3>a. /\ old - k \in Positive /\ n - k \in Positive /\ old - k <= n - k
          /\ x + 1 = (start + k) + (old - k)
      BY <1>3, <1>a, <1>b, <2>2, <2>10 DEF Positive
    <3>1. s \in Placed /\ s[1] = old - k /\ s[2] = start + k /\ s[3] = n - k /\ s[4] = FALSE
      BY <2>8, <3>a DEF Placed
    <3> HIDE DEF s
    <3>2. Good(v, X, end)
      <4>1. x + 1 = s[2] + s[1] /\ Node(s[2], s[3], end) /\ s[2] + s[3] <= end
        BY <1>b, <2>4, <2>8, <3>1, <3>a
      <4>2. Good(Walk(s[1], s[2], s[3], s[4]), X, end)
        BY <2>6, <3>1, <4>1
      <4> QED BY <3>1, <4>2
    <3>3. w = Append(v, <<start, k>>)
      BY <1>5, <1>8, <2>10
    <3> HIDE DEF v
    <3>4. OneMore(leaves, p, v, start, k)
      <4>2. Leads(leaves, p, Append(v, <<start, k>>))
        BY <1>b, <3>3
      <4> QED BY <1>a, <2>2, <2>5, <2>8, <3>2, <4>2, LeadsAppend, Zenon
    <3>5. /\ Leads(leaves, p, v) /\ Len(v) \in Nat /\ Len(w) = Len(v) + 1
          /\ Rest(p, Len(v)) # <<>> /\ Head(Rest(p, Len(v))) = TreeHash(leaves, start, k)
          /\ Tail(Rest(p, Len(v))) = Rest(p, Len(v) + 1)
      BY <3>3, <3>4 DEF OneMore
    <3>6. ~ Bad(n - k)
      BY <1>2, <2>2, <2>8 DEF T
    <3>7. Up(s)
      <4>1. /\ s[3] = n - k /\ x + 1 = s[2] + s[1] /\ Node(s[2], s[3], end) /\ s[2] + s[3] <= end
            /\ s[4] => known = TreeHash(leaves, s[2], s[1])
            /\ Leads(leaves, p, Walk(s[1], s[2], s[3], s[4]))
        BY <1>b, <2>4, <2>8, <3>1, <3>5, <3>a DEF v
      <4> QED BY <3>1, <3>6, <4>1
    <3>8. Compared(G(old - k, n - k, FALSE), TreeHash(leaves, start + k, old - k),
                   TreeHash(leaves, start + k, n - k), Rest(p, Len(v)))
      BY <3>1, <3>7 DEF Up, v, G
    <3>9. Compared(GrownRight(G(old - k, n - k, FALSE)),
                   NodeHash(Head(Rest(p, Len(v))), TreeHash(leaves, start + k, old - k)),
                   NodeHash(Head(Rest(p, Len(v))), TreeHash(leaves, start + k, n - k)), Tail(Rest(p, Len(v))))
      BY <3>5, <3>8, ComparedRight
    <3>10. G(old, n, whole) = GrownRight(G(old - k, n - k, FALSE))
      BY <1>6, <1>8, <2>10
    <3>11. TreeHash(leaves, start, old) =
             NodeHash(TreeHash(leaves, start, k), TreeHash(leaves, start + k, old - k))
      BY <1>a, <2>7, <2>10, TreeHashDef
    <3> QED BY <1>b, <2>3, <3>5, <3>9, <3>10, <3>11
  <2> QED BY <2>9, <2>10
<1> QED BY <1>7, <1>8

\* Trees of the same leaves have the same root.
LEMMA TreeHashSame ==
  ASSUME NEW l1, NEW l2, NEW n0 \in Nat, NEW start0 \in Nat,
         \A i \in 1 .. n0 : l1[start0 + i] = l2[start0 + i]
  PROVE  TreeHash(l1, start0, n0) = TreeHash(l2, start0, n0)
<1> DEFINE Same(n, start) == \A i \in 1 .. n : l1[start + i] = l2[start + i]
           T == {n \in Nat : \E start \in Nat :
                   TreeHash(l1, start, n) # TreeHash(l2, start, n) /\ Same(n, start)}
<1> SUFFICES ASSUME T # {} PROVE FALSE
  OBVIOUS
<1>1. T \in SUBSET Nat
  OBVIOUS
<1> HIDE DEF T
<1>2. PICK n \in T : \A j \in T : n <= j
  BY <1>1, LeastOf
<1>3. n \in Nat
  BY <1>1
<1>4. PICK start \in Nat : TreeHash(l1, start, n) # TreeHash(l2, start, n) /\ Same(n, start)
  BY <1>2 DEF T
<1>5. n # 0
  BY <1>4, TreeHashDef
<1>6. n # 1
  <2> SUFFICES ASSUME n = 1 PROVE FALSE
    OBVIOUS
  <2>1. l1[start + 1] = l2[start + 1]
    BY <1>4
  <2> QED BY <1>4, <2>1, TreeHashDef
<1> DEFINE k == Split(n)
<1>7. n > 1
  BY <1>3, <1>5, <1>6
<1>8. k \in Nat /\ 1 <= k /\ k < n
  BY <1>3, <1>7, SplitRange
<1>9. /\ TreeHash(l1, start, n) = NodeHash(TreeHash(l1, start, k), TreeHash(l1, start + k, n - k))
      /\ TreeHash(l2, start, n) = NodeHash(TreeHash(l2, start, k), TreeHash(l2, start + k, n - k))
  BY <1>3, <1>7, TreeHashDef
<1> HIDE DEF k
<1>10. start + k \in Nat /\ n - k \in Nat /\ ~(n <= k) /\ ~(n <= n - k)
  BY <1>3, <1>8
<1>11. Same(k, start)
  BY <1>3, <1>4, <1>8
<1>12. Same(n - k, start + k)
  <2> SUFFICES ASSUME NEW i \in 1 .. n - k PROVE l1[(start + k) + i] = l2[(start + k) + i]
    OBVIOUS
  <2>1. k + i \in 1 .. n /\ start + (k + i) = (start + k) + i
    BY <1>3, <1>8
  <2>2. l1[start + (k + i)] = l2[start + (k + i)]
    BY <1>4, <2>1
  <2> QED BY <2>1, <2>2
<1> HIDE DEF Same
<1>13. k \notin T /\ n - k \notin T
  BY <1>2, <1>10
<1>14. TreeHash(l1, start, k) = TreeHash(l2, start, k)
  BY <1>8, <1>11, <1>13 DEF T
<1>15. TreeHash(l1, start + k, n - k) = TreeHash(l2, start + k, n - k)
  BY <1>10, <1>12, <1>13 DEF T
<1> QED BY <1>4, <1>9, <1>14, <1>15

----------------------------------------------------------------------------
\* Room for a tile: the tiles of a proof are, in each level, those above two leaves.
Numbered(x, level, tile) == 2 * level + (IF tile = TileAbove(x, level) THEN 0 ELSE 1)

Above(x, y, l) == {TileAbove(x, l), TileAbove(y, l)}

TilesBelow(C, x, y, levels) ==
  /\ \A c \in C : c.level \in Nat /\ c.level < levels /\ c.tile \in Above(x, y, c.level)
  /\ \A c, d \in C : c.level = d.level /\ c.tile = d.tile => c = d

LacksTile(C, l, t) == \A c \in C : ~ (c.level = l /\ c.tile = t)

FewerThan(C, m) == IsFiniteSet(C) /\ Cardinality(C) < m

LEMMA RoomForTile ==
  ASSUME NEW C, NEW levels \in Nat, NEW x, NEW y, TilesBelow(C, x, y, levels),
         NEW l \in Nat, l < levels, NEW t, t \in Above(x, y, l), LacksTile(C, l, t)
  PROVE  FewerThan(C, 2 * levels)
<1>a. /\ \A c \in C : c.level \in Nat /\ c.level < levels /\ c.tile \in {TileAbove(x, c.level), TileAbove(y, c.level)}
      /\ \A c, d \in C : c.level = d.level /\ c.tile = d.tile => c = d
  BY DEF TilesBelow, Above
<1>b. t \in {TileAbove(x, l), TileAbove(y, l)} /\ \A c \in C : ~ (c.level = l /\ c.tile = t)
  BY DEF LacksTile, Above
<1> DEFINE F == [c \in C |-> Numbered(x, c.level, c.tile)]
           m == 2 * levels
           N == 0 .. m - 1
           K == N \ {Numbered(x, l, t)}
<1>1. ASSUME NEW a \in Nat, a < levels, NEW u \in {TileAbove(x, a), TileAbove(y, a)},
             NEW b \in Nat, b < levels, NEW v \in {TileAbove(x, b), TileAbove(y, b)},
             Numbered(x, a, u) = Numbered(x, b, v)
      PROVE  a = b /\ u = v
  <2>1. a = b
    BY <1>1 DEF Numbered
  <2>2. u = TileAbove(x, a) <=> v = TileAbove(x, a)
    BY <1>1, <2>1 DEF Numbered
  <2> QED BY <1>1, <2>1, <2>2
<1>2. ASSUME NEW a \in Nat, a < levels, NEW u PROVE Numbered(x, a, u) \in N
  BY <1>2 DEF Numbered
<1>3. \A c \in C : Numbered(x, c.level, c.tile) \in K
  <2> SUFFICES ASSUME NEW c \in C PROVE Numbered(x, c.level, c.tile) \in K
    OBVIOUS
  <2>1. Numbered(x, c.level, c.tile) \in N
    BY <1>2, <1>a
  <2>2. Numbered(x, c.level, c.tile) # Numbered(x, l, t)
    BY <1>1, <1>a, <1>b
  <2> QED BY <2>1, <2>2
<1>4. \A c, d \in C : Numbered(x, c.level, c.tile) = Numbered(x, d.level, d.tile) => c = d
  BY <1>1, <1>a
<1>5. F \in Injection(C, K)
  BY <1>3, <1>4 DEF Injection, IsInjective
<1>6. m \in Nat /\ m >= 1 /\ Numbered(x, l, t) \in N
  BY <1>2
<1> HIDE DEF F, m
<1>7. IsFiniteSet(N) /\ Cardinality(N) = m
  <2>1. 0 \in Int /\ m - 1 \in Int /\ ~(0 > m - 1) /\ (m - 1) - 0 + 1 = m
    BY <1>6
  <2> QED BY <2>1, FS_Interval
<1> HIDE DEF N
<1>8. IsFiniteSet(K) /\ Cardinality(K) = m - 1
  BY <1>6, <1>7, FS_RemoveElement
<1>9. IsFiniteSet(C) /\ Cardinality(C) <= m - 1
  BY <1>5, <1>8, FS_Injection
<1>10. Cardinality(C) \in Nat
  BY <1>9, FS_CardinalityType
<1> QED BY <1>6, <1>9, <1>10 DEF m, FewerThan

----------------------------------------------------------------------------
\* A proof as it is asked for, its subtrees, and the two leaves that they are next to.
Requested(q) == q \in Proofs /\ IF q.kind = "inclusion" THEN q.index < q.size ELSE q.index <= q.size

RangesOf(q) ==
  IF q.kind = "inclusion" THEN InclusionRanges(q.index, q.size) ELSE ConsistencyRanges(q.index, q.size)

Leaf(q) == IF q.kind = "inclusion" \/ q.index = 0 THEN q.index ELSE q.index - 1

Leaves(q) == {Leaf(q), q.size - 1}

RootOf(r) == TreeHash(LeavesOf(MainLog), r[1], r[2])

Roots == {RootOf(r) : r \in Nat \X Nat}

LEMMA RequestedTypes ==
  ASSUME NEW q, Requested(q)
  PROVE  q.index \in Nat /\ q.size \in Nat /\ q.size >= 1 /\ q.size <= MaxLeaves /\ Leaves(q) \in SUBSET Nat
<1>1. q.index \in Nat /\ q.size \in Nat /\ q.size >= 1 /\ q.size <= MaxLeaves
  BY TilesAssumption DEF Requested, Proofs
<1>2. Leaf(q) \in Nat /\ q.size - 1 \in Nat
  BY <1>1 DEF Leaf
<1> QED BY <1>1, <1>2 DEF Leaves

LEMMA WholeTree ==
  ASSUME NEW n \in Nat
  PROVE  Node(0, n, n)
<1>1. Power[n] \in Nat /\ n < Power[n]
  BY PowerNat
<1>2. 0 = 0 * Power[n] /\ n <= Power[n] /\ 0 + n = n /\ 0 \in Nat
  BY <1>1
<1> QED BY <1>2 DEF Node

LEMMA PlacedWhole ==
  ASSUME NEW i \in Nat, NEW n \in Nat, i >= 1, i <= n, NEW t, t = <<i, 0, n, TRUE>>
  PROVE  t \in Placed /\ t[1] = i /\ t[2] = 0 /\ t[3] = n /\ t[4] = TRUE
<1>1. i \in Positive /\ n \in Positive /\ 0 \in Nat /\ TRUE \in BOOLEAN
  BY DEF Positive
<1>2. t \in Positive \X Nat \X Positive \X BOOLEAN
  BY <1>1
<1>3. t[1] = i /\ t[2] = 0 /\ t[3] = n /\ t[4] = TRUE
  OBVIOUS
<1> QED BY <1>2, <1>3 DEF Placed

LEMMA RangesGood ==
  ASSUME NEW q, Requested(q)
  PROVE  Good(RangesOf(q), Leaves(q), q.size)
<1> DEFINE n == q.size
<1>1. q.index \in Nat /\ n \in Nat /\ n >= 1
  BY RequestedTypes
<1>2. Node(0, n, n) /\ 0 + n <= n
  BY <1>1, WholeTree
<1>3. CASE q.kind = "inclusion"
  <2>1. q.index < n /\ Leaf(q) = q.index /\ q.index = 0 + q.index /\ 0 \in Nat
    BY <1>1, <1>3 DEF Requested, Leaf
  <2>2. RangesOf(q) = Descend(q.index, 0, n)
    BY <1>3, InclusionRangesCall DEF RangesOf
  <2> DEFINE i == q.index
  <2>3. i \in Nat /\ i < n /\ i = 0 + i
    BY <1>1, <2>1
  <2> HIDE DEF n, i
  <2>4. Good(Descend(i, 0, n), {i, n - 1}, n)
    BY <1>1, <1>2, <2>1, <2>3, DescendGood
  <2> QED BY <2>1, <2>2, <2>4 DEF Leaves, n, i
<1>4. CASE q.kind # "inclusion" /\ q.index = 0
  <2>1. RangesOf(q) = <<>>
    BY <1>4, ConsistencyRangesCall DEF RangesOf
  <2> QED BY <2>1, GoodEmpty
<1>5. CASE q.kind # "inclusion" /\ q.index # 0
  <2> DEFINE t == <<q.index, 0, n, TRUE>>
             x == q.index - 1
  <2>1. q.index <= n /\ Leaf(q) = x /\ x \in Nat /\ x + 1 = 0 + q.index
    BY <1>1, <1>5 DEF Requested, Leaf
  <2>2. RangesOf(q) = Walk(q.index, 0, n, TRUE)
    BY <1>5, ConsistencyRangesCall DEF RangesOf
  <2>3. t \in Placed /\ t[1] = q.index /\ t[2] = 0 /\ t[3] = n /\ t[4] = TRUE
    <3>1. q.index >= 1
      BY <1>1, <1>5
    <3> QED BY <1>1, <2>1, <3>1, PlacedWhole
  <2> HIDE DEF t, n, x
  <2>4. x + 1 = t[2] + t[1] /\ Node(t[2], t[3], n) /\ t[2] + t[3] <= n
    BY <1>2, <2>1, <2>3
  <2>5. Good(Walk(t[1], t[2], t[3], t[4]), {x, n - 1}, n)
    BY <1>1, <2>1, <2>3, <2>4, WalkGood
  <2> QED BY <2>1, <2>2, <2>3, <2>5 DEF Leaves, n
<1> QED BY <1>3, <1>4, <1>5

\* The path of the roots of all of its subtrees verifies what is true.
LEMMA TrueIsVerified ==
  ASSUME Requested(proof), TrueOf(proof), path \in Seq(Roots), Len(path) = Len(RangesOf(proof)),
         \A i \in 1 .. Len(path) : path[i] = RootOf(RangesOf(proof)[i])
  PROVE  Verified
<1> DEFINE n == proof.size
           i == proof.index
           w == RangesOf(proof)
           main == LeavesOf(MainLog)
           p == path
<1>1. i \in Nat /\ n \in Nat /\ n >= 1
  BY RequestedTypes
<1>2. Node(0, n, n) /\ 0 + n <= n
  BY <1>1, WholeTree
<1>3. p \in Seq(Roots) /\ Len(p) = Len(w)
  OBVIOUS
<1>4. Leads(main, p, w)
  <2>1. Len(p) \in Nat
    BY <1>3
  <2> QED BY <1>3, <2>1 DEF Leads, RootOf
<1>5. Rest(p, Len(w)) = <<>>
  BY <1>3, RestEnds
<1>6. CASE proof.kind = "inclusion"
  <2>1. i < n /\ i = 0 + i /\ 0 \in Nat
    BY <1>1, <1>6 DEF Requested
  <2>2. w = Descend(i, 0, n)
    BY <1>6, InclusionRangesCall DEF RangesOf
  <2>3. LeavesOf(proof.of)[i + 1] = main[i + 1]
    BY <1>6 DEF TrueOf
  <2> HIDE DEF n, i, w, main, p
  <2>4. Arrives(InclusionRoot(i, n, LeafHash(main[i + 1]), p), TreeHash(main, 0, n), Rest(p, Len(Descend(i, 0, n))))
    BY <1>1, <1>2, <1>3, <1>4, <2>1, <2>2, InclusionComplete
  <2>5. InclusionRoot(i, n, LeafHash(main[i + 1]), p) = {[root |-> TreeHash(main, 0, n), rest |-> <<>>]}
    BY <1>5, <2>2, <2>4 DEF Arrives
  <2>6. VerifyInclusion(LeavesOf(proof.of)[i + 1], i, n, p, TreeHash(main, 0, n))
    BY <2>1, <2>3, <2>5 DEF VerifyInclusion
  <2> QED BY <1>6, <2>6 DEF Verified, RootAt, n, i, main, p
<1>7. CASE proof.kind # "inclusion"
  <2> DEFINE known == RootAt(proof.of, i)
  <2>1. i <= n
    BY <1>7 DEF Requested
  <2>2. \A j \in 1 .. i : LeavesOf(proof.of)[0 + j] = main[0 + j]
    <3>1. \A j \in 1 .. i : LeavesOf(proof.of)[j] = main[j]
      BY <1>7 DEF TrueOf
    <3>2. \A j \in 1 .. i : 0 + j = j
      BY <1>1
    <3> HIDE DEF i, main
    <3> QED BY <3>1, <3>2
  <2>3. known = TreeHash(main, 0, i)
    <3>1. 0 \in Nat
      OBVIOUS
    <3> HIDE DEF i, main
    <3>2. TreeHash(LeavesOf(proof.of), 0, i) = TreeHash(main, 0, i)
      BY <1>1, <2>2, <3>1, TreeHashSame
    <3> QED BY <3>2 DEF RootAt
  <2> DEFINE newRoot == TreeHash(main, 0, n)
  <2>4. VerifyConsistencyPath(i, n, known, newRoot, p)
    <3>1. w = IF i = 0 THEN <<>> ELSE Walk(i, 0, n, TRUE)
      BY <1>7, ConsistencyRangesCall DEF RangesOf
    <3> HIDE DEF n, i, w, main, p, known
    <3>2. i = 0 => known = EmptyRoot
      <4>1. 0 \in Nat
        OBVIOUS
      <4> QED BY <2>3, <4>1, TreeHashDef
    <3>3. CASE i = n
      <4> DEFINE t == <<i, 0, n, TRUE>>
      <4>1. t \in Placed /\ t[1] = i /\ t[2] = 0 /\ t[3] = n /\ t[4] = TRUE
        <5>1. i >= 1
          BY <1>1, <3>3
        <5> QED BY <1>1, <2>1, <5>1, PlacedWhole
      <4> HIDE DEF t
      <4>2. Walk(t[1], t[2], t[3], t[4]) = <<>>
        BY <3>3, <4>1, WalkStep
      <4>3. w = <<>>
        BY <1>1, <3>1, <3>3, <4>1, <4>2
      <4>4. p = <<>>
        BY <1>3, <4>3
      <4> QED BY <2>1, <2>3, <3>2, <3>3, <4>4 DEF VerifyConsistencyPath
    <3>4. CASE i # n /\ i = 0
      <4>1. p = <<>>
        BY <1>3, <3>1, <3>4
      <4> QED BY <2>1, <3>2, <3>4, <4>1 DEF VerifyConsistencyPath
    <3>5. CASE i # n /\ i # 0
      <4> DEFINE t == <<i, 0, n, TRUE>>
                 x == i - 1
      <4>1. t \in Placed /\ t[1] = i /\ t[2] = 0 /\ t[3] = n /\ t[4] = TRUE
        <5>1. i >= 1
          BY <1>1, <2>1, <3>5
        <5> QED BY <1>1, <2>1, <5>1, PlacedWhole
      <4>a. x \in Nat /\ x + 1 = 0 + i
        BY <1>1, <3>5
      <4> HIDE DEF t, x
      <4>2. /\ x + 1 = t[2] + t[1] /\ Node(t[2], t[3], n) /\ t[2] + t[3] <= n
            /\ t[4] => known = TreeHash(main, t[2], t[1])
            /\ Leads(main, p, Walk(t[1], t[2], t[3], t[4]))
        BY <1>2, <1>4, <2>3, <3>1, <3>5, <4>1, <4>a
      <4>3. Compared(GrowthCall(known, p)[<<t[1], t[3], t[4]>>],
                     TreeHash(main, t[2], t[1]), TreeHash(main, t[2], t[3]),
                     Rest(p, Len(Walk(t[1], t[2], t[3], t[4]))))
        BY <1>1, <1>3, <4>1, <4>2, <4>a, ConsistencyComplete
      <4>4. Compared(GrowthCall(known, p)[<<i, n, TRUE>>], known, newRoot, <<>>)
        BY <1>5, <2>3, <3>1, <3>5, <4>1, <4>3
      <4>5. ConsistencyRoots(i, n, known, p) = {[old |-> known, new |-> newRoot, rest |-> <<>>]}
        BY <4>4, ConsistencyRootsCall DEF Compared
      <4> QED BY <2>1, <3>2, <3>5, <4>5 DEF VerifyConsistencyPath
    <3> QED BY <3>3, <3>4, <3>5
  <2> QED BY <1>7, <2>4 DEF Verified, RootAt, n, i, main, p
<1> QED BY <1>6, <1>7

\* Two roots of one size that differ are of different leaves.
LEMMA EqualRoots ==
  ASSUME NEW q, Requested(q), TrueOf(q), q.kind # "inclusion", q.index = q.size
  PROVE  RootAt(q.of, q.index) = RootAt(MainLog, q.size)
<1> DEFINE i == q.index
           a == LeavesOf(q.of)
           b == LeavesOf(MainLog)
<1>1. i \in Nat /\ 0 \in Nat
  BY RequestedTypes
<1>2. \A j \in 1 .. i : a[j] = b[j]
  BY DEF TrueOf
<1> HIDE DEF i, a, b
<1>3. \A j \in 1 .. i : 0 + j = j
  BY <1>1
<1>4. \A j \in 1 .. i : a[0 + j] = b[0 + j]
  BY <1>2, <1>3
<1>5. TreeHash(a, 0, i) = TreeHash(b, 0, i)
  BY <1>1, <1>4, TreeHashSame
<1> QED BY <1>5 DEF RootAt, i, a, b

----------------------------------------------------------------------------
\* The two stacks of range_root.  A subtree that is divided is left on the stack to be
\* joined, and its right part is what is divided next: the spine c of such subtrees.
LeftOf(r)  == <<r[1], Split(r[2])>>
RightOf(r) == <<r[1] + Split(r[2]), r[2] - Split(r[2])>>

Joining(r) == [range |-> r, join |-> TRUE]
Waiting(r) == [range |-> r, join |-> FALSE]

Entries == [range : Nat \X Nat, join : BOOLEAN]

Wants(q, r) == r \in Nat \X Nat /\ Beside(r, Leaves(q)) /\ r[1] + r[2] <= q.size

Spine(q, top, c) ==
  /\ c \in Seq(Nat \X Nat) /\ Len(c) >= 1 /\ c[1] = top
  /\ \A i \in 1 .. Len(c) : Wants(q, c[i])
  /\ \A i \in 1 .. Len(c) - 1 : ~ Perfect(c[i][2]) /\ c[i + 1] = RightOf(c[i])

Joins(c, m, s) == \A i \in 1 .. m : s[i] = Joining(c[i])

Lefts(c, m, h) == \A i \in 1 .. m : h[i] = RootOf(LeftOf(c[i]))

\* The right part is next; the left part is; or both are done.
AtRight(c, m, s, h) ==
  /\ Len(s) = m + 1 /\ Joins(c, m, s) /\ s[m + 1] = Waiting(c[m + 1])
  /\ Len(h) = m /\ Lefts(c, m, h)

AtLeft(c, m, s, h) ==
  /\ m >= 1 /\ Len(s) = m + 2 /\ Joins(c, m, s) /\ s[m + 1] = Waiting(c[m + 1])
  /\ s[m + 2] = Waiting(LeftOf(c[m]))
  /\ Len(h) = m - 1 /\ Lefts(c, m - 1, h)

AtJoin(c, m, s, h) ==
  /\ Len(s) = m /\ Joins(c, m, s)
  /\ Len(h) = m + 1 /\ Lefts(c, m, h) /\ h[m + 1] = RootOf(c[m + 1])

Shape(q, top, s, h) ==
  /\ s \in Seq(Entries) /\ h \in Seq(Roots)
  /\ \E c : /\ Spine(q, top, c)
            /\ \/ AtRight(c, Len(c) - 1, s, h) \/ AtLeft(c, Len(c) - 1, s, h) \/ AtJoin(c, Len(c) - 1, s, h)

LEMMA EntryFields ==
  ASSUME NEW r
  PROVE  /\ Joining(r).range = r /\ Joining(r).join = TRUE
         /\ Waiting(r).range = r /\ Waiting(r).join = FALSE
         /\ r \in Nat \X Nat => Joining(r) \in Entries /\ Waiting(r) \in Entries
BY DEF Joining, Waiting, Entries

LEMMA FrontLast ==
  ASSUME NEW S, NEW s \in Seq(S), NEW n \in Nat, Len(s) = n + 1
  PROVE  /\ Front(s) \in Seq(S) /\ Len(Front(s)) = n /\ (\A i \in 1 .. n : Front(s)[i] = s[i])
         /\ Last(s) = s[n + 1] /\ Last(s) \in S /\ s # <<>>
BY DEF Front, Last

LEMMA Appended ==
  ASSUME NEW S, NEW s \in Seq(S), NEW n \in Nat, Len(s) = n, NEW x \in S
  PROVE  /\ Append(s, x) \in Seq(S) /\ Len(Append(s, x)) = n + 1
         /\ (\A i \in 1 .. n : Append(s, x)[i] = s[i]) /\ Append(s, x)[n + 1] = x
OBVIOUS

LEMMA RootsType ==
  ASSUME NEW r \in Nat \X Nat
  PROVE  RootOf(r) \in Roots
BY DEF Roots

LEMMA WantedParts ==
  ASSUME NEW q, Requested(q), NEW r, Wants(q, r), ~ Perfect(r[2])
  PROVE  /\ Wants(q, LeftOf(r)) /\ Wants(q, RightOf(r)) /\ Perfect(LeftOf(r)[2])
         /\ RootOf(r) = NodeHash(RootOf(LeftOf(r)), RootOf(RightOf(r)))
<1> DEFINE a == r[1]
           n == r[2]
           k == Split(n)
           X == Leaves(q)
<1>1. r = <<a, n>> /\ a \in Nat /\ n \in Nat /\ Beside(r, X) /\ a + n <= q.size
  BY DEF Wants
<1>2. X \in SUBSET Nat /\ q.size \in Nat
  BY RequestedTypes
<1>3. ~ Perfect(n)
  OBVIOUS
<1>4. LeftOf(r) = <<a, k>> /\ RightOf(r) = <<a + k, n - k>>
  BY DEF LeftOf, RightOf
<1> HIDE DEF a, n, X
<1>5. n > 1 /\ Beside(<<a, k>>, X) /\ Beside(<<a + k, n - k>>, X)
  BY <1>1, <1>2, <1>3, BesideDivided
<1>6. k \in Nat /\ 1 <= k /\ k < n
  BY <1>1, <1>5, SplitRange
<1>7. PICK e \in Nat : k = Power[e]
  BY <1>1, <1>5, SplitPower
<1>8. TreeHash(LeavesOf(MainLog), a, n) =
        NodeHash(TreeHash(LeavesOf(MainLog), a, k), TreeHash(LeavesOf(MainLog), a + k, n - k))
  BY <1>1, <1>5, TreeHashDef
<1> HIDE DEF k
<1>9. Perfect(k)
  <2>1. e \in 0 .. k
    BY <1>6, <1>7, PowerNat
  <2> QED BY <1>7, <2>1 DEF Perfect
<1>10. a + k \in Nat /\ n - k \in Nat /\ a + k <= q.size /\ (a + k) + (n - k) <= q.size
  BY <1>1, <1>2, <1>6
<1>11. Wants(q, <<a, k>>)
  BY <1>1, <1>5, <1>6, <1>10 DEF Wants, X
<1>12. Wants(q, <<a + k, n - k>>)
  BY <1>1, <1>5, <1>6, <1>10 DEF Wants, X
<1>13. RootOf(r) = NodeHash(RootOf(<<a, k>>), RootOf(<<a + k, n - k>>))
  BY <1>8 DEF RootOf, a, n
<1> QED BY <1>4, <1>9, <1>11, <1>12, <1>13

\* range_root begins with the whole subtree,
LEMMA ShapeBegins ==
  ASSUME NEW q, NEW r, Wants(q, r)
  PROVE  Shape(q, r, <<Waiting(r)>>, <<>>)
<1> DEFINE c == <<r>>
           s == <<Waiting(r)>>
<1>1. r \in Nat \X Nat
  BY DEF Wants
<1>2. Waiting(r) \in Entries
  BY <1>1, EntryFields
<1>3. s \in Seq(Entries) /\ Len(s) = 1 /\ s[1] = Waiting(r)
  BY <1>2
<1>4. c \in Seq(Nat \X Nat) /\ Len(c) = 1 /\ c[1] = r
  BY <1>1
<1> HIDE DEF c, s
<1>5. Spine(q, r, c)
  BY <1>4 DEF Spine
<1>6. AtRight(c, 0, s, <<>>)
  BY <1>3, <1>4 DEF AtRight, Joins, Lefts
<1>7. Len(c) - 1 = 0
  BY <1>4
<1>8. Shape(q, r, s, <<>>)
  <2>1. <<>> \in Seq(Roots)
    OBVIOUS
  <2>2. AtRight(c, Len(c) - 1, s, <<>>)
    BY <1>6, <1>7
  <2> QED BY <1>3, <1>5, <2>1, <2>2, Zenon DEF Shape
<1> QED BY <1>8 DEF s

\* and ends with its root.
LEMMA ShapeEnds ==
  ASSUME NEW q, NEW r, NEW h, Shape(q, r, <<>>, h)
  PROVE  Len(h) = 1 /\ h[1] = RootOf(r)
<1>1. PICK c : /\ Spine(q, r, c)
               /\ \/ AtRight(c, Len(c) - 1, <<>>, h) \/ AtLeft(c, Len(c) - 1, <<>>, h)
                  \/ AtJoin(c, Len(c) - 1, <<>>, h)
  BY DEF Shape
<1> DEFINE m == Len(c) - 1
<1>2. m \in Nat /\ c[1] = r
  BY <1>1 DEF Spine
<1>3. AtJoin(c, m, <<>>, h) /\ m = 0
  BY <1>1, <1>2 DEF AtRight, AtLeft, AtJoin
<1> QED BY <1>2, <1>3 DEF AtJoin

\* What is on top to be looked up or divided is inside the tree, where a tile is found.
LEMMA ShapeTop ==
  ASSUME NEW q, Requested(q), NEW r, NEW s, NEW h, Shape(q, r, s, h), s # <<>>, ~ Last(s).join
  PROVE  Wants(q, Last(s).range)
<1>1. PICK c : /\ Spine(q, r, c)
               /\ \/ AtRight(c, Len(c) - 1, s, h) \/ AtLeft(c, Len(c) - 1, s, h)
                  \/ AtJoin(c, Len(c) - 1, s, h)
  BY DEF Shape
<1> DEFINE m == Len(c) - 1
<1>2. m \in Nat /\ Len(c) = m + 1
  BY <1>1 DEF Spine
<1>3. s \in Seq(Entries)
  BY DEF Shape
<1>a. \A i \in 1 .. m + 1 : Wants(q, c[i])
  BY <1>1, <1>2 DEF Spine
<1>b. \A i \in 1 .. m : ~ Perfect(c[i][2])
  BY <1>1, <1>2 DEF Spine
<1>c. AtRight(c, m, s, h) \/ AtLeft(c, m, s, h) \/ AtJoin(c, m, s, h)
  BY <1>1
<1> HIDE DEF m
<1>4. CASE AtRight(c, m, s, h)
  <2>1. Last(s) = Waiting(c[m + 1])
    BY <1>2, <1>3, <1>4, FrontLast DEF AtRight
  <2>2. m + 1 \in 1 .. m + 1
    BY <1>2
  <2> QED BY <1>a, <2>1, <2>2, EntryFields
<1>5. CASE AtLeft(c, m, s, h)
  <2>1. m + 1 \in Nat /\ m + 2 = (m + 1) + 1 /\ m \in 1 .. m /\ m \in 1 .. m + 1
    BY <1>2, <1>5 DEF AtLeft
  <2>2. Last(s) = Waiting(LeftOf(c[m]))
    BY <1>3, <1>5, <2>1, FrontLast DEF AtLeft
  <2>3. Wants(q, LeftOf(c[m]))
    BY <1>a, <1>b, <2>1, WantedParts
  <2> QED BY <2>2, <2>3, EntryFields
<1>6. CASE AtJoin(c, m, s, h)
  <2>1. m # 0
    BY <1>3, <1>6 DEF AtJoin
  <2>2. m - 1 \in Nat /\ m = (m - 1) + 1 /\ m \in 1 .. m
    BY <1>2, <2>1
  <2>3. Last(s) = s[m]
    BY <1>3, <1>6, <2>2, FrontLast DEF AtJoin
  <2>4. s[m] = Joining(c[m])
    BY <1>6, <2>2 DEF AtJoin, Joins
  <2> QED BY <2>3, <2>4, EntryFields
<1> QED BY <1>c, <1>4, <1>5, <1>6
LEMMA WaitingTop ==
  ASSUME NEW s, NEW r, Last(s) = Waiting(r)
  PROVE  Last(s).range = r
BY EntryFields

ThreeMore(S, f, t, m, g) ==
  /\ g \in Seq(S) /\ Len(g) = m + 3 /\ (\A i \in 1 .. m : g[i] = f[i])
  /\ g[m + 1] = t[1] /\ g[m + 2] = t[2] /\ g[m + 3] = t[3]

LEMMA Joined3 ==
  ASSUME NEW S, NEW f \in Seq(S), NEW t \in Seq(S), NEW m \in Nat, Len(f) = m, Len(t) = 3,
         NEW g, g = f \o t
  PROVE  ThreeMore(S, f, t, m, g)
<1>a. /\ g \in Seq(S) /\ Len(g) = Len(f) + Len(t)
      /\ \A i \in 1 .. Len(f) + Len(t) : g[i] = IF i <= Len(f) THEN f[i] ELSE t[i - Len(f)]
  BY ConcatProperties
<1>1. g \in Seq(S) /\ Len(g) = m + 3
  BY <1>a
<1>2. ASSUME NEW i \in 1 .. m PROVE g[i] = f[i]
  BY <1>a
<1>3. ASSUME NEW i \in 1 .. 3 PROVE g[m + i] = t[i]
  <2>1. m + i \in 1 .. Len(f) + Len(t) /\ ~ (m + i <= Len(f)) /\ (m + i) - Len(f) = i
    OBVIOUS
  <2> QED BY <1>a, <2>1
<1>4. 1 \in 1 .. 3 /\ 2 \in 1 .. 3 /\ 3 \in 1 .. 3
  OBVIOUS
<1> QED BY <1>1, <1>2, <1>3, <1>4 DEF ThreeMore

LEMMA ShapeOf ==
  ASSUME NEW q, NEW top, NEW s, NEW h, NEW c, NEW m, s \in Seq(Entries), h \in Seq(Roots),
         Spine(q, top, c), m = Len(c) - 1,
         AtRight(c, m, s, h) \/ AtLeft(c, m, s, h) \/ AtJoin(c, m, s, h)
  PROVE  Shape(q, top, s, h)
BY Zenon DEF Shape

\* The root of what is on top is found.
LEMMA ShapeFound ==
  ASSUME NEW q, Requested(q), NEW r, NEW s, NEW h, Shape(q, r, s, h), s # <<>>, ~ Last(s).join
  PROVE  Perfect(Last(s).range[2]) => Shape(q, r, Front(s), Append(h, RootOf(Last(s).range)))
<1>1. PICK c : /\ Spine(q, r, c)
               /\ \/ AtRight(c, Len(c) - 1, s, h) \/ AtLeft(c, Len(c) - 1, s, h)
                  \/ AtJoin(c, Len(c) - 1, s, h)
  BY DEF Shape
<1> DEFINE m == Len(c) - 1
           x == RootOf(Last(s).range)
           f == Front(s)
           g == Append(h, x)
<1>2. m \in Nat /\ Len(c) = m + 1
  BY <1>1 DEF Spine
<1>3. s \in Seq(Entries) /\ h \in Seq(Roots)
  BY DEF Shape
<1>4. AtRight(c, m, s, h) \/ AtLeft(c, m, s, h) \/ AtJoin(c, m, s, h)
  BY <1>1
<1>5. x \in Roots
  BY ShapeTop, RootsType DEF Wants
<1> HIDE DEF m, x, f, g
<1>a. \A n \in Nat : Len(s) = n + 1 =>
        f \in Seq(Entries) /\ Len(f) = n /\ (\A i \in 1 .. n : f[i] = s[i]) /\ Last(s) = s[n + 1]
  BY <1>3, FrontLast DEF f
<1>b. \A n \in Nat : Len(h) = n =>
        g \in Seq(Roots) /\ Len(g) = n + 1 /\ (\A i \in 1 .. n : g[i] = h[i]) /\ g[n + 1] = x
  BY <1>3, <1>5, Appended DEF g
<1>6. CASE AtRight(c, m, s, h)
  <2>1. /\ Len(s) = m + 1 /\ Joins(c, m, s) /\ s[m + 1] = Waiting(c[m + 1])
        /\ Len(h) = m /\ Lefts(c, m, h)
    BY <1>6 DEF AtRight
  <2>2. f \in Seq(Entries) /\ Len(f) = m /\ (\A i \in 1 .. m : f[i] = s[i]) /\ Last(s) = s[m + 1]
    BY <1>2, <1>a, <2>1
  <2>3. g \in Seq(Roots) /\ Len(g) = m + 1 /\ (\A i \in 1 .. m : g[i] = h[i]) /\ g[m + 1] = x
    BY <1>2, <1>b, <2>1
  <2>a. Last(s) = Waiting(c[m + 1])
    BY <2>1, <2>2
  <2>b. Last(s).range = c[m + 1]
    BY <2>a, WaitingTop
  <2>4. x = RootOf(c[m + 1])
    BY <2>b DEF x
  <2>5. Joins(c, m, f) /\ Lefts(c, m, g)
    BY <2>1, <2>2, <2>3 DEF Joins, Lefts
  <2>6. AtJoin(c, m, f, g)
    BY <2>2, <2>3, <2>4, <2>5 DEF AtJoin
  <2>7. Shape(q, r, f, g)
    BY <1>1, <2>2, <2>3, <2>6, ShapeOf DEF m
  <2> QED BY <2>7 DEF f, g, x
<1>7. CASE AtLeft(c, m, s, h)
  <2> DEFINE j == m + 1
             l == m - 1
  <2>1. /\ m >= 1 /\ Len(s) = m + 2 /\ Joins(c, m, s) /\ s[j] = Waiting(c[j])
        /\ s[m + 2] = Waiting(LeftOf(c[m])) /\ Len(h) = l /\ Lefts(c, l, h)
    BY <1>7 DEF AtLeft
  <2>2. /\ j \in Nat /\ m + 2 = j + 1 /\ l \in Nat /\ l + 1 = m /\ m \in 1 .. j /\ j \in 1 .. j
        /\ \A i \in 1 .. m : i \in 1 .. j /\ (i \in 1 .. l \/ i = m)
    BY <1>2, <2>1
  <2> HIDE DEF j, l
  <2>3. f \in Seq(Entries) /\ Len(f) = j /\ (\A i \in 1 .. j : f[i] = s[i]) /\ Last(s) = s[j + 1]
    BY <1>a, <2>1, <2>2
  <2>4. g \in Seq(Roots) /\ Len(g) = l + 1 /\ (\A i \in 1 .. l : g[i] = h[i]) /\ g[l + 1] = x
    BY <1>b, <2>1, <2>2
  <2>a. Last(s) = Waiting(LeftOf(c[m]))
    BY <2>1, <2>2, <2>3
  <2>b. Last(s).range = LeftOf(c[m])
    BY <2>a, WaitingTop
  <2>5. x = RootOf(LeftOf(c[m]))
    BY <2>b DEF x
  <2>6. Joins(c, m, f) /\ f[j] = Waiting(c[j])
    BY <2>1, <2>2, <2>3 DEF Joins
  <2>7. Lefts(c, m, g)
    BY <2>1, <2>2, <2>4, <2>5 DEF Lefts
  <2>8. AtRight(c, m, f, g)
    BY <2>2, <2>3, <2>4, <2>6, <2>7 DEF AtRight, j
  <2>9. Shape(q, r, f, g)
    BY <1>1, <2>3, <2>4, <2>8, ShapeOf DEF m
  <2> QED BY <2>9 DEF f, g, x
<1>8. CASE AtJoin(c, m, s, h)
  <2>1. m # 0
    BY <1>3, <1>8 DEF AtJoin
  <2>2. m - 1 \in Nat /\ m = (m - 1) + 1 /\ m \in 1 .. m
    BY <1>2, <2>1
  <2>3. Last(s) = s[m]
    BY <1>3, <1>8, <2>2, FrontLast DEF AtJoin
  <2>4. s[m] = Joining(c[m])
    BY <1>8, <2>2 DEF AtJoin, Joins
  <2> QED BY <2>3, <2>4, EntryFields
<1> QED BY <1>4, <1>6, <1>7, <1>8

\* What is on top is divided.
LEMMA ShapeDivided ==
  ASSUME NEW q, Requested(q), NEW r, NEW s, NEW h, Shape(q, r, s, h), s # <<>>, ~ Last(s).join,
         ~ Perfect(Last(s).range[2])
  PROVE  Shape(q, r, Front(s) \o <<Joining(Last(s).range), Waiting(RightOf(Last(s).range)),
                                   Waiting(LeftOf(Last(s).range))>>, h)
<1>1. PICK c : /\ Spine(q, r, c)
               /\ \/ AtRight(c, Len(c) - 1, s, h) \/ AtLeft(c, Len(c) - 1, s, h)
                  \/ AtJoin(c, Len(c) - 1, s, h)
  BY DEF Shape
<1> DEFINE m == Len(c) - 1
           x == Last(s).range
           f == Front(s)
           t == <<Joining(x), Waiting(RightOf(x)), Waiting(LeftOf(x))>>
           g == f \o t
           d == Append(c, RightOf(x))
<1>2. m \in Nat /\ Len(c) = m + 1 /\ c \in Seq(Nat \X Nat) /\ c[1] = r
  BY <1>1 DEF Spine
<1>3. s \in Seq(Entries) /\ h \in Seq(Roots)
  BY DEF Shape
<1>4. AtRight(c, m, s, h) \/ AtLeft(c, m, s, h) \/ AtJoin(c, m, s, h)
  BY <1>1
<1>5. Wants(q, x) /\ ~ Perfect(x[2])
  BY ShapeTop
<1>6. Wants(q, LeftOf(x)) /\ Wants(q, RightOf(x))
  BY <1>5, WantedParts
<1>a. \A i \in 1 .. m + 1 : Wants(q, c[i])
  BY <1>1, <1>2 DEF Spine
<1>b. \A i \in 1 .. m : ~ Perfect(c[i][2]) /\ c[i + 1] = RightOf(c[i])
  BY <1>1, <1>2 DEF Spine
<1>7. t \in Seq(Entries) /\ Len(t) = 3 /\ t[1] = Joining(x) /\ t[2] = Waiting(RightOf(x)) /\ t[3] = Waiting(LeftOf(x))
  <2>1. Joining(x) \in Entries /\ Waiting(RightOf(x)) \in Entries /\ Waiting(LeftOf(x)) \in Entries
    BY <1>5, <1>6, EntryFields DEF Wants
  <2> QED BY <2>1
<1> HIDE DEF m, x, f, t
<1>8. AtRight(c, m, s, h)
  <2>1. ASSUME AtLeft(c, m, s, h) PROVE FALSE
    <3>1. m + 1 \in Nat /\ m + 2 = (m + 1) + 1 /\ m \in 1 .. m /\ m \in 1 .. m + 1
      BY <1>2, <2>1 DEF AtLeft
    <3>2. Last(s) = Waiting(LeftOf(c[m]))
      BY <1>3, <2>1, <3>1, FrontLast DEF AtLeft
    <3>3. Perfect(LeftOf(c[m])[2])
      BY <1>a, <1>b, <3>1, WantedParts
    <3>4. x = LeftOf(c[m])
      BY <3>2, EntryFields DEF x
    <3> QED BY <1>5, <3>3, <3>4
  <2>2. ASSUME AtJoin(c, m, s, h) PROVE FALSE
    <3>1. m # 0
      BY <1>3, <2>2 DEF AtJoin
    <3>2. m - 1 \in Nat /\ m = (m - 1) + 1 /\ m \in 1 .. m
      BY <1>2, <3>1
    <3>3. Last(s) = s[m]
      BY <1>3, <2>2, <3>2, FrontLast DEF AtJoin
    <3>4. s[m] = Joining(c[m])
      BY <2>2, <3>2 DEF AtJoin, Joins
    <3> QED BY <3>3, <3>4, EntryFields
  <2> QED BY <1>4, <2>1, <2>2
<1>9. /\ Len(s) = m + 1 /\ Joins(c, m, s) /\ s[m + 1] = Waiting(c[m + 1])
      /\ Len(h) = m /\ Lefts(c, m, h)
  BY <1>8 DEF AtRight
<1>10. f \in Seq(Entries) /\ Len(f) = m /\ (\A i \in 1 .. m : f[i] = s[i]) /\ Last(s) = s[m + 1]
  BY <1>2, <1>3, <1>9, FrontLast DEF f
<1>11. x = c[m + 1]
  <2>1. Last(s) = Waiting(c[m + 1])
    BY <1>9, <1>10
  <2> QED BY <2>1, WaitingTop DEF x
<1>g. g = f \o t
  OBVIOUS
<1> HIDE DEF g
<1>12. /\ g \in Seq(Entries) /\ Len(g) = m + 3 /\ (\A i \in 1 .. m : g[i] = f[i])
       /\ g[m + 1] = t[1] /\ g[m + 2] = t[2] /\ g[m + 3] = t[3]
  <2>1. m \in Nat /\ f \in Seq(Entries) /\ t \in Seq(Entries) /\ Len(f) = m /\ Len(t) = 3
    BY <1>2, <1>7, <1>10
  <2>2. ThreeMore(Entries, f, t, m, g)
    BY <1>g, <2>1, Joined3, Zenon
  <2> QED BY <2>2 DEF ThreeMore
<1>13. RightOf(x) \in Nat \X Nat
  BY <1>6 DEF Wants
<1>14. /\ d \in Seq(Nat \X Nat) /\ Len(d) = m + 2 /\ (\A i \in 1 .. m + 1 : d[i] = c[i])
       /\ d[m + 2] = RightOf(x)
  BY <1>2, <1>13
<1> HIDE DEF d
<1>15. Spine(q, r, d)
  <2>a. m \in Nat /\ Len(d) = m + 2 /\ Len(d) - 1 = m + 1
    BY <1>2, <1>14
  <2>b. /\ \A i \in 1 .. m + 2 : i \in 1 .. m + 1 \/ i = m + 2
        /\ \A i \in 1 .. m + 1 : i \in 1 .. m \/ i = m + 1
        /\ \A i \in 1 .. m : i + 1 \in 1 .. m + 1
    BY <2>a
  <2>1. ASSUME NEW i \in 1 .. Len(d) PROVE Wants(q, d[i])
    <3>1. CASE i \in 1 .. m + 1
      BY <1>14, <1>a, <3>1
    <3>2. CASE i = m + 2
      BY <1>6, <1>14, <3>2
    <3> QED BY <2>a, <2>b, <3>1, <3>2
  <2>2. ASSUME NEW i \in 1 .. Len(d) - 1 PROVE ~ Perfect(d[i][2]) /\ d[i + 1] = RightOf(d[i])
    <3>0. i \in 1 .. m + 1
      BY <2>a
    <3>1. i \in 1 .. m + 1 /\ d[i] = c[i]
      BY <1>14, <3>0
    <3>2. CASE i \in 1 .. m
      <4>0. i + 1 \in 1 .. m + 1
        BY <2>b, <3>2
      <4>1. d[i + 1] = c[i + 1]
        BY <1>14, <4>0
      <4> QED BY <1>b, <3>1, <3>2, <4>1
    <3>3. CASE i = m + 1
      <4>1. i + 1 = m + 2
        BY <1>2, <3>3
      <4> QED BY <1>5, <1>11, <1>14, <3>1, <3>3, <4>1
    <3> QED BY <2>b, <3>1, <3>2, <3>3
  <2>3. 1 \in 1 .. m + 1 /\ Len(d) >= 1
    BY <2>a
  <2>4. d[1] = r
    BY <1>2, <1>14, <2>3
  <2> QED BY <1>14, <2>1, <2>2, <2>3, <2>4 DEF Spine
<1> DEFINE n == m + 1
<1>16. n = Len(d) - 1 /\ n >= 1 /\ Len(g) = n + 2 /\ Len(h) = n - 1 /\ m + 2 = n + 1 /\ n - 1 = m /\ m + 3 = n + 2
  <2>1. Len(d) = m + 2 /\ Len(g) = m + 3 /\ Len(h) = m /\ m \in Nat
    BY <1>2, <1>9, <1>12, <1>14
  <2>2. n >= 1 /\ m + 2 = n + 1 /\ n - 1 = m /\ m + 3 = n + 2 /\ n = (m + 2) - 1
    BY <2>1
  <2> QED BY <2>1, <2>2
<1>17. Joins(d, n, g)
  <2> SUFFICES ASSUME NEW i \in 1 .. n PROVE g[i] = Joining(d[i])
    BY DEF Joins
  <2>1. d[i] = c[i]
    BY <1>14
  <2>2. CASE i \in 1 .. m
    BY <1>9, <1>10, <1>12, <2>1, <2>2 DEF Joins
  <2>3. CASE i = m + 1
    BY <1>7, <1>11, <1>12, <2>1, <2>3
  <2> QED BY <1>2, <2>2, <2>3
<1>18. g[n + 1] = Waiting(d[n + 1]) /\ d[n] = x /\ g[n + 2] = Waiting(LeftOf(d[n]))
  <2>1. n \in 1 .. m + 1
    BY <1>2
  <2>2. d[n] = x
    BY <1>11, <1>14, <2>1
  <2> QED BY <1>7, <1>12, <1>14, <1>16, <2>2
<1>19. Lefts(d, n - 1, h)
  <2>1. \A i \in 1 .. m : i \in 1 .. m + 1
    BY <1>2
  <2> QED BY <1>9, <1>14, <1>16, <2>1 DEF Lefts
<1> HIDE DEF n
<1>20. AtLeft(d, n, g, h)
  BY <1>16, <1>17, <1>18, <1>19 DEF AtLeft
<1>21. Shape(q, r, g, h)
  BY <1>3, <1>12, <1>15, <1>16, <1>20, ShapeOf
<1> QED BY <1>21 DEF g, f, t, x

\* The two roots on top are joined.
LEMMA ShapeJoined ==
  ASSUME NEW q, Requested(q), NEW r, NEW s, NEW h, Shape(q, r, s, h), s # <<>>, Last(s).join
  PROVE  /\ ~ (Len(h) < 2)
         /\ Shape(q, r, Front(s), Append(Front(Front(h)), NodeHash(Last(Front(h)), Last(h))))
<1>1. PICK c : /\ Spine(q, r, c)
               /\ \/ AtRight(c, Len(c) - 1, s, h) \/ AtLeft(c, Len(c) - 1, s, h)
                  \/ AtJoin(c, Len(c) - 1, s, h)
  BY DEF Shape
<1> DEFINE m == Len(c) - 1
           f == Front(s)
           u == Front(h)
           v == Front(u)
           x == NodeHash(Last(u), Last(h))
           g == Append(v, x)
           d == Front(c)
<1>2. m \in Nat /\ Len(c) = m + 1 /\ c \in Seq(Nat \X Nat) /\ c[1] = r
  BY <1>1 DEF Spine
<1>3. s \in Seq(Entries) /\ h \in Seq(Roots)
  BY DEF Shape
<1>4. AtRight(c, m, s, h) \/ AtLeft(c, m, s, h) \/ AtJoin(c, m, s, h)
  BY <1>1
<1>a. \A i \in 1 .. m + 1 : Wants(q, c[i])
  BY <1>1, <1>2 DEF Spine
<1>b. \A i \in 1 .. m : ~ Perfect(c[i][2]) /\ c[i + 1] = RightOf(c[i])
  BY <1>1, <1>2 DEF Spine
<1> HIDE DEF m, u, d, f, v, x, g
<1>c. \A n \in Nat : Len(h) = n + 1 =>
        u \in Seq(Roots) /\ Len(u) = n /\ (\A i \in 1 .. n : u[i] = h[i]) /\ Last(h) = h[n + 1]
  BY <1>3, FrontLast DEF u
<1>d. \A n \in Nat : Len(c) = n + 1 =>
        d \in Seq(Nat \X Nat) /\ Len(d) = n /\ (\A i \in 1 .. n : d[i] = c[i])
  <2> DEFINE S == Nat \X Nat
  <2>1. c \in Seq(S)
    BY <1>2
  <2> HIDE DEF S
  <2>2. \A n \in Nat : Len(c) = n + 1 =>
          d \in Seq(S) /\ Len(d) = n /\ (\A i \in 1 .. n : d[i] = c[i])
    BY <2>1, FrontLast DEF d
  <2> QED BY <2>2 DEF S
<1>5. AtJoin(c, m, s, h)
  <2>1. ASSUME AtLeft(c, m, s, h) PROVE FALSE
    <3>1. m + 1 \in Nat /\ m + 2 = (m + 1) + 1
      BY <1>2
    <3>2. Last(s) = Waiting(LeftOf(c[m]))
      BY <1>3, <2>1, <3>1, FrontLast DEF AtLeft
    <3> QED BY <3>2, EntryFields
  <2>2. ASSUME AtRight(c, m, s, h) PROVE FALSE
    <3>1. Last(s) = Waiting(c[m + 1])
      BY <1>2, <1>3, <2>2, FrontLast DEF AtRight
    <3> QED BY <3>1, EntryFields
  <2> QED BY <1>4, <2>1, <2>2
<1>6. /\ Len(s) = m /\ Joins(c, m, s)
      /\ Len(h) = m + 1 /\ Lefts(c, m, h) /\ h[m + 1] = RootOf(c[m + 1])
  BY <1>5 DEF AtJoin
<1>7. m # 0
  BY <1>3, <1>6
<1> DEFINE l == m - 1
<1>8. /\ l \in Nat /\ l + 1 = m /\ m \in 1 .. m /\ m \in 1 .. m + 1 /\ ~(Len(h) < 2)
      /\ \A i \in 1 .. l : i \in 1 .. m
  BY <1>2, <1>6, <1>7
<1> HIDE DEF l
<1>9. f \in Seq(Entries) /\ Len(f) = l /\ (\A i \in 1 .. l : f[i] = s[i])
  BY <1>3, <1>6, <1>8, FrontLast DEF f
<1>10. u \in Seq(Roots) /\ Len(u) = m /\ (\A i \in 1 .. m : u[i] = h[i]) /\ Last(h) = h[m + 1]
  BY <1>2, <1>6, <1>c
<1>11. d \in Seq(Nat \X Nat) /\ Len(d) = m /\ (\A i \in 1 .. m : d[i] = c[i])
  BY <1>2, <1>d
<1>12. v \in Seq(Roots) /\ Len(v) = l /\ (\A i \in 1 .. l : v[i] = u[i]) /\ Last(u) = u[m]
  BY <1>8, <1>10, FrontLast DEF v
<1>13. x = RootOf(c[m])
  <2>1. h[m] = RootOf(LeftOf(c[m]))
    BY <1>6, <1>8 DEF Lefts
  <2>2. x = NodeHash(RootOf(LeftOf(c[m])), RootOf(RightOf(c[m])))
    BY <1>6, <1>8, <1>10, <1>12, <1>b, <2>1 DEF x
  <2>3. Wants(q, c[m]) /\ ~ Perfect(c[m][2])
    BY <1>8, <1>a, <1>b
  <2> QED BY <2>2, <2>3, WantedParts
<1>14. x \in Roots
  <2>1. c[m] \in Nat \X Nat
    BY <1>8, <1>a DEF Wants
  <2> QED BY <1>13, <2>1, RootsType
<1>15. g \in Seq(Roots) /\ Len(g) = l + 1 /\ (\A i \in 1 .. l : g[i] = v[i]) /\ g[l + 1] = x
  BY <1>8, <1>12, <1>14, Appended DEF g
<1>16. Spine(q, r, d)
  <2>a. m \in Nat /\ Len(d) = m
    BY <1>2, <1>11
  <2>b. /\ \A i \in 1 .. m : i \in 1 .. m + 1
        /\ \A i \in 1 .. m - 1 : i \in 1 .. m /\ i + 1 \in 1 .. m
    BY <2>a
  <2>1. ASSUME NEW i \in 1 .. Len(d) PROVE Wants(q, d[i])
    <3>1. i \in 1 .. m /\ i \in 1 .. m + 1
      BY <2>a, <2>b
    <3> QED BY <1>11, <1>a, <3>1
  <2>2. ASSUME NEW i \in 1 .. Len(d) - 1 PROVE ~ Perfect(d[i][2]) /\ d[i + 1] = RightOf(d[i])
    <3>0. i \in 1 .. m - 1
      BY <2>a
    <3>1. i \in 1 .. m /\ i + 1 \in 1 .. m
      BY <2>b, <3>0
    <3>2. d[i] = c[i] /\ d[i + 1] = c[i + 1]
      BY <1>11, <3>1
    <3> QED BY <1>b, <3>1, <3>2
  <2>3. 1 \in 1 .. m /\ Len(d) >= 1
    BY <1>7, <2>a
  <2>4. d[1] = r
    BY <1>2, <1>11, <2>3
  <2> QED BY <1>11, <2>1, <2>2, <2>3, <2>4 DEF Spine
<1>17. l = Len(d) - 1
  BY <1>8, <1>11 DEF l
<1>18. Joins(d, l, f)
  BY <1>6, <1>8, <1>9, <1>11 DEF Joins
<1>19. Lefts(d, l, g)
  BY <1>6, <1>8, <1>10, <1>11, <1>12, <1>15 DEF Lefts
<1>20. g[l + 1] = RootOf(d[l + 1])
  BY <1>8, <1>11, <1>13, <1>15
<1>21. AtJoin(d, l, f, g)
  BY <1>9, <1>15, <1>18, <1>19, <1>20 DEF AtJoin
<1>22. Shape(q, r, f, g)
  BY <1>9, <1>15, <1>16, <1>17, <1>21, ShapeOf
<1> QED BY <1>8, <1>22 DEF f, g, v, u, x

----------------------------------------------------------------------------
\* The levels of tiles that a tree can have.
Levels ==
  CHOOSE levels \in 0 .. MaxTiles : MaxLeaves < Power[TileHeight * levels] /\ 2 * levels <= MaxTiles

LEMMA LevelsRange == Levels \in Nat /\ MaxLeaves < Power[TileHeight * Levels] /\ 2 * Levels <= MaxTiles
<1> DEFINE P(l) == MaxLeaves < Power[TileHeight * l] /\ 2 * l <= MaxTiles
<1>1. \E l \in 0 .. MaxTiles : P(l)
  BY TilesAssumption
<1>2. Levels = CHOOSE l \in 0 .. MaxTiles : P(l)
  BY DEF Levels
<1> HIDE DEF P
<1>3. Levels \in 0 .. MaxTiles /\ P(Levels)
  BY <1>1, <1>2, Zenon
<1> QED BY <1>3, TilesAssumption DEF P

LEMMA LevelBelow ==
  ASSUME NEW f \in Nat, Power[f] <= MaxLeaves
  PROVE  f \div TileHeight < Levels
<1> DEFINE a == f \div TileHeight
           g == TileHeight * Levels
<1>1. TileHeight \in Nat /\ TileHeight > 0 /\ MaxLeaves \in Nat
  BY TilesAssumption
<1>2. a \in Nat /\ f % TileHeight \in Nat /\ f = a * TileHeight + (f % TileHeight)
  BY <1>1, Divided
<1>3. Levels \in Nat /\ g \in Nat /\ MaxLeaves < Power[g]
  BY <1>1, LevelsRange
<1>4. Power[f] \in Nat /\ Power[g] \in Nat
  BY <1>3, PowerNat
<1>5. ~ (Power[g] <= Power[f])
  BY <1>1, <1>3, <1>4
<1> HIDE DEF g
<1>6. ~ (g <= f)
  BY <1>3, <1>5, PowerOrder
<1>7. a * TileHeight <= f
  <2> DEFINE b == a * TileHeight
  <2>1. b \in Nat /\ f = b + (f % TileHeight)
    BY <1>1, <1>2
  <2> HIDE DEF b, a
  <2> QED BY <1>2, <2>1 DEF b
<1> HIDE DEF a
<1>8. a * TileHeight \in Nat /\ a * TileHeight < TileHeight * Levels
  BY <1>1, <1>2, <1>3, <1>6, <1>7 DEF g
<1>9. a < Levels
  <2>1. CASE Levels <= a
    <3>1. Levels * TileHeight <= a * TileHeight
      BY <1>1, <1>2, <1>3, <2>1
    <3> QED BY <1>1, <1>2, <1>3, <1>8, <3>1
  <2> QED BY <1>2, <1>3, <2>1
<1> QED BY <1>9 DEF a

\* The tile that a perfect subtree of a proof is in: one above one of the two leaves, which
\* gives the root.
Found(q, r, p) ==
  /\ ~ (r[1] % r[2] # 0) /\ ~ (r[1] + r[2] > q.size) /\ ~ (p.offset + p.count > p.width)
  /\ p.level \in Nat /\ p.level < Levels /\ p.tile \in Nat /\ p.width \in Nat /\ p.width <= TileWidth
  /\ \E x \in Leaves(q) : p.tile = TileAbove(x, p.level)
  /\ \A w \in Nat : p.width <= w =>
       JoinPairs(SubSeq(TileOf(MainLog, p, w), p.offset + 1, p.offset + p.count)) = RootOf(r)

LEMMA PlaceFound ==
  ASSUME Requested(proof), NEW r, Wants(proof, r), Perfect(r[2])
  PROVE  Found(proof, r, Place(r[1], r[2])) /\ Place(r[1], r[2]).width = WidthAt(Place(r[1], r[2]).level, Place(r[1], r[2]).tile)
<1> DEFINE n == proof.size
           X == Leaves(proof)
           a == r[1]
           b == r[2]
           p == Place(a, b)
<1>1. n \in Nat /\ n <= MaxLeaves /\ X \in SUBSET Nat /\ MaxLeaves \in Nat
  BY RequestedTypes, TilesAssumption
<1>2. r = <<a, b>> /\ a \in Nat /\ b \in Nat /\ Beside(r, X) /\ a + b <= n
  BY DEF Wants
<1>3. \E f, c \in Nat : \E x \in X : b = Power[f] /\ a = c * Power[f] /\ Near(a, f, x)
  <2>1. Beside(<<a, b>>, X) /\ Perfect(b)
    BY <1>2
  <2> HIDE DEF a, b, X
  <2> QED BY <1>1, <2>1, BesidePerfect
<1>4. PICK f \in Nat, c \in Nat : \E x \in X : b = Power[f] /\ a = c * Power[f] /\ Near(a, f, x)
  BY <1>3
<1>5. PICK x \in X : b = Power[f] /\ a = c * Power[f] /\ Near(a, f, x)
  BY <1>4
<1> HIDE DEF n, X, a, b
<1>6. x \in Nat /\ n = proof.size /\ proof.size \in Nat /\ c * Power[f] + Power[f] <= proof.size /\ Near(c * Power[f], f, x)
  BY <1>1, <1>2, <1>5 DEF n
<1> DEFINE o == Place(c * Power[f], Power[f])
<1>7. p = o
  BY <1>5
<1>8. /\ o.level = f \div TileHeight /\ o.level \in Nat /\ o.tile \in Nat /\ o.offset \in Nat
      /\ o.count = Power[f % TileHeight]
      /\ o.offset + o.count <= o.width
      /\ o.width = WidthAt(o.level, o.tile) /\ o.width <= TileWidth /\ o.width \in Int
  BY <1>6, PlaceOf
<1>9. o.tile = TileAbove(x, o.level)
  BY <1>6, PlaceBeside
<1>10. ASSUME NEW w \in Nat, o.width <= w
       PROVE  JoinPairs(SubSeq(TileOf(MainLog, o, w), o.offset + 1, o.offset + o.count))
                = TreeHash(LeavesOf(MainLog), c * Power[f], Power[f])
  BY <1>6, <1>10, TileServes
<1>11. RootOf(r) = TreeHash(LeavesOf(MainLog), c * Power[f], Power[f])
  BY <1>5 DEF RootOf, a, b
<1>12. Power[f] \in Nat /\ Power[f] >= 1 /\ c * Power[f] \in Nat
  BY PowerNat
<1>13. (c * Power[f]) % Power[f] = 0
  <2> DEFINE y == Power[f]
  <2> HIDE DEF y
  <2>1. y \in Nat /\ 0 < y /\ 0 \in Nat /\ c * y = c * y + 0
    BY <1>12 DEF y
  <2>2. (c * y) % y = 0
    BY <2>1, Remainder
  <2> QED BY <2>2 DEF y
<1>14. o.level < Levels
  <2>1. Power[f] <= MaxLeaves
    BY <1>1, <1>6, <1>12
  <2> QED BY <1>8, <2>1, LevelBelow
<1>15. TileHeight \in Nat /\ TileHeight > 0
  BY TilesAssumption
<1>16. f % TileHeight \in Nat
  BY <1>15, Divided
<1>17. o.count \in Nat
  BY <1>8, <1>16, PowerNat
<1> HIDE DEF o, p
<1>18. o.width \in Nat /\ ~ (o.offset + o.count > o.width)
  BY <1>8, <1>17
<1>19. r[1] = a /\ r[2] = b
  BY DEF a, b
<1>20. ~ (a % b # 0) /\ ~ (a + b > n)
  <2>1. a % b = 0
    BY <1>5, <1>13
  <2> QED BY <1>1, <1>2, <2>1
<1>21. Found(proof, r, o)
  <2>1. \A w \in Nat : o.width <= w =>
          JoinPairs(SubSeq(TileOf(MainLog, o, w), o.offset + 1, o.offset + o.count)) = RootOf(r)
    BY <1>10, <1>11
  <2>2. \E y \in Leaves(proof) : o.tile = TileAbove(y, o.level)
    BY <1>9 DEF X
  <2>3. ~ (r[1] % r[2] # 0) /\ ~ (r[1] + r[2] > proof.size)
    BY <1>19, <1>20 DEF n
  <2> QED BY <1>8, <1>14, <1>18, <2>1, <2>2, <2>3 DEF Found
<1>22. Place(r[1], r[2]) = o
  BY <1>7 DEF p, a, b
<1> QED BY <1>8, <1>21, <1>22

\* The tiles that were read: of the log, as wide as the tree of the proof has them, and
\* never more than there is room for.
WidthIn(q, level, tile) ==
  LET have == (q.size \div Power[TileHeight * level]) - tile * TileWidth
  IN IF have < TileWidth THEN have ELSE TileWidth

KeptTile(q, c) ==
  /\ c.level \in Nat /\ c.level < Levels
  /\ \E x \in Leaves(q) : c.tile = TileAbove(x, c.level)
  /\ \E w \in Nat : WidthIn(q, c.level, c.tile) <= w /\ c.hashes = TileOf(MainLog, c, w)

Kept(q, C) ==
  /\ \A c \in C : KeptTile(q, c)
  /\ \A c, d \in C : c.level = d.level /\ c.tile = d.tile => c = d

LEMMA TileOfSame ==
  ASSUME NEW p, NEW c, p.level = c.level, p.tile = c.tile, NEW w, NEW h
  PROVE  TileOf(h, p, w) = TileOf(h, c, w)
BY DEF TileOf

LEMMA KeptRoom ==
  ASSUME NEW q, NEW C, Kept(q, C), NEW l \in Nat, l < Levels, NEW t,
         \E x \in Leaves(q) : t = TileAbove(x, l),
         {c \in C : c.level = l /\ c.tile = t} = {}
  PROVE  ~ (Cardinality(C) >= MaxTiles)
<1> DEFINE x == Leaf(q)
           y == q.size - 1
<1>1. Leaves(q) = {x, y}
  BY DEF Leaves
<1> HIDE DEF x, y
<1>2. \A c \in C : c.level \in Nat /\ c.level < Levels /\ c.tile \in {TileAbove(x, c.level), TileAbove(y, c.level)}
  BY <1>1 DEF Kept, KeptTile
<1>3. \A c, d \in C : c.level = d.level /\ c.tile = d.tile => c = d
  BY DEF Kept
<1>4. t \in {TileAbove(x, l), TileAbove(y, l)} /\ \A c \in C : ~ (c.level = l /\ c.tile = t)
  BY <1>1
<1>5. Levels \in Nat /\ 2 * Levels <= MaxTiles /\ MaxTiles \in Nat
  BY LevelsRange, TilesAssumption
<1>6. IsFiniteSet(C) /\ Cardinality(C) < 2 * Levels
  <2>1. l \in Nat /\ l < Levels
    OBVIOUS
  <2>2. TilesBelow(C, x, y, Levels) /\ t \in Above(x, y, l) /\ LacksTile(C, l, t)
    BY <1>2, <1>3, <1>4 DEF TilesBelow, Above, LacksTile
  <2>3. FewerThan(C, 2 * Levels)
    BY <1>5, <2>1, <2>2, RoomForTile, Zenon
  <2> QED BY <2>3 DEF FewerThan
<1>7. Cardinality(C) \in Nat
  BY <1>6, FS_CardinalityType
<1> QED BY <1>5, <1>6, <1>7

LEMMA KeptMore ==
  ASSUME NEW q, NEW C, Kept(q, C), NEW p, p.level \in Nat, p.level < Levels,
         \E x \in Leaves(q) : p.tile = TileAbove(x, p.level),
         {c \in C : c.level = p.level /\ c.tile = p.tile} = {},
         NEW w \in Nat, WidthIn(q, p.level, p.tile) <= w
  PROVE  Kept(q, C \cup {[level |-> p.level, tile |-> p.tile, hashes |-> TileOf(MainLog, p, w)]})
<1> DEFINE e == [level |-> p.level, tile |-> p.tile, hashes |-> TileOf(MainLog, p, w)]
<1>1. e.level = p.level /\ e.tile = p.tile /\ e.hashes = TileOf(MainLog, p, w)
  OBVIOUS
<1> HIDE DEF e
<1>2. TileOf(MainLog, p, w) = TileOf(MainLog, e, w)
  BY <1>1 DEF TileOf
<1>3. KeptTile(q, e)
  BY <1>1, <1>2 DEF KeptTile
<1>4. Kept(q, C \cup {e})
  BY <1>1, <1>3 DEF Kept
<1> QED BY <1>4 DEF e

----------------------------------------------------------------------------
\* The path so far is that of the first j subtrees; between two of them, and inside the next.
Along(q, s, j) == s \in Seq(Roots) /\ Len(s) = j /\ \A i \in 1 .. j : s[i] = RootOf(RangesOf(q)[i])

AtRange(q, w, s, h) ==
  /\ h = <<>>
  /\ \E j \in Nat : j <= Len(RangesOf(q)) /\ w = Rest(RangesOf(q), j) /\ Along(q, s, j)

InRange(q, w, s, p, h) ==
  \E j \in Nat : /\ j < Len(RangesOf(q)) /\ w = Rest(RangesOf(q), j + 1) /\ Along(q, s, j)
                 /\ Shape(q, RangesOf(q)[j + 1], p, h)

LEMMA RangesType ==
  ASSUME NEW q, Requested(q)
  PROVE  /\ RangesOf(q) \in Seq(Nat \X Nat) /\ Len(RangesOf(q)) \in Nat
         /\ \A i \in 1 .. Len(RangesOf(q)) : Wants(q, RangesOf(q)[i])
<1> DEFINE w == RangesOf(q)
<1>1. w \in Seq(Nat \X Nat) /\ \A i \in 1 .. Len(w) : Beside(w[i], Leaves(q)) /\ w[i][1] + w[i][2] <= q.size
  BY RangesGood DEF Good
<1> HIDE DEF w
<1>2. \A i \in 1 .. Len(w) : w[i] \in Nat \X Nat
  BY <1>1
<1>3. \A i \in 1 .. Len(w) : Wants(q, w[i])
  BY <1>1, <1>2 DEF Wants
<1> QED BY <1>1, <1>3 DEF w

LEMMA RangesBegin ==
  ASSUME NEW q, Requested(q)
  PROVE  AtRange(q, RangesOf(q), <<>>, <<>>)
<1> DEFINE w == RangesOf(q)
<1>1. w \in Seq(Nat \X Nat) /\ Len(w) \in Nat
  BY RangesType
<1>2. 0 \in Nat /\ 0 <= Len(w)
  BY <1>1
<1>3. w = Rest(w, 0)
  <2> DEFINE S == Nat \X Nat
  <2>1. w \in Seq(S)
    BY <1>1
  <2> HIDE DEF S, w
  <2> QED BY <2>1, RestEnds
<1>4. Along(q, <<>>, 0)
  BY DEF Along
<1> QED BY <1>2, <1>3, <1>4 DEF AtRange

LEMMA RangeNext ==
  ASSUME NEW q, Requested(q), NEW w, NEW s, NEW h, AtRange(q, w, s, h), w # <<>>
  PROVE  /\ Head(w)[2] > 0 /\ Head(w)[1] + Head(w)[2] <= q.size
         /\ InRange(q, Tail(w), s, <<Waiting(<<Head(w)[1], Head(w)[2]>>)>>, h)
<1> DEFINE v == RangesOf(q)
           S == Nat \X Nat
<1>1. v \in Seq(S) /\ Len(v) \in Nat /\ \A i \in 1 .. Len(v) : Wants(q, v[i])
  BY RangesType
<1>2. PICK j \in Nat : j <= Len(v) /\ w = Rest(v, j) /\ Along(q, s, j)
  BY DEF AtRange
<1>3. h = <<>>
  BY DEF AtRange
<1> HIDE DEF v, S
<1>4. j # Len(v)
  BY <1>1, <1>2, RestEnds
<1>5. j < Len(v) /\ j + 1 \in 1 .. Len(v)
  BY <1>1, <1>2, <1>4
<1>6. Head(w) = v[j + 1] /\ Tail(w) = Rest(v, j + 1)
  BY <1>1, <1>2, <1>5, RestStep
<1> DEFINE r == v[j + 1]
<1>7. Wants(q, r)
  BY <1>1, <1>5
<1> HIDE DEF r
<1>8. r = <<r[1], r[2]>> /\ r[2] > 0 /\ r[1] + r[2] <= q.size
  BY <1>7 DEF Wants, Beside
<1>9. Shape(q, r, <<Waiting(r)>>, <<>>)
  BY <1>7, ShapeBegins
<1>10. Head(w) = r
  BY <1>6 DEF r
<1>11. Shape(q, r, <<Waiting(<<Head(w)[1], Head(w)[2]>>)>>, h)
  <2>1. <<Head(w)[1], Head(w)[2]>> = r
    BY <1>8, <1>10
  <2> QED BY <1>3, <1>9, <2>1
<1>12. InRange(q, Tail(w), s, <<Waiting(<<Head(w)[1], Head(w)[2]>>)>>, h)
  BY <1>2, <1>5, <1>6, <1>11, Zenon DEF InRange, v, r
<1> QED BY <1>8, <1>10, <1>12

LEMMA RangesEnd ==
  ASSUME NEW q, Requested(q), NEW s, NEW h, AtRange(q, <<>>, s, h)
  PROVE  Along(q, s, Len(RangesOf(q)))
<1> DEFINE v == RangesOf(q)
           S == Nat \X Nat
<1>1. v \in Seq(S) /\ Len(v) \in Nat
  BY RangesType
<1>2. PICK j \in Nat : j <= Len(v) /\ <<>> = Rest(v, j) /\ Along(q, s, j)
  BY DEF AtRange
<1> HIDE DEF v, S
<1>3. ~ (j < Len(v))
  BY <1>1, <1>2, RestStep
<1>4. j = Len(v)
  BY <1>1, <1>2, <1>3
<1> QED BY <1>2, <1>4 DEF v

LEMMA RangeDone ==
  ASSUME NEW q, Requested(q), NEW w, NEW s, NEW h, InRange(q, w, s, <<>>, h)
  PROVE  ~ (Len(h) # 1) /\ AtRange(q, w, Append(s, h[1]), <<>>)
<1> DEFINE v == RangesOf(q)
<1>1. Len(v) \in Nat /\ \A i \in 1 .. Len(v) : Wants(q, v[i])
  BY RangesType
<1>2. PICK j \in Nat : j < Len(v) /\ w = Rest(v, j + 1) /\ Along(q, s, j) /\ Shape(q, v[j + 1], <<>>, h)
  BY DEF InRange
<1>3. Len(h) = 1 /\ h[1] = RootOf(v[j + 1])
  BY <1>2, ShapeEnds
<1> HIDE DEF v
<1>4. j + 1 \in 1 .. Len(v) /\ j + 1 \in Nat /\ j + 1 <= Len(v)
  BY <1>1, <1>2
<1>5. h[1] \in Roots
  <2>1. v[j + 1] \in Nat \X Nat
    BY <1>1, <1>4 DEF Wants
  <2> QED BY <1>3, <2>1, RootsType
<1> DEFINE x == h[1]
           g == Append(s, x)
<1>6. s \in Seq(Roots) /\ Len(s) = j /\ \A i \in 1 .. j : s[i] = RootOf(v[i])
  BY <1>2 DEF Along, v
<1> HIDE DEF x, g
<1>7. g \in Seq(Roots) /\ Len(g) = j + 1 /\ (\A i \in 1 .. j : g[i] = s[i]) /\ g[j + 1] = x
  BY <1>5, <1>6, Appended DEF g, x
<1>8. \A i \in 1 .. j + 1 : i \in 1 .. j \/ i = j + 1
  OBVIOUS
<1>9. \A i \in 1 .. j + 1 : g[i] = RootOf(v[i])
  BY <1>3, <1>6, <1>7, <1>8 DEF x
<1>10. Along(q, g, j + 1)
  BY <1>7, <1>9 DEF Along, v
<1>11. AtRange(q, w, g, <<>>)
  BY <1>2, <1>4, <1>10, Zenon DEF AtRange, v
<1> QED BY <1>3, <1>11 DEF g, x

\* The turns of range_root.
LEMMA InTop ==
  ASSUME NEW q, Requested(q), NEW w, NEW s, NEW p, NEW h, InRange(q, w, s, p, h), p # <<>>, ~ Last(p).join
  PROVE  Wants(q, Last(p).range)
BY ShapeTop DEF InRange

LEMMA InFound ==
  ASSUME NEW q, Requested(q), NEW w, NEW s, NEW p, NEW h, InRange(q, w, s, p, h), p # <<>>, ~ Last(p).join,
         Perfect(Last(p).range[2])
  PROVE  InRange(q, w, s, Front(p), Append(h, RootOf(Last(p).range)))
BY ShapeFound, Zenon DEF InRange

LEMMA InDivided ==
  ASSUME NEW q, Requested(q), NEW w, NEW s, NEW p, NEW h, InRange(q, w, s, p, h), p # <<>>, ~ Last(p).join,
         ~ Perfect(Last(p).range[2])
  PROVE  InRange(q, w, s, Front(p) \o <<Joining(Last(p).range), Waiting(RightOf(Last(p).range)),
                                        Waiting(LeftOf(Last(p).range))>>, h)
BY ShapeDivided, Zenon DEF InRange

LEMMA InJoined ==
  ASSUME NEW q, Requested(q), NEW w, NEW s, NEW p, NEW h, InRange(q, w, s, p, h), p # <<>>, Last(p).join
  PROVE  /\ ~ (Len(h) < 2)
         /\ InRange(q, w, s, Front(p), Append(Front(Front(h)), NodeHash(Last(Front(h)), Last(h))))
BY ShapeJoined, Zenon DEF InRange

----------------------------------------------------------------------------
\* What holds as long as the log serves its tiles.
Missing == pending # <<>> /\ ~ Top.join /\ Perfect(Top.range[2]) /\ Cached(Wanted) = {}

Serving ==
  /\ rpc # "failed" /\ (rpc = "refused" => ~ TrueOf(proof))
  /\ rpc = "idle" => path = <<>> /\ hashes = <<>> /\ cache = {}
  /\ rpc \in {"range", "assemble", "tile", "full"} => Requested(proof) /\ Kept(proof, cache)
  /\ rpc = "range" => AtRange(proof, ranges, path, hashes)
  /\ rpc \in {"assemble", "tile", "full"} => InRange(proof, ranges, path, pending, hashes)
  /\ rpc \in {"tile", "full"} => Missing

ServedInv == ~ lied => Serving

LEMMA ServingBegins ==
  ASSUME Serving, NEW q \in Proofs, BeginProof(q)
  PROVE  Serving'
<1>1. rpc = "idle" /\ proof' = q /\ Requested(q)
  BY DEF BeginProof, Requested
<1>2. path' = <<>> /\ hashes' = <<>> /\ cache' = {}
  BY <1>1 DEF BeginProof, Serving
<1>3. ranges' = RangesOf(q)
  BY DEF BeginProof, RangesOf
<1>4. AtRange(q, RangesOf(q), <<>>, <<>>)
  BY <1>1, RangesBegin
<1>5. Kept(q, {})
  BY DEF Kept
<1>6. rpc' = "refused" => ~ TrueOf(q)
  BY <1>1, EqualRoots DEF BeginProof
<1>7. rpc' \in {"refused", "range"}
  BY DEF BeginProof
<1>8. TrueOf(proof)' = TrueOf(q)
  BY <1>1 DEF TrueOf
<1>9. Requested(proof') /\ Kept(proof', cache') /\ AtRange(proof', ranges', path', hashes')
  BY <1>1, <1>2, <1>3, <1>4, <1>5
<1> QED BY <1>6, <1>7, <1>8, <1>9 DEF Serving

LEMMA ServingNext ==
  ASSUME Serving, NextRange
  PROVE  Serving'
<1>1. /\ Requested(proof) /\ Kept(proof, cache) /\ AtRange(proof, ranges, path, hashes)
      /\ UNCHANGED <<proof, path, hashes, cache>>
  BY DEF Serving, NextRange
<1>a. TrueOf(proof)' = TrueOf(proof)
  BY <1>1 DEF TrueOf
<1>2. CASE ranges = <<>>
  <2>1. Along(proof, path, Len(RangesOf(proof)))
    BY <1>1, <1>2, RangesEnd
  <2>2. TrueOf(proof) => Verified
    BY <1>1, <2>1, TrueIsVerified DEF Along
  <2>3. rpc' = (IF Verified THEN "proved" ELSE "refused")
    BY <1>2 DEF NextRange
  <2>4. rpc' \in {"proved", "refused"} /\ (rpc' = "refused" => ~ TrueOf(proof))
    BY <2>2, <2>3
  <2> QED BY <1>a, <2>4 DEF Serving
<1>3. CASE ranges # <<>>
  <2>1. /\ Head(ranges)[2] > 0 /\ Head(ranges)[1] + Head(ranges)[2] <= proof.size
        /\ InRange(proof, Tail(ranges), path, <<Waiting(<<Head(ranges)[1], Head(ranges)[2]>>)>>, hashes)
    BY <1>1, <1>3, RangeNext
  <2>2. /\ rpc' = "assemble" /\ ranges' = Tail(ranges)
        /\ pending' = <<Waiting(<<Head(ranges)[1], Head(ranges)[2]>>)>>
    BY <1>3, <2>1 DEF NextRange, Waiting
  <2>3. InRange(proof', ranges', path', pending', hashes') /\ Requested(proof') /\ Kept(proof', cache')
    BY <1>1, <2>1, <2>2
  <2> QED BY <2>2, <2>3 DEF Serving
<1> QED BY <1>2, <1>3

LEMMA ServingAssembles ==
  ASSUME Serving, Assemble
  PROVE  Serving'
<1>1. /\ Requested(proof) /\ Kept(proof, cache) /\ InRange(proof, ranges, path, pending, hashes)
      /\ UNCHANGED <<proof, ranges, path, cache>> /\ pending # <<>> /\ rpc = "assemble"
  BY DEF Serving, Assemble
<1>2. SUFFICES /\ rpc' \in {"assemble", "tile"} /\ InRange(proof, ranges, path, pending', hashes')
               /\ rpc' = "tile" => Missing'
  <2>1. Requested(proof') /\ Kept(proof', cache') /\ InRange(proof', ranges', path', pending', hashes')
    BY <1>1, <1>2
  <2> QED BY <1>2, <2>1 DEF Serving
<1>3. CASE JoinRoots
  <2>1. Last(pending).join
    BY <1>3 DEF JoinRoots, Top
  <2>2. /\ ~ (Len(hashes) < 2)
        /\ InRange(proof, ranges, path, Front(pending),
                   Append(Front(Front(hashes)), NodeHash(Last(Front(hashes)), Last(hashes))))
    BY <1>1, <2>1, InJoined
  <2> QED BY <1>1, <1>3, <2>2 DEF JoinRoots
<1>4. CASE Divide
  <2> DEFINE r == Last(pending).range
  <2>1. ~ Last(pending).join /\ ~ Perfect(r[2])
    BY <1>4 DEF Divide, Top
  <2>2. InRange(proof, ranges, path, Front(pending) \o <<Joining(r), Waiting(RightOf(r)), Waiting(LeftOf(r))>>, hashes)
    BY <1>1, <2>1, InDivided
  <2>3. pending' = Front(pending) \o <<Joining(r), Waiting(RightOf(r)), Waiting(LeftOf(r))>>
    BY <1>4 DEF Divide, Top, Joining, Waiting, LeftOf, RightOf
  <2>4. hashes' = hashes /\ rpc' = "assemble"
    BY <1>1, <1>4 DEF Divide
  <2> QED BY <2>2, <2>3, <2>4
<1>5. CASE LookUp
  <2> DEFINE r == Last(pending).range
             p == Place(r[1], r[2])
  <2>1. ~ Last(pending).join /\ Perfect(r[2])
    BY <1>5 DEF LookUp, Top
  <2>2. Wants(proof, r)
    BY <1>1, <2>1, InTop
  <2>3. Found(proof, r, p) /\ p.width = WidthAt(p.level, p.tile)
    BY <1>1, <2>1, <2>2, PlaceFound
  <2>4. Cached(p) = {} => ~ (Cardinality(cache) >= MaxTiles)
    BY <1>1, <2>3, KeptRoom DEF Found, Cached
  <2>5. /\ IF Cached(p) = {} THEN rpc' = "tile" /\ UNCHANGED <<hashes, pending>>
           ELSE /\ \E c \in Cached(p) : hashes' = Append(hashes,
                       JoinPairs(SubSeq(c.hashes, p.offset + 1, p.offset + p.count)))
                /\ pending' = Front(pending) /\ UNCHANGED rpc
    BY <1>5, <2>3, <2>4 DEF LookUp, Top, Found
  <2>6. CASE Cached(p) = {}
    <3>1. rpc' = "tile" /\ UNCHANGED <<hashes, pending, proof, cache>>
      BY <1>1, <2>5, <2>6
    <3>2. Missing
      BY <1>1, <2>1, <2>6 DEF Missing, Wanted, Top
    <3>3. Missing'
      BY <3>1, <3>2 DEF Missing, Wanted, Top, Cached, Place, Perfect
    <3> QED BY <1>1, <3>1, <3>3
  <2>7. CASE Cached(p) # {}
    <3>1. PICK c \in Cached(p) : hashes' = Append(hashes, JoinPairs(SubSeq(c.hashes, p.offset + 1, p.offset + p.count)))
      BY <2>5, <2>7
    <3>2. c \in cache /\ c.level = p.level /\ c.tile = p.tile
      BY DEF Cached
    <3>3. PICK w \in Nat : WidthIn(proof, c.level, c.tile) <= w /\ c.hashes = TileOf(MainLog, c, w)
      BY <1>1, <3>2 DEF Kept, KeptTile
    <3>4. p.width <= w
      BY <2>3, <3>2, <3>3 DEF WidthAt, WidthIn
    <3>5. c.hashes = TileOf(MainLog, p, w)
      BY <3>2, <3>3, TileOfSame
    <3>6. JoinPairs(SubSeq(c.hashes, p.offset + 1, p.offset + p.count)) = RootOf(r)
      BY <2>3, <3>4, <3>5, Zenon DEF Found
    <3>7. hashes' = Append(hashes, RootOf(r)) /\ pending' = Front(pending) /\ rpc' = "assemble"
      BY <1>1, <2>5, <2>7, <3>1, <3>6
    <3>8. InRange(proof, ranges, path, Front(pending), Append(hashes, RootOf(r)))
      BY <1>1, <2>1, InFound
    <3> QED BY <3>7, <3>8
  <2> QED BY <2>6, <2>7
<1> QED BY <1>3, <1>4, <1>5 DEF Assemble

LEMMA ServingEnds ==
  ASSUME Serving, EndRange
  PROVE  Serving'
<1>1. /\ Requested(proof) /\ Kept(proof, cache) /\ InRange(proof, ranges, path, <<>>, hashes)
      /\ UNCHANGED <<proof, ranges, cache>>
  BY DEF Serving, EndRange
<1>2. ~ (Len(hashes) # 1) /\ AtRange(proof, ranges, Append(path, hashes[1]), <<>>)
  BY <1>1, RangeDone
<1>3. path' = Append(path, hashes[1]) /\ hashes' = <<>> /\ rpc' = "range"
  BY <1>2 DEF EndRange
<1>4. AtRange(proof', ranges', path', hashes') /\ Requested(proof') /\ Kept(proof', cache')
  BY <1>1, <1>2, <1>3
<1> QED BY <1>3, <1>4 DEF Serving

\* A tile of the log, of either width, is kept.
LEMMA ServingKeeps ==
  ASSUME Serving, rpc \in {"tile", "full"}, NEW w, w \in {Wanted.width, TileWidth},
         Keep(Wanted, TileOf(MainLog, Wanted, w)), rpc' = "assemble",
         UNCHANGED <<proof, ranges, path, pending, hashes>>
  PROVE  Serving'
<1> DEFINE r == Last(pending).range
           p == Place(r[1], r[2])
<1>1. Requested(proof) /\ Kept(proof, cache) /\ InRange(proof, ranges, path, pending, hashes) /\ Missing
  BY DEF Serving
<1>2. p = Wanted /\ pending # <<>> /\ ~ Last(pending).join /\ Perfect(r[2]) /\ Cached(p) = {}
  BY <1>1 DEF Missing, Wanted, Top
<1>3. Wants(proof, r)
  BY <1>1, <1>2, InTop
<1>4. Found(proof, r, p) /\ p.width = WidthAt(p.level, p.tile)
  BY <1>1, <1>2, <1>3, PlaceFound
<1>5. TileWidth \in Nat
  BY TilesAssumption, PowerNat DEF TileWidth
<1>6. w \in Nat /\ WidthIn(proof, p.level, p.tile) <= w
  <2>1. p.width \in Nat /\ p.width <= TileWidth /\ w \in {p.width, TileWidth}
    BY <1>2, <1>4 DEF Found
  <2>2. w \in Nat /\ p.width <= w
    BY <1>5, <2>1
  <2> QED BY <1>4, <2>2 DEF WidthAt, WidthIn
<1>7. Kept(proof, cache \cup {[level |-> p.level, tile |-> p.tile, hashes |-> TileOf(MainLog, p, w)]})
  <2>1. {c \in cache : c.level = p.level /\ c.tile = p.tile} = {}
    BY <1>2 DEF Cached
  <2>2. /\ p.level \in Nat /\ p.level < Levels
        /\ \E x \in Leaves(proof) : p.tile = TileAbove(x, p.level)
    BY <1>4 DEF Found
  <2> HIDE DEF p
  <2> QED BY <1>1, <1>6, <2>1, <2>2, KeptMore
<1>8. Kept(proof', cache')
  BY <1>2, <1>7 DEF Keep
<1>9. Requested(proof') /\ InRange(proof', ranges', path', pending', hashes')
  BY <1>1
<1> QED BY <1>8, <1>9 DEF Serving

LEMMA ServedInvInductive == ServedInv /\ [TilesNext]_tileVars => ServedInv'
<1> SUFFICES ASSUME ServedInv, [TilesNext]_tileVars, ~ lied' PROVE Serving'
  BY DEF ServedInv
<1>1. ASSUME NEW q \in Proofs, BeginProof(q) PROVE Serving'
  <2>1. Serving
    BY <1>1 DEF BeginProof, ServedInv
  <2> QED BY <1>1, <2>1, ServingBegins
<1>2. CASE NextRange
  <2>1. Serving
    BY <1>2 DEF NextRange, ServedInv
  <2> QED BY <1>2, <2>1, ServingNext
<1>3. CASE Assemble
  <2>1. Serving
    BY <1>3 DEF Assemble, ServedInv
  <2> QED BY <1>3, <2>1, ServingAssembles
<1>4. CASE EndRange
  <2>1. Serving
    BY <1>4 DEF EndRange, ServedInv
  <2> QED BY <1>4, <2>1, ServingEnds
<1>5. CASE GrowLog \/ UNCHANGED tileVars
  <2>1. UNCHANGED <<rpc, proof, ranges, path, pending, hashes, cache, lied>>
    BY <1>5 DEF GrowLog, tileVars
  <2>2. Serving
    BY <2>1 DEF ServedInv
  <2>3. TrueOf(proof)' = TrueOf(proof)
    BY <2>1 DEF TrueOf
  <2>4. Missing' = Missing
    BY <2>1 DEF Missing, Wanted, Top, Cached, Place, Perfect
  <2> QED BY <2>1, <2>2, <2>3, <2>4 DEF Serving
<1>6. CASE NoTile
  <2>1. ~ lied /\ Wanted.width < TileWidth
    BY <1>6 DEF NoTile
  <2>2. /\ Serving /\ rpc = "tile" /\ rpc' = "full"
        /\ UNCHANGED <<proof, ranges, path, pending, hashes, cache>>
    BY <1>6, <2>1 DEF NoTile, ServedInv
  <2>3. Missing' = Missing
    BY <2>2 DEF Missing, Wanted, Top, Cached, Place, Perfect
  <2> QED BY <2>2, <2>3 DEF Serving
<1>7. CASE NoTileAtAll
  BY <1>7 DEF NoTileAtAll
<1>8. CASE ExpireProof
  BY <1>8 DEF ExpireProof, Serving
<1>9. ASSUME NEW h \in {MainLog, ForkedLog}, AnswerTile(h) PROVE Serving'
  <2>1. ~ lied /\ TileOf(h, Wanted, Wanted.width) = TileOf(MainLog, Wanted, Wanted.width)
    BY <1>9 DEF AnswerTile
  <2>2. /\ Serving /\ rpc \in {"tile", "full"} /\ rpc' = "assemble"
        /\ Keep(Wanted, TileOf(MainLog, Wanted, Wanted.width))
        /\ UNCHANGED <<proof, ranges, path, pending, hashes>>
    BY <1>9, <2>1 DEF AnswerTile, ServedInv
  <2> QED BY <2>2, ServingKeeps
<1>10. ASSUME NEW h \in {MainLog, ForkedLog}, AnswerFull(h) PROVE Serving'
  <2>1. ~ lied /\ TileOf(h, Wanted, TileWidth) = TileOf(MainLog, Wanted, TileWidth)
    BY <1>10 DEF AnswerFull
  <2>2. /\ Serving /\ rpc \in {"tile", "full"} /\ rpc' = "assemble"
        /\ Keep(Wanted, TileOf(MainLog, Wanted, TileWidth))
        /\ UNCHANGED <<proof, ranges, path, pending, hashes>>
    BY <1>10, <2>1 DEF AnswerFull, ServedInv
  <2> QED BY <2>2, ServingKeeps
<1> QED BY <1>1, <1>2, <1>3, <1>4, <1>5, <1>6, <1>7, <1>8, <1>9, <1>10 DEF TilesNext

\* A log of any size that serves its tiles is believed, for tiles of every height: what is
\* true of it is proved, however it grows and drops partial tiles meanwhile.  TileReader
\* never asks for a hash that the tree does not have, never joins what does not belong
\* together, and has room for all of the tiles that a proof takes.
THEOREM ProofsComplete == TilesSpec => []ServedIsProved
<1>1. TilesInit => ServedInv
  BY DEF TilesInit, ServedInv, Serving
<1>2. ServedInv => ServedIsProved
  BY DEF ServedInv, Serving, ServedIsProved
<1> QED BY <1>1, <1>2, ServedInvInductive, PTL DEF TilesSpec
ProofInv == ProvedIsTrue /\ (rpc # "idle" => proof \in Proofs)

LEMMA VerifiedIsTrue ==
  ASSUME proof \in Proofs, Verified
  PROVE  TrueOf(proof)
<1>1. proof.index \in Nat /\ proof.size \in Nat
  BY TilesAssumption DEF Proofs
<1>2. CASE proof.kind = "inclusion"
  BY <1>1, <1>2, InclusionProves DEF Verified, TrueOf, RootAt
<1>3. CASE proof.kind # "inclusion"
  BY <1>1, <1>3, ConsistencyProves DEF Verified, TrueOf, RootAt
<1> QED BY <1>2, <1>3

LEMMA ProofInvInductive == ProofInv /\ [TilesNext]_tileVars => ProofInv'
<1> SUFFICES ASSUME ProofInv, [TilesNext]_tileVars PROVE ProofInv'
  OBVIOUS
<1>1. ASSUME NEW q \in Proofs, BeginProof(q) PROVE ProofInv'
  BY <1>1 DEF BeginProof, ProofInv, ProvedIsTrue
<1>2. CASE NextRange
  <2>1. proof \in Proofs /\ proof' = proof
    BY <1>2 DEF NextRange, ProofInv
  <2>2. TrueOf(proof)' = TrueOf(proof)
    BY <2>1 DEF TrueOf
  <2>3. rpc' = "proved" => Verified
    BY <1>2 DEF NextRange
  <2> QED BY <2>1, <2>2, <2>3, VerifiedIsTrue DEF ProofInv, ProvedIsTrue
<1>3. CASE /\ UNCHANGED proof /\ rpc' # "proved" /\ (rpc = "idle" => rpc' = "idle")
  BY <1>3 DEF ProofInv, ProvedIsTrue
<1>4. CASE UNCHANGED <<proof, rpc>>
  BY <1>4 DEF ProofInv, ProvedIsTrue, TrueOf
<1>5. CASE GrowLog \/ UNCHANGED tileVars
  BY <1>4, <1>5 DEF GrowLog, tileVars
<1>6. CASE Assemble
  BY <1>3, <1>6 DEF Assemble, JoinRoots, Divide, LookUp, Fail
<1>7. CASE EndRange
  BY <1>3, <1>7 DEF EndRange, Fail
<1>8. CASE NoTile \/ NoTileAtAll \/ ExpireProof
  BY <1>3, <1>8 DEF NoTile, NoTileAtAll, ExpireProof
<1>9. ASSUME NEW h \in {MainLog, ForkedLog}, AnswerTile(h) \/ AnswerFull(h) PROVE ProofInv'
  BY <1>3, <1>9 DEF AnswerTile, AnswerFull
<1> QED BY <1>1, <1>2, <1>5, <1>6, <1>7, <1>8, <1>9 DEF TilesNext

\* Whatever a log serves and however large it is, a path that verifies against the root of
\* a signed checkpoint proves what is true: verify_inclusion and verify_consistency, with
\* the paths that TileReader puts together.
THEOREM ProofsSound == TilesSpec => []ProvedIsTrue
<1>1. TilesInit => ProofInv
  BY DEF TilesInit, ProofInv, ProvedIsTrue
<1>2. ProofInv => ProvedIsTrue
  BY DEF ProofInv
<1> QED BY <1>1, <1>2, ProofInvInductive, PTL DEF TilesSpec
=============================================================================
