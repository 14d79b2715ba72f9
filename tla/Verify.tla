------------------------------- MODULE Verify -------------------------------
(***************************************************************************)
(* src/verify.rs: `attest verify` of one receipt, while commands change    *)
(* the trust store it reads.  Of the store it knows TrustPromise only.     *)
(*                                                                         *)
(* Nobody vouches for the receipt: it is put together from any content,    *)
(* claimed date, key, signature and token that can exist.  A signature is  *)
(* genuine (made by the holder of the key over this content and date) or   *)
(* not; when a genuine one was made is history no field of the receipt     *)
(* tells, and what revocation is about.                                    *)
(*                                                                         *)
(* The verifier is at                                                      *)
(*   idle      not started                                                 *)
(*   timestamp the pinned authorities are to be read                       *)
(*   signature trust.toml and the key files are to be read                 *)
(*   recompute the workspace, if asked for, and the clock are to be read   *)
(*   material  the accepted bundles are to be read                         *)
(*   done      the checks are in                                           *)
(*                                                                         *)
(* An operator under "Fault:" is a plausible slip in the definition that   *)
(* follows it; none is part of the specification.                          *)
(***************************************************************************)
EXTENDS TrustPromise

CONSTANTS
  Bodies,       \* what receipts say, apart from their date
  Authorities,  \* certificates a token's signer may be issued by
  Honest,       \* those that tell the time, which an operator may pin
  Loose,        \* keys in loose key files, or the local public.key
  ToImport      \* the bundles there are to import

VARIABLES
  vpc,       \* where the verifier stands
  receipt,   \* the receipt it was given
  flags,     \* check_signatures and trust_receipt_timestamp
  known,     \* history: the key was revoked when the verifier started
  seen,      \* the entry key_trust_status found
  attested,  \* trusted_time: the time of a token that verified, or None
  checks,    \* the status of each check
  signedBy,  \* signed_by
  now,       \* the clock the trust material is judged by
  material   \* trust_material: its state and the bundle it is about

verifier == <<vpc, receipt, flags, known, seen, attested, checks, signedBy, now, material>>
allVars  == <<promised, verifier>>

\* A signature is the time it was made, or forged.  The signing bytes are all of
\* the receipt but the signature, its key and the token.
Forged == 0

\* A token over this receipt's signature or over something else.  `proper`: the
\* certificate it is signed with allows time-stamping and was valid then.
Tokens == [over : BOOLEAN, at : Times, by : Authorities, proper : BOOLEAN]

Receipts ==
  [body : Bodies, time : Times, key : Keys \cup {None},
   signature : {Forged, None} \cup Times, token : Tokens \cup {None}]

Flags == [signatures : BOOLEAN, ownWord : BOOLEAN]

Checks == {"schema", "consistency", "signature", "timestamp", "recompute"}

ASSUME VerifyAssumption ==
  /\ MaxTime \in Nat \ {0}
  /\ \A b \in Bodies : /\ b.schema \in {"known", "newer", "foreign"}
                       /\ b.execution \in {"native", "wrapped", "legacy"}
                       /\ b.coherent \in BOOLEAN /\ b.success \in BOOLEAN
  /\ Honest \subseteq Authorities
  /\ Loose \subseteq Keys
  /\ ToImport \subseteq BundleType
  /\ None \notin Keys \cup Times \cup {Forged} \cup Tokens \cup Receipts \cup BundleType
  /\ Torn \notin BundleType \cup {None}

----------------------------------------------------------------------------
Status(b) == IF b THEN "pass" ELSE "fail"

\* What can exist at a given time: no signature is made in the future, and a
\* proper certificate of an honest authority dates a signature when it sees it.
Exists(r, today) ==
  LET t == r.token IN
  /\ r.signature \in Times => r.signature <= today
  /\ r.signature \in Times /\ t # None =>
       (t.over /\ t.proper /\ t.by \in Honest => r.signature <= t.at /\ t.at <= today)

\* consistency_check: version, steps and the form of the digests.
ConsistencyCheck(b) == Status(b.coherent)

\* The receipt is read and parsed.  One that does not match the schema has no
\* further checks; a newer one not even trust material.
Begin(r, f) ==
  /\ vpc = "idle"
  /\ Exists(r, clock)
  /\ vpc' = CASE r.body.schema = "known" -> "timestamp"
              [] r.body.schema = "foreign" -> "material"
              [] r.body.schema = "newer" -> "done"
  /\ receipt' = r
  /\ flags' = f
  /\ known' = (r.key # None /\ IsRevoked(policy[r.key]))
  /\ checks' = [c \in Checks |->
       CASE c = "schema" -> Status(r.body.schema = "known")
         [] c = "consistency" /\ r.body.schema = "known" -> ConsistencyCheck(r.body)
         [] OTHER -> "skipped"]
  /\ UNCHANGED <<promised, seen, attested, signedBy, now, material>>

\* verify_token: the token is about this signature, and the certificate it is
\* signed with is proper and comes from a pinned authority.
VerifyToken(t, pins) == t.over /\ t.proper /\ t.by \in pins

\* timestamp_check, resolved before the signature; `pins` are the certificates
\* tsa_issuers can read.
TimestampCheck(pins) ==
  LET t  == receipt.token
      ok == receipt.signature # None /\ VerifyToken(t, pins) IN
  /\ vpc = "timestamp"
  /\ vpc' = "signature"
  /\ checks' = IF t = None THEN checks ELSE [checks EXCEPT !["timestamp"] = Status(ok)]
  /\ attested' = IF t # None /\ ok THEN t.at ELSE None
  /\ UNCHANGED <<promised, receipt, flags, known, seen, signedBy, now, material>>

\* key_trust_status: the entry of a key the policy lists.  Of a key it does not
\* list, a .pub file is nobody's word; a loose file or the local key is.
KeyTrust(k) ==
  IF policy[k] # Absent THEN {policy[k]}
  ELSE {Absent} \cup {Trusted : l \in Loose \cap {k}}

\* Fault: without a token the receipt's own date counts.
SignedAtOwnWord == IF attested # None THEN attested ELSE receipt.time

\* The date a revocation is judged by: the token's, or the receipt's own if the
\* caller takes the signer's word for it.
SignedAt ==
  IF attested # None THEN attested
  ELSE IF flags.ownWord THEN receipt.time ELSE None

\* signature_check of a genuine signature whose key has entry e.
Accepts(e) ==
  \/ e = Trusted
  \/ IsRevoked(e) /\ SignedAt # None /\ SignedAt <= e.at

\* signature_check; `loads`: the policy and the key files can be read.
SignatureCheck(loads) ==
  LET genuine == receipt.key # None /\ receipt.signature \in Times IN
  /\ vpc = "signature"
  /\ vpc' = "recompute"
  /\ IF flags.signatures
     THEN \E e \in IF genuine /\ loads THEN KeyTrust(receipt.key) ELSE {Absent} :
            /\ seen' = e
            /\ checks' = [checks EXCEPT !["signature"] = Status(Accepts(e))]
            /\ signedBy' = IF Accepts(e) THEN receipt.key ELSE None
     ELSE UNCHANGED <<seen, checks, signedBy>>
  /\ UNCHANGED <<promised, receipt, flags, known, attested, now, material>>

\* native_recompute_check needs a readable attest.yaml, wrapped_recompute_check
\* nothing but the receipt; `matches`: the pipeline, the set of steps and each
\* input, output and capsule hash come out as recorded.
Recomputed(how, yaml, matches) == Status(matches /\ (how = "wrapped" \/ yaml = "good"))

\* recompute_check, if asked for, and Utc::now.  A receipt that does not say how it was
\* executed is taken for native if there is a pipeline to compare it with.
RecomputeCheck(asked, yaml, matches) ==
  LET how == receipt.body.execution IN
  /\ vpc = "recompute"
  /\ vpc' = "material"
  /\ checks' = IF ~asked \/ (how = "legacy" /\ yaml = "absent") THEN checks
               ELSE [checks EXCEPT !["recompute"] = Recomputed(how, yaml, matches)]
  /\ now' = clock
  /\ UNCHANGED <<promised, receipt, flags, known, seen, attested, signedBy, material>>

\* The accepted bundles that list key k; none if one of the records is torn.
Listing(k) ==
  IF \E i \in Keys : accepted[i] = Torn THEN {}
  ELSE {b \in {accepted[i] : i \in Keys} : b # None /\ b.keys[k] # Absent}

\* The latest of them; of several the iterator's order decides.
Latest(k) == {b \in Listing(k) : \A o \in Listing(k) : o.at <= b.at}

Window(b, t) ==
  IF t > b.until THEN "expired" ELSE IF t < b.at THEN "not-yet-valid" ELSE "current"

NoMaterial == [state |-> "none", bundle |-> None]

\* trust_material of the signer, by the local clock as it was read before the bundles.
TrustMaterial ==
  /\ vpc = "material"
  /\ vpc' = "done"
  /\ IF signedBy = None \/ Latest(signedBy) = {} THEN material' = NoMaterial
     ELSE \E b \in Latest(signedBy) :
            material' = [state |-> Window(b, now), bundle |-> b]
  /\ UNCHANGED <<promised, receipt, flags, known, seen, attested, checks, signedBy, now>>

----------------------------------------------------------------------------
Requirements == {"signature", "timestamp", "recompute", "trust", "success"}

\* Fault: a requirement is met unless its check failed.
MetUnlessFailed(q) ==
  CASE q = "trust" -> material.state = "current"
    [] q = "success" -> receipt.body.schema = "known" /\ receipt.body.success
    [] OTHER -> checks[q] # "fail"

\* apply_policy, one requirement: only a check that ran and passed meets it.
\* The outcome of an execution is unknown if the receipt cannot be parsed.
Met(q) ==
  CASE q = "trust" -> material.state = "current"
    [] q = "success" -> receipt.body.schema = "known" /\ receipt.body.success
    [] OTHER -> checks[q] = "pass"

\* The verdict `pass` with the requirements of the caller.
Passes(required) ==
  /\ \A c \in Checks : checks[c] # "fail"
  /\ \A q \in required : Met(q)

VerifyInit ==
  /\ offered = ToImport /\ PromiseInit
  /\ vpc = "idle"
  /\ receipt = None
  /\ flags = [signatures |-> TRUE, ownWord |-> FALSE]
  /\ known = FALSE /\ seen = Absent
  /\ attested = None
  /\ checks = [c \in Checks |-> "skipped"]
  /\ signedBy = None
  /\ now = 1
  /\ material = NoMaterial

\* What happens after the verdict is of no concern to it.
VerifyNext ==
  \/ vpc # "done" /\ StoreStep /\ UNCHANGED verifier
  \/ vpc = "idle" /\ \E r \in Receipts, f \in Flags : Begin(r, f)
  \/ \E pins \in SUBSET Honest : TimestampCheck(pins)
  \/ \E loads \in BOOLEAN : SignatureCheck(loads)
  \/ \E yaml \in {"absent", "bad", "good"}, asked, matches \in BOOLEAN :
       RecomputeCheck(asked, yaml, matches)
  \/ TrustMaterial

VerifySpec == VerifyInit /\ [][VerifyNext]_allVars

----------------------------------------------------------------------------
(* Properties.                                                             *)

\* Types; a time is attested only by a token that passed, a signer named only
\* by a signature that passed.
VerifyTypeOK ==
  /\ policy \in [Keys -> Entries]
  /\ accepted \in [Keys -> BundleType \cup {None, Torn}]
  /\ clock \in Times
  /\ offered \subseteq BundleType
  /\ vpc \in {"idle", "timestamp", "signature", "recompute", "material", "done"}
  /\ receipt = None \/ receipt \in Receipts
  /\ flags \in Flags
  /\ known \in BOOLEAN /\ seen \in Entries
  /\ attested \in Times \cup {None}
  /\ checks \in [Checks -> {"pass", "fail", "skipped"}]
  /\ signedBy \in Keys \cup {None}
  /\ now \in Times
  /\ material \in [state : {"none", "expired", "not-yet-valid", "current"},
                   bundle : BundleType \cup {None}]
  /\ attested # None => checks["timestamp"] = "pass"
  /\ signedBy # None <=> checks["signature"] = "pass"

Passed(required) == vpc = "done" /\ Passes(required)

\* What revocation is for: once a key is revoked, whoever holds it cannot make
\* a signature that verifies, whatever date the receipt claims and whatever
\* token it carries.  A signature that passes was made before the revocation
\* the verifier found, and it found one if there was one when it started.  Only
\* a caller who takes the signer's word for the date goes without.
RevokedNotAccepted ==
  Passed({"signature"}) /\ ~flags.ownWord =>
    /\ known => IsRevoked(seen)
    /\ IsRevoked(seen) => receipt.signature <= seen.at

\* "A requirement is met only by a check that ran and passed": a passing verdict
\* means that what was required is so.
Established(q) ==
  CASE q = "signature" -> receipt.signature \in Times /\ signedBy = receipt.key /\ seen # Absent
    [] q = "timestamp" -> /\ receipt.signature # None
                          /\ receipt.token # None /\ receipt.token.over
                          /\ receipt.token.by \in Honest
                          /\ receipt.signature \in Times => receipt.signature <= receipt.token.at
    [] q = "recompute" -> checks["recompute"] = "pass"
    [] q = "success" -> receipt.body.coherent /\ receipt.body.success
    [] q = "trust" -> /\ receipt.signature \in Times
                      /\ material.bundle \in offered
                      /\ material.bundle.keys[receipt.key] # Absent
                      /\ material.bundle.at <= now /\ now <= material.bundle.until

RequiredEstablished ==
  \A required \in SUBSET Requirements :
    Passed(required) => \A q \in required : Established(q)

\* "How current the trust material behind a verdict is [...] so a reader can
\* tell what the verdict does and does not account for": a verdict that names a
\* bundle accounts for the revocations in it.
MaterialAccounted ==
  Passed({"signature", "trust"}) /\ IsRevoked(material.bundle.keys[signedBy])
    => IsRevoked(seen)
=============================================================================
