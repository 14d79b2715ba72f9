---------------------------- MODULE VerifyProofs ----------------------------
(***************************************************************************)
(* Proofs about Verify, for any keys, receipts, tokens, bundles and times, *)
(* and any store that keeps TrustPromise.                                  *)
(***************************************************************************)
EXTENDS Verify, TLAPS

Places == {"idle", "timestamp", "signature", "recompute", "material", "done"}

Statuses == {"pass", "fail", "skipped"}

Materials == [state : {"none", "expired", "not-yet-valid", "current"},
              bundle : BundleType \cup {None}]

\* The types of the store, and of the verifier.
StoreTypes ==
  /\ policy \in [Keys -> Entries]
  /\ accepted \in [Keys -> BundleType \cup {None, Torn}]
  /\ clock \in Times
  /\ offered \subseteq BundleType
  /\ \A i \in Keys : accepted[i] \in offered \cup {None, Torn}

VerifierTypes ==
  /\ vpc \in Places
  /\ flags \in Flags
  /\ known \in BOOLEAN /\ seen \in Entries
  /\ attested \in Times \cup {None}
  /\ checks \in [Checks -> Statuses]
  /\ signedBy \in Keys \cup {None}
  /\ now \in Times
  /\ material \in Materials

\* The receipt r is one that can exist; c are the checks made when it was read.
Given(r, c) ==
  /\ r \in Receipts
  /\ r.signature \in Times /\ r.token # None =>
       (r.token.over /\ r.token.proper /\ r.token.by \in Honest => r.signature <= r.token.at)
  /\ r.body.schema # "known" => c["schema"] = "fail"
  /\ r.body.schema = "known" => c["consistency"] = Status(r.body.coherent)

\* The token of r is one that verifies.
Stamped(r) ==
  /\ r.signature # None /\ r.token # None
  /\ r.token.over /\ r.token.proper /\ r.token.by \in Honest

\* The signature of r was accepted on entry e.
Signed(r, at, f, old, e) ==
  /\ r.key # None /\ r.signature \in Times
  /\ old => IsRevoked(e)
  /\ \/ e = Trusted
     \/ IsRevoked(e) /\ at # None /\ at <= e.at
     \/ IsRevoked(e) /\ at = None /\ f.ownWord

\* Before the receipt is read nothing is concluded from it.
ReadPart ==
  /\ vpc = "idle" => receipt = None /\ checks = [c \in Checks |-> "skipped"]
  /\ vpc # "idle" => Given(receipt, checks)

TimePart ==
  /\ checks["timestamp"] = "pass" => vpc # "idle" /\ Stamped(receipt)
  /\ attested # None => checks["timestamp"] = "pass" /\ attested = receipt.token.at
  /\ vpc \in {"idle", "timestamp"} => attested = None /\ checks["timestamp"] = "skipped"

SignPart ==
  /\ signedBy # None <=> checks["signature"] = "pass"
  /\ signedBy # None => /\ signedBy = receipt.key
                        /\ Signed(receipt, attested, flags, known, seen)
  /\ vpc \in {"idle", "timestamp", "signature"} => signedBy = None

\* The revocation known at the start is there when the policy is read.
KnownPart ==
  vpc \in {"timestamp", "signature"} /\ receipt.key # None /\ known
    => IsRevoked(policy[receipt.key])

MaterialPart ==
  \/ material = NoMaterial
  \/ /\ vpc = "done" /\ signedBy # None
     /\ material.bundle \in offered
     /\ material.bundle.keys[signedBy] # Absent
     /\ material.state = "current" =>
          material.bundle.at <= now /\ now <= material.bundle.until

VInv ==
  StoreTypes /\ VerifierTypes /\ ReadPart /\ TimePart /\ SignPart /\ KnownPart /\ MaterialPart

----------------------------------------------------------------------------
LEMMA EntryKinds ==
  /\ Absent \in Entries /\ Trusted \in Entries
  /\ ~IsRevoked(Absent) /\ ~IsRevoked(Trusted) /\ Absent # Trusted
  /\ \A e \in Entries : e.at \in Nat
<1>1. Absent.status = "absent" /\ Trusted.status = "trusted"
  BY DEF Absent, Trusted
<1>2. Absent.at = 0 /\ Trusted.at = 0 /\ \A t : Revoked(t).at = t
  BY DEF Absent, Trusted, Revoked
<1>3. 0 .. MaxTime \subseteq Nat
  BY VerifyAssumption
<1> QED BY <1>1, <1>2, <1>3 DEF IsRevoked, Entries

LEMMA Facts ==
  /\ \A b : Status(b) \in {"pass", "fail"}
  /\ \A b \in BOOLEAN : (Status(b) = "pass" <=> b) /\ (Status(b) = "fail" <=> ~b)
  /\ NoMaterial \in Materials
  /\ None \notin Times
BY VerifyAssumption DEF Status, NoMaterial, Materials

LEMMA VInvInit == VerifyInit => VInv
<1> SUFFICES ASSUME VerifyInit PROVE VInv
  OBVIOUS
<1>1. StoreTypes
  <2>1. 1 \in Times
    BY VerifyAssumption DEF Times
  <2> QED BY <2>1, EntryKinds, VerifyAssumption DEF VerifyInit, PromiseInit, StoreTypes
<1>2. VerifierTypes
  <2>1. 1 \in Times
    BY VerifyAssumption DEF Times
  <2> QED BY <2>1, EntryKinds, Facts DEF VerifyInit, VerifierTypes, Places, Flags, Statuses
<1>3. checks["timestamp"] = "skipped" /\ checks["signature"] = "skipped"
  BY DEF VerifyInit, Checks
<1> QED BY <1>1, <1>2, <1>3
        DEF VInv, VerifyInit, ReadPart, TimePart, SignPart, KnownPart, MaterialPart

\* A step of the store: the policy tightens, what is accepted was offered.
LEMMA VInvStore == ASSUME VInv, StoreStep, UNCHANGED verifier, vpc # "done" PROVE VInv'
<1>1. StoreTypes /\ VerifierTypes
  BY DEF VInv
<1>2. offered' = offered
  BY DEF StoreStep, Tighten, Keep, Tear, Pass
<1>3. StoreTypes' /\ Tightens(policy, policy')
  <2>1. ASSUME Tighten PROVE StoreTypes' /\ Tightens(policy, policy')
    BY <1>1, <2>1 DEF Tighten, StoreTypes
  <2>2. ASSUME NEW b \in offered, Keep(b) PROVE StoreTypes' /\ Tightens(policy, policy')
    BY <1>1, <2>2 DEF Keep, StoreTypes, Tightens
  <2>3. ASSUME NEW i \in Keys, Tear(i) PROVE StoreTypes' /\ Tightens(policy, policy')
    BY <1>1, <2>3 DEF Tear, StoreTypes, Tightens
  <2>4. ASSUME Pass PROVE StoreTypes' /\ Tightens(policy, policy')
    <3>1. clock' \in Times
      BY <1>1, <2>4, VerifyAssumption DEF Pass, StoreTypes, Times
    <3> QED BY <1>1, <2>4, <3>1 DEF Pass, StoreTypes, Tightens
  <2> QED BY <2>1, <2>2, <2>3, <2>4 DEF StoreStep
<1>4. UNCHANGED <<vpc, receipt, flags, known, seen, attested, checks, signedBy, now,
                 material>>
  BY DEF verifier
<1>5. VerifierTypes' /\ ReadPart' /\ TimePart' /\ SignPart'
  BY <1>4 DEF VInv, VerifierTypes, ReadPart, TimePart, SignPart
<1>6. KnownPart'
  <2>1. vpc \in {"timestamp", "signature"} => receipt \in Receipts
    BY DEF VInv, ReadPart, Given
  <2>2. vpc \in {"timestamp", "signature"} /\ receipt.key # None => receipt.key \in Keys
    BY <2>1 DEF Receipts
  <2> QED BY <1>3, <1>4, <2>2 DEF VInv, KnownPart, Tightens
<1>7. MaterialPart'
  BY <1>4 DEF VInv, MaterialPart
<1> QED BY <1>3, <1>5, <1>6, <1>7 DEF VInv

LEMMA VInvBegin ==
  ASSUME VInv, NEW r \in Receipts, NEW f \in Flags, Begin(r, f) PROVE VInv'
<1>1. /\ vpc = "idle" /\ Exists(r, clock) /\ receipt' = r /\ flags' = f
      /\ UNCHANGED <<policy, accepted, clock, offered, seen, attested, signedBy, now, material>>
  BY DEF Begin, promised
<1>2. /\ r.body \in Bodies /\ r.key \in Keys \cup {None}
  BY DEF Receipts
<1>3. r.body.schema \in {"known", "newer", "foreign"} /\ r.body.coherent \in BOOLEAN
  BY <1>2, VerifyAssumption
<1>4. vpc' \in {"timestamp", "material", "done"}
  BY <1>3 DEF Begin
<1>5. /\ checks'["schema"] = Status(r.body.schema = "known")
      /\ r.body.schema = "known" => checks'["consistency"] = Status(r.body.coherent)
      /\ checks'["signature"] = "skipped" /\ checks'["timestamp"] = "skipped"
  BY DEF Begin, Checks, ConsistencyCheck
<1>6. checks' \in [Checks -> Statuses]
  <2>1. \A c \in Checks : checks'[c] \in Statuses
    BY Facts DEF Begin, Statuses, ConsistencyCheck
  <2>2. checks' = [c \in Checks |-> checks'[c]]
    BY DEF Begin
  <2> QED BY <2>1, <2>2
<1>7. known' \in BOOLEAN /\ (r.key # None /\ known' => IsRevoked(policy[r.key]))
  BY DEF Begin, IsRevoked
<1>8. StoreTypes' /\ MaterialPart'
  BY <1>1 DEF VInv, StoreTypes, MaterialPart
<1>9. VerifierTypes'
  BY <1>1, <1>4, <1>6, <1>7 DEF VInv, VerifierTypes, Places
<1>10. Given(r, checks')
  BY <1>1, <1>5, Facts DEF Given, Exists
<1>11. attested = None /\ signedBy = None
  BY <1>1 DEF VInv, TimePart, SignPart
<1>12. ReadPart' /\ TimePart' /\ SignPart'
  BY <1>1, <1>4, <1>5, <1>10, <1>11 DEF ReadPart, TimePart, SignPart
<1>13. KnownPart'
  BY <1>1, <1>7 DEF KnownPart
<1> QED BY <1>8, <1>9, <1>12, <1>13 DEF VInv

LEMMA VInvTimestamp ==
  ASSUME VInv, NEW pins \in SUBSET Honest, TimestampCheck(pins) PROVE VInv'
<1> DEFINE t == receipt.token
           ok == receipt.signature # None /\ VerifyToken(t, pins)
<1>1. /\ vpc = "timestamp" /\ vpc' = "signature"
      /\ UNCHANGED <<policy, accepted, clock, offered, receipt, flags, known, seen, signedBy, now,
                     material>>
  BY DEF TimestampCheck, promised
<1>2. receipt \in Receipts /\ signedBy = None /\ checks["timestamp"] = "skipped"
      /\ checks \in [Checks -> Statuses]
  BY <1>1 DEF VInv, ReadPart, Given, SignPart, TimePart, VerifierTypes
<1>3. t # None => t.at \in Times
  BY <1>2 DEF Receipts, Tokens
<1>4. t # None /\ ok => Stamped(receipt)
  BY DEF Stamped, VerifyToken
<1>5. /\ checks' = IF t = None THEN checks ELSE [checks EXCEPT !["timestamp"] = Status(ok)]
      /\ attested' = IF t # None /\ ok THEN t.at ELSE None
  BY DEF TimestampCheck
<1>6. ok \in BOOLEAN
  BY <1>2 DEF VerifyToken, Receipts, Tokens
<1> HIDE DEF t, ok
<1>7. /\ checks' \in [Checks -> Statuses]
      /\ \A c \in Checks \ {"timestamp"} : checks'[c] = checks[c]
      /\ t = None => checks'["timestamp"] = "skipped"
      /\ t # None => checks'["timestamp"] = Status(ok)
  BY <1>2, <1>5, Facts DEF Checks, Statuses
<1>8. StoreTypes' /\ VerifierTypes'
  BY <1>1, <1>3, <1>5, <1>7 DEF VInv, StoreTypes, VerifierTypes, Places
<1>9. ReadPart'
  BY <1>1, <1>7 DEF VInv, ReadPart, Given, Checks
<1>10. TimePart'
  BY <1>1, <1>4, <1>5, <1>6, <1>7, Facts DEF TimePart, t
<1>11. SignPart' /\ KnownPart' /\ MaterialPart'
  BY <1>1, <1>2, <1>7 DEF VInv, SignPart, KnownPart, MaterialPart, Checks
<1> QED BY <1>8, <1>9, <1>10, <1>11 DEF VInv

\* The entry found for a genuine signature is the policy's if it has one, so a
\* revocation known at the start is found.
LEMMA VInvSignature ==
  ASSUME VInv, NEW loads \in BOOLEAN, SignatureCheck(loads) PROVE VInv'
<1> DEFINE genuine == receipt.key # None /\ receipt.signature \in Times
<1>1. /\ vpc = "signature" /\ vpc' = "recompute"
      /\ UNCHANGED <<policy, accepted, clock, offered, receipt, flags, known, attested, now,
                     material>>
  BY DEF SignatureCheck, promised
<1>2. receipt \in Receipts /\ signedBy = None /\ checks \in [Checks -> Statuses]
      /\ material = NoMaterial
  BY <1>1 DEF VInv, ReadPart, Given, SignPart, VerifierTypes, MaterialPart
<1>3. receipt.key \in Keys \cup {None}
  BY <1>2 DEF Receipts
<1>4. StoreTypes'
  BY <1>1 DEF VInv, StoreTypes
<1>5. CASE ~flags.signatures
  <2>1. UNCHANGED <<seen, checks, signedBy>>
    BY <1>5 DEF SignatureCheck
  <2> QED BY <1>1, <1>2, <1>4, <2>1
          DEF VInv, VerifierTypes, Places, ReadPart, TimePart, SignPart, KnownPart, MaterialPart
<1>6. CASE flags.signatures
  <2>1. PICK e \in IF genuine /\ loads THEN KeyTrust(receipt.key) ELSE {Absent} :
          /\ seen' = e
          /\ checks' = [checks EXCEPT !["signature"] = Status(Accepts(e))]
          /\ signedBy' = IF Accepts(e) THEN receipt.key ELSE None
    BY <1>6 DEF SignatureCheck
  <2>2. e \in Entries
    BY <1>3, <2>1, EntryKinds DEF KeyTrust, VInv, StoreTypes
  <2>3. Accepts(e) \in BOOLEAN
    BY DEF Accepts
  <2>4. ASSUME Accepts(e) PROVE genuine /\ e \in KeyTrust(receipt.key)
    BY <2>1, <2>4, EntryKinds DEF Accepts
  <2>5. ASSUME Accepts(e), known PROVE IsRevoked(e)
    <3>1. IsRevoked(policy[receipt.key])
      BY <1>1, <2>4, <2>5 DEF VInv, KnownPart
    <3> QED BY <2>4, <2>5, <3>1, EntryKinds DEF KeyTrust
  <2>6. ASSUME Accepts(e) PROVE Signed(receipt, attested, flags, known, e)
    BY <2>4, <2>5, <2>6 DEF Signed, Accepts, SignedAt
  <2>7. /\ checks' \in [Checks -> Statuses]
        /\ \A c \in Checks \ {"signature"} : checks'[c] = checks[c]
        /\ checks'["signature"] = "pass" <=> Accepts(e)
    <3>1. Status(Accepts(e)) \in Statuses /\ (Status(Accepts(e)) = "pass" <=> Accepts(e))
      BY <2>3, Facts DEF Statuses
    <3>2. "signature" \in Checks
      BY DEF Checks
    <3> QED BY <1>2, <2>1, <3>1, <3>2
  <2>8. signedBy' # None <=> Accepts(e)
    BY <2>1, <2>4
  <2>9. VerifierTypes'
    BY <1>1, <1>3, <2>1, <2>2, <2>7 DEF VInv, VerifierTypes, Places
  <2>10. ReadPart' /\ TimePart'
    BY <1>1, <2>7 DEF VInv, ReadPart, Given, TimePart, Checks
  <2>11. SignPart'
    BY <1>1, <2>1, <2>6, <2>7, <2>8 DEF SignPart
  <2>12. KnownPart' /\ MaterialPart'
    BY <1>1, <1>2 DEF KnownPart, MaterialPart
  <2> QED BY <1>4, <2>9, <2>10, <2>11, <2>12 DEF VInv
<1> QED BY <1>5, <1>6 DEF VInv, VerifierTypes, Flags

LEMMA VInvRecompute ==
  ASSUME VInv, NEW asked, NEW yaml, NEW matches, RecomputeCheck(asked, yaml, matches)
  PROVE  VInv'
<1>1. /\ vpc = "recompute" /\ vpc' = "material"
      /\ now' = clock
      /\ UNCHANGED <<policy, accepted, clock, offered, receipt, flags, known, seen, attested,
                     signedBy, material>>
  BY DEF RecomputeCheck, promised
<1>2. checks \in [Checks -> Statuses] /\ material = NoMaterial
  BY <1>1 DEF VInv, VerifierTypes, MaterialPart
<1>3. /\ checks' \in [Checks -> Statuses]
      /\ \A c \in Checks \ {"recompute"} : checks'[c] = checks[c]
  <2>1. checks' = checks \/ \E b : checks' = [checks EXCEPT !["recompute"] = Status(b)]
    BY DEF RecomputeCheck, Recomputed
  <2> QED BY <1>2, <2>1, Facts DEF Statuses
<1>4. StoreTypes' /\ VerifierTypes'
  BY <1>1, <1>3 DEF VInv, StoreTypes, VerifierTypes, Places
<1>5. ReadPart' /\ TimePart' /\ SignPart'
  BY <1>1, <1>3 DEF VInv, ReadPart, Given, TimePart, SignPart, Checks
<1>6. KnownPart' /\ MaterialPart'
  BY <1>1, <1>2 DEF KnownPart, MaterialPart
<1> QED BY <1>4, <1>5, <1>6 DEF VInv

LEMMA VInvMaterial == ASSUME VInv, TrustMaterial PROVE VInv'
<1>1. /\ vpc = "material" /\ vpc' = "done"
      /\ UNCHANGED <<policy, accepted, clock, offered, receipt, flags, known, seen, attested,
                     checks, signedBy, now>>
  BY DEF TrustMaterial, promised
<1>2. StoreTypes' /\ StoreTypes
  BY <1>1 DEF VInv, StoreTypes
<1>3. ReadPart' /\ TimePart' /\ SignPart' /\ KnownPart'
  BY <1>1 DEF VInv, ReadPart, TimePart, SignPart, KnownPart
<1>4. CASE material' = NoMaterial
  BY <1>1, <1>2, <1>3, <1>4, Facts DEF VInv, VerifierTypes, Places, MaterialPart
<1>5. CASE material' # NoMaterial
  <2>1. PICK b \in Latest(signedBy) : material' = [state |-> Window(b, now), bundle |-> b]
    BY <1>5 DEF TrustMaterial
  <2>2. signedBy # None
    BY <1>5 DEF TrustMaterial
  <2>3. b \in Listing(signedBy)
    BY <2>1 DEF Latest
  <2>4. b # None /\ b.keys[signedBy] # Absent
        /\ \E i \in Keys : b = accepted[i] /\ accepted[i] # Torn
    BY <2>3 DEF Listing
  <2>5. b \in offered /\ b \in BundleType
    BY <1>2, <2>4 DEF StoreTypes
  <2>6. /\ Window(b, now) \in {"expired", "not-yet-valid", "current"}
        /\ Window(b, now) = "current" => b.at <= now /\ now <= b.until
    <3>1. b.at \in Nat /\ b.until \in Nat /\ now \in Nat
      BY <2>5, VerifyAssumption DEF VInv, VerifierTypes, BundleType, Times
    <3> QED BY <3>1 DEF Window
  <2>7. material' \in Materials /\ material'.bundle = b /\ material'.state = Window(b, now)
    BY <2>1, <2>5, <2>6 DEF Materials
  <2>8. MaterialPart'
    BY <1>1, <2>2, <2>4, <2>5, <2>6, <2>7 DEF MaterialPart
  <2>9. VerifierTypes'
    BY <1>1, <2>7 DEF VInv, VerifierTypes, Places
  <2> QED BY <1>2, <1>3, <2>8, <2>9 DEF VInv
<1> QED BY <1>4, <1>5

LEMMA VInvNext == VInv /\ [VerifyNext]_allVars => VInv'
<1> SUFFICES ASSUME VInv, [VerifyNext]_allVars PROVE VInv'
  OBVIOUS
<1>1. CASE UNCHANGED allVars
  BY <1>1 DEF allVars, promised, verifier, VInv, StoreTypes, VerifierTypes, ReadPart, TimePart,
              SignPart, KnownPart, MaterialPart
<1> QED BY <1>1, VInvStore, VInvBegin, VInvTimestamp, VInvSignature, VInvRecompute, VInvMaterial
        DEF VerifyNext

----------------------------------------------------------------------------
\* The verifier's types, and that every conclusion comes from a check that passed.
THEOREM VerifyTypeCorrect == VerifySpec => []VerifyTypeOK
<1>1. VInv => VerifyTypeOK
  BY DEF VInv, StoreTypes, VerifierTypes, Places, Statuses, Materials, ReadPart, Given, TimePart,
         SignPart, VerifyTypeOK
<1> QED BY <1>1, VInvInit, VInvNext, PTL DEF VerifySpec

\* A signature made after the revocation of its key is never accepted, unless
\* the caller takes the signer's word for its date.
THEOREM RevocationEffective == VerifySpec => []RevokedNotAccepted
<1>1. VInv => RevokedNotAccepted
  <2> SUFFICES ASSUME VInv, Passed({"signature"}), ~flags.ownWord
               PROVE  /\ known => IsRevoked(seen)
                      /\ IsRevoked(seen) => receipt.signature <= seen.at
    BY DEF RevokedNotAccepted
  <2>1. vpc = "done" /\ checks["signature"] = "pass"
    BY DEF Passed, Passes, Met
  <2>2. Signed(receipt, attested, flags, known, seen) /\ Given(receipt, checks)
    BY <2>1 DEF VInv, SignPart, ReadPart
  <2>3. ASSUME IsRevoked(seen) PROVE receipt.signature <= seen.at
    <3>1. attested # None /\ attested <= seen.at /\ receipt.signature \in Times
      BY <2>2, <2>3, EntryKinds DEF Signed
    <3>2. attested = receipt.token.at /\ Stamped(receipt)
      BY <3>1 DEF VInv, TimePart
    <3>3. receipt.signature <= receipt.token.at
      BY <2>2, <3>1, <3>2 DEF Given, Stamped
    <3>4. attested \in Nat /\ receipt.signature \in Nat /\ seen.at \in Nat
      BY <3>1, EntryKinds, VerifyAssumption DEF VInv, VerifierTypes, Times
    <3> QED BY <3>1, <3>2, <3>3, <3>4
  <2> QED BY <2>2, <2>3 DEF Signed
<1> QED BY <1>1, VInvInit, VInvNext, PTL DEF VerifySpec

\* A passing verdict means that everything the caller required is established.
THEOREM RequirementsMean == VerifySpec => []RequiredEstablished
<1>1. VInv => RequiredEstablished
  <2> SUFFICES ASSUME VInv, NEW required \in SUBSET Requirements, Passed(required),
                      NEW q \in required
               PROVE  Established(q)
    BY DEF RequiredEstablished
  <2>1. vpc = "done" /\ Met(q) /\ (\A c \in Checks : checks[c] # "fail")
    BY DEF Passed, Passes
  <2>2. Given(receipt, checks) /\ receipt \in Receipts
    BY <2>1 DEF VInv, ReadPart, Given
  <2>3. CASE q = "signature"
    BY <2>1, <2>3, EntryKinds DEF VInv, SignPart, Signed, Met, Established
  <2>4. CASE q = "timestamp"
    BY <2>1, <2>2, <2>4 DEF VInv, TimePart, Stamped, Given, Met, Established
  <2>5. CASE q = "recompute"
    BY <2>1, <2>5 DEF Met, Established
  <2>6. CASE q = "success"
    <3>1. receipt.body.schema = "known" /\ receipt.body.success
      BY <2>1, <2>6 DEF Met
    <3>2. receipt.body.coherent \in BOOLEAN
      BY <2>2, VerifyAssumption DEF Receipts
    <3>3. checks["consistency"] # "fail" /\ checks["consistency"] = Status(receipt.body.coherent)
      BY <2>1, <2>2, <3>1 DEF Given, Checks
    <3> QED BY <2>6, <3>1, <3>2, <3>3, Facts DEF Established
  <2>7. CASE q = "trust"
    <3>1. material.state = "current"
      BY <2>1, <2>7 DEF Met
    <3>2. material # NoMaterial
      BY <3>1 DEF NoMaterial
    <3>3. /\ signedBy # None /\ material.bundle \in offered
          /\ material.bundle.keys[signedBy] # Absent /\ material.bundle.at <= now /\ now <= material.bundle.until
      BY <3>1, <3>2 DEF VInv, MaterialPart
    <3>4. signedBy = receipt.key /\ receipt.signature \in Times
      BY <3>3 DEF VInv, SignPart, Signed
    <3> QED BY <2>7, <3>3, <3>4 DEF Established
  <2> QED BY <2>3, <2>4, <2>5, <2>6, <2>7 DEF Requirements
<1> QED BY <1>1, VInvInit, VInvNext, PTL DEF VerifySpec
=============================================================================
