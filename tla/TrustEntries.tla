---------------------------- MODULE TrustEntries ----------------------------
(* src/keys.rs, src/trust.rs: what a trust store records.                  *)
EXTENDS Naturals

CONSTANTS
  Keys,      \* key ids
  None,
  MaxTime    \* bound: readings of the clock

\* A TrustEntry, or its absence.  Time 0 is "no date", which every reader takes
\* for the beginning of time.
Times      == 1 .. MaxTime
Absent     == [status |-> "absent", at |-> 0]
Trusted    == [status |-> "trusted", at |-> 0]
Revoked(t) == [status |-> "revoked", at |-> t]
Entries    == {Absent, Trusted} \cup {Revoked(t) : t \in 0 .. MaxTime}
IsRevoked(e) == e.status = "revoked"

\* TrustBundle.  The sequence is the time of issue; `intact` says that the
\* schema is known, every id derives from its key, no key is listed twice and
\* the signature verifies.
BundleType ==
  [issuer : Keys, at : Times, until : Nat, keys : [Keys -> Entries],
   successor : Keys \cup {None}, intact : BOOLEAN]

\* An accepted bundle whose file a crash cut short.
Torn == [torn |-> TRUE]

\* What every reader of trust.toml counts on: a key stays listed, and a revoked
\* key stays revoked.  Dates may change.
Tightens(old, new) ==
  \A k \in Keys : /\ old[k] # Absent => new[k] # Absent
                  /\ IsRevoked(old[k]) => IsRevoked(new[k])

\* A policy that holds what a bundle says.
Applied(b, entries) ==
  \A k \in Keys : /\ b.keys[k] # Absent => entries[k] # Absent
                  /\ IsRevoked(b.keys[k]) => IsRevoked(entries[k])
=============================================================================
