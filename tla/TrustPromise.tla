---------------------------- MODULE TrustPromise ----------------------------
(***************************************************************************)
(* What the trust store promises those who read it without a lock, as      *)
(* `attest verify` does: each file changes in one step, the policy only    *)
(* tightens, and a bundle is on record as accepted only when the policy    *)
(* holds it and only after the older ones of its issuer.  TrustStore keeps *)
(* this at every step but the write of a command that another overtook     *)
(* (its KeepsPromise); Verify relies on it while it runs.                  *)
(***************************************************************************)
EXTENDS TrustEntries

VARIABLES
  policy,    \* trust.toml: the entry of every key
  accepted,  \* <trust>/bundles/<issuer>.json
  clock,     \* Utc::now
  offered    \* the bundles there are to import

promised == <<policy, accepted, clock, offered>>

PromiseInit ==
  /\ policy = [k \in Keys |-> Absent]
  /\ accepted = [k \in Keys |-> None]
  /\ clock = 1
  /\ offered \subseteq BundleType

Tighten ==
  /\ policy' \in [Keys -> Entries] /\ Tightens(policy, policy')
  /\ UNCHANGED <<accepted, clock, offered>>

Keep(b) ==
  /\ Applied(b, policy)
  /\ accepted[b.issuer] # Torn
  /\ accepted[b.issuer] # None => accepted[b.issuer].at < b.at
  /\ accepted' = [accepted EXCEPT ![b.issuer] = b]
  /\ UNCHANGED <<policy, clock, offered>>

\* A crash while the record of issuer i is written.
Tear(i) ==
  /\ accepted' = [accepted EXCEPT ![i] = Torn]
  /\ UNCHANGED <<policy, clock, offered>>

Pass ==
  /\ clock < MaxTime
  /\ clock' = clock + 1
  /\ UNCHANGED <<policy, accepted, offered>>

Offer ==
  /\ offered \subseteq offered'
  /\ UNCHANGED <<policy, accepted, clock>>

StoreStep ==
  \/ Tighten
  \/ \E b \in offered : Keep(b)
  \/ \E i \in Keys : Tear(i)
  \/ Pass
=============================================================================
