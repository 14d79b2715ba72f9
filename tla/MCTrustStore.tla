---------------------------- MODULE MCTrustStore ----------------------------
(* Two authorities `root` and `heir`, a signer, and a key of this workspace *)
EXTENDS TrustStore, TLC

CONSTANTS root, heir, signer, own

Stated(ks) == [k \in Keys |-> IF k \in DOMAIN ks THEN ks[k] ELSE Absent]

From(i, t, ks, next) ==
  [issuer |-> i, at |-> t, until |-> t + 1, keys |-> Stated(ks), successor |-> next,
   intact |-> TRUE]

\* The root vouches for the signer, then revokes it; a second bundle of the same
\* age dates the revocation earlier and hands over to the heir, which vouches
\* for the signer again, then revokes the root.  And bundles examine refuses.
MCBundles ==
  LET r1 == From(root, 1, (root :> Trusted) @@ (signer :> Trusted), None)
      r2 == From(root, 2, (root :> Trusted) @@ (signer :> Revoked(2)), None)
      r3 == From(root, 2, (root :> Trusted) @@ (heir :> Trusted) @@ (signer :> Revoked(1)), heir)
      h2 == From(heir, 2, (heir :> Trusted) @@ (signer :> Trusted), None)
      h3 == From(heir, 3, (heir :> Trusted) @@ (root :> Revoked(1)), None) IN
  {r1, r2, r3, h2, h3,
   [r2 EXCEPT !.intact = FALSE],
   From(heir, 1, (root :> Trusted), None),
   From(root, 3, (root :> Trusted) @@ (signer :> Revoked(0)), None)}

\* For two commands at once: the root vouches for the signer, then revokes it.
RaceBundles ==
  {From(root, 1, (root :> Trusted) @@ (signer :> Trusted), None),
   From(root, 2, (root :> Trusted) @@ (signer :> Revoked(1)), None)}

Interchangeable == Permutations(Procs)
=============================================================================
