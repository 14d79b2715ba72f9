------------------------------ MODULE MCVerify ------------------------------
(* One signer; an authority that vouches for it and then revokes it. *)
EXTENDS Verify, TLC

CONSTANTS root, signer, ca

Stated(ks) == [k \in Keys |-> IF k \in DOMAIN ks THEN ks[k] ELSE Absent]

From(i, t, ks) ==
  [issuer |-> i, at |-> t, until |-> t, keys |-> Stated(ks), successor |-> None,
   intact |-> TRUE]

\* The signer vouches for itself.
SelfIssued == {From(signer, 1, signer :> Trusted)}

RootIssued ==
  {From(root, 1, (root :> Trusted) @@ (signer :> Trusted)),
   From(root, 2, (root :> Trusted) @@ (signer :> Revoked(1)))}

Body(s, x, c, ok) == [schema |-> s, execution |-> x, coherent |-> c, success |-> ok]

MCBodies ==
  {Body("known", "legacy", TRUE, TRUE), Body("known", "native", FALSE, TRUE),
   Body("known", "wrapped", TRUE, FALSE),
   Body("newer", "native", TRUE, TRUE), Body("foreign", "native", TRUE, TRUE)}

OneBody == {Body("known", "native", TRUE, TRUE)}
=============================================================================
