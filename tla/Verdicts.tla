------------------------------ MODULE Verdicts ------------------------------
(* Check, CheckStatus and apply_policy of src/verify.rs, as the verdicts on  *)
(* packages, statements and images use them.                                 *)

CONSTANT None  \* an Option without a value

Statuses == {"pass", "fail", "skipped"}

Status(b) == IF b THEN "pass" ELSE "fail"

\* apply_policy: no check failed, and each required one ran and passed.
PolicyMet(checks, required) ==
  /\ \A c \in DOMAIN checks : checks[c] # "fail"
  /\ \A q \in required : checks[q] = "pass"
=============================================================================
