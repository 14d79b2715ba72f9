\* An authority and a signer, bundles imported during the verification.
SPECIFICATION VerifySpec
CONSTANTS
  root = root  signer = signer  ca = ca
  None = None
  Keys = {root, signer}
  MaxTime = 2
  Bodies <- OneBody
  Authorities = {}
  Honest = {}
  Loose = {}
  ToImport <- RootIssued
INVARIANTS
  MaterialAccounted
CHECK_DEADLOCK FALSE
