SPECIFICATION Spec
CONSTANTS
  root = root  heir = heir  signer = signer  own = own
  None = None
  Keys = {root, signer}
  Own = {}
  Procs = {p1, p2}
  MaxTime = 2
  MaxIssued = 0
  Bundles <- RaceBundles
PROPERTIES RevocationStands
CHECK_DEADLOCK FALSE
