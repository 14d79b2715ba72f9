CONSTANTS
  root = root  heir = heir  signer = signer  own = own
  None = None
  Keys = {root, heir, signer}
  Own = {}
  Procs = {p1}
  MaxTime = 3
  MaxIssued = 0
  Bundles <- MCBundles
SPECIFICATION Spec
PROPERTIES EarlierOnly
CHECK_DEADLOCK FALSE
