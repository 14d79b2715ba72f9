\* The three scenes of MCTrustScenes; a command may be killed at any write.
SPECIFICATION SceneSpec
CONSTANTS
  root = root  heir = heir  signer = signer  own = own
  None = None
  Keys = {root, heir, signer, own}
  Own = {own}
  Procs = {p1, p2}
  MaxTime = 3
  MaxIssued = 2
  Bundles <- AllBundles
SYMMETRY Interchangeable
INVARIANTS
  AuthorityGrounds
  IssuedVerifies
PROPERTIES
  RevocationFinal
  RevokedAuthorityOut
  KeepsPromise
CHECK_DEADLOCK FALSE
