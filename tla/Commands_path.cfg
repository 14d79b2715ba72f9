SPECIFICATION CommandSpec
CONSTANTS
  None = None
  main = main
  forked = forked
  art = art
  cap = cap
  first = first
  second = second
  Other = Other
  Artifacts = {art}
  Capsules = {cap}
  Events = {first, second}
  Parents <- MCParents
  Receipts <- MCReceipts
  Asked <- MCAsked
  Sent <- MCSent
  Readers <- MCReaders
  Histories = {main, forked}
  Common = 1
  MaxSize = 3
  MaxEdits = 1
  alice = alice
  bob = bob
  SigningKeys = {alice, bob}
  Local = {alice}
  Authorized = {alice}
  NoPolicy = {}
  Originals <- MCOriginals
  Exports <- MCExports
  Received <- MCReceived
  Imports <- MCImports
  ours = ours
  theirs = theirs
  Workflows = {ours, theirs}
  Claims <- MCClaims
  ReceiptFiles <- MCFiles
  Foreign <- MCForeign
  Policies <- MCPolicies
  MaxHead = 2
  ImageDocs <- MCDocs
  SignRequests <- MCSign
  VerifyRequests <- MCVerify
  Wrappers = {w1, w2}
  WrapInputs = {src}
  BuildCodes = {0, 1}
  MaxMeddling = 1
  Background = {b1, b2}
  CommandCodes <- MCCodes
  k1 = k1
  k2 = k2
  SignerKeys = {k1, k2}
  Clerks = {c1, c2, c3}
  ClerkJobs <- MCErrands
  Delivered <- MCDelivered
  e1 = e1
  e2 = e2
  e3 = e3
  LedgerEvents = {e1, e2, e3}
  Recorded <- MCRecorded
  Queries <- MCQueries
  h1 = h1
  h2 = h2
  CacheUsers = {u1, u2}
  CacheKeys = {h1, h2}
  EntrySize <- MCSize
  MaxBytes = 1
  TileHeight = 2
  MaxTiles = 4
  MaxLeaves = 9
  Fork = 3
  MainLog = main
  ForkedLog = forked
INVARIANT FoundPathIsValid
CHECK_DEADLOCK FALSE
