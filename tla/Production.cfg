\* `run`: one process, two runs, two edits that may change the input of the capsule step and
\* back.  `load`: all pipelines of three steps with at most two needs each.  `publish`: two
\* publishers, two attempts, two openings, a log of two entries that may never answer.
SPECIFICATION ProductionSpec
CONSTANTS
  build = build  pack = pack
  src = src  conf = conf  bin = bin  pkg = pkg
  Procs = {p1}
  Steps = {build, pack}
  Needs <- ChainNeeds
  Inputs <- ChainInputs
  Outputs <- ChainOutputs
  Cached = {build, pack}
  Capsules = {pack}
  Files = {src, conf, bin, pkg}
  Content = {1, 2}
  Absent = Absent  None = None
  Build <- ChainBuild
  Modes = {"stamp"}
  Restorable = {conf}
  MaxRuns = 2
  MaxEdits = 2
  a = a  b = b  c = c  other = other
  Nodes = {a, b, c}
  Keys <- AnyOrder
  NeedsLists <- ShortLists
  n1 = n1  n2 = n2
  Publishers = {q1, q2}
  Nonces = {n1, n2}
  Other = other  NoValue = NoValue
  MaxSubmissions = 2
  MaxPolls = 2
  MaxLog = 2
INVARIANTS
  ReceiptTellsTheTruth
  OnSolidFoundation
  ExitZeroMeansComplete
  SigningBoundary
  CausalChainComplete
  CycleVerdict
  PathIsCycle
  SortSucceeds
  GroupsAreDepths
  DisclosureRecorded
  ConfirmationStands
PROPERTIES
  RunsTerminate
  EmitsInOrder
  Terminates
  NothingForgotten
  PublishEnds
CHECK_DEADLOCK FALSE
