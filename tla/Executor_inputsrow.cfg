\* The inputs row of a receipt with cache hits.
SPECIFICATION Spec
CONSTANTS
  build = build  pack = pack
  src = src  conf = conf  bin = bin  pkg = pkg
  Procs = {p1}
  Steps = {build, pack}
  Needs <- ChainNeeds
  Inputs <- ChainInputs
  Outputs <- ChainOutputs
  Cached = {build, pack}
  Capsules = {pack}
  Files = {src, conf, bin, pkg}
  Content = {1, 2}
  Absent = Absent  None = None
  Build <- ChainBuild
  Modes = {"plain"}
  Restorable = {}
  MaxRuns = 2
  MaxEdits = 1
INVARIANTS
  EnforcedMeansCapsules
CHECK_DEADLOCK FALSE
