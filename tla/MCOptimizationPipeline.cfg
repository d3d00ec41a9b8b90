CONSTANTS
  main = main
  f = f
  g = g
  h = h
  leaves = {k1, k2, k3, k4, k5, k6}
  call = call
  states = states
  Ids = {main, f, g, h, k1, k2, k3, k4, k5, k6}
  Layers = {call, states}
  Entries = {main}
  Inputs <- MCInputs
  MediumChange = 3
  MaxTraceBranching = 6
  MaxTraceDepth = 50
SPECIFICATION Spec
INVARIANTS TypeOK BehaviourPreserved DeadCodeGone CyclesCleaned TraceTestExact BranchesAreLevels KeptRiskReported
SYMMETRY Symmetry
CHECK_DEADLOCK FALSE
