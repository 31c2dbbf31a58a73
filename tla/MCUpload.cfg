SPECIFICATION MCSpec
CONSTANTS
  None = None
  none = none
  zero = zero
  Scenarios <- MCScenarios
  Parents <- MCParents
  Content <- MCContent
  MaxCommits = 2
  s1 = s1
  s2 = s2
  s3 = s3
  r1 = r1
  r2 = r2
  r3 = r3
  r4 = r4
  d1 = d1
  d2 = d2
  d4 = d4
  p1 = p1
  p2 = p2
  g = g
  h = h
  Stages <- MCStages
  Parent <- MCParent
  Roots <- MCRoots
  Dependents <- MCDependents
  Upstream <- MCUpstream
  Source <- MCSource
  Gate <- MCGate
  Outcomes <- MCOutcomes
  Budget = 5
  MaxAttempts <- MCAttempts
  MaxRuns <- MCRuns
  MaxFaults = 1
  Transfers <- MCTransfers1
  Lower <- MCLower
  Dotted <- MCDotted
  Weight <- MCWeight
  Target <- MCTarget
  MaxArtifacts = 3
INVARIANTS
  GatesPresent
  OneExpansion
  ExitHonest
  SelectionAgrees
  TransfersExact
CHECK_DEADLOCK FALSE
