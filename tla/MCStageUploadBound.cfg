SPECIFICATION Spec
CONSTANTS
  None = None
  s1 = s1
  s2 = s2
  s3 = s3
  r1 = r1
  r2 = r2
  r3 = r3
  r4 = r4
  d1 = d1
  d2 = d2
  d4 = d4
  p1 = p1
  p2 = p2
  g = g
  h = h
  Stages <- LoneStages
  Parent <- LoneParent
  Roots <- LoneRoots
  Dependents <- LoneDependents
  Upstream <- LoneUpstream
  Source <- LoneSource
  Gate <- LoneGate
  Outcomes <- LoneOutcomes
  Budget = 2
  MaxAttempts <- LoneAttempts
  MaxRuns <- LoneRuns
  MaxFaults = 1
INVARIANT
  DeferredJobsBounded
CHECK_DEADLOCK FALSE
