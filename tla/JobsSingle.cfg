CONSTANTS
  p1 = p1
  p2 = p2
  p3 = p3
  p4 = p4
  Pid = {p1, p2}
  MaxJobs = 2
  MaxStages = 1
  MaxId = 4
  MaxStops = 3
  MaxFaults = 1
SPECIFICATION FairSpec
INVARIANTS JobStateTrue JobsKept
PROPERTY PromptReturns
