CONSTANTS
  p1 = p1
  p2 = p2
  p3 = p3
  p4 = p4
  Pid = {p1, p2, p3}
  MaxJobs = 3
  MaxStages = 2
  MaxId = 2
  MaxStops = 1
  MaxFaults = 0
SPECIFICATION FairSpec
PROPERTY PromptReturns
