CONSTANTS
  p1 = p1
  p2 = p2
  p3 = p3
  p4 = p4
  Pid = {p1, p2, p3, p4}
  MaxJobs = 2
  MaxStages = 2
  MaxId = 2
  MaxStops = 2
  MaxFaults = 1
SPECIFICATION Spec
INVARIANTS
    TableInv
SYMMETRY Symmetry
