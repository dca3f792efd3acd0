\* Two limits, three processes; every call may fail.
SPECIFICATION FairSpec
CONSTANTS
  p1 = p1
  p2 = p2
  p3 = p3
  Files = {"memory.max", "pids.max"}
  Pids = {p1, p2, p3}
  Root = p1
  MaxUsage = 3
  KB = 2
  MaxRss = 2
  Kernels <- MCKernels
  Faults = {"mkdir", "write", "start", "kill", "read", "rmdir", "gone"}
INVARIANTS TypeOK KilledForGood SamplerJoined PeakCovered
PROPERTIES ImplementsControlGroup Closes
