\* A kernel without cgroup.kill, on which no call fails otherwise.
SPECIFICATION Spec
CONSTANTS
  p1 = p1
  p2 = p2
  p3 = p3
  Files = {"memory.max"}
  Pids = {p1, p2}
  Root = p1
  MaxUsage = 1
  KB = 1
  MaxRss = 0
  Kernels <- OldKernels
  Faults = {}
INVARIANT KilledOnTimeout
