\* One crash, against the comment on GLOBAL_RAM_LIMIT.
SPECIFICATION Spec
CONSTANTS
  r1 = r1
  r2 = r2
  Requests <- MCRequests
  Languages = {"py"}
  Amounts = {1, 2}
  RAM_LIMIT = 3
  Faults = {}
  MaxCrashes = 1
INVARIANT RunningRamWithinLimit
