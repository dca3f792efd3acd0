\* Every body of a grid of limits on both routes, some over the word, in four
\* environments.
SPECIFICATION Spec
CONSTANTS
  WordSize = 256
  Second = 5
  KB = 4
  Configs <- MCConfigs
  AskedSeconds <- MCSeconds
  AskedDurations <- MCDurations
  AskedMemory <- MCMemory
INVARIANTS TypeOK WithinMaxima CgroupMatchesReservation HonoursTimeout
