\* The same grid: a body over the word against the README on MAX_TIMEOUT.
SPECIFICATION Spec
CONSTANTS
  WordSize = 256
  Second = 5
  KB = 4
  Configs <- MCUsual
  AskedSeconds <- MCSeconds
  AskedDurations <- MCDurations
  AskedMemory <- MCMemory
INVARIANT HigherTimeoutRunsForMax
