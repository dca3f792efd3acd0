\* Every host of a small grid, up to two failing system calls.
SPECIFICATION Spec
CONSTANTS
  Sources <- MCSources
  HostKinds <- MCHosts
  HostMounts <- MCMounted
  Inside <- MCInside
  MaxFaults = 2
INVARIANTS TypeOK SandboxSeesReadOnly HostFilesKept OnlyStuckMountsLeft
PROPERTY InnerFirst
