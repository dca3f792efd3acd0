\* Headers with six capabilities; kernels that know four to eight.
SPECIFICATION Spec
CONSTANTS
  CAP_LAST_CAP = 5
  Kernels = {4, 6, 8}
  SYS_ADMIN = 3
  SETPCAP = 1
  Commands = {"runs", "not found", "not executable", "none"}
INVARIANTS TypeOK NothingLeft OrderPermitted
