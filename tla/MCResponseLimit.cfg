\* The README on the reply of an execution over a limit.
SPECIFICATION Spec
CONSTANTS
  Cap = 2
  MaxWritten = 3
INVARIANT LimitReplyAsDocumented
