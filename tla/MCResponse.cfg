\* Programs that write up to three pieces to each stream, buffers of two.
SPECIFICATION Spec
CONSTANTS
  Cap = 2
  MaxWritten = 3
INVARIANTS TypeOK TextIntact FailureIsShown OneVerdict
