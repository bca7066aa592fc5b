SPECIFICATION MCSpec
CONSTANTS
  MaxElems = 1
  PipeMax = 2
  AsciiRequests <- MixedAscii
  BinaryRequests <- MixedBinary
  ReqsPerEvent = 1
  BufMax = 3
  Habits = {}
INVARIANTS HeldExact InSync AnsweredOnce NotifiedInTime NeverForgotten
PROPERTIES PipeErrorHolds
