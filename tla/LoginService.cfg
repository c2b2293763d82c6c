\* Limits of 2 and 3 failures, spans of 2 ticks, two spellings.
CONSTANTS
  Spelling = {"ann", "ANN"}
  Canonical = "ann"
  Bootstrap = "none"
  NoName = "none"
  MaxFailedAttempts = 2
  LockoutDuration = 2
  MaxAttemptsPerIdentity = 3
  ThrottleWindow = 2
  MaxTime = 6
SPECIFICATION Spec
INVARIANTS IInv GuessesBounded RowGuessesBounded WaitingHelps
CHECK_DEADLOCK FALSE
