\* A list of four meets the limit on records; by a cursor with single-element
\* pages it meets the limit on pages first, and so does every retry counter.  A
\* cursor that strays in a list of two meets either, by reading it again.
CONSTANTS
  MaxLength = 4
  MaxStray = 2
  MaxCap = 3
  Servers <- MCServers
  PageSize = 2
  MaxRetries = 3
  MaxPages = 3
  MaxTotalRecords = 4
SPECIFICATION FairSpec
INVARIANTS IInv NothingTwice EndlessIsTold
PROPERTIES ListingSteps Terminates
CHECK_DEADLOCK FALSE
