\* Depth limit 2 on four groups: chains of four distinct groups exceed it.
CONSTANTS
  Group = {1, 2, 3, 4}
  Person = {11, 12, 13, 14}
  Root = 1
  MaxDepth = 2
  Crowd = 3
  own <- MCOwn
  Directories <- MCDirectories
SPECIFICATION FairSpec
INVARIANTS IInv CompleteUnlessCut CutOnlyOnLongChain EachGroupSearchedOnce
PROPERTIES ListingSteps Terminates
CHECK_DEADLOCK FALSE
