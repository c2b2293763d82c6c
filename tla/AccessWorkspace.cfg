SPECIFICATION Spec
CONSTANTS
  Key = {"ann", "bob"}
  Identifier = {"ann", "ANN", "bob"}
  KeyOf <- MCKeyOf
  Source = {1, 2, 3}
  Fetchable <- MCFetchable
  Typed <- MCTyped
  MaxSnapshots = 4
INVARIANTS IInv LastFetchIsShown PagesAgree ReviewIsPartition
