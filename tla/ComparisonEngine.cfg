\* Lists of up to two accounts over four spellings of three keys.
CONSTANTS
  Key = {1, 2, 3}
  Identifier = {"ann", "ANN", "bob", "zoe"}
  KeyOf <- MCKeyOf
  Trait = {"email"}
  Text = {"x", "y"}
  maxLength = 2
  Results <- MCResults
SPECIFICATION Spec
INVARIANTS IInv RevocationGapIsHigh HighIsJustified NothingLostSilently OneArrangement
CHECK_DEADLOCK FALSE
