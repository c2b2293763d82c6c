\* Two comparisons of three rows together, two fields, pages of two rows.
SPECIFICATION PagesSpec
CONSTANTS
  AccountKey = {1, 2, 3}
  Field = {"owner", "due"}
  DisplayOrder <- MCDisplayOrder
  Value = {"", "x", "-1"}
  Formula = {"-1"}
  Quoted <- MCQuoted
  PAGE_SIZE = 2
  MaxComparisons = 2
  MaxRows = 3
  MaxAnnotations = 2
INVARIANTS PagesHoldEveryRow ExportMatchesPage
