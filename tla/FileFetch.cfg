\* Two rows at most, one in the preview: three lines meet both limits.
CONSTANTS
  Cell = {"", "account", "state", "ann", "bob", "on", "off"}
  Blank = ""
  IdColumn = "account"
  StatusColumn = "state"
  EnabledCell = {"on"}
  MaxRows = 2
  PreviewRows = 1
  Uploads <- MCUploads
SPECIFICATION Spec
INVARIANTS IInv PreviewForetells ValuesStayInColumns
PROPERTY ListingSpec
CHECK_DEADLOCK FALSE
