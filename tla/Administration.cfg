\* Three templates, of which two share a parameter; a value or nothing in each
\* text field; three users, two requests at a time.
CONSTANTS
  Page = {1}
  Template = {1, 2, 3}
  NoParam = "none"
  ParamOf <- MCParamOf
  Text = {"", "g"}
  Plain = {"", "x"}
  Password = {"", "p"}
  User = {root, ann, bob}
  Bootstrap = root
  Slot = {s1, s2}
SPECIFICATION AdministrationSpec
INVARIANTS IInv StoredConfigBuilds EditsStayLocal
           AdminInv WithdrawnBeforeIsRefused AdminRemainsUnlessStale TrailTellsRows
