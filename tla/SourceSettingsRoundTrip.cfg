\* The constants of Administration.cfg.
CONSTANTS
  Page = {1}
  Template = {1, 2, 3}
  NoParam = "none"
  ParamOf <- MCParamOf
  Text = {"", "g"}
  Plain = {"", "x"}
  Password = {"", "p"}
SPECIFICATION Spec
INVARIANT RoundTripKeeps
