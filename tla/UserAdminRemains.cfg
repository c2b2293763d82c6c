SPECIFICATION AdminSpec
CONSTANTS
  User = {root, ann}
  Bootstrap = root
  Slot = {s1, s2}
INVARIANT AdminRemains
