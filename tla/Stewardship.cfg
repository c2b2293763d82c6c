\* Two users, two sources, an account under two spellings, two requests at a
\* time.
SPECIFICATION Spec
CONSTANTS
  User = {ann, bob}
  Source = {vpn, line}
  Identifier <- MCIdentifier
  Normalized <- MCNormalized
  Text <- MCText
  Slot = {s1, s2}
SYMMETRY Symmetry
INVARIANTS IInv NotesFollowMembers
PROPERTY EntitledWrites
