----------------------------- MODULE MCStewardship -----------------------------
(***************************************************************************)
(* An instance of Stewardship for TLC.  Users, sources and slots are alike.*)
(***************************************************************************)
EXTENDS Stewardship, TLC

MCIdentifier == {"ANN", "ann", "bob"}
MCNormalized == [i \in MCIdentifier |-> IF i = "bob" THEN "bob" ELSE "ann"]
MCText == {"leave"}
Symmetry == Permutations(User) \union Permutations(Source) \union Permutations(Slot)
=============================================================================
