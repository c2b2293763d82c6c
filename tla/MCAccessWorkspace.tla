--------------------------- MODULE MCAccessWorkspace ---------------------------
(***************************************************************************)
(* Two people, one of whom a source may spell in two ways; a list without  *)
(* one of them, one with somebody disabled, one with duplicates, and one   *)
(* that is typed in.                                                       *)
(***************************************************************************)
EXTENDS AccessWorkspace

MCKeyOf == [i \in Identifier |-> IF i = "bob" THEN "bob" ELSE "ann"]

Person(i, status) == [identifier |-> i, status |-> status]

MCFetchable ==
  { {Person("ann", "enabled")},
    {Person("ann", "enabled"), Person("bob", "disabled")},
    {Person("ANN", "disabled"), Person("ann", "unknown")} }

MCTyped == {{"ANN", "bob"}}
=============================================================================
