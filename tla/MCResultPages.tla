----------------------------- MODULE MCResultPages -----------------------------
(***************************************************************************)
(* An instance of ResultPages for TLC.                                     *)
(***************************************************************************)
EXTENDS ResultPages

MCDisplayOrder == [f \in Field |-> 0]
MCQuoted == [v \in Formula |-> "'-1"]
=============================================================================
