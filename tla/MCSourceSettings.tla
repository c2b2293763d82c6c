--------------------------- MODULE MCSourceSettings ---------------------------
(***************************************************************************)
(* Three templates: one without a parameter, and two that share theirs, as *)
(* group_members_nested and group_members_direct do.                       *)
(***************************************************************************)
EXTENDS SourceSettings

MCParamOf == [t \in Template |-> IF t = 1 THEN NoParam ELSE "group_dn"]
=============================================================================
