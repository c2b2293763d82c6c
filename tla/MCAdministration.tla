---------------------------- MODULE MCAdministration ----------------------------
(***************************************************************************)
(* The settings of a source and the accounts of the users in one run.  The *)
(* two share no variable, so that checking each while the other rests in   *)
(* its initial state shows what checking them side by side would.          *)
(***************************************************************************)
EXTENDS UserAdmin, MCSourceSettings

Start == Init /\ AdminInit

EditSettings == Next /\ AdminInit /\ UNCHANGED adminVars
EditUsers == AdminNext /\ Init /\ UNCHANGED vars

AdministrationSpec == Start /\ [][EditSettings \/ EditUsers]_<<vars, adminVars>>
=============================================================================
