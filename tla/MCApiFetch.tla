------------------------------ MODULE MCApiFetch ------------------------------
(***************************************************************************)
(* Small APIs: lists of up to MaxLength elements, of up to MaxStray where  *)
(* the cursors lead anywhere, pages of up to MaxCap.                       *)
(***************************************************************************)
EXTENDS ApiFetch

CONSTANTS MaxLength, MaxStray, MaxCap

Small(length, strays_) ==
  UNION {[list : [1..n -> Element], cap : 1..MaxCap, gaps : BOOLEAN, strays : {strays_}] :
           n \in 0..length}

MCServers == Small(MaxLength, FALSE) \union Small(MaxStray, TRUE)
=============================================================================
