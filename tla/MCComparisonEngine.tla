------------------------- MODULE MCComparisonEngine -------------------------
(***************************************************************************)
(* Instances of ComparisonEngine: every pair of lists of up to maxLength   *)
(* accounts over three keys, one of them with two spellings.               *)
(***************************************************************************)
EXTENDS ComparisonEngine

CONSTANT maxLength    \* longest list

MCKeyOf == [i \in Identifier |-> IF i = "zoe" THEN 3 ELSE IF i = "bob" THEN 2 ELSE 1]

\* "ann" may carry a mail address of either value, the others none.
MCAccounts ==
  {a \in Account : a.identifier = "bob" => a.status # "unknown"} \intersect
  {a \in Account : (\E t \in Trait : a.traits[t] # Blank)
                      => a.identifier = "ann" /\ a.status = "enabled"}

\* A source without a count, one that reports one account more than it
\* delivers, and one that warns.
MCResults ==
  {[accounts |-> s, total_reported |-> NoReport, warned |-> FALSE] :
     s \in UNION {[1..n -> MCAccounts] : n \in 0..maxLength}}
  \union
  {[accounts |-> <<a>>, total_reported |-> r, warned |-> w] :
     a \in {b \in MCAccounts : b.identifier = "zoe"}, r \in 1..2, w \in BOOLEAN}
=============================================================================
