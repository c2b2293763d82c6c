---------------------------- MODULE AccountListing ----------------------------
(***************************************************************************)
(* What every account provider promises its caller (AccountProvider in     *)
(* src/app/providers/base.py): a fetch ends by raising, or by returning    *)
(* the complete list of accounts, or by returning part of it together      *)
(* with a warning.  It never returns a truncated list in silence and never *)
(* invents an account.  The providers are shown to implement this module.  *)
(***************************************************************************)
CONSTANT Person     \* whoever the source could list

VARIABLES
  expected,   \* the accounts the source holds for the query
  accounts,   \* FetchResult.accounts
  warned,     \* does FetchResult.warnings hold anything?
  outcome     \* "fetching", "returned" or "raised"

listingVars == <<expected, accounts, warned, outcome>>

Init ==
  /\ expected \in SUBSET Person
  /\ accounts = {}
  /\ warned = FALSE
  /\ outcome = "fetching"

\* fetch() returns a FetchResult.
Return ==
  /\ outcome = "fetching"
  /\ outcome' = "returned"
  /\ accounts' \in SUBSET expected
  /\ warned' \in BOOLEAN
  /\ accounts' # expected => warned'
  /\ UNCHANGED expected

\* fetch() raises: the caller sees no list at all.
Raise ==
  /\ outcome = "fetching"
  /\ outcome' = "raised"
  /\ UNCHANGED <<expected, accounts, warned>>

Next == Return \/ Raise

Spec == Init /\ [][Next]_listingVars
=============================================================================
