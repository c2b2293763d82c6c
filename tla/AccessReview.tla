----------------------------- MODULE AccessReview -----------------------------
(***************************************************************************)
(* The two views of who holds which entitlement: build_access_review       *)
(* (src/app/access_review/engine.py), the matrix of the home page, and     *)
(* entitlement_detail (src/app/web/services.py), the page of one source.   *)
(* Both work on stored snapshots, whose accounts the database returns in   *)
(* an order of its own; so a snapshot holds a set of accounts, and the     *)
(* first account of a key may be any of them.                              *)
(***************************************************************************)
EXTENDS Naturals, FiniteSets

CONSTANTS
  Key,         \* normalized keys
  Identifier,  \* identifiers as the sources spell them
  KeyOf        \* Account.normalized_key

AccountStatus == {"enabled", "disabled", "unknown"}
Account == [identifier : Identifier, status : AccountStatus]
FetchResult == SUBSET Account

ASSUME KeyAssumption == IsFiniteSet(Identifier) /\ KeyOf \in [Identifier -> Key]

AccountsOf(result, k) == {a \in result : KeyOf[a.identifier] = k}

\* The keys of _build_index.
Keys(result) == {KeyOf[a.identifier] : a \in result}

-----------------------------------------------------------------------------
(* The home page: master and the members of each entitlement.              *)

Access(master, members) ==
  [k \in Keys(master) |-> {e \in DOMAIN members : k \in Keys(members[e])}]

\* Mutant: the kind is looked for before the master is.
DisabledFirst(master, result, k) ==
  IF \E a \in AccountsOf(result, k) : a.status = "disabled" THEN {"disabled"}
  ELSE IF k \in Keys(master) THEN {} ELSE {"orphan"}

\* Kinds under which a member may be listed: none for who is in the master,
\* else what the status of the account the index kept says.
AnomalyKinds(master, result, k) ==
  IF k \in Keys(master)
    THEN {}
    ELSE {IF a.status = "disabled" THEN "disabled" ELSE "orphan" : a \in AccountsOf(result, k)}

\* Members of entitlement e that the anomaly list names.
Anomalous(master, members, e) ==
  {k \in Keys(members[e]) : AnomalyKinds(master, members[e], k) # {}}

GrantedCount(master, members, e) ==
  Cardinality({k \in Keys(master) : e \in Access(master, members)[k]})
AnomalyCount(master, members, e) == Cardinality(Anomalous(master, members, e))

-----------------------------------------------------------------------------
(* The page of one source: every account against the master's keys.        *)

\* The anomaly of an account, "" for none.
DetailAnomaly(masterKeys, a) ==
  IF KeyOf[a.identifier] \in masterKeys THEN ""
  ELSE IF a.status = "disabled" THEN "disabled" ELSE "orphan"

\* The anomalies shown of the accounts of one key, and how many are counted:
\* one for each account, where the home page counts one for each key.
DetailKinds(masterKeys, result, k) ==
  {DetailAnomaly(masterKeys, a) : a \in AccountsOf(result, k)} \ {""}

DetailAnomalyCount(masterKeys, result) ==
  Cardinality({a \in result : DetailAnomaly(masterKeys, a) # ""})
=============================================================================
