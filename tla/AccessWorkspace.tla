---------------------------- MODULE AccessWorkspace ----------------------------
(***************************************************************************)
(* Sources, snapshots and comparisons in the database, and the pages that  *)
(* are built from them (src/app/web/routes.py, src/app/web/services.py).   *)
(* POST /compare fetches and stores A, then B, compares and commits once;  *)
(* it may fail at every point in between, and until it ends the event loop *)
(* serves no other handler.  What a fetch returns, and how lists are       *)
(* compared, is in LdapFetch and ComparisonEngine.                         *)
(***************************************************************************)
EXTENDS AccessReview, Sequences

CONSTANTS
  Source,        \* names of sources, as their places in the alphabet
  Fetchable,     \* what a fetch may return
  Typed,         \* lists an administrator may type in
  MaxSnapshots   \* snapshots ever stored (a bound of the model)

ASSUME WorkspaceAssumption ==
  /\ Source \subseteq Nat /\ IsFiniteSet(Source)
  /\ Fetchable \subseteq FetchResult
  /\ Typed \subseteq SUBSET Identifier
  /\ MaxSnapshots \in Nat

VARIABLES
  sources,      \* the data_sources rows, by name
  snapshots,    \* in the order of their fetched_at
  comparisons,
  trail,        \* audit entries on snapshots and comparisons, counted by action
  tx            \* what the running /compare has flushed, or NoTx

vars == <<sources, snapshots, comparisons, trail, tx>>

NoTx == [stage |-> "none"]
Never == 0       \* last_fetch_at is NULL; otherwise the snapshot of that fetch

SourceRow == [source_type : {"ldap", "file"}, is_authoritative : BOOLEAN,
              is_active : BOOLEAN, last_fetch_at : 0..MaxSnapshots]
Snapshot == [source : Source, result : FetchResult]
Comparison == [a : 1..MaxSnapshots, b : 1..MaxSnapshots, a_is_authoritative : BOOLEAN]
Tx == {NoTx} \union [stage : {"open"}, a : Source, b : Source, added : Seq(Snapshot)]
Action == {"source_fetched", "comparison_run", "manual_entitlement_create"}

TypeOK ==
  /\ DOMAIN sources \subseteq Source
  /\ \A s \in DOMAIN sources : sources[s] \in SourceRow
  /\ snapshots \in Seq(Snapshot) /\ Len(snapshots) <= MaxSnapshots
  /\ comparisons \in Seq(Comparison)
  /\ trail \in [Action -> Nat]
  /\ tx \in Tx

Init ==
  /\ sources = [s \in {} |-> NoTx]
  /\ snapshots = <<>> /\ comparisons = <<>>
  /\ trail = [a \in Action |-> 0]
  /\ tx = NoTx

With(s, row) == [t \in DOMAIN sources \union {s} |-> IF t = s THEN row ELSE sources[t]]

-----------------------------------------------------------------------------
\* save_source with a new name: an LDAP source (the form makes no other).
CreateSource(s, authoritative, active) ==
  /\ tx = NoTx /\ s \notin DOMAIN sources
  /\ sources' = With(s, [source_type |-> "ldap", is_authoritative |-> authoritative,
                         is_active |-> active, last_fetch_at |-> Never])
  /\ UNCHANGED <<snapshots, comparisons, trail, tx>>

\* save_source of an existing one, of whatever type: snapshots, type and
\* last_fetch_at stay.  (A change of name or of what is fetched is left out.)
UpdateSource(s, authoritative, active) ==
  /\ tx = NoTx /\ s \in DOMAIN sources
  /\ sources' = With(s, [sources[s] EXCEPT !.is_authoritative = authoritative,
                                           !.is_active = active])
  /\ UNCHANGED <<snapshots, comparisons, trail, tx>>

ToggleSource(s) ==
  /\ tx = NoTx /\ s \in DOMAIN sources
  /\ sources' = With(s, [sources[s] EXCEPT !.is_active = ~@])
  /\ UNCHANGED <<snapshots, comparisons, trail, tx>>

\* What create_manual_entitlement stores of the identifiers parse_manual_ids
\* returns, one of each key: nobody's status is known.
ManualList(ids) == [identifier : ids, status : {"unknown"}]

\* manual_entitlement_create; a name that is taken violates the database's
\* constraint and leaves nothing.
ManualEntitlement(s, ids) ==
  /\ tx = NoTx /\ s \notin DOMAIN sources
  /\ Len(snapshots) < MaxSnapshots
  /\ snapshots' = Append(snapshots, [source |-> s, result |-> ManualList(ids)])
  /\ sources' = With(s, [source_type |-> "file", is_authoritative |-> FALSE,
                         is_active |-> TRUE, last_fetch_at |-> Len(snapshots')])
  /\ trail' = [trail EXCEPT !["manual_entitlement_create"] = @ + 1]
  /\ UNCHANGED <<comparisons, tx>>

\* _get_source lets a source pass.
Usable(s) == s \in DOMAIN sources /\ sources[s].is_active

\* run_comparison, up to the first fetch.
BeginComparison(a, b) ==
  /\ tx = NoTx /\ a # b /\ Usable(a) /\ Usable(b)
  /\ Len(snapshots) + 2 <= MaxSnapshots
  /\ tx' = [stage |-> "open", a |-> a, b |-> b, added |-> <<>>]
  /\ UNCHANGED <<sources, snapshots, comparisons, trail>>

\* _fetch_and_store of A, then of B; build_provider has none for a list that
\* was typed in.
FetchAndStore ==
  /\ tx # NoTx /\ Len(tx.added) < 2
  /\ LET s == IF tx.added = <<>> THEN tx.a ELSE tx.b
     IN  /\ sources[s].source_type # "file"
         /\ \E result \in Fetchable :
              tx' = [tx EXCEPT !.added = Append(@, [source |-> s, result |-> result])]
  /\ UNCHANGED <<sources, snapshots, comparisons, trail>>

\* last_fetch_at of the sources, once the snapshots from number n on are theirs.
FetchedAt(n, added) ==
  [s \in DOMAIN sources |->
     [sources[s] EXCEPT !.last_fetch_at =
        IF \E i \in DOMAIN added : added[i].source = s
          THEN n + (CHOOSE i \in DOMAIN added : added[i].source = s)
          ELSE @]]

\* The comparison, its entry, and the one commit.
CommitComparison ==
  /\ tx # NoTx /\ Len(tx.added) = 2
  /\ LET n == Len(snapshots)
     IN  /\ snapshots' = snapshots \o tx.added
         /\ sources' = FetchedAt(n, tx.added)
         /\ comparisons' = Append(comparisons,
              [a |-> n + 1, b |-> n + 2, a_is_authoritative |-> sources[tx.a].is_authoritative])
  /\ trail' = [trail EXCEPT !["source_fetched"] = @ + 2, !["comparison_run"] = @ + 1]
  /\ tx' = NoTx

\* Mutant: each fetch commits what it stored.
KeptByEachFetch(added) == added

\* Mutant: the objects a failed request has changed are saved all the same.
FlushedRows(added) == FetchedAt(Len(snapshots), added)

\* get_session rolls back: none of what was flushed is kept,
KeptOnFailure(added) == <<>>

\* nor is any change of a row.
RowsOnFailure(added) == sources

\* A provider raises, the comparison does, or the process dies.
FailComparison ==
  /\ tx # NoTx
  /\ snapshots' = snapshots \o KeptOnFailure(tx.added)
  /\ sources' = RowsOnFailure(tx.added)
  /\ tx' = NoTx
  /\ UNCHANGED <<comparisons, trail>>

Next ==
  \/ FetchAndStore \/ CommitComparison \/ FailComparison
  \/ \E s \in Source :
       \/ ToggleSource(s)
       \/ \E ids \in Typed : ManualEntitlement(s, ids)
       \/ \E b \in Source : BeginComparison(s, b)
       \/ \E authoritative, active \in BOOLEAN :
            CreateSource(s, authoritative, active) \/ UpdateSource(s, authoritative, active)

Spec == Init /\ [][Next]_vars

-----------------------------------------------------------------------------
(* What the pages show.                                                    *)

SnapshotsOf(s) == {i \in DOMAIN snapshots : snapshots[i].source = s}
HasSnapshot(s) == SnapshotsOf(s) # {}

\* latest_snapshot of a source that has one.
LatestSnapshot(s) ==
  snapshots[CHOOSE i \in SnapshotsOf(s) : \A j \in SnapshotsOf(s) : j <= i].result

ActiveMasters == {s \in DOMAIN sources : sources[s].is_active /\ sources[s].is_authoritative}

\* The master of the home page: the first by name.
ReviewMaster == CHOOSE s \in ActiveMasters : \A t \in ActiveMasters : s <= t

\* build_review returns a review.
HasReview == ActiveMasters # {} /\ HasSnapshot(ReviewMaster)

Entitlements ==
  {s \in DOMAIN sources :
     sources[s].is_active /\ ~sources[s].is_authoritative /\ HasSnapshot(s)}

Members == [e \in Entitlements |-> LatestSnapshot(e)]
Master == LatestSnapshot(ReviewMaster)

\* master_enabled_keys may use any active master: its query has no order.
MasterKeys(m) == IF HasSnapshot(m) THEN Keys(LatestSnapshot(m)) ELSE {}

-----------------------------------------------------------------------------
Fetched == {i \in DOMAIN snapshots : sources[snapshots[i].source].source_type = "ldap"}
Sides == UNION {{comparisons[c].a, comparisons[c].b} : c \in DOMAIN comparisons}

\* A failed comparison leaves no trace, whichever step fails: every fetched
\* snapshot is one side of exactly one comparison, of two sources, and the
\* trail counts them.
SnapshotsComePaired ==
  /\ Fetched = Sides
  /\ Cardinality(Fetched) = 2 * Len(comparisons)
  /\ trail["source_fetched"] = Cardinality(Fetched)
  /\ trail["comparison_run"] = Len(comparisons)
  /\ \A c \in DOMAIN comparisons :
       snapshots[comparisons[c].a].source # snapshots[comparisons[c].b].source

\* last_fetch_at is the time of the snapshot the pages show, not of an attempt.
LastFetchIsShown ==
  \A s \in DOMAIN sources :
    /\ HasSnapshot(s) = (sources[s].last_fetch_at # Never)
    /\ HasSnapshot(s) => snapshots[sources[s].last_fetch_at].result = LatestSnapshot(s)

\* An auditor who follows an anomaly from the home page to the page of its
\* source finds it there.  The home page keeps one account of each key, so the
\* kind it may give a key is one the other page shows, and every anomaly there
\* is one that the home page may name; and it never counts more of them.  This
\* is as long as there is one active master: with two, the queries may choose
\* apart.
PagesAgree ==
  HasReview /\ Cardinality(ActiveMasters) = 1 =>
    \A e \in Entitlements, m \in ActiveMasters :
      LET keys == MasterKeys(m)
          result == LatestSnapshot(e)
      IN  /\ \A k \in Keys(result) :
               AnomalyKinds(Master, result, k) = DetailKinds(keys, result, k)
          /\ AnomalyCount(Master, Members, e) <= DetailAnomalyCount(keys, result)

\* Nobody falls between the matrix and the anomaly list: what is counted as
\* granted and as anomalous is everyone who holds the entitlement.
ReviewIsPartition ==
  HasReview =>
    \A e \in Entitlements :
      GrantedCount(Master, Members, e) + AnomalyCount(Master, Members, e)
        = Cardinality(Keys(LatestSnapshot(e)))

-----------------------------------------------------------------------------
\* A running comparison has fetched A first and then B, of usable sources.
TxInOrder ==
  tx # NoTx =>
    /\ tx.a # tx.b /\ Usable(tx.a) /\ Usable(tx.b)
    /\ Len(tx.added) <= 2 /\ Len(snapshots) + 2 <= MaxSnapshots
    /\ \A i \in DOMAIN tx.added :
         /\ tx.added[i].source = IF i = 1 THEN tx.a ELSE tx.b
         /\ sources[tx.added[i].source].source_type = "ldap"

\* Every snapshot is of a stored source, and last_fetch_at is the latest one's.
LatestIsLast ==
  /\ \A i \in DOMAIN snapshots : snapshots[i].source \in DOMAIN sources
  /\ \A s \in DOMAIN sources :
       \/ sources[s].last_fetch_at = Never /\ SnapshotsOf(s) = {}
       \/ /\ sources[s].last_fetch_at \in SnapshotsOf(s)
          /\ \A i \in SnapshotsOf(s) : i <= sources[s].last_fetch_at

\* A typed list stays the one snapshot of its source.
TypedListsStay ==
  \A s \in DOMAIN sources :
    sources[s].source_type = "file" => SnapshotsOf(s) = {sources[s].last_fetch_at}

IInv ==
  /\ TypeOK
  /\ TxInOrder
  /\ LatestIsLast
  /\ TypedListsStay
  /\ SnapshotsComePaired
=============================================================================
