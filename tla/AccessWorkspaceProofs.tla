------------------------- MODULE AccessWorkspaceProofs -------------------------
(***************************************************************************)
(* Proofs about AccessWorkspace for any number of sources and snapshots:   *)
(* a comparison happens wholly or not at all, and the pages that are built *)
(* from the snapshots agree and lose nobody.                               *)
(***************************************************************************)
EXTENDS AccessWorkspace, FiniteSetTheorems, SequenceTheorems, TLAPS

\* What a sequence holds after one more element, whatever its elements are.
LEMMA Appended ==
  ASSUME NEW S, NEW seq \in Seq(S), NEW x \in S
  PROVE  /\ Append(seq, x) \in Seq(S)
         /\ Len(Append(seq, x)) = Len(seq) + 1
         /\ DOMAIN Append(seq, x) = DOMAIN seq \union {Len(seq) + 1}
         /\ \A i \in DOMAIN seq : Append(seq, x)[i] = seq[i]
         /\ Append(seq, x)[Len(seq) + 1] = x
         /\ DOMAIN seq = 1..Len(seq)
         /\ Len(seq) \in Nat
  OBVIOUS

\* The same for two elements that come as a sequence.
LEMMA Joined ==
  ASSUME NEW S, NEW seq \in Seq(S), NEW two \in Seq(S), Len(two) = 2
  PROVE  /\ seq \o two \in Seq(S)
         /\ Len(seq \o two) = Len(seq) + 2
         /\ DOMAIN (seq \o two) = DOMAIN seq \union {Len(seq) + 1, Len(seq) + 2}
         /\ \A i \in DOMAIN seq : (seq \o two)[i] = seq[i]
         /\ (seq \o two)[Len(seq) + 1] = two[1]
         /\ (seq \o two)[Len(seq) + 2] = two[2]
         /\ two[1] \in S /\ two[2] \in S /\ DOMAIN two = {1, 2}
         /\ DOMAIN seq = 1..Len(seq)
         /\ Len(seq) \in Nat
<1> DEFINE joined == seq \o two
<1>1. /\ joined \in Seq(S) /\ Len(joined) = Len(seq) + 2
      /\ \A i \in 1..(Len(seq) + 2) :
           joined[i] = IF i <= Len(seq) THEN seq[i] ELSE two[i - Len(seq)]
  <2>1. /\ seq \o two \in Seq(S)
        /\ Len(seq \o two) = Len(seq) + Len(two)
        /\ \A i \in 1..(Len(seq) + Len(two)) :
             (seq \o two)[i] = IF i <= Len(seq) THEN seq[i] ELSE two[i - Len(seq)]
    BY ConcatProperties
  <2> QED BY <2>1
<1>2. DOMAIN seq = 1..Len(seq) /\ Len(seq) \in Nat /\ DOMAIN two = 1..2
  BY LenProperties
<1>3. two[1] \in S /\ two[2] \in S /\ DOMAIN two = {1, 2}
  <2>1. \A i \in 1..Len(two) : two[i] \in S
    BY ElementOfSeq
  <2> QED BY <1>2, <2>1
<1> HIDE DEF joined
<1>4. DOMAIN joined = 1..(Len(seq) + 2)
  BY <1>1, LenProperties
<1>5. \A i \in DOMAIN seq : joined[i] = seq[i]
  BY <1>1, <1>2
<1>6. joined[Len(seq) + 1] = two[1] /\ joined[Len(seq) + 2] = two[2]
  <2>1. (Len(seq) + 1) - Len(seq) = 1 /\ (Len(seq) + 2) - Len(seq) = 2
        /\ ~(Len(seq) + 1 <= Len(seq)) /\ ~(Len(seq) + 2 <= Len(seq))
        /\ Len(seq) + 1 \in 1..(Len(seq) + 2) /\ Len(seq) + 2 \in 1..(Len(seq) + 2)
    BY <1>2
  <2> QED BY <1>1, <2>1
<1>7. DOMAIN joined = DOMAIN seq \union {Len(seq) + 1, Len(seq) + 2}
  BY <1>2, <1>4
<1> QED
  BY <1>1, <1>2, <1>3, <1>5, <1>6, <1>7 DEF joined

\* A row that is written leaves the others alone.
LEMMA RowWritten ==
  ASSUME NEW s, NEW row
  PROVE  /\ DOMAIN With(s, row) = DOMAIN sources \union {s}
         /\ With(s, row)[s] = row
         /\ \A t \in DOMAIN sources : t # s => With(s, row)[t] = sources[t]
  BY DEF With

\* The fetched snapshots are finitely many, being among those stored.
LEMMA FetchedFinite ==
  ASSUME snapshots \in Seq(Snapshot)
  PROVE  IsFiniteSet(Fetched) /\ Cardinality(Fetched) \in Nat /\ Fetched \subseteq 1..Len(snapshots)
<1>1. Len(snapshots) \in Nat /\ DOMAIN snapshots = 1..Len(snapshots)
  BY LenProperties
<1>2. Fetched \in SUBSET (1..Len(snapshots))
  BY <1>1 DEF Fetched
<1>3. IsFiniteSet(1..Len(snapshots))
  BY <1>1, FS_Interval
<1> QED
  BY <1>2, <1>3, FS_Subset, FS_CardinalityType

\* What TypeOK says of the transaction.
LEMMA OpenTx ==
  ASSUME TypeOK, tx # NoTx
  PROVE  /\ tx.stage = "open" /\ tx.a \in Source /\ tx.b \in Source /\ tx.added \in Seq(Snapshot)
         /\ tx = [stage |-> "open", a |-> tx.a, b |-> tx.b, added |-> tx.added]
<1>1. tx \in [stage : {"open"}, a : Source, b : Source, added : Seq(Snapshot)]
  BY DEF TypeOK, Tx
<1> DEFINE Added == Seq(Snapshot)
<1>2. tx \in [stage : {"open"}, a : Source, b : Source, added : Added]
  BY <1>1
<1> HIDE DEF Added
<1>3. /\ tx.stage = "open" /\ tx.a \in Source /\ tx.b \in Source /\ tx.added \in Added
      /\ tx = [stage |-> "open", a |-> tx.a, b |-> tx.b, added |-> tx.added]
  BY <1>2
<1> QED
  BY <1>3 DEF Added

LEMMA TxTyped ==
  ASSUME NEW a \in Source, NEW b \in Source, NEW added \in Seq(Snapshot)
  PROVE  [stage |-> "open", a |-> a, b |-> b, added |-> added] \in Tx
<1> DEFINE Added == Seq(Snapshot)
<1>1. added \in Added
  OBVIOUS
<1> HIDE DEF Added
<1>2. [stage |-> "open", a |-> a, b |-> b, added |-> added]
        \in [stage : {"open"}, a : Source, b : Source, added : Added]
  BY <1>1
<1> QED
  BY <1>2 DEF Added, Tx

-----------------------------------------------------------------------------
LEMMA InitIInv == Init => IInv
<1> SUFFICES ASSUME Init
             PROVE  IInv
  OBVIOUS
<1> USE DEF Init
<1>1. TypeOK
  <2>1. snapshots \in Seq(Snapshot) /\ comparisons \in Seq(Comparison) /\ Len(snapshots) = 0
    BY EmptySeq
  <2>2. DOMAIN sources = {} /\ trail \in [Action -> Nat] /\ tx \in Tx
    BY DEF Tx
  <2> QED
    BY <2>1, <2>2, WorkspaceAssumption DEF TypeOK
<1>2. TxInOrder /\ LatestIsLast /\ TypedListsStay
  BY DEF TxInOrder, LatestIsLast, TypedListsStay
<1>3. Fetched = {} /\ Sides = {}
  BY DEF Fetched, Sides
<1>4. SnapshotsComePaired
  BY <1>3, FS_EmptySet DEF SnapshotsComePaired, Action
<1> QED
  BY <1>1, <1>2, <1>4 DEF IInv

\* A source is created or changed; its type, snapshots and last fetch stay.
LEMMA RowStep ==
  ASSUME IInv, NEW s \in Source, NEW row \in SourceRow, tx = NoTx,
         sources' = With(s, row), UNCHANGED <<snapshots, comparisons, trail, tx>>,
         IF s \in DOMAIN sources
           THEN row.source_type = sources[s].source_type /\ row.last_fetch_at = sources[s].last_fetch_at
           ELSE row.source_type = "ldap" /\ row.last_fetch_at = Never
  PROVE  IInv'
<1> USE DEF IInv
<1>1. /\ DOMAIN sources' = DOMAIN sources \union {s} /\ sources'[s] = row
      /\ \A t \in DOMAIN sources : t # s => sources'[t] = sources[t]
  BY DEF With
<1>2. TypeOK'
  BY <1>1 DEF TypeOK
<1>3. TxInOrder'
  BY DEF TxInOrder
<1>4. \A t : SnapshotsOf(t)' = SnapshotsOf(t)
  BY DEF SnapshotsOf
<1>5. s \notin DOMAIN sources => SnapshotsOf(s) = {}
  BY DEF SnapshotsOf, LatestIsLast
<1>6. \A t \in DOMAIN sources' :
        \/ t \in DOMAIN sources /\ sources'[t].last_fetch_at = sources[t].last_fetch_at
             /\ sources'[t].source_type = sources[t].source_type
        \/ t \notin DOMAIN sources /\ sources'[t].last_fetch_at = Never /\ SnapshotsOf(t) = {}
             /\ sources'[t].source_type = "ldap"
  BY <1>1, <1>5
<1>7. LatestIsLast'
  BY <1>1, <1>4, <1>6 DEF LatestIsLast
<1>8. TypedListsStay'
  BY <1>4, <1>6 DEF TypedListsStay
<1>9. Fetched' = Fetched /\ Sides' = Sides
  BY <1>1, <1>6 DEF Fetched, Sides, LatestIsLast
<1>10. SnapshotsComePaired'
  BY <1>9 DEF SnapshotsComePaired
<1> QED
  BY <1>2, <1>3, <1>7, <1>8, <1>10

\* No step of another kind writes to a list of snapshots: the same invariant
\* about a shorter or longer transaction.
LEMMA TxStep ==
  ASSUME IInv, TxInOrder', tx' \in Tx, UNCHANGED <<sources, snapshots, comparisons, trail>>
  PROVE  IInv'
<1> USE DEF IInv
<1>1. TypeOK' /\ LatestIsLast' /\ TypedListsStay'
  BY DEF TypeOK, LatestIsLast, TypedListsStay, SnapshotsOf
<1>2. SnapshotsComePaired'
  BY DEF SnapshotsComePaired, Fetched, Sides
<1> QED
  BY <1>1, <1>2

LEMMA BeginStep ==
  ASSUME IInv, NEW a \in Source, NEW b \in Source, BeginComparison(a, b)
  PROVE  IInv'
<1>1. tx' = [stage |-> "open", a |-> a, b |-> b, added |-> <<>>]
      /\ UNCHANGED <<sources, snapshots, comparisons, trail>>
  BY DEF BeginComparison
<1>2. <<>> \in Seq(Snapshot) /\ Len(<<>>) = 0 /\ DOMAIN <<>> = {}
  BY EmptySeq
<1>3. tx' \in Tx
  BY <1>1, <1>2, TxTyped
<1>4. tx'.a = a /\ tx'.b = b /\ tx'.added = <<>>
  BY <1>1
<1>5. TxInOrder'
  BY <1>1, <1>2, <1>4 DEF TxInOrder, BeginComparison, Usable
<1> QED
  BY <1>1, <1>3, <1>5, TxStep

LEMMA FetchStep ==
  ASSUME IInv, FetchAndStore
  PROVE  IInv'
<1> DEFINE s == IF tx.added = <<>> THEN tx.a ELSE tx.b
<1>1. tx # NoTx /\ Len(tx.added) < 2 /\ sources[s].source_type # "file"
      /\ UNCHANGED <<sources, snapshots, comparisons, trail>>
  BY DEF FetchAndStore
<1>2. PICK result \in Fetchable :
        tx' = [tx EXCEPT !.added = Append(@, [source |-> s, result |-> result])]
  BY DEF FetchAndStore
<1>3. TypeOK /\ TxInOrder
  BY DEF IInv
<1>4. /\ tx.stage = "open" /\ tx.a \in Source /\ tx.b \in Source /\ tx.added \in Seq(Snapshot)
      /\ tx = [stage |-> "open", a |-> tx.a, b |-> tx.b, added |-> tx.added]
  BY <1>1, <1>3, OpenTx
<1> DEFINE x == [source |-> s, result |-> result]
           added == Append(tx.added, x)
<1>5. x \in Snapshot
  BY <1>2, <1>4, WorkspaceAssumption DEF Snapshot
<1>6. /\ added \in Seq(Snapshot) /\ Len(added) = Len(tx.added) + 1
      /\ DOMAIN added = DOMAIN tx.added \union {Len(tx.added) + 1}
      /\ \A i \in DOMAIN tx.added : added[i] = tx.added[i]
      /\ added[Len(tx.added) + 1] = x /\ Len(tx.added) \in Nat
      /\ DOMAIN tx.added = 1..Len(tx.added)
  <2> HIDE DEF x
  <2> QED BY <1>4, <1>5, Appended
<1>7. tx' = [stage |-> "open", a |-> tx.a, b |-> tx.b, added |-> added]
  BY <1>2, <1>4
<1>8. tx'.a = tx.a /\ tx'.b = tx.b /\ tx'.added = added
  BY <1>7
<1>9. tx.added = <<>> <=> Len(tx.added) = 0
  BY <1>4, EmptySeq
<1>10. sources[s].source_type = "ldap" /\ s = IF Len(tx.added) + 1 = 1 THEN tx.a ELSE tx.b
  <2>1. s \in DOMAIN sources
    BY <1>1, <1>3 DEF TxInOrder, Usable
  <2>2. sources[s].source_type \in {"ldap", "file"}
    BY <1>3, <2>1 DEF TypeOK, SourceRow
  <2> QED BY <1>1, <1>6, <1>9, <2>2
<1>11. x.source = s
  OBVIOUS
<1> HIDE DEF x, added, s
<1>12. tx' \in Tx
  BY <1>4, <1>6, <1>7, TxTyped
<1>13. \A i \in DOMAIN added :
         /\ added[i].source = IF i = 1 THEN tx.a ELSE tx.b
         /\ sources[added[i].source].source_type = "ldap"
  BY <1>1, <1>3, <1>6, <1>10, <1>11 DEF TxInOrder
<1>14. TxInOrder'
  <2>1. /\ tx.a # tx.b /\ Len(snapshots') + 2 <= MaxSnapshots
        /\ tx.a \in DOMAIN sources' /\ sources'[tx.a].is_active
        /\ tx.b \in DOMAIN sources' /\ sources'[tx.b].is_active
    BY <1>1, <1>3 DEF TxInOrder, Usable
  <2>2. Len(added) <= 2
    BY <1>1, <1>6
  <2>3. \A i \in DOMAIN added :
          /\ added[i].source = IF i = 1 THEN tx.a ELSE tx.b
          /\ sources'[added[i].source].source_type = "ldap"
    BY <1>1, <1>13
  <2> QED BY <1>8, <2>1, <2>2, <2>3 DEF TxInOrder, Usable
<1> QED
  BY <1>1, <1>12, <1>14, TxStep

LEMMA FailStep ==
  ASSUME IInv, FailComparison
  PROVE  IInv'
<1>1. UNCHANGED <<sources, snapshots, comparisons, trail>> /\ tx' = NoTx
  <2>1. snapshots \o <<>> = snapshots
    BY ConcatEmptySeq DEF IInv, TypeOK
  <2> QED BY <2>1 DEF FailComparison, KeptOnFailure, RowsOnFailure
<1>2. TxInOrder' /\ tx' \in Tx
  BY <1>1 DEF TxInOrder, Tx
<1> QED
  BY <1>1, <1>2, TxStep

LEMMA ManualStep ==
  ASSUME IInv, NEW s \in Source, NEW ids \in Typed, ManualEntitlement(s, ids)
  PROVE  IInv'
<1> USE DEF IInv
<1> DEFINE x == [source |-> s, result |-> ManualList(ids)]
           n == Len(snapshots)
           row == [source_type |-> "file", is_authoritative |-> FALSE,
                   is_active |-> TRUE, last_fetch_at |-> n + 1]
<1>1. /\ tx = NoTx /\ tx' = NoTx /\ s \notin DOMAIN sources /\ n < MaxSnapshots
      /\ snapshots' = Append(snapshots, x) /\ comparisons' = comparisons
      /\ trail' = [trail EXCEPT !["manual_entitlement_create"] = @ + 1]
      /\ sources' = With(s, [source_type |-> "file", is_authoritative |-> FALSE,
                             is_active |-> TRUE, last_fetch_at |-> Len(snapshots')])
  BY DEF ManualEntitlement
<1>2. x \in Snapshot
  <2>1. ids \subseteq Identifier
    BY WorkspaceAssumption
  <2>2. [identifier : ids, status : {"unknown"}] \subseteq Account
    BY <2>1 DEF Account, AccountStatus
  <2> QED BY <2>1, <2>2 DEF Snapshot, ManualList, FetchResult
<1>3. /\ snapshots' \in Seq(Snapshot) /\ Len(snapshots') = n + 1
      /\ DOMAIN snapshots' = DOMAIN snapshots \union {n + 1}
      /\ \A i \in DOMAIN snapshots : snapshots'[i] = snapshots[i]
      /\ snapshots'[n + 1] = x /\ n \in Nat /\ DOMAIN snapshots = 1..n
  <2> HIDE DEF x
  <2> QED BY <1>1, <1>2, Appended DEF TypeOK
<1>4. /\ DOMAIN sources' = DOMAIN sources \union {s} /\ sources'[s] = row
      /\ \A t \in DOMAIN sources : t # s => sources'[t] = sources[t]
  BY <1>1, <1>3 DEF With
<1>5. row \in SourceRow /\ row.source_type = "file" /\ row.last_fetch_at = n + 1 /\ x.source = s
  BY <1>1, <1>3, WorkspaceAssumption DEF SourceRow
<1> HIDE DEF x, row, n
<1>6. TypeOK'
  <2>1. /\ DOMAIN sources' \subseteq Source /\ \A t \in DOMAIN sources' : sources'[t] \in SourceRow
        /\ comparisons' \in Seq(Comparison) /\ tx' \in Tx
    BY <1>1, <1>4, <1>5 DEF TypeOK
  <2>2. Len(snapshots') <= MaxSnapshots
    BY <1>1, <1>3, WorkspaceAssumption
  <2>3. trail' \in [Action -> Nat]
    BY <1>1 DEF TypeOK, Action
  <2> QED BY <1>3, <2>1, <2>2, <2>3 DEF TypeOK
<1>7. TxInOrder'
  BY <1>1 DEF TxInOrder
<1>8. \A i \in DOMAIN snapshots : snapshots[i].source # s
  BY <1>1 DEF LatestIsLast
<1>9. SnapshotsOf(s)' = {n + 1} /\ \A t \in DOMAIN sources : SnapshotsOf(t)' = SnapshotsOf(t)
  BY <1>1, <1>3, <1>5, <1>8 DEF SnapshotsOf
<1>10. LatestIsLast'
  <2>1. \A i \in DOMAIN snapshots' : snapshots'[i].source \in DOMAIN sources'
    BY <1>3, <1>4, <1>5 DEF LatestIsLast
  <2>2. \A t \in DOMAIN sources' :
          \/ sources'[t].last_fetch_at = Never /\ SnapshotsOf(t)' = {}
          \/ /\ sources'[t].last_fetch_at \in SnapshotsOf(t)'
             /\ \A i \in SnapshotsOf(t)' : i <= sources'[t].last_fetch_at
    BY <1>3, <1>4, <1>5, <1>9 DEF LatestIsLast
  <2> QED BY <2>1, <2>2 DEF LatestIsLast
<1>11. TypedListsStay'
  BY <1>1, <1>4, <1>5, <1>9 DEF TypedListsStay
<1>12. Fetched' = Fetched /\ Sides' = Sides
  <2>1. \A i \in DOMAIN snapshots :
          sources'[snapshots'[i].source] = sources[snapshots[i].source]
    BY <1>3, <1>4, <1>8 DEF LatestIsLast
  <2>2. sources'[snapshots'[n + 1].source].source_type = "file"
    BY <1>3, <1>4, <1>5
  <2> QED BY <1>1, <1>3, <2>1, <2>2 DEF Fetched, Sides
<1>13. SnapshotsComePaired'
  <2>1. trail'["source_fetched"] = trail["source_fetched"]
        /\ trail'["comparison_run"] = trail["comparison_run"]
    BY <1>1 DEF TypeOK, Action
  <2>2. \A c \in DOMAIN comparisons : comparisons[c].a \in DOMAIN snapshots /\ comparisons[c].b \in DOMAIN snapshots
    BY DEF SnapshotsComePaired, Sides, Fetched
  <2> QED BY <1>1, <1>3, <1>12, <2>1, <2>2 DEF SnapshotsComePaired
<1> QED
  BY <1>6, <1>7, <1>10, <1>11, <1>13

\* What the commit writes: the two snapshots, in order, and the last fetches.
LEMMA Committed ==
  ASSUME IInv, CommitComparison
  PROVE  LET n == Len(snapshots)
         IN  /\ tx # NoTx /\ tx' = NoTx /\ tx.a # tx.b
             /\ tx.a \in DOMAIN sources /\ tx.b \in DOMAIN sources
             /\ sources[tx.a].source_type = "ldap" /\ sources[tx.b].source_type = "ldap"
             /\ n \in Nat /\ n + 2 <= MaxSnapshots /\ DOMAIN snapshots = 1..n
             /\ snapshots' \in Seq(Snapshot) /\ Len(snapshots') = n + 2
             /\ DOMAIN snapshots' = DOMAIN snapshots \union {n + 1, n + 2}
             /\ \A i \in DOMAIN snapshots : snapshots'[i] = snapshots[i]
             /\ snapshots'[n + 1].source = tx.a /\ snapshots'[n + 2].source = tx.b
             /\ DOMAIN sources' = DOMAIN sources
             /\ \A s \in DOMAIN sources :
                  sources'[s] = [sources[s] EXCEPT !.last_fetch_at =
                                   IF s = tx.a THEN n + 1 ELSE IF s = tx.b THEN n + 2 ELSE @]
<1> DEFINE n == Len(snapshots)
           added == tx.added
<1>1. /\ tx # NoTx /\ tx' = NoTx /\ Len(added) = 2
      /\ snapshots' = snapshots \o added /\ sources' = FetchedAt(n, added)
  BY DEF CommitComparison
<1>2. added \in Seq(Snapshot) /\ snapshots \in Seq(Snapshot)
  BY <1>1, OpenTx DEF IInv, TypeOK
<1> HIDE DEF added
<1>3. /\ snapshots \o added \in Seq(Snapshot) /\ Len(snapshots \o added) = Len(snapshots) + 2
      /\ DOMAIN (snapshots \o added) = DOMAIN snapshots \union {Len(snapshots) + 1, Len(snapshots) + 2}
      /\ \A i \in DOMAIN snapshots : (snapshots \o added)[i] = snapshots[i]
      /\ (snapshots \o added)[Len(snapshots) + 1] = added[1]
      /\ (snapshots \o added)[Len(snapshots) + 2] = added[2]
      /\ DOMAIN added = {1, 2} /\ DOMAIN snapshots = 1..Len(snapshots) /\ Len(snapshots) \in Nat
  BY <1>1, <1>2, Joined
<1>4. /\ tx.a # tx.b /\ tx.a \in DOMAIN sources /\ tx.b \in DOMAIN sources
      /\ Len(snapshots) + 2 <= MaxSnapshots
      /\ \A i \in DOMAIN added :
           /\ added[i].source = IF i = 1 THEN tx.a ELSE tx.b
           /\ sources[added[i].source].source_type = "ldap"
  BY <1>1 DEF IInv, TxInOrder, Usable, added
<1>5. added[1].source = tx.a /\ added[2].source = tx.b
      /\ sources[tx.a].source_type = "ldap" /\ sources[tx.b].source_type = "ldap"
  BY <1>3, <1>4
<1>6. DOMAIN sources' = DOMAIN sources
  BY <1>1 DEF FetchedAt
<1>7. ASSUME NEW s \in DOMAIN sources
      PROVE  sources'[s] = [sources[s] EXCEPT !.last_fetch_at =
                              IF s = tx.a THEN n + 1 ELSE IF s = tx.b THEN n + 2 ELSE @]
  <2> DEFINE mine == CHOOSE i \in DOMAIN added : added[i].source = s
  <2>1. sources'[s] = [sources[s] EXCEPT !.last_fetch_at =
                         IF \E i \in DOMAIN added : added[i].source = s THEN n + mine ELSE @]
    BY <1>1 DEF FetchedAt
  <2>2. (\E i \in DOMAIN added : added[i].source = s) <=> (s = tx.a \/ s = tx.b)
    BY <1>3, <1>5
  <2>3. s = tx.a => mine = 1
    BY <1>3, <1>4, <1>5
  <2>4. s = tx.b => mine = 2
    BY <1>3, <1>4, <1>5
  <2> HIDE DEF mine, n
  <2>5. CASE s = tx.a
    BY <2>1, <2>2, <2>3, <2>5
  <2>6. CASE s = tx.b
    BY <2>1, <2>2, <2>4, <2>6, <1>4
  <2>7. CASE s # tx.a /\ s # tx.b
    BY <2>1, <2>2, <2>7
  <2> QED BY <2>5, <2>6, <2>7
<1> QED
  BY <1>1, <1>3, <1>4, <1>5, <1>6, <1>7

LEMMA CommitStep ==
  ASSUME IInv, CommitComparison
  PROVE  IInv'
<1> USE DEF IInv
<1> DEFINE n == Len(snapshots)
           c == [a |-> n + 1, b |-> n + 2, a_is_authoritative |-> sources[tx.a].is_authoritative]
<1>1. /\ tx # NoTx /\ tx' = NoTx /\ tx.a # tx.b
      /\ tx.a \in DOMAIN sources /\ tx.b \in DOMAIN sources
      /\ sources[tx.a].source_type = "ldap" /\ sources[tx.b].source_type = "ldap"
      /\ n \in Nat /\ n + 2 <= MaxSnapshots /\ DOMAIN snapshots = 1..n
      /\ snapshots' \in Seq(Snapshot) /\ Len(snapshots') = n + 2
      /\ DOMAIN snapshots' = DOMAIN snapshots \union {n + 1, n + 2}
      /\ \A i \in DOMAIN snapshots : snapshots'[i] = snapshots[i]
      /\ snapshots'[n + 1].source = tx.a /\ snapshots'[n + 2].source = tx.b
      /\ DOMAIN sources' = DOMAIN sources
  BY Committed
<1>2. \A s \in DOMAIN sources :
        sources'[s] = [sources[s] EXCEPT !.last_fetch_at =
                         IF s = tx.a THEN n + 1 ELSE IF s = tx.b THEN n + 2 ELSE @]
  BY Committed
<1>3. /\ comparisons' = Append(comparisons, c)
      /\ trail' = [trail EXCEPT !["source_fetched"] = @ + 2, !["comparison_run"] = @ + 1]
  BY DEF CommitComparison
<1>4. c.a = n + 1 /\ c.b = n + 2 /\ c \in Comparison
  <2>1. sources[tx.a].is_authoritative \in BOOLEAN
    BY <1>1 DEF TypeOK, SourceRow
  <2>2. n + 1 \in 1..MaxSnapshots /\ n + 2 \in 1..MaxSnapshots
    BY <1>1, WorkspaceAssumption
  <2> QED BY <2>1, <2>2 DEF Comparison
<1>5. /\ comparisons' \in Seq(Comparison) /\ Len(comparisons') = Len(comparisons) + 1
      /\ DOMAIN comparisons' = DOMAIN comparisons \union {Len(comparisons) + 1}
      /\ \A i \in DOMAIN comparisons : comparisons'[i] = comparisons[i]
      /\ comparisons'[Len(comparisons) + 1] = c /\ Len(comparisons) \in Nat
  <2> HIDE DEF c
  <2> QED BY <1>3, <1>4, Appended DEF TypeOK
<1> HIDE DEF c, n
<1>6. \A s \in DOMAIN sources :
        /\ sources[s] \in SourceRow /\ sources'[s] \in SourceRow
        /\ sources'[s].source_type = sources[s].source_type
        /\ sources'[s].last_fetch_at =
             IF s = tx.a THEN n + 1 ELSE IF s = tx.b THEN n + 2 ELSE sources[s].last_fetch_at
  <2> TAKE s \in DOMAIN sources
  <2>1. sources[s] \in SourceRow
    BY DEF TypeOK
  <2> DEFINE last == IF s = tx.a THEN n + 1 ELSE IF s = tx.b THEN n + 2 ELSE sources[s].last_fetch_at
  <2>2. n + 1 \in 0..MaxSnapshots /\ n + 2 \in 0..MaxSnapshots
    BY <1>1, WorkspaceAssumption
  <2>3. last \in 0..MaxSnapshots
    BY <2>1, <2>2 DEF SourceRow
  <2>4. sources'[s] = [sources[s] EXCEPT !.last_fetch_at = last]
    BY <1>2
  <2> HIDE DEF last
  <2>5. /\ sources'[s] \in SourceRow /\ sources'[s].source_type = sources[s].source_type
        /\ sources'[s].last_fetch_at = last
    BY <2>1, <2>3, <2>4 DEF SourceRow
  <2> QED BY <2>1, <2>5 DEF last
<1>7. TypeOK'
  <2>1. trail' \in [Action -> Nat]
    BY <1>3 DEF TypeOK, Action
  <2> QED BY <1>1, <1>5, <1>6, <2>1 DEF TypeOK, Tx
<1>8. TxInOrder'
  BY <1>1 DEF TxInOrder
<1>9. \A s : /\ s = tx.a => SnapshotsOf(s)' = SnapshotsOf(s) \union {n + 1}
             /\ s = tx.b => SnapshotsOf(s)' = SnapshotsOf(s) \union {n + 2}
             /\ s # tx.a /\ s # tx.b => SnapshotsOf(s)' = SnapshotsOf(s)
             /\ SnapshotsOf(s) \subseteq 1..n
  <2>1. \A s : SnapshotsOf(s) = {i \in DOMAIN snapshots : snapshots[i].source = s}
               /\ SnapshotsOf(s)' = {i \in DOMAIN snapshots' : snapshots'[i].source = s}
    BY DEF SnapshotsOf
  <2>2. n + 1 \notin DOMAIN snapshots /\ n + 2 \notin DOMAIN snapshots /\ n + 1 # n + 2
    BY <1>1
  <2> QED BY <1>1, <2>1, <2>2
<1>10. LatestIsLast'
  <2>1. \A i \in DOMAIN snapshots' : snapshots'[i].source \in DOMAIN sources'
    BY <1>1 DEF LatestIsLast
  <2>2. ASSUME NEW s \in DOMAIN sources'
        PROVE  \/ sources'[s].last_fetch_at = Never /\ SnapshotsOf(s)' = {}
               \/ /\ sources'[s].last_fetch_at \in SnapshotsOf(s)'
                  /\ \A i \in SnapshotsOf(s)' : i <= sources'[s].last_fetch_at
    <3>1. CASE s = tx.a
      BY <1>1, <1>6, <1>9, <3>1
    <3>2. CASE s = tx.b
      BY <1>1, <1>6, <1>9, <3>2
    <3>3. CASE s # tx.a /\ s # tx.b
      BY <1>1, <1>6, <1>9, <3>3 DEF LatestIsLast
    <3> QED BY <3>1, <3>2, <3>3
  <2> QED BY <2>1, <2>2 DEF LatestIsLast
<1>11. TypedListsStay'
  <2>1. ASSUME NEW s \in DOMAIN sources', sources'[s].source_type = "file"
        PROVE  SnapshotsOf(s)' = {sources'[s].last_fetch_at}
    <3>1. s \in DOMAIN sources /\ s # tx.a /\ s # tx.b /\ sources[s].source_type = "file"
      BY <1>1, <1>6, <2>1
    <3> QED BY <1>6, <1>9, <3>1 DEF TypedListsStay
  <2> QED BY <2>1 DEF TypedListsStay
<1>12. Fetched' = Fetched \union {n + 1, n + 2}
  <2>1. \A i \in DOMAIN snapshots :
          sources'[snapshots'[i].source].source_type = sources[snapshots[i].source].source_type
    BY <1>1, <1>6 DEF LatestIsLast
  <2>2. /\ sources'[snapshots'[n + 1].source].source_type = "ldap"
        /\ sources'[snapshots'[n + 2].source].source_type = "ldap"
    BY <1>1, <1>6
  <2> QED BY <1>1, <2>1, <2>2 DEF Fetched
<1>13. Sides' = Sides \union {n + 1, n + 2}
  <2> DEFINE pair(i) == {comparisons[i].a, comparisons[i].b}
             pair2(i) == {comparisons'[i].a, comparisons'[i].b}
  <2>1. \A i \in DOMAIN comparisons : pair2(i) = pair(i)
    BY <1>5
  <2>2. pair2(Len(comparisons) + 1) = {n + 1, n + 2}
    BY <1>4, <1>5
  <2>3. Sides = UNION {pair(i) : i \in DOMAIN comparisons}
        /\ Sides' = UNION {pair2(i) : i \in DOMAIN comparisons'}
    BY DEF Sides
  <2> HIDE DEF pair, pair2
  <2> QED BY <1>5, <2>1, <2>2, <2>3
<1>14. Cardinality(Fetched') = Cardinality(Fetched) + 2 /\ Cardinality(Fetched) \in Nat
  <2>1. IsFiniteSet(Fetched) /\ Cardinality(Fetched) \in Nat /\ Fetched \subseteq 1..n
    BY FetchedFinite DEF TypeOK, n
  <2>2. n + 1 \notin Fetched /\ n + 2 \notin Fetched \union {n + 1}
    BY <1>1, <2>1
  <2>3. /\ IsFiniteSet(Fetched \union {n + 1})
        /\ Cardinality(Fetched \union {n + 1}) = Cardinality(Fetched) + 1
    BY <2>1, <2>2, FS_AddElement
  <2>4. Cardinality((Fetched \union {n + 1}) \union {n + 2}) = Cardinality(Fetched \union {n + 1}) + 1
    BY <2>2, <2>3, FS_AddElement
  <2>5. Fetched' = (Fetched \union {n + 1}) \union {n + 2}
    BY <1>12
  <2> QED BY <2>1, <2>3, <2>4, <2>5
<1>15. SnapshotsComePaired'
  <2>1. Fetched' = Sides'
    BY <1>12, <1>13 DEF SnapshotsComePaired
  <2>2. Cardinality(Fetched') = 2 * Len(comparisons')
    BY <1>5, <1>14 DEF SnapshotsComePaired
  <2>3. /\ trail'["source_fetched"] = trail["source_fetched"] + 2
        /\ trail'["comparison_run"] = trail["comparison_run"] + 1
    BY <1>3 DEF TypeOK, Action
  <2>4. \A i \in DOMAIN comparisons : comparisons[i].a \in DOMAIN snapshots /\ comparisons[i].b \in DOMAIN snapshots
    BY DEF SnapshotsComePaired, Sides, Fetched
  <2>5. \A i \in DOMAIN comparisons' :
          snapshots'[comparisons'[i].a].source # snapshots'[comparisons'[i].b].source
    BY <1>1, <1>4, <1>5, <2>4 DEF SnapshotsComePaired
  <2>6. /\ trail'["source_fetched"] = Cardinality(Fetched')
        /\ trail'["comparison_run"] = Len(comparisons')
    BY <1>5, <1>14, <2>3 DEF SnapshotsComePaired
  <2> QED BY <2>1, <2>2, <2>5, <2>6 DEF SnapshotsComePaired
<1> QED
  BY <1>7, <1>8, <1>10, <1>11, <1>15

LEMMA StutterStep == IInv /\ UNCHANGED vars => IInv'
  BY DEF vars, IInv, TypeOK, TxInOrder, LatestIsLast, TypedListsStay, SnapshotsComePaired,
         SnapshotsOf, Fetched, Sides, Usable

\* A comparison is stored wholly or not at all, and what the sources say of
\* their last fetch is true, however many sources, lists and failures there are.
THEOREM Invariance == Spec => []IInv
<1>1. IInv /\ [Next]_vars => IInv'
  <2> SUFFICES ASSUME IInv, [Next]_vars PROVE IInv'
    OBVIOUS
  <2>1. ASSUME NEW s \in Source,
               ToggleSource(s) \/ \E authoritative, active \in BOOLEAN : UpdateSource(s, authoritative, active)
        PROVE  IInv'
    <3>1. PICK row : /\ sources' = With(s, row) /\ tx = NoTx /\ s \in DOMAIN sources
                     /\ UNCHANGED <<snapshots, comparisons, trail, tx>>
                     /\ \E authoritative, active \in BOOLEAN :
                          row = [sources[s] EXCEPT !.is_authoritative = authoritative,
                                                   !.is_active = active]
      <4>1. sources[s] \in SourceRow \/ s \notin DOMAIN sources
        BY DEF IInv, TypeOK
      <4>2. CASE ToggleSource(s)
        <5>1. s \in DOMAIN sources /\ sources' = With(s, [sources[s] EXCEPT !.is_active = ~@])
              /\ tx = NoTx /\ UNCHANGED <<snapshots, comparisons, trail, tx>>
          BY <4>2 DEF ToggleSource
        <5>2. [sources[s] EXCEPT !.is_active = ~@] =
              [sources[s] EXCEPT !.is_authoritative = sources[s].is_authoritative,
                                 !.is_active = ~sources[s].is_active]
              /\ sources[s].is_authoritative \in BOOLEAN /\ (~sources[s].is_active) \in BOOLEAN
          BY <4>1, <5>1 DEF SourceRow
        <5> QED BY <5>1, <5>2
      <4>3. CASE \E authoritative, active \in BOOLEAN : UpdateSource(s, authoritative, active)
        BY <4>3 DEF UpdateSource
      <4> QED BY <2>1, <4>2, <4>3
    <3>2. /\ row \in SourceRow /\ row.source_type = sources[s].source_type
          /\ row.last_fetch_at = sources[s].last_fetch_at
      BY <3>1 DEF IInv, TypeOK, SourceRow
    <3> QED BY <3>1, <3>2, RowStep
  <2>2. ASSUME NEW s \in Source, NEW authoritative \in BOOLEAN, NEW active \in BOOLEAN,
               CreateSource(s, authoritative, active)
        PROVE  IInv'
    <3> DEFINE row == [source_type |-> "ldap", is_authoritative |-> authoritative,
                       is_active |-> active, last_fetch_at |-> Never]
    <3>1. /\ row \in SourceRow /\ row.source_type = "ldap" /\ row.last_fetch_at = Never
      BY WorkspaceAssumption DEF SourceRow, Never
    <3>2. /\ sources' = With(s, row) /\ tx = NoTx /\ s \notin DOMAIN sources
          /\ UNCHANGED <<snapshots, comparisons, trail, tx>>
      BY <2>2 DEF CreateSource
    <3> HIDE DEF row
    <3> QED BY <3>1, <3>2, RowStep
  <2> QED
    BY <2>1, <2>2, ManualStep, BeginStep, FetchStep, CommitStep, FailStep, StutterStep DEF Next
<1> QED
  BY InitIInv, <1>1, PTL DEF Spec

-----------------------------------------------------------------------------
\* The snapshot that the pages show of a source is the one its row speaks of.
LEMMA LatestIsOfLastFetch ==
  ASSUME IInv, NEW s \in DOMAIN sources, HasSnapshot(s)
  PROVE  /\ sources[s].last_fetch_at \in DOMAIN snapshots
         /\ sources[s].last_fetch_at # Never
         /\ LatestSnapshot(s) = snapshots[sources[s].last_fetch_at].result
         /\ LatestSnapshot(s) \in FetchResult
<1> DEFINE last == sources[s].last_fetch_at
<1>1. /\ last \in SnapshotsOf(s) /\ \A i \in SnapshotsOf(s) : i <= last
      /\ snapshots \in Seq(Snapshot)
  BY DEF IInv, TypeOK, LatestIsLast, HasSnapshot
<1>2. /\ SnapshotsOf(s) \subseteq 1..Len(snapshots) /\ Len(snapshots) \in Nat
      /\ DOMAIN snapshots = 1..Len(snapshots)
  BY <1>1, LenProperties DEF SnapshotsOf
<1> HIDE DEF last
<1>3. \A j \in SnapshotsOf(s) : (\A i \in SnapshotsOf(s) : i <= j) => j = last
  BY <1>1, <1>2
<1>4. (CHOOSE i \in SnapshotsOf(s) : \A j \in SnapshotsOf(s) : j <= i) = last
  BY <1>1, <1>3
<1>5. snapshots[last] \in Snapshot
  BY <1>1, <1>2, ElementOfSeq
<1> QED
  BY <1>1, <1>2, <1>4, <1>5 DEF LatestSnapshot, Snapshot, last, Never

\* last_fetch_at is true of what the pages show.
THEOREM FetchTimesAreTrue == Spec => []LastFetchIsShown
<1>1. IInv => LastFetchIsShown
  <2> SUFFICES ASSUME IInv, NEW s \in DOMAIN sources
               PROVE  /\ HasSnapshot(s) = (sources[s].last_fetch_at # Never)
                      /\ HasSnapshot(s) => snapshots[sources[s].last_fetch_at].result = LatestSnapshot(s)
    BY DEF LastFetchIsShown
  <2>1. ~HasSnapshot(s) => sources[s].last_fetch_at = Never
    BY DEF IInv, LatestIsLast, HasSnapshot
  <2> QED BY <2>1, LatestIsOfLastFetch DEF HasSnapshot
<1> QED
  BY <1>1, Invariance, PTL

-----------------------------------------------------------------------------
\* The members of an entitlement that may be named are those the master lacks.
LEMMA AnomalousKeys ==
  ASSUME NEW master, NEW members, NEW e \in DOMAIN members
  PROVE  Anomalous(master, members, e) = Keys(members[e]) \ Keys(master)
<1> DEFINE result == members[e]
<1>1. ASSUME NEW k \in Keys(result) PROVE AnomalyKinds(master, result, k) = {} <=> k \in Keys(master)
  <2>1. PICK a \in result : KeyOf[a.identifier] = k
    BY DEF Keys
  <2>2. a \in AccountsOf(result, k)
    BY <2>1 DEF AccountsOf
  <2> QED BY <2>2 DEF AnomalyKinds
<1> QED
  BY <1>1 DEF Anomalous

\* For a key and the same master, both views may show the same.
LEMMA KindsAgree ==
  ASSUME NEW master, NEW result, NEW k \in Keys(result)
  PROVE  AnomalyKinds(master, result, k) = DetailKinds(Keys(master), result, k)
<1>1. \A a \in AccountsOf(result, k) :
        DetailAnomaly(Keys(master), a) =
          IF k \in Keys(master) THEN "" ELSE IF a.status = "disabled" THEN "disabled" ELSE "orphan"
  BY DEF AccountsOf, DetailAnomaly
<1>2. CASE k \in Keys(master)
  BY <1>1, <1>2 DEF AnomalyKinds, DetailKinds
<1>3. CASE k \notin Keys(master)
  BY <1>1, <1>3 DEF AnomalyKinds, DetailKinds
<1> QED BY <1>2, <1>3

\* Snapshots hold finitely many keys and finitely many accounts.
LEMMA SnapshotFinite ==
  ASSUME NEW result \in FetchResult
  PROVE  IsFiniteSet(Keys(result)) /\ IsFiniteSet(result)
<1> DEFINE all == {KeyOf[i] : i \in Identifier}
<1>1. IsFiniteSet(all)
  <2>1. KeyOf \in Surjection(Identifier, all)
    BY KeyAssumption DEF Surjection
  <2> QED BY <2>1, KeyAssumption, FS_Surjection
<1>2. Keys(result) \subseteq all
  BY DEF Keys, FetchResult, Account
<1>3. IsFiniteSet(Account)
  <2>1. IsFiniteSet(AccountStatus)
    <3>1. IsFiniteSet({}) 
      BY FS_EmptySet
    <3>2. IsFiniteSet({"enabled"})
      BY <3>1, FS_AddElement
    <3>3. IsFiniteSet({"enabled", "disabled"})
      BY <3>2, FS_AddElement
    <3>4. {"enabled", "disabled", "unknown"} = {"enabled", "disabled"} \union {"unknown"}
      OBVIOUS
    <3> QED BY <3>3, <3>4, FS_AddElement DEF AccountStatus
  <2>2. IsFiniteSet(Identifier \X AccountStatus)
    BY <2>1, KeyAssumption, FS_Product
  <2> DEFINE made == [pair \in Identifier \X AccountStatus |->
                        [identifier |-> pair[1], status |-> pair[2]]]
  <2>3. made \in Surjection(Identifier \X AccountStatus, Account)
    <3>1. \A a \in Account : \E pair \in Identifier \X AccountStatus : made[pair] = a
      <4> SUFFICES ASSUME NEW a \in Account
                   PROVE  \E pair \in Identifier \X AccountStatus : made[pair] = a
        OBVIOUS
      <4>1. <<a.identifier, a.status>> \in Identifier \X AccountStatus
        BY DEF Account
      <4>2. made[<<a.identifier, a.status>>] = a
        BY <4>1 DEF Account
      <4> QED BY <4>1, <4>2
    <3>2. made \in [Identifier \X AccountStatus -> Account]
      BY DEF Account
    <3> HIDE DEF made
    <3> QED BY <3>1, <3>2 DEF Surjection
  <2> QED BY <2>2, <2>3, FS_Surjection
<1> QED
  BY <1>1, <1>2, <1>3, FS_Subset DEF FetchResult

\* There are at least as many anomalous accounts as anomalous keys.
LEMMA OneOfEachKey ==
  ASSUME NEW result \in FetchResult, NEW known
  PROVE  Cardinality(Keys(result) \ known) <= DetailAnomalyCount(known, result)
<1> DEFINE strange == {a \in result : DetailAnomaly(known, a) # ""}
           keys == Keys(result) \ known
           key == [a \in strange |-> KeyOf[a.identifier]]
<1>1. IsFiniteSet(strange)
  BY SnapshotFinite, FS_Subset
<1>2. \A a \in result : a \in strange <=> KeyOf[a.identifier] \notin known
  BY DEF DetailAnomaly
<1>3. key \in Surjection(strange, keys)
  <2>1. key \in [strange -> keys]
    BY <1>2 DEF Keys
  <2>2. \A k \in keys : \E a \in strange : key[a] = k
    <3> SUFFICES ASSUME NEW k \in keys PROVE \E a \in strange : key[a] = k
      OBVIOUS
    <3>1. PICK a \in result : KeyOf[a.identifier] = k
      BY DEF Keys
    <3>2. a \in strange
      BY <1>2, <3>1
    <3> QED BY <3>1, <3>2
  <2> HIDE DEF key, keys, strange
  <2> QED BY <2>1, <2>2 DEF Surjection
<1> HIDE DEF key, keys, strange
<1>4. Cardinality(keys) <= Cardinality(strange)
  BY <1>1, <1>3, FS_Surjection
<1> QED
  BY <1>4 DEF DetailAnomalyCount, keys, strange

\* What the home page says of a key, the page of its source may say, and the
\* other way round; and the home page counts no more anomalies.
THEOREM SamePages == Spec => []PagesAgree
<1>1. IInv => PagesAgree
  <2> SUFFICES ASSUME IInv, HasReview, Cardinality(ActiveMasters) = 1,
                      NEW e \in Entitlements, NEW m \in ActiveMasters
               PROVE  LET keys == MasterKeys(m)
                          result == LatestSnapshot(e)
                      IN  /\ \A k \in Keys(result) :
                               AnomalyKinds(Master, result, k) = DetailKinds(keys, result, k)
                          /\ AnomalyCount(Master, Members, e) <= DetailAnomalyCount(keys, result)
    BY DEF PagesAgree
  <2>1. m = ReviewMaster
    <3>1. ActiveMasters \subseteq Source /\ Source \subseteq Nat /\ IsFiniteSet(ActiveMasters)
      BY WorkspaceAssumption, FS_Subset DEF IInv, TypeOK, ActiveMasters
    <3>2. PICK x : ActiveMasters = {x}
      BY <3>1, FS_Singleton
    <3> QED BY <3>1, <3>2 DEF ReviewMaster
  <2>2. MasterKeys(m) = Keys(Master)
    BY <2>1 DEF HasReview, MasterKeys, Master
  <2>3. DOMAIN Members = Entitlements /\ Members[e] = LatestSnapshot(e)
    BY DEF Members
  <2>4. Anomalous(Master, Members, e) = Keys(LatestSnapshot(e)) \ Keys(Master)
    BY <2>3, AnomalousKeys
  <2>5. LatestSnapshot(e) \in FetchResult
    BY LatestIsOfLastFetch DEF Entitlements
  <2>6. AnomalyCount(Master, Members, e) <= DetailAnomalyCount(Keys(Master), LatestSnapshot(e))
    BY <2>4, <2>5, OneOfEachKey DEF AnomalyCount
  <2> QED BY <2>2, <2>6, KindsAgree
<1> QED
  BY <1>1, Invariance, PTL

\* The matrix and the list of anomalies together count everyone once.
THEOREM NobodyFallsBetween == Spec => []ReviewIsPartition
<1>1. IInv => ReviewIsPartition
  <2> SUFFICES ASSUME IInv, HasReview, NEW e \in Entitlements
               PROVE  GrantedCount(Master, Members, e) + AnomalyCount(Master, Members, e)
                        = Cardinality(Keys(LatestSnapshot(e)))
    BY DEF ReviewIsPartition
  <2> DEFINE held == Keys(LatestSnapshot(e))
             known == Keys(Master)
  <2>1. DOMAIN Members = Entitlements /\ Members[e] = LatestSnapshot(e)
    BY DEF Members
  <2>2. LatestSnapshot(e) \in FetchResult
    BY LatestIsOfLastFetch DEF Entitlements
  <2>3. IsFiniteSet(held)
    BY <2>2, SnapshotFinite
  <2>4. {k \in known : e \in Access(Master, Members)[k]} = held \intersect known
    BY <2>1 DEF Access
  <2>5. Anomalous(Master, Members, e) = held \ known
    BY <2>1, AnomalousKeys
  <2> HIDE DEF held, known
  <2>6. /\ Cardinality(held \ known) = Cardinality(held) - Cardinality(held \intersect known)
        /\ Cardinality(held) \in Nat /\ Cardinality(held \intersect known) \in Nat
    BY <2>3, FS_Difference, FS_Intersection, FS_CardinalityType
  <2>7. Cardinality(held \intersect known) + Cardinality(held \ known) = Cardinality(held)
    BY <2>6
  <2> QED BY <2>4, <2>5, <2>7 DEF GrantedCount, AnomalyCount, held, known
<1> QED
  BY <1>1, Invariance, PTL
=============================================================================
