------------------------ MODULE ComparisonEngineProofs ------------------------
(***************************************************************************)
(* Proofs about ComparisonEngine for account lists of every length: the    *)
(* types, the indexes and rows, AC-08 (a revocation gap is shown with high *)
(* risk or the summary warns of duplicates), and the order of the rows.    *)
(***************************************************************************)
EXTENDS ComparisonEngine, FiniteSetTheorems, SequenceTheorems, TLAPS

\* The accounts of a list, and the keys of their places, are what they seem.
LEMMA ListTypes ==
  ASSUME TypeOK, NEW s \in Side
  PROVE  /\ List(s) \in Seq(Account) /\ Len(List(s)) \in Nat
         /\ DOMAIN List(s) = 1..Len(List(s))
         /\ \A i \in 1..Len(List(s)) : List(s)[i] \in Account /\ KeyIn(s, i) \in Key
<1>1. List(s) \in Seq(Account)
  BY DEF TypeOK, List, FetchResult
<1>2. /\ Len(List(s)) \in Nat /\ DOMAIN List(s) = 1..Len(List(s))
      /\ \A i \in 1..Len(List(s)) : List(s)[i] \in Account
  BY <1>1, LenProperties, ElementOfSeq
<1>3. \A i \in 1..Len(List(s)) : KeyIn(s, i) \in Key
  BY <1>2, KeyOfAssumption DEF KeyIn, Account
<1> QED BY <1>1, <1>2, <1>3

\* setdefault yields a dict over the old keys and the new one.
LEMMA SetDefaultType ==
  ASSUME NEW d, IsDict(d), NEW k \in Key, NEW a \in Account
  PROVE  /\ IsDict(SetDefault(d, k, a))
         /\ DOMAIN SetDefault(d, k, a) = DOMAIN d \union {k}
<1>1. PICK K \in SUBSET Key : d \in [K -> Account]
  BY DEF IsDict
<1>2. K \union {k} \in SUBSET Key /\ SetDefault(d, k, a) \in [K \union {k} -> Account]
  BY <1>1 DEF SetDefault
<1>3. IsDict(SetDefault(d, k, a))
  BY <1>2 DEF IsDict
<1> QED BY <1>3 DEF SetDefault

\* Sorting permutes: the same rows, as many of them.
LEMMA SortedRows ==
  ASSUME NEW seq \in Seq(Row), NEW s \in SortedFrom(seq)
  PROVE  /\ s \in Seq(Row) /\ DOMAIN s = DOMAIN seq /\ Range(s) = Range(seq)
<1>1. DOMAIN seq = 1..Len(seq) /\ Len(seq) \in Nat /\ Range(seq) \subseteq Row
  <2>1. DOMAIN seq = 1..Len(seq) /\ Len(seq) \in Nat /\ \A i \in 1..Len(seq) : seq[i] \in Row
    BY LenProperties, ElementOfSeq
  <2> QED BY <2>1 DEF Range
<1>2. s \in [DOMAIN seq -> Range(seq)] /\ Range(s) = Range(seq)
  BY DEF SortedFrom
<1>3. s \in [1..Len(seq) -> Row]
  BY <1>1, <1>2
<1> QED BY <1>1, <1>2, <1>3, SeqDef

\* How many rows of some kind there are is a number.
LEMMA RowCount ==
  ASSUME rows \in Seq(Row), NEW c
  PROVE  Cardinality({i \in DOMAIN rows : c \in {rows[i].status, rows[i].risk}}) \in Nat
<1>1. DOMAIN rows = 1..Len(rows) /\ Len(rows) \in Nat
  BY LenProperties
<1>2. IsFiniteSet(DOMAIN rows)
  BY <1>1, FS_Interval
<1> QED BY <1>2, FS_Subset, FS_CardinalityType

\* Classification yields a match status and a risk level.
LEMMA Classified ==
  ASSUME NEW k
  PROVE  StatusOf(k) \in MatchStatus /\ RiskOf(k) \in RiskLevel
BY DEF StatusOf, RiskOf, MatchStatus, RiskLevel

\* The state has the types TypeOK gives it.
THEOREM TypeCorrect == Spec => []TypeOK
<1>1. Init => TypeOK
  <2> SUFFICES ASSUME Init PROVE TypeOK
    OBVIOUS
  <2>1. IsDict(<<>>)
    <3>1. <<>> \in [{} -> Account]
      OBVIOUS
    <3> QED BY <3>1 DEF IsDict
  <2>2. result \in [Side -> FetchResult]
    BY ResultsAssumption DEF Init
  <2>3. rows \in Seq(Row)
    BY DEF Init
  <2> QED BY <2>1, <2>2, <2>3 DEF Init, TypeOK
<1>2. TypeOK /\ [Next]_vars => TypeOK'
  <2> SUFFICES ASSUME TypeOK, [Next]_vars PROVE TypeOK'
    OBVIOUS
  <2>1. CASE ReadAccount
    <3>1. pc \in Side /\ read' = read + 1 /\ read' \in 1..Len(List(pc))
      BY <2>1, ListTypes DEF ReadAccount, TypeOK
    <3>2. IsDict(index[pc]) /\ KeyIn(pc, read') \in Key /\ List(pc)[read'] \in Account
      BY <3>1, ListTypes DEF TypeOK
    <3>3. IsDict(SetDefault(index[pc], KeyIn(pc, read'), List(pc)[read']))
      BY <3>2, SetDefaultType
    <3>4. DOMAIN index' = Side /\ \A s \in Side : IsDict(index'[s])
      BY <2>1, <3>3 DEF ReadAccount, TypeOK
    <3>5. read' \in Nat
      BY <3>1 DEF TypeOK
    <3> QED BY <2>1, <3>4, <3>5 DEF ReadAccount, TypeOK
  <2>2. CASE IndexBuilt
    BY <2>2 DEF IndexBuilt, TypeOK, Side
  <2>3. CASE AddRow
    <3>1. PICK k \in AllKeys : rows' = Append(rows, [key |-> k, status |-> StatusOf(k), risk |-> RiskOf(k)])
      BY <2>3 DEF AddRow
    <3>2. k \in Key
      BY <3>1 DEF AllKeys, TypeOK, Side, IsDict
    <3>3. [key |-> k, status |-> StatusOf(k), risk |-> RiskOf(k)] \in Row
      BY <3>2, Classified DEF Row
    <3>4. rows' \in Seq(Row)
      BY <3>1, <3>3, AppendProperties DEF TypeOK
    <3> QED BY <2>3, <3>4 DEF AddRow, TypeOK
  <2>4. CASE Summarize
    <3>1. rows' \in Seq(Row)
      BY <2>4, SortedRows DEF Summarize, TypeOK
    <3>2. counts' \in [MatchStatus \union RiskLevel -> Nat]
      BY <2>4, RowCount DEF Summarize, TypeOK
    <3> QED BY <2>4, <3>1, <3>2 DEF Summarize, TypeOK
  <2>5. CASE UNCHANGED vars
    BY <2>5 DEF vars, TypeOK
  <2> QED BY <2>1, <2>2, <2>3, <2>4, <2>5 DEF Next
<1> QED BY <1>1, <1>2, PTL DEF Spec

-----------------------------------------------------------------------------
\* No more is ever read of a list than it holds.
LEMMA ReadBound ==
  ASSUME IInv, NEW s \in Side
  PROVE  Read(s) \in Nat /\ Read(s) <= Len(List(s)) /\ 1..Read(s) \subseteq 1..Len(List(s))
<1>1. Len(List(s)) \in Nat /\ read \in Nat
  BY ListTypes DEF IInv, TypeOK
<1>2. pc = s => read <= Len(List(s))
  BY DEF IInv, ReadWithin
<1> QED BY <1>1, <1>2 DEF Read

\* The arguments never change.
LEMMA SameLists ==
  ASSUME result' = result
  PROVE  /\ \A s \in Side : List(s)' = List(s) /\ KeysOf(s)' = KeysOf(s)
         /\ \A s \in Side : HasCountMismatch(s)' = HasCountMismatch(s)
         /\ \A s \in Side, i \in Nat : KeyIn(s, i)' = KeyIn(s, i)
<1>1. \A s \in Side : List(s)' = List(s)
  BY DEF List
<1>2. \A s \in Side, i \in Nat : KeyIn(s, i)' = KeyIn(s, i)
  BY <1>1 DEF KeyIn
<1>3. \A s \in Side : KeysOf(s)' = KeysOf(s)
  BY <1>1 DEF KeysOf, KeyIn
<1> QED BY <1>1, <1>2, <1>3 DEF HasCountMismatch

\* The same indexes classify the same way.
LEMMA SameIndexes ==
  ASSUME index' = index, authoritative' = authoritative
  PROVE  /\ AllKeys' = AllKeys
         /\ \A k \in Key : StatusOf(k)' = StatusOf(k) /\ RiskOf(k)' = RiskOf(k)
<1>1. \A k \in Key : StatusOf(k)' = StatusOf(k)
  BY DEF StatusOf
<1>2. \A k \in Key : RiskOf(k)' = RiskOf(k)
  BY <1>1 DEF RiskOf, Is
<1> QED BY <1>1, <1>2 DEF AllKeys

\* compare() starts with nothing read and nothing to keep.
LEMMA InitIInv == Init => IInv
<1> SUFFICES ASSUME Init PROVE IInv
  OBVIOUS
<1>1. TypeOK
  <2>1. IsDict(<<>>)
    <3>1. <<>> \in [{} -> Account]
      OBVIOUS
    <3> QED BY <3>1 DEF IsDict
  <2>2. result \in [Side -> FetchResult] /\ rows \in Seq(Row)
    BY ResultsAssumption DEF Init
  <2> QED BY <2>1, <2>2 DEF Init, TypeOK
<1>2. \A s \in Side : Read(s) = 0 /\ 1..Read(s) = {} /\ DOMAIN index[s] = {}
  BY DEF Init, Read, Side
<1>3. ReadWithin
  BY <1>1, ListTypes DEF Init, ReadWithin, Side
<1>4. IndexHoldsFirst
  BY <1>2 DEF IndexHoldsFirst
<1>5. IndexCountsKeys
  BY <1>2, FS_EmptySet DEF IndexCountsKeys
<1>6. RowsFollowIndex /\ WarningsAreKept
  BY DEF Init, RowsFollowIndex, WarningsAreKept, Side
<1> QED BY <1>1, <1>3, <1>4, <1>5, <1>6 DEF IInv

\* Reading an account keeps the first of its key and counts a new key once.
LEMMA ReadStep ==
  ASSUME IInv, TypeOK', ReadAccount, NEW p \in Side, pc = p
  PROVE  IInv'
<1> DEFINE n == read + 1
           k == KeyIn(p, n)
           a == List(p)[n]
<1>1. /\ pc' = p /\ read' = n /\ read \in Nat /\ n <= Len(List(p))
      /\ n \in 1..Len(List(p))
      /\ UNCHANGED <<result, authoritative, rows, warnings>>
  BY ListTypes DEF ReadAccount, IInv, TypeOK
<1>2. k \in Key /\ a \in Account /\ IsDict(index[p])
  BY <1>1, ListTypes DEF IInv, TypeOK
<1>3. /\ index'[p] = SetDefault(index[p], k, a)
      /\ DOMAIN index'[p] = DOMAIN index[p] \union {k}
      /\ \A s \in Side \ {p} : index'[s] = index[s]
  <2>1. index' = [index EXCEPT ![p] = SetDefault(index[p], k, a)] /\ DOMAIN index = Side
    BY <1>1 DEF ReadAccount, IInv, TypeOK
  <2>2. DOMAIN SetDefault(index[p], k, a) = DOMAIN index[p] \union {k}
    BY <1>2, SetDefaultType
  <2> QED BY <2>1, <2>2
<1>4. /\ \A s \in Side : List(s)' = List(s) /\ HasCountMismatch(s)' = HasCountMismatch(s)
      /\ \A s \in Side, i \in Nat : KeyIn(s, i)' = KeyIn(s, i)
  BY <1>1, SameLists
<1>5. /\ Read(p) = read /\ Read(p)' = n
      /\ \A s \in Side \ {p} : Read(s)' = Read(s)
  BY <1>1, <1>4 DEF Read
<1>6. /\ DOMAIN index[p] = {KeyIn(p, i) : i \in 1..read}
      /\ \A x \in DOMAIN index[p] : \E i \in 1..read :
           /\ index[p][x] = List(p)[i] /\ KeyIn(p, i) = x
           /\ \A j \in 1..read : KeyIn(p, j) = x => i <= j
  BY <1>1, <1>5 DEF IInv, IndexHoldsFirst
<1>7. 1..n = 1..read \union {n}
  BY <1>1
<1> HIDE DEF n, k, a
<1>8. IndexHoldsFirst'
  <2> SUFFICES ASSUME NEW s \in Side
               PROVE  /\ DOMAIN index'[s] = {KeyIn(s, i) : i \in 1..Read(s)'}
                      /\ \A x \in DOMAIN index'[s] : \E i \in 1..Read(s)' :
                           /\ index'[s][x] = List(s)[i] /\ KeyIn(s, i) = x
                           /\ \A j \in 1..Read(s)' : KeyIn(s, j) = x => i <= j
    <3>1. \A s \in Side : Read(s)' \in Nat
      <4> SUFFICES ASSUME NEW s \in Side PROVE Read(s)' \in Nat
        OBVIOUS
      <4>1. CASE s = p
        BY <4>1, <1>1, <1>5 DEF n
      <4>2. CASE s # p
        BY <4>2, <1>5, ReadBound
      <4> QED BY <4>1, <4>2
    <3>2. \A s \in Side, i \in Nat : KeyIn(s, i)' = KeyIn(s, i)
      BY <1>4
    <3> QED BY <1>4, <3>1, <3>2 DEF IndexHoldsFirst
  <2>1. CASE s # p
    BY <2>1, <1>3, <1>5 DEF IInv, IndexHoldsFirst
  <2>2. CASE s = p
    <3>1. DOMAIN index'[p] = {KeyIn(p, i) : i \in 1..n}
      BY <1>3, <1>6, <1>7 DEF k
    <3>2. ASSUME NEW x \in DOMAIN index'[p]
          PROVE  \E i \in 1..n : /\ index'[p][x] = List(p)[i] /\ KeyIn(p, i) = x
                                 /\ \A j \in 1..n : KeyIn(p, j) = x => i <= j
      <4>1. CASE x \in DOMAIN index[p]
        <5>1. index'[p][x] = index[p][x]
          BY <4>1, <1>3 DEF SetDefault
        <5>2. PICK i \in 1..read : /\ index[p][x] = List(p)[i] /\ KeyIn(p, i) = x
                                  /\ \A j \in 1..read : KeyIn(p, j) = x => i <= j
          BY <4>1, <1>6
        <5>3. i <= n
          BY <1>1 DEF n
        <5> QED BY <5>1, <5>2, <5>3, <1>7
      <4>2. CASE x \notin DOMAIN index[p]
        <5>1. x = k /\ index'[p][x] = a
          BY <4>2, <1>3 DEF SetDefault
        <5>2. \A j \in 1..read : KeyIn(p, j) # x
          BY <4>2, <1>6
        <5>3. n <= n /\ n \in 1..n
          BY <1>1 DEF n
        <5> QED BY <5>1, <5>2, <5>3, <1>7 DEF k, a
      <4> QED BY <4>1, <4>2
    <3> QED BY <2>2, <3>1, <3>2, <1>5
  <2> QED BY <2>1, <2>2
<1>9. IndexCountsKeys'
  <2> SUFFICES ASSUME NEW s \in Side
               PROVE  /\ Cardinality(DOMAIN index'[s]) <= Read(s)'
                      /\ Cardinality(DOMAIN index'[s]) = Read(s)' =>
                           \A i, j \in 1..Read(s)' : KeyIn(s, i)' = KeyIn(s, j)' => i = j
    BY DEF IndexCountsKeys
  <2>1. CASE s # p
    <3>1. \A i \in 1..Read(s) : KeyIn(s, i)' = KeyIn(s, i)
      BY <1>4, ReadBound
    <3> QED BY <2>1, <3>1, <1>3, <1>5 DEF IInv, IndexCountsKeys
  <2>2. CASE s = p
    <3>1. IsFiniteSet(DOMAIN index[p]) /\ Cardinality(DOMAIN index[p]) \in Nat
      <4>1. DOMAIN index[p] \subseteq Key
        BY <1>2 DEF IsDict
      <4> QED BY <4>1, KeyAssumption, FS_Subset, FS_CardinalityType
    <3>2. /\ Cardinality(DOMAIN index[p]) <= read
          /\ Cardinality(DOMAIN index[p]) = read =>
               \A i, j \in 1..read : KeyIn(p, i) = KeyIn(p, j) => i = j
      BY <1>1, <1>5 DEF IInv, IndexCountsKeys
    <3>3. Cardinality(DOMAIN index'[p]) =
            IF k \in DOMAIN index[p] THEN Cardinality(DOMAIN index[p])
                                      ELSE Cardinality(DOMAIN index[p]) + 1
      BY <3>1, <1>3, FS_AddElement
    <3>4. \A i \in 1..n : KeyIn(p, i)' = KeyIn(p, i)
      BY <1>1, <1>4
    <3>5. CASE k \in DOMAIN index[p]
      <4>1. Cardinality(DOMAIN index'[p]) < n
        BY <3>1, <3>2, <3>3, <3>5, <1>1 DEF n
      <4>2. Cardinality(DOMAIN index'[p]) <= n /\ Cardinality(DOMAIN index'[p]) # n
        BY <4>1, <3>1, <3>3, <3>5, <1>1 DEF n
      <4> QED BY <2>2, <4>2, <1>5
    <3>6. CASE k \notin DOMAIN index[p]
      <4>1. \A j \in 1..read : KeyIn(p, j) # k
        BY <3>6, <1>6
      <4>2. Cardinality(DOMAIN index'[p]) <= n
        BY <3>1, <3>2, <3>3, <3>6, <1>1 DEF n
      <4>3. ASSUME Cardinality(DOMAIN index'[p]) = n, NEW i \in 1..n, NEW j \in 1..n,
                   KeyIn(p, i) = KeyIn(p, j)
            PROVE  i = j
        <5>1. Cardinality(DOMAIN index[p]) = read
          BY <4>3, <3>1, <3>3, <3>6, <1>1 DEF n
        <5>2. \A x, y \in 1..read : KeyIn(p, x) = KeyIn(p, y) => x = y
          BY <5>1, <3>2
        <5> QED BY <5>2, <4>1, <4>3, <1>7 DEF k
      <4>4. Cardinality(DOMAIN index'[p]) = n =>
              \A i, j \in 1..n : KeyIn(p, i)' = KeyIn(p, j)' => i = j
        BY <4>3, <3>4
      <4> QED BY <2>2, <4>2, <4>4, <1>5
    <3> QED BY <3>5, <3>6
  <2> QED BY <2>1, <2>2
<1>10. ReadWithin'
  BY <1>1, <1>4 DEF ReadWithin
<1>11. rows = <<>> /\ pc # "done" /\ pc # "rows"
  BY <1>1 DEF IInv, RowsFollowIndex, Side
<1>12. RowsFollowIndex' /\ WarningsAreKept'
  BY <1>1, <1>11 DEF RowsFollowIndex, WarningsAreKept
<1> QED BY <1>8, <1>9, <1>10, <1>12 DEF IInv

\* An index is complete; the warnings are collected from both.
LEMMA BuiltStep ==
  ASSUME IInv, TypeOK', IndexBuilt
  PROVE  IInv'
<1>1. /\ pc \in Side /\ read = Len(List(pc)) /\ read' = 0
      /\ UNCHANGED <<result, authoritative, index, rows, counts>>
      /\ pc' = IF pc = "A" THEN "B" ELSE "rows"
  BY DEF IndexBuilt
<1>2. /\ \A s \in Side : List(s)' = List(s) /\ HasCountMismatch(s)' = HasCountMismatch(s)
      /\ \A s \in Side, i \in Nat : KeyIn(s, i)' = KeyIn(s, i)
  BY <1>1, SameLists
<1>3. \A s \in Side : /\ Len(List(s)) \in Nat /\ Read(s)' = Read(s) /\ Read(s) \in Nat
  <2>1. \A s \in Side : Len(List(s)) \in Nat /\ Read(s) \in Nat
    BY ListTypes, ReadBound DEF IInv
  <2>2. \A s \in Side : Read(s)' = Read(s)
    BY <1>1, <1>2 DEF Read, Side
  <2> QED BY <2>1, <2>2
<1>4. IndexHoldsFirst'
  <2>1. \A s \in Side : \A i \in 1..Read(s) : KeyIn(s, i)' = KeyIn(s, i)
    BY <1>2, <1>3
  <2> QED BY <1>1, <1>2, <1>3, <2>1 DEF IndexHoldsFirst, IInv
<1>5. IndexCountsKeys'
  <2>1. \A s \in Side : \A i \in 1..Read(s) : KeyIn(s, i)' = KeyIn(s, i)
    BY <1>2, <1>3
  <2> QED BY <1>1, <1>3, <2>1 DEF IndexCountsKeys, IInv
<1>6. ReadWithin'
  BY <1>1, <1>2, <1>3 DEF ReadWithin, Side
<1>7. rows' = <<>> /\ pc' # "done"
  BY <1>1 DEF IInv, RowsFollowIndex
<1>8. WarningsAreKept'
  <2> SUFFICES ASSUME pc = "B" PROVE WarningsAreKept'
    BY <1>1 DEF WarningsAreKept, Side
  <2>1. warnings' = {w \in Warning :
          \/ w[1] = "source" /\ result[w[2]].warned
          \/ w[1] = "duplicate" /\ HasDuplicates(w[2])
          \/ w[1] = "mismatch" /\ HasCountMismatch(w[2])}
    BY DEF IndexBuilt
  <2>2. \A s \in Side : HasDuplicates(s)' = HasDuplicates(s)
    BY <1>1, <1>2 DEF HasDuplicates
  <2>3. \A s \in Side : /\ <<"source", s>> \in Warning /\ <<"duplicate", s>> \in Warning
                        /\ <<"mismatch", s>> \in Warning
    BY DEF Warning
  <2> QED BY <1>1, <1>2, <2>1, <2>2, <2>3 DEF WarningsAreKept
<1> QED BY <1>4, <1>5, <1>6, <1>7, <1>8 DEF IInv, RowsFollowIndex

\* Steps that leave the arguments and the indexes alone, past the index loops.
LEMMA IndexesRest ==
  ASSUME IInv, pc = "rows", pc' \in {"rows", "done"},
         UNCHANGED <<result, authoritative, read, index, warnings>>
  PROVE  ReadWithin' /\ IndexHoldsFirst' /\ IndexCountsKeys' /\ WarningsAreKept'
<1>1. /\ \A s \in Side : List(s)' = List(s) /\ HasCountMismatch(s)' = HasCountMismatch(s)
      /\ \A s \in Side, i \in Nat : KeyIn(s, i)' = KeyIn(s, i)
  BY SameLists
<1>2. \A s \in Side : Read(s)' = Read(s) /\ Read(s) \in Nat
  <2>1. \A s \in Side : Read(s) \in Nat
    BY ReadBound
  <2> QED BY <1>1, <2>1 DEF Read, Side
<1>3. \A s \in Side : \A i \in 1..Read(s) : KeyIn(s, i)' = KeyIn(s, i)
  BY <1>1, <1>2
<1>4. IndexHoldsFirst'
  BY <1>1, <1>2, <1>3 DEF IndexHoldsFirst, IInv
<1>5. IndexCountsKeys'
  BY <1>2, <1>3 DEF IndexCountsKeys, IInv
<1>6. ReadWithin'
  BY DEF ReadWithin, Side, IInv
<1>7. WarningsAreKept'
  BY <1>1 DEF WarningsAreKept, HasDuplicates, IInv
<1> QED BY <1>4, <1>5, <1>6, <1>7

\* A new row has a key of its own.
LEMMA AddStep ==
  ASSUME IInv, TypeOK', AddRow
  PROVE  IInv'
<1>1. PICK k \in AllKeys \ Rowed :
        rows' = Append(rows, [key |-> k, status |-> StatusOf(k), risk |-> RiskOf(k)])
  BY DEF AddRow
<1>2. pc = "rows" /\ UNCHANGED <<result, authoritative, pc, read, index, counts, warnings>>
  BY DEF AddRow
<1>3. \A x \in AllKeys : x \in Key
  BY DEF AllKeys, IInv, TypeOK, Side, IsDict
<1>4. AllKeys' = AllKeys /\ \A x \in Key : StatusOf(x)' = StatusOf(x) /\ RiskOf(x)' = RiskOf(x)
  BY <1>2, SameIndexes
<1> DEFINE row == [key |-> k, status |-> StatusOf(k), risk |-> RiskOf(k)]
           n == Len(rows)
<1>5. row \in Row /\ rows \in Seq(Row)
  BY <1>1, <1>3, Classified DEF Row, IInv, TypeOK
<1>6. /\ n \in Nat /\ DOMAIN rows = 1..n /\ DOMAIN rows' = 1..(n + 1)
      /\ \A i \in 1..n : rows'[i] = rows[i]
      /\ rows'[n + 1] = row
  <2>1. /\ rows' \in Seq(Row) /\ Len(rows') = n + 1
        /\ \A i \in 1..n : rows'[i] = rows[i]
        /\ rows'[n + 1] = row
    BY <1>1, <1>5, AppendProperties
  <2> QED BY <1>5, <2>1, LenProperties
<1>7. 1..(n + 1) = 1..n \union {n + 1}
  BY <1>6
<1>8. row.key = k /\ row.status = StatusOf(k) /\ row.risk = RiskOf(k)
  OBVIOUS
<1> HIDE DEF n, row
<1>9. /\ \A i \in 1..n : /\ rows[i].key \in AllKeys
                          /\ rows[i].status = StatusOf(rows[i].key)
                          /\ rows[i].risk = RiskOf(rows[i].key)
                          /\ rows[i].key # k
      /\ \A i, j \in 1..n : rows[i].key = rows[j].key => i = j
  BY <1>1, <1>2, <1>6 DEF IInv, RowsFollowIndex, Rowed
<1>10. RowsFollowIndex'
  <2>1. ASSUME NEW i \in 1..(n + 1)
        PROVE  (/\ rows[i].key \in AllKeys
                /\ rows[i].status = StatusOf(rows[i].key)
                /\ rows[i].risk = RiskOf(rows[i].key))'
    <3>1. PICK x \in AllKeys : rows'[i] = [key |-> x, status |-> StatusOf(x), risk |-> RiskOf(x)]
      <4>1. CASE i = n + 1
        BY <4>1, <1>1, <1>6 DEF row
      <4>2. CASE i \in 1..n
        <5>1. rows[i] \in Row
          BY <4>2, <1>5, <1>6, ElementOfSeq DEF n
        <5> QED BY <4>2, <5>1, <1>6, <1>9 DEF Row
      <4> QED BY <4>1, <4>2, <1>7
    <3>2. x \in Key /\ rows'[i].key = x
      BY <3>1, <1>3
    <3>3. rows'[i].status = StatusOf(x) /\ rows'[i].risk = RiskOf(x)
      BY <3>1
    <3> QED BY <3>1, <3>2, <3>3, <1>2, <1>4 DEF StatusOf, RiskOf, Is
  <2>2. \A i, j \in 1..(n + 1) : rows'[i].key = rows'[j].key => i = j
    BY <1>6, <1>7, <1>8, <1>9
  <2>3. pc' = "rows" /\ pc' \notin Side
    BY <1>2 DEF Side
  <2> QED BY <1>6, <2>1, <2>2, <2>3 DEF RowsFollowIndex
<1> QED BY <1>2, <1>10, IndexesRest DEF IInv

\* Sorting rows of different keys leaves them the same rows.
LEMMA SortedDistinct ==
  ASSUME NEW seq \in Seq(Row), NEW s \in SortedFrom(seq),
         \A i, j \in DOMAIN seq : seq[i].key = seq[j].key => i = j
  PROVE  \A i, j \in DOMAIN s : s[i].key = s[j].key => i = j
<1>1. DOMAIN seq = 1..Len(seq) /\ Len(seq) \in Nat
  BY LenProperties
<1>2. IsFiniteSet(DOMAIN seq)
  BY <1>1, FS_Interval
<1>3. /\ s \in [DOMAIN seq -> Range(seq)] /\ Range(s) = Range(seq) /\ DOMAIN s = DOMAIN seq
  BY DEF SortedFrom
<1>4. seq \in Bijection(DOMAIN seq, Range(seq))
  <2>1. seq \in [DOMAIN seq -> Range(seq)]
    BY <1>1, LenProperties DEF Range
  <2>2. \A i, j \in DOMAIN seq : seq[i] = seq[j] => i = j
    OBVIOUS
  <2> QED BY <2>1, <2>2 DEF Bijection, Injection, Surjection, Range, IsInjective
<1>5. Cardinality(DOMAIN seq) = Cardinality(Range(seq))
  BY <1>2, <1>4, FS_Bijection DEF ExistsBijection
<1>6. s \in Surjection(DOMAIN seq, Range(seq))
  BY <1>3 DEF Surjection, Range
<1>7. s \in Injection(DOMAIN seq, Range(seq))
  BY <1>2, <1>5, <1>6, FS_SurjSameCardinalityImpliesInj
<1> SUFFICES ASSUME NEW i \in DOMAIN s, NEW j \in DOMAIN s, s[i].key = s[j].key
             PROVE  i = j
  OBVIOUS
<1>8. PICK x \in DOMAIN seq, y \in DOMAIN seq : s[i] = seq[x] /\ s[j] = seq[y]
  BY <1>3 DEF Range
<1>9. s[i] = s[j]
  BY <1>8
<1> QED BY <1>3, <1>7, <1>9 DEF Injection, IsInjective

\* Sorting and counting keep the rows.
LEMMA SummarizeStep ==
  ASSUME IInv, TypeOK', Summarize
  PROVE  IInv'
<1>1. /\ pc = "rows" /\ pc' = "done" /\ AllKeys = Rowed /\ rows' \in SortedFrom(rows)
      /\ UNCHANGED <<result, authoritative, read, index, warnings>> /\ rows \in Seq(Row)
  BY DEF Summarize, IInv, TypeOK
<1>2. /\ \A i \in DOMAIN rows : /\ rows[i].key \in AllKeys
                                /\ rows[i].status = StatusOf(rows[i].key)
                                /\ rows[i].risk = RiskOf(rows[i].key)
      /\ \A i, j \in DOMAIN rows : rows[i].key = rows[j].key => i = j
  BY DEF IInv, RowsFollowIndex
<1>3. AllKeys' = AllKeys
  BY <1>1, SameIndexes
<1>4. Range(rows') = Range(rows) /\ DOMAIN rows' = DOMAIN rows
  BY <1>1, SortedRows
<1>5. \A i \in DOMAIN rows' : \E j \in DOMAIN rows : rows'[i] = rows[j]
  BY <1>4 DEF Range
<1>6. \A j \in DOMAIN rows : \E i \in DOMAIN rows' : rows'[i] = rows[j]
  BY <1>4 DEF Range
<1>7. ASSUME NEW i \in DOMAIN rows'
      PROVE  (/\ rows[i].key \in AllKeys
              /\ rows[i].status = StatusOf(rows[i].key)
              /\ rows[i].risk = RiskOf(rows[i].key))'
  <2>1. PICK j \in DOMAIN rows : rows'[i] = rows[j]
    BY <1>5
  <2> QED BY <2>1, <1>1, <1>2, <1>3 DEF StatusOf, RiskOf, Is
<1>8. \A i, j \in DOMAIN rows' : rows'[i].key = rows'[j].key => i = j
  BY <1>1, <1>2, SortedDistinct
<1>9. Rowed' = AllKeys'
  BY <1>1, <1>3, <1>5, <1>6 DEF Rowed
<1>10. RowsFollowIndex'
  BY <1>1, <1>7, <1>8, <1>9 DEF RowsFollowIndex, Side
<1> QED BY <1>1, <1>10, IndexesRest DEF IInv

\* IInv is inductive.
THEOREM Invariance == Spec => []IInv
<1>1. Init => IInv
  BY InitIInv
<1>2. TypeOK' /\ IInv /\ [Next]_vars => IInv'
  <2> SUFFICES ASSUME TypeOK', IInv, [Next]_vars
               PROVE  IInv'
    OBVIOUS
  <2>1. CASE ReadAccount
    BY <2>1, ReadStep DEF ReadAccount
  <2>2. CASE IndexBuilt
    BY <2>2, BuiltStep
  <2>3. CASE AddRow
    BY <2>3, AddStep
  <2>4. CASE Summarize
    BY <2>4, SummarizeStep
  <2>5. CASE UNCHANGED vars
    BY <2>5 DEF vars, IInv, TypeOK, ReadWithin, IndexHoldsFirst, IndexCountsKeys, RowsFollowIndex,
                WarningsAreKept, Read, List, KeyIn, AllKeys, StatusOf, RiskOf, Is, Rowed,
                HasDuplicates, HasCountMismatch
  <2> QED BY <2>1, <2>2, <2>3, <2>4, <2>5 DEF Next
<1> QED BY <1>1, <1>2, TypeCorrect, PTL DEF Spec

-----------------------------------------------------------------------------
\* A finished index holds the first account of every key of its list.
LEMMA FinishedIndex ==
  ASSUME IInv, pc \in {"rows", "done"}, NEW s \in Side
  PROVE  /\ DOMAIN index[s] = KeysOf(s)
         /\ \A k \in KeysOf(s) : IsFirst(s, k, index[s][k]) /\ index[s][k] \in Range(List(s))
         /\ <<"duplicate", s>> \notin warnings =>
              \A i, j \in DOMAIN List(s) : KeyIn(s, i) = KeyIn(s, j) => i = j
<1>1. Read(s) = Len(List(s)) /\ DOMAIN List(s) = 1..Len(List(s)) /\ Len(List(s)) \in Nat
  BY ListTypes DEF Read, Side, IInv
<1>2. DOMAIN index[s] = KeysOf(s)
  BY <1>1 DEF IInv, IndexHoldsFirst, KeysOf
<1>3. ASSUME NEW k \in KeysOf(s)
      PROVE  IsFirst(s, k, index[s][k]) /\ index[s][k] \in Range(List(s))
  <2>1. PICK i \in DOMAIN List(s) :
          /\ index[s][k] = List(s)[i] /\ KeyIn(s, i) = k
          /\ \A j \in DOMAIN List(s) : KeyIn(s, j) = k => i <= j
    BY <1>1, <1>2 DEF IInv, IndexHoldsFirst
  <2> QED BY <2>1 DEF IsFirst, Range
<1>4. ASSUME <<"duplicate", s>> \notin warnings
      PROVE  \A i, j \in DOMAIN List(s) : KeyIn(s, i) = KeyIn(s, j) => i = j
  <2>1. ~HasDuplicates(s)
    BY <1>4 DEF IInv, WarningsAreKept
  <2>2. Cardinality(DOMAIN index[s]) <= Len(List(s))
    BY <1>1 DEF IInv, IndexCountsKeys
  <2>3. Cardinality(DOMAIN index[s]) \in Nat
    <3>1. DOMAIN index[s] \subseteq Key
      BY DEF IInv, TypeOK, IsDict
    <3> QED BY <3>1, KeyAssumption, FS_Subset, FS_CardinalityType
  <2>4. Cardinality(DOMAIN index[s]) = Len(List(s))
    BY <1>1, <2>1, <2>2, <2>3 DEF HasDuplicates
  <2> QED BY <1>1, <2>4 DEF IInv, IndexCountsKeys
<1> QED BY <1>2, <1>3, <1>4

\* AC-08, for every pair of lists: a disabled person with an enabled account
\* elsewhere is shown with high risk, or the summary warns of duplicates.
THEOREM GapsAreHigh == Spec => []RevocationGapIsHigh
<1>1. IInv => RevocationGapIsHigh
  <2> SUFFICES ASSUME IInv, pc = "done", authoritative,
                      NEW i \in DOMAIN List("A"), NEW j \in DOMAIN List("B"),
                      KeyIn("A", i) = KeyIn("B", j),
                      List("A")[i].status = "disabled", List("B")[j].status = "enabled",
                      \A s \in Side : <<"duplicate", s>> \notin warnings
               PROVE  Shown(KeyIn("A", i), "high")
    BY DEF RevocationGapIsHigh
  <2> DEFINE k == KeyIn("A", i)
  <2>1. "A" \in Side /\ "B" \in Side
    BY DEF Side
  <2>2. k \in KeysOf("A") /\ k \in KeysOf("B")
    BY DEF KeysOf
  <2>3. /\ DOMAIN index["A"] = KeysOf("A") /\ IsFirst("A", k, index["A"][k])
        /\ \A x, y \in DOMAIN List("A") : KeyIn("A", x) = KeyIn("A", y) => x = y
    BY <2>1, <2>2, FinishedIndex
  <2>4. /\ DOMAIN index["B"] = KeysOf("B") /\ IsFirst("B", k, index["B"][k])
        /\ \A x, y \in DOMAIN List("B") : KeyIn("B", x) = KeyIn("B", y) => x = y
    BY <2>1, <2>2, FinishedIndex
  <2>5. index["A"][k] = List("A")[i]
    BY <2>3 DEF IsFirst
  <2>6. index["B"][k] = List("B")[j]
    BY <2>4 DEF IsFirst
  <2> HIDE DEF k
  <2>7. Differ(index["A"][k], index["B"][k])
    BY <2>5, <2>6 DEF Differ
  <2>8. RiskOf(k) = "high"
    BY <2>2, <2>3, <2>4, <2>5, <2>6, <2>7 DEF RiskOf, StatusOf, Is
  <2>9. k \in Rowed
    BY <2>2, <2>3 DEF IInv, RowsFollowIndex, AllKeys
  <2>10. PICK r \in DOMAIN rows : rows[r].key = k
    BY <2>9 DEF Rowed
  <2>11. rows[r].risk = "high"
    BY <2>8, <2>10 DEF IInv, RowsFollowIndex
  <2> QED BY <2>10, <2>11 DEF Shown, k
<1> QED BY <1>1, Invariance, PTL

\* A summary without warnings vouches for the completeness of its rows.
THEOREM Vouching == Spec => []NothingLostSilently
<1>1. IInv => NothingLostSilently
  <2> SUFFICES ASSUME IInv, pc = "done", warnings = {}, NEW s \in Side
               PROVE  /\ ~result[s].warned
                      /\ result[s].total_reported \in {NoReport, Len(List(s))}
                      /\ \A i, j \in DOMAIN List(s) : KeyIn(s, i) = KeyIn(s, j) => i = j
                      /\ KeysOf(s) \subseteq Rowed
    BY DEF NothingLostSilently
  <2>1. ~result[s].warned /\ ~HasCountMismatch(s)
    BY DEF IInv, WarningsAreKept
  <2>2. /\ DOMAIN index[s] = KeysOf(s)
        /\ \A i, j \in DOMAIN List(s) : KeyIn(s, i) = KeyIn(s, j) => i = j
    BY FinishedIndex
  <2>3. KeysOf(s) \subseteq Rowed
    BY <2>2 DEF IInv, RowsFollowIndex, AllKeys, Side
  <2> QED BY <2>1, <2>2, <2>3 DEF HasCountMismatch
<1> QED BY <1>1, Invariance, PTL

\* Every high risk has its grounds.
THEOREM HighHasGrounds == Spec => []HighIsJustified
<1>1. IInv => HighIsJustified
  <2> SUFFICES ASSUME IInv, NEW k \in Rowed, Shown(k, "high")
               PROVE  /\ authoritative
                      /\ \E b \in Range(List("B")) : IsFirst("B", k, b) /\ b.status = "enabled"
                      /\ k \in KeysOf("A") =>
                           \E a \in Range(List("A")) : IsFirst("A", k, a) /\ a.status = "disabled"
    BY DEF HighIsJustified
  <2>1. PICK r \in DOMAIN rows : rows[r].key = k /\ rows[r].risk = "high"
    BY DEF Shown
  <2>2. k \in AllKeys /\ RiskOf(k) = "high"
    BY <2>1 DEF IInv, RowsFollowIndex
  <2>3. pc \in {"rows", "done"}
    <3>1. rows # <<>>
      BY <2>1
    <3> QED BY <3>1 DEF IInv, TypeOK, RowsFollowIndex, Side
  <2>4. /\ authoritative /\ k \in DOMAIN index["B"] /\ index["B"][k].status = "enabled"
        /\ k \in DOMAIN index["A"] => index["A"][k].status = "disabled"
    BY <2>2 DEF RiskOf, StatusOf, Is, AllKeys
  <2>5. \A s \in Side : /\ DOMAIN index[s] = KeysOf(s)
                        /\ k \in KeysOf(s) => /\ IsFirst(s, k, index[s][k])
                                             /\ index[s][k] \in Range(List(s))
    BY <2>3, FinishedIndex
  <2> QED BY <2>4, <2>5 DEF Side
<1> QED BY <1>1, Invariance, PTL

\* The rows come out in the one order that risk and key leave them.
THEOREM Arrangement == Spec => []OneArrangement
<1> DEFINE Sorted == pc = "done" =>
             \A i, j \in DOMAIN rows : i < j => ~Before(rows[j], rows[i])
<1>1. Init => Sorted
  BY DEF Init
<1>2. TypeOK /\ Sorted /\ [Next]_vars => Sorted'
  <2> SUFFICES ASSUME TypeOK, Sorted, [Next]_vars, pc' = "done"
               PROVE  \A i, j \in DOMAIN rows' : i < j => ~Before(rows'[j], rows'[i])
    BY DEF Before
  <2>1. CASE Summarize
    <3>1. rows' \in SortedFrom(rows) /\ DOMAIN rows' = DOMAIN rows
      BY <2>1, SortedRows DEF Summarize, TypeOK
    <3> QED BY <3>1 DEF SortedFrom
  <2>2. CASE UNCHANGED vars
    BY <2>2 DEF vars, Before
  <2>3. CASE ReadAccount \/ IndexBuilt \/ AddRow
    BY <2>3 DEF ReadAccount, IndexBuilt, AddRow, Side
  <2> QED BY <2>1, <2>2, <2>3 DEF Next
<1>3. IInv /\ Sorted => OneArrangement
  <2> SUFFICES ASSUME IInv, Sorted, pc = "done" PROVE OneArrangement
    BY DEF OneArrangement
  <2>1. Rowed = KeysOf("A") \union KeysOf("B")
    BY FinishedIndex DEF IInv, RowsFollowIndex, AllKeys, Side
  <2>2. ASSUME NEW i \in DOMAIN rows, NEW j \in DOMAIN rows, i < j
        PROVE  /\ SortOrder[rows[i].risk] <= SortOrder[rows[j].risk]
               /\ rows[i].risk = rows[j].risk => rows[i].key < rows[j].key
    <3>1. DOMAIN rows = 1..Len(rows) /\ Len(rows) \in Nat
      BY LenProperties DEF IInv, TypeOK
    <3>2. rows[i] \in Row /\ rows[j] \in Row
      BY <3>1, ElementOfSeq DEF IInv, TypeOK
    <3>3. /\ rows[i].key \in Nat /\ rows[j].key \in Nat
          /\ rows[i].risk \in RiskLevel /\ rows[j].risk \in RiskLevel
      BY <3>2, KeyAssumption DEF Row
    <3>4. rows[i].key # rows[j].key
      BY <2>2, <3>1 DEF IInv, RowsFollowIndex
    <3>5. \A r \in RiskLevel : SortOrder[r] \in Nat
      BY DEF SortOrder, RiskLevel
    <3>6. ~Before(rows[j], rows[i])
      BY <2>2
    <3> QED BY <3>3, <3>4, <3>5, <3>6 DEF Before
  <2> QED BY <2>1, <2>2 DEF OneArrangement
<1> QED BY <1>1, <1>2, <1>3, Invariance, TypeCorrect, PTL DEF Spec
=============================================================================
