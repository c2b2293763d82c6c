---------------------------- MODULE FileFetchProofs ----------------------------
(***************************************************************************)
(* Proofs about FileFetch for sheets of any size and any limits: the fetch *)
(* keeps the provider contract, and the preview foretells its outcome.     *)
(***************************************************************************)
EXTENDS FileFetch, FiniteSetTheorems, SequenceTheorems, WellFoundedInduction, TLAPS

\* No step writes to the file, nor to what is computed of it.
LEMMA SameFile ==
  ASSUME UNCHANGED file
  PROVE  /\ Filled(at)' = Filled(at') /\ Filled(at - 1)' = Filled(at' - 1)
         /\ Filled(file.breaks - 2)' = Filled(file.breaks - 2)
         /\ Expected' = Expected /\ Columns' = Columns
         /\ HasHeader' = HasHeader
         /\ \A l : IsBlank(l)' = IsBlank(l)
         /\ \A l, n : Value(l, n)' = Value(l, n)
<1>1. Header' = Header
  BY DEF Header
<1>2. Headers' = Headers
  BY <1>1 DEF Headers
<1>3. Columns' = Columns
  BY <1>2 DEF Columns
<1>4. \A n : Position(n)' = Position(n)
  BY <1>2 DEF Position
<1>5. \A l, n : Value(l, n)' = Value(l, n)
  BY <1>4 DEF Value
<1>6. HasHeader' = HasHeader
  BY <1>3 DEF HasHeader
<1>7. QED
  BY <1>3, <1>5, <1>6 DEF Filled, Expected, IsBlank

LEMMA FilledFinite ==
  ASSUME NEW n \in Int
  PROVE  /\ Filled(n) \subseteq 2..n /\ IsFiniteSet(Filled(n)) /\ Cardinality(Filled(n)) \in Nat
         /\ \A k \in Int : k <= n => Filled(k) \subseteq Filled(n)
                                     /\ Cardinality(Filled(k)) <= Cardinality(Filled(n))
<1>1. Filled(n) \subseteq 2..n /\ \A k \in Int : k <= n => Filled(k) \subseteq Filled(n)
  BY DEF Filled
<1>2. IsFiniteSet(2..n)
  BY FS_Interval
<1>3. IsFiniteSet(Filled(n))
  BY <1>1, <1>2, FS_Subset
<1>4. QED
  BY <1>1, <1>3, FS_Subset, FS_CardinalityType

LEMMA FilledNext ==
  ASSUME NEW n \in Nat \ {0}
  PROVE  IF IsBlank(n + 1)
           THEN Filled(n + 1) = Filled(n)
           ELSE /\ Filled(n + 1) = Filled(n) \union {n + 1}
                /\ Cardinality(Filled(n + 1)) = Cardinality(Filled(n)) + 1
<1>1. IsBlank(n + 1) => Filled(n + 1) = Filled(n)
  BY DEF Filled
<1>2. ~IsBlank(n + 1) => Filled(n + 1) = Filled(n) \union {n + 1}
  BY DEF Filled
<1>3. n + 1 \notin Filled(n) /\ IsFiniteSet(Filled(n))
  BY FilledFinite
<1>4. QED
  BY <1>1, <1>2, <1>3, FS_AddElement

LEMMA NoneFilled == Filled(0) = {} /\ Cardinality(Filled(0)) = 0
  BY FS_EmptySet DEF Filled

LEMMA SequenceFacts ==
  ASSUME NEW S, NEW s \in Seq(S)
  PROVE  /\ Len(s) \in Nat /\ DOMAIN s = 1..Len(s)
         /\ s # <<>> => Len(s) >= 1
         /\ s = <<>> => Len(s) = 0
         /\ \A i \in 1..Len(s) : s[i] \in S
  OBVIOUS

LEMMA TableFacts ==
  ASSUME file \in Upload
  PROVE  /\ Len(file.table) \in Nat /\ file.breaks \in Nat
         /\ file.table # <<>> => Len(file.table) >= 1
         /\ \A l \in 1..Len(file.table) : file.table[l] \in Seq(Cell)
<1>1. file.table \in Seq(Seq(Cell)) /\ file.breaks \in Nat
  BY DEF Upload
<1>. DEFINE table == file.table
           Line == Seq(Cell)
<1>2. table \in Seq(Line)
  BY <1>1
<1>. HIDE DEF table, Line
<1>3. Len(table) \in Nat /\ (table # <<>> => Len(table) >= 1) /\ \A l \in 1..Len(table) : table[l] \in Line
  BY <1>2, SequenceFacts
<1>4. QED
  BY <1>1, <1>3 DEF table, Line

LEMMA ValueIsCell ==
  ASSUME file \in Upload, NEW l \in 1..Len(file.table), NEW n
  PROVE  Value(l, n) \in Cell
<1>. DEFINE line == file.table[l]
<1>1. line \in Seq(Cell)
  BY TableFacts
<1>. HIDE DEF line
<1>2. \A i \in DOMAIN line : line[i] \in Cell
  BY <1>1, SequenceFacts
<1>3. QED
  BY <1>2, CellAssumption DEF Value, line

LEMMA LimitType == Limit \in Nat \ {0} /\ Limit' \in Nat \ {0}
  BY LimitAssumption DEF Limit

\* The rows kept so far are lines of the sheet that hold anything.
LEMMA KeptExpected ==
  ASSUME IInv, pc \in {"lines", "build", "returned"}
  PROVE  Kept \subseteq Expected /\ Expected \subseteq 2..Len(file.table)
<1>1. Len(file.table) \in Int /\ at \in Int /\ at <= Len(file.table) /\ Kept = Filled(at)
  BY TableFacts DEF IInv, TypeOK, RowsAreLines
<1>2. QED
  BY <1>1, FilledFinite DEF Expected

-----------------------------------------------------------------------------
LEMMA InitIInv == Init => IInv
<1>. SUFFICES ASSUME Init PROVE IInv
  OBVIOUS
<1>1. TypeOK
  BY UploadAssumption DEF Init, TypeOK
<1>2. Kept = {} /\ Filled(at) = {} /\ Len(rows) = 0 /\ DOMAIN rows = {} /\ Cardinality(Kept) = 0
  BY NoneFilled, FS_EmptySet DEF Init, Kept
<1>3. file.breaks # 0 => file.breaks \in 2..Len(file.table) /\ at < file.breaks
  BY UploadAssumption DEF Init
<1>4. RowsAreLines
  BY <1>2, <1>3 DEF Init, RowsAreLines
<1>5. OutcomesTell /\ AccountsAreRows
  BY DEF Init, OutcomesTell, AccountsAreRows
<1>6. QED
  BY <1>1, <1>4, <1>5 DEF IInv

\* The reader starts over: what a Raise or a preview leaves of the rows.
LEMMA StartedOver ==
  ASSUME IInv, UNCHANGED file, at' = 0, rows' = <<>>, pc' \in {"header", "raised"}
  PROVE  RowsAreLines'
<1>1. Filled(at') = {} /\ Kept' = {} /\ Cardinality({}) = 0 /\ Len(rows') = 0
  BY NoneFilled, FS_EmptySet DEF Kept
<1>2. file.breaks # 0 => 0 < file.breaks /\ file.breaks \in 2..Len(file.table)
  BY TableFacts DEF IInv, TypeOK, RowsAreLines
<1>3. QED
  BY <1>1, <1>2, SameFile DEF RowsAreLines

\* Every exception has its reason in the file.
LEMMA RaiseStep ==
  ASSUME IInv, Raise, pc \notin {"construct", "returned", "raised"},
         task = "test" => ~Usable \/ BreaksWithin(PreviewRows),
         task = "fetch" => ~(Usable /\ IdColumn \in Columns) \/ file.breaks # 0
  PROVE  IInv'
<1>1. TypeOK'
  BY DEF IInv, TypeOK, Raise, resultVars
<1>2. RowsAreLines'
  BY StartedOver DEF Raise
<1>3. UNCHANGED <<file, resultVars>>
  BY DEF Raise
<1>4. Usable' = Usable /\ BreaksWithin(PreviewRows)' = BreaksWithin(PreviewRows)
  BY <1>3, SameFile DEF Usable, BreaksWithin
<1>5. file.size = "fits"
  BY DEF IInv, OutcomesTell, TypeOK
<1>6. OutcomesTell'
  BY <1>3, <1>4, <1>5, SameFile DEF IInv, OutcomesTell, Raise, TypeOK
<1>7. AccountsAreRows'
  BY <1>3 DEF IInv, AccountsAreRows, Raise, resultVars
<1>8. QED
  BY <1>1, <1>2, <1>6, <1>7 DEF IInv

LEMMA ReadStep == IInv /\ ReadLine => IInv'
<1>. SUFFICES ASSUME IInv, ReadLine PROVE IInv'
  OBVIOUS
<1>1. /\ UNCHANGED <<file, task, pc, preview, resultVars>> /\ pc = "lines"
      /\ at \in Nat \ {0} /\ at' = at + 1 /\ at' <= Len(file.table) /\ at' # file.breaks
      /\ rows \in Seq(Nat)
  BY TableFacts DEF IInv, TypeOK, RowsAreLines, ReadLine, BreaksOff
<1>2. Kept = Filled(at) /\ Len(rows) = Cardinality(Filled(at)) /\ Len(rows) < Limit
  <2>1. Kept = Filled(at) /\ Len(rows) = Cardinality(Kept) /\ ~(Len(rows) >= Limit)
    BY DEF IInv, RowsAreLines, ReadLine, LimitReached
  <2>2. Len(rows) \in Nat
    BY DEF IInv, TypeOK
  <2>3. QED
    BY <2>1, <2>2, LimitType
<1>3. \A i \in DOMAIN rows : rows[i] <= at
  BY <1>1, <1>2, FilledFinite DEF Kept
<1>4. rows' = IF IsBlank(at + 1) THEN rows ELSE Append(rows, at + 1)
  BY <1>1 DEF ReadLine
<1>8. Limit' = Limit /\ Limit \in Nat
  BY <1>1, LimitType DEF Limit
<1>5. CASE IsBlank(at + 1)
  <2>1. rows' = rows /\ Kept' = Kept /\ Filled(at') = Filled(at)
    BY <1>1, <1>4, <1>5, FilledNext DEF Kept
  <2>2. RowsAreLines'
    BY <1>1, <1>2, <2>1, SameFile, TableFacts, <1>8 DEF IInv, RowsAreLines, TypeOK
  <2>3. TypeOK' /\ OutcomesTell' /\ AccountsAreRows'
    BY <1>1, <2>1, SameFile
       DEF IInv, TypeOK, OutcomesTell, AccountsAreRows, Usable, BreaksWithin, resultVars
  <2>4. QED
    BY <2>2, <2>3 DEF IInv
<1>6. CASE ~IsBlank(at + 1)
  <2>1. rows' = Append(rows, at + 1)
    BY <1>4, <1>6
  <2>2. /\ rows' \in Seq(Nat) /\ Len(rows') = Len(rows) + 1
        /\ \A i \in DOMAIN rows : rows'[i] = rows[i]
        /\ rows'[Len(rows) + 1] = at + 1
        /\ DOMAIN rows' = DOMAIN rows \union {Len(rows) + 1} /\ DOMAIN rows = 1..Len(rows)
    BY <1>1, <2>1, AppendProperties
  <2>3. Kept' = Kept \union {at + 1}
    BY <2>2 DEF Kept
  <2>4. Filled(at') = Filled(at) \union {at + 1} /\ Cardinality(Filled(at')) = Len(rows')
    BY <1>1, <1>2, <1>6, <2>2, FilledNext
  <2>5. \A i, j \in DOMAIN rows' : i < j => rows'[i] < rows'[j]
    <3>1. Len(rows) \in Nat /\ \A i, j \in DOMAIN rows : i < j => rows[i] < rows[j]
      BY <1>1 DEF IInv, RowsAreLines
    <3>2. TAKE i, j \in DOMAIN rows'
    <3>3. HAVE i < j
    <3>4. i \in DOMAIN rows /\ rows'[i] = rows[i]
      BY <2>2, <3>1, <3>3
    <3>5. CASE j \in DOMAIN rows
      BY <2>2, <3>1, <3>3, <3>4, <3>5
    <3>6. CASE j = Len(rows) + 1
      <4>1. rows'[j] = at + 1 /\ rows[i] <= at /\ rows[i] \in Nat
        BY <1>1, <1>3, <2>2, <3>4, <3>6
      <4>2. QED
        BY <1>1, <3>4, <4>1
    <3>7. QED
      BY <2>2, <3>5, <3>6
  <2>6. Kept' = Filled(at') /\ Len(rows') = Cardinality(Kept') /\ at' - 1 = at
        /\ Cardinality(Filled(at' - 1)) < Limit'
    <3>1. at' - 1 = at
      BY <1>1
    <3>2. Kept' = Filled(at')
      BY <1>2, <2>3, <2>4
    <3>3. Filled(at' - 1) = Filled(at)
      BY <3>1
    <3>4. QED
      BY <1>2, <1>8, <2>4, <3>1, <3>2, <3>3
  <2>7. Filled(at)' = Filled(at') /\ Filled(at - 1)' = Filled(at' - 1) /\ HasHeader' = HasHeader
    BY <1>1, SameFile
  <2>8. RowsAreLines'
    BY <1>1, <2>5, <2>6, <2>7 DEF IInv, RowsAreLines
  <2>9. TypeOK' /\ OutcomesTell' /\ AccountsAreRows'
    BY <1>1, <2>2, SameFile
       DEF IInv, TypeOK, OutcomesTell, AccountsAreRows, Usable, BreaksWithin, resultVars
  <2>10. QED
    BY <2>8, <2>9 DEF IInv
<1>7. QED
  BY <1>5, <1>6

LEMMA BuildStep == IInv /\ Build => IInv'
<1>. SUFFICES ASSUME IInv, Build PROVE IInv'
  OBVIOUS
<1>1. UNCHANGED <<file, task, at, rows, preview>> /\ pc = "build" /\ pc' = "returned" /\ task = "fetch"
  BY DEF Build
<1>2. Kept \subseteq 2..Len(file.table) /\ Len(file.table) \in Nat
  BY <1>1, KeptExpected, TableFacts DEF IInv, TypeOK
<1>3. \A l \in Identified : Value(l, IdColumn) \in Cell /\ l \in Nat
  BY <1>2, ValueIsCell DEF IInv, TypeOK, Identified
<1>4. \A l : StatusOf(l) \in AccountStatus
  BY DEF StatusOf, AccountStatus
<1>5. accounts' = {[line |-> l, identifier |-> Value(l, IdColumn), status |-> StatusOf(l)] : l \in Identified}
  BY DEF Build
<1>6. accounts' \in SUBSET Account /\ {a.line : a \in accounts'} = Identified
  <2>1. accounts' \subseteq Account
    BY <1>3, <1>4, <1>5 DEF Account
  <2>2. \A a \in accounts' : a.line \in Identified
    BY <1>5
  <2>3. ASSUME NEW l \in Identified PROVE \E a \in accounts' : a.line = l
    <3>1. [line |-> l, identifier |-> Value(l, IdColumn), status |-> StatusOf(l)] \in accounts'
      BY <1>5
    <3>2. QED
      BY <3>1
  <2>4. QED
    BY <2>1, <2>2, <2>3
<1>7. Kept' = Kept /\ Identified' = Identified
  BY <1>1, SameFile DEF Kept, Identified
<1>8. total' = Len(rows) /\ warnings' = Warnings
  BY DEF Build
<1>9. TypeOK'
  BY <1>1, <1>6, <1>8 DEF IInv, TypeOK, Warnings
<1>10. RowsAreLines'
  BY <1>1, <1>7, SameFile DEF IInv, RowsAreLines, BreaksOff, Limit
<1>11. warnings' = {} => Identified = Kept /\ Len(rows) < MaxRows
  <2>1. Identified # Kept => "skipped" \in Warnings
    BY DEF Warnings
  <2>2. Len(rows) >= MaxRows => "limit" \in Warnings
    BY DEF Warnings
  <2>3. Len(rows) \in Nat
    BY DEF IInv, TypeOK
  <2>4. QED
    BY <1>8, <2>1, <2>2, <2>3, LimitAssumption
<1>12. AccountsAreRows'
  BY <1>1, <1>6, <1>7, <1>8, <1>11 DEF AccountsAreRows
<1>13. Expected # {}
  <2>1. Kept # {}
    BY DEF IInv, TypeOK, RowsAreLines, Kept, Build
  <2>2. Kept \subseteq Expected
    BY <1>1, KeptExpected
  <2>3. QED
    BY <2>1, <2>2
<1>14. OutcomesTell'
  BY <1>1, <1>13, SameFile DEF IInv, OutcomesTell, RowsAreLines, Usable, BreaksWithin, Build
<1>15. QED
  BY <1>9, <1>10, <1>12, <1>14 DEF IInv

LEMMA PreviewStep == IInv /\ Preview => IInv'
<1>. SUFFICES ASSUME IInv, Preview PROVE IInv'
  OBVIOUS
<1>1. UNCHANGED <<file, resultVars>> /\ pc = "build" /\ pc' = "header" /\ at' = 0 /\ rows' = <<>>
  BY DEF Preview
<1>2. Usable
  <2>1. Kept # {}
    BY <1>1 DEF IInv, TypeOK, RowsAreLines, Kept
  <2>2. Kept \subseteq Expected
    BY <1>1, KeptExpected
  <2>3. QED
    BY <1>1, <2>1, <2>2 DEF IInv, OutcomesTell, RowsAreLines, Usable
<1>3. RowsAreLines'
  BY <1>1, StartedOver
<1>4. Usable'
  BY <1>1, <1>2, SameFile DEF Usable
<1>5. OutcomesTell'
  BY <1>1, <1>2, <1>4, SameFile DEF OutcomesTell, Usable, Preview
<1>6. TypeOK' /\ AccountsAreRows'
  BY <1>1 DEF IInv, TypeOK, AccountsAreRows, Preview, resultVars
<1>7. QED
  BY <1>3, <1>5, <1>6 DEF IInv

\* The steps that only move on.
LEMMA MoveStep == IInv /\ (Construct \/ ReadHeader \/ LinesRead) => IInv'
<1>1. ASSUME IInv, Construct PROVE IInv'
  <2>1. UNCHANGED <<file, task, at, rows, preview, resultVars>> /\ pc = "construct"
    BY <1>1 DEF Construct
  <2>2. RowsAreLines'
    BY <1>1, <2>1, SameFile DEF IInv, RowsAreLines, Construct, Kept
  <2>3. TypeOK' /\ OutcomesTell' /\ AccountsAreRows'
    BY <1>1, <2>1, SameFile
       DEF IInv, TypeOK, OutcomesTell, AccountsAreRows, Usable, BreaksWithin, resultVars, Construct
  <2>4. QED
    BY <2>2, <2>3 DEF IInv
<1>2. ASSUME IInv, ReadHeader PROVE IInv'
  <2>1. UNCHANGED <<file, task, rows, preview, resultVars>> /\ pc = "header" /\ pc' = "lines" /\ at' = 1
    BY <1>2 DEF ReadHeader
  <2>2. Filled(1) = {} /\ Filled(0) = {} /\ Cardinality(Filled(0)) = 0
    BY NoneFilled DEF Filled
  <2>3. Limit' \in Nat \ {0}
    BY <2>1, LimitAssumption DEF Limit
  <2>4. Len(file.table) \in Nat /\ Len(file.table) >= 1
    BY <1>2, TableFacts DEF IInv, TypeOK, ReadHeader, HasHeader
  <2>5. rows = <<>>
    BY <1>2, <2>1 DEF IInv, RowsAreLines
  <2>6. RowsAreLines'
    BY <1>2, <2>1, <2>2, <2>3, <2>4, <2>5, SameFile DEF IInv, RowsAreLines, ReadHeader, Kept
  <2>7. TypeOK' /\ OutcomesTell' /\ AccountsAreRows'
    BY <1>2, <2>1, SameFile
       DEF IInv, TypeOK, OutcomesTell, AccountsAreRows, Usable, BreaksWithin, resultVars
  <2>8. QED
    BY <2>6, <2>7 DEF IInv
<1>3. ASSUME IInv, LinesRead PROVE IInv'
  <2>1. UNCHANGED <<file, task, at, rows, preview, resultVars>> /\ pc = "lines" /\ pc' = "build"
    BY <1>3 DEF LinesRead
  <2>2. RowsAreLines'
    BY <1>3, <2>1, SameFile
       DEF IInv, RowsAreLines, LinesRead, LimitReached, BreaksOff, Kept, Limit
  <2>3. TypeOK' /\ OutcomesTell' /\ AccountsAreRows'
    BY <1>3, <2>1, SameFile
       DEF IInv, TypeOK, OutcomesTell, AccountsAreRows, Usable, BreaksWithin, resultVars
  <2>4. QED
    BY <2>2, <2>3 DEF IInv
<1>4. QED
  BY <1>1, <1>2, <1>3

LEMMA RaisesStep == IInv /\ (RejectFile \/ BreakOff \/ NoRows \/ RejectMapping) => IInv'
<1>1. ASSUME IInv, RejectFile PROVE IInv'
  BY <1>1, RaiseStep DEF RejectFile, Usable
<1>2. ASSUME IInv, BreakOff PROVE IInv'
  <2>1. Raise /\ pc = "lines" /\ at \in Nat /\ file.breaks = at + 1
    BY <1>2 DEF BreakOff, BreaksOff, IInv, TypeOK
  <2>2. file.breaks # 0 /\ file.breaks - 2 = at - 1
    BY <2>1
  <2>3. Cardinality(Filled(at - 1)) < Limit
    BY <1>2, <2>1 DEF IInv, RowsAreLines
  <2>4. Filled(file.breaks - 2) = Filled(at - 1)
    BY <2>2
  <2>5. task = "test" => BreaksWithin(PreviewRows)
    BY <2>2, <2>3, <2>4 DEF BreaksWithin, Limit
  <2>6. QED
    BY <1>2, <2>1, <2>2, <2>5, RaiseStep
<1>3. ASSUME IInv, NoRows PROVE IInv'
  <2>1. Raise /\ pc = "lines" /\ rows = <<>> /\ (LimitReached \/ at = Len(file.table))
    BY <1>3 DEF NoRows
  <2>2. Len(rows) = 0 /\ ~LimitReached /\ Kept = {}
    BY <2>1, LimitType DEF LimitReached, Kept
  <2>3. Expected = {}
    BY <1>3, <2>1, <2>2 DEF IInv, RowsAreLines, Expected
  <2>4. QED
    BY <1>3, <2>1, <2>3, RaiseStep DEF Usable
<1>4. ASSUME IInv, RejectMapping PROVE IInv'
  BY <1>4, RaiseStep DEF RejectMapping
<1>5. QED
  BY <1>1, <1>2, <1>3, <1>4

LEMMA StutterIInv == IInv /\ UNCHANGED vars => IInv'
<1>. SUFFICES ASSUME IInv, UNCHANGED vars PROVE IInv'
  OBVIOUS
<1>1. UNCHANGED <<file, task, pc, at, rows, preview, resultVars>>
  BY DEF vars, resultVars
<1>2. Kept' = Kept /\ Limit' = Limit /\ Identified' = Identified
  BY <1>1, SameFile DEF Kept, Limit, Identified
<1>3. RowsAreLines'
  BY <1>1, <1>2, SameFile DEF IInv, RowsAreLines, BreaksOff
<1>4. TypeOK' /\ OutcomesTell' /\ AccountsAreRows'
  BY <1>1, <1>2, SameFile
     DEF IInv, TypeOK, OutcomesTell, AccountsAreRows, Usable, BreaksWithin, resultVars
<1>5. QED
  BY <1>3, <1>4 DEF IInv

\* The invariant, for sheets of any size and any limits.
THEOREM Invariance == Spec => []IInv
<1>1. IInv /\ [Next]_vars => IInv'
  BY MoveStep, ReadStep, RaisesStep, PreviewStep, BuildStep, StutterIInv DEF Next
<1>2. QED
  BY InitIInv, <1>1, PTL DEF Spec

-----------------------------------------------------------------------------
LEMMA Foretold == IInv => PreviewForetells
<1>. SUFFICES ASSUME IInv PROVE PreviewForetells
  OBVIOUS
<1>1. pc = "raised" => preview # "found" \/ file.breaks # 0
  BY DEF IInv, OutcomesTell
<1>2. ASSUME pc = "returned" PROVE preview \in {"none", "found"}
  <2>1. Usable /\ IdColumn \in Columns /\ preview # "missing"
    BY <1>2 DEF IInv, OutcomesTell
  <2>2. ASSUME preview = "raised" PROVE FALSE
    <3>1. file.breaks # 0 /\ Cardinality(Filled(file.breaks - 2)) < PreviewRows
      BY <2>1, <2>2 DEF IInv, OutcomesTell, BreaksWithin
    <3>2. /\ at \in Nat /\ file.breaks \in Nat /\ at < file.breaks
          /\ file.breaks <= Len(file.table) /\ at + 1 # file.breaks
      BY <1>2, <3>1, TableFacts DEF IInv, TypeOK, RowsAreLines, BreaksOff
    <3>3. at <= file.breaks - 2 /\ at # Len(file.table) /\ file.breaks - 2 \in Int
      BY <3>2, TableFacts DEF IInv, TypeOK
    <3>4. Limit = MaxRows
      BY <1>2 DEF IInv, AccountsAreRows, Limit
    <3>5. Cardinality(Filled(at)) >= MaxRows
      BY <1>2, <3>3, <3>4 DEF IInv, RowsAreLines
    <3>6. Cardinality(Filled(at)) <= Cardinality(Filled(file.breaks - 2))
          /\ Cardinality(Filled(at)) \in Nat /\ Cardinality(Filled(file.breaks - 2)) \in Nat
      <4>. DEFINE n == file.breaks - 2
      <4>1. n \in Int /\ at \in Int /\ at <= n
        BY <3>2, <3>3
      <4>. HIDE DEF n
      <4>2. Cardinality(Filled(at)) <= Cardinality(Filled(n)) /\ Cardinality(Filled(n)) \in Nat
            /\ Cardinality(Filled(at)) \in Nat
        BY <4>1, FilledFinite
      <4>3. QED
        BY <4>2 DEF n
    <3>7. QED
      BY <3>1, <3>5, <3>6, LimitAssumption
  <2>3. QED
    BY <2>1, <2>2 DEF IInv, TypeOK
<1>3. QED
  BY <1>1, <1>2 DEF PreviewForetells

\* test_connection foretells fetch, whatever the limits and wherever the file
\* is damaged.
THEOREM Foretelling == Spec => []PreviewForetells
  BY Invariance, Foretold, PTL

\* A result without a warning is the whole sheet.
LEMMA ResultIsListing ==
  ASSUME IInv, pc = "returned"
  PROVE  /\ {a.line : a \in accounts} \subseteq Expected
         /\ {a.line : a \in accounts} # Expected => warnings # {}
<1>1. Kept \subseteq Expected
  BY KeptExpected
<1>2. {a.line : a \in accounts} = Identified /\ Identified \subseteq Kept
  BY DEF IInv, AccountsAreRows, Identified
<1>3. ASSUME warnings = {} PROVE Identified = Expected
  <2>1. Identified = Kept /\ Len(rows) < MaxRows /\ task = "fetch"
    BY <1>3 DEF IInv, AccountsAreRows
  <2>2. Len(rows) \in Nat /\ Limit = MaxRows
    BY <2>1 DEF IInv, TypeOK, Limit
  <2>3. at = Len(file.table)
    BY <2>1, <2>2, LimitAssumption DEF IInv, RowsAreLines
  <2>4. QED
    BY <2>1, <2>3 DEF IInv, RowsAreLines, Expected
<1>4. QED
  BY <1>1, <1>2, <1>3

LEMMA ListingInit == Init => Listing!Init
<1>. SUFFICES ASSUME Init PROVE Listing!Init
  OBVIOUS
<1>1. file \in Upload
  BY UploadAssumption DEF Init
<1>2. Expected \subseteq Nat
  BY <1>1, TableFacts DEF Expected, Filled
<1>3. QED
  BY <1>2 DEF Init, Listing!Init

LEMMA ListingStep == IInv /\ IInv' /\ [Next]_vars => [Listing!Next]_(Listing!listingVars)
<1>. DEFINE Result == (pc = "returned") =>
                        /\ {a.line : a \in accounts} \subseteq Expected
                        /\ {a.line : a \in accounts} # Expected => warnings # {}
<1>1. IInv => Result
  BY ResultIsListing
<1>2. Result' /\ IInv /\ [Next]_vars => [Listing!Next]_(Listing!listingVars)
  <2>. SUFFICES ASSUME Result', IInv, [Next]_vars PROVE [Listing!Next]_(Listing!listingVars)
    OBVIOUS
  <2>1. UNCHANGED file
    BY DEF Next, vars, Construct, ReadHeader, RejectFile, ReadLine, BreakOff, LinesRead, NoRows,
           Preview, RejectMapping, Build, Raise
  <2>2. Expected' = Expected
    BY <2>1, SameFile
  <2>3. CASE Build
    <3>1. pc = "build" /\ pc' = "returned"
      BY <2>3 DEF Build
    <3>2. {a.line : a \in accounts'} \subseteq Expected
          /\ {a.line : a \in accounts'} # Expected => warnings' # {}
      BY <2>2, <3>1
    <3>3. QED
      BY <2>2, <3>1, <3>2 DEF Listing!Next, Listing!Return
  <2>4. CASE UNCHANGED resultVars /\ pc \notin {"returned", "raised"} /\ pc' = "raised"
    BY <2>2, <2>4 DEF resultVars, Listing!Next, Listing!Raise
  <2>5. CASE UNCHANGED resultVars /\ pc \notin {"returned", "raised"}
             /\ pc' \notin {"returned", "raised"}
    BY <2>2, <2>5 DEF resultVars, Listing!listingVars
  <2>6. CASE UNCHANGED vars
    BY <2>2, <2>6 DEF vars, Listing!listingVars
  <2>7. Next => \/ Build
                \/ /\ UNCHANGED resultVars /\ pc \notin {"returned", "raised"}
                   /\ pc' = "raised" \/ pc' \notin {"returned", "raised"}
    BY DEF Next, Construct, ReadHeader, RejectFile, ReadLine, BreakOff, LinesRead, NoRows,
           Preview, RejectMapping, Raise
  <2>8. QED
    BY <2>3, <2>4, <2>5, <2>6, <2>7
<1>. HIDE DEF Result
<1>3. (IInv => Result)'
  BY <1>1, PTL
<1>4. QED
  BY <1>2, <1>3

\* base.py:132 for files: no truncated list without a warning.
THEOREM ImplementsListing == Spec => ListingSpec
<1>1. QED
  BY Invariance, ListingInit, ListingStep, PTL DEF Spec, ListingSpec, Listing!Spec
-----------------------------------------------------------------------------
LEMMA LeastNumber ==
  ASSUME NEW T \in SUBSET Nat, T # {}
  PROVE  \E n \in T : \A m \in T : n <= m
<1>1. PICK n \in T : \A m \in T : <<m, n>> \notin OpToRel(<, Nat)
  BY NatLessThanWellFounded, WFMin
<1>2. \A m \in T : ~(m < n)
  BY <1>1 DEF OpToRel
<1> QED BY <1>2

\* A name that is in the header has a last place there, and _row_to_dict is left
\* with the cell of that place.
LEMMA LastPlace ==
  ASSUME file \in Upload, HasHeader, NEW name \in Columns
  PROVE  LET Under == {j \in DOMAIN Header : Header[j] = name}
         IN  /\ Under # {}
             /\ Position(name) = CHOOSE j \in Under : \A k \in Under : k <= j
<1> DEFINE Under == {j \in DOMAIN Header : Header[j] = name}
           Last(j) == \A k \in Under : k <= j
<1>1. DOMAIN Header = 1..Len(Header) /\ Len(Header) \in Nat
  <2>1. Header \in Seq(Cell)
    BY TableFacts DEF Header, HasHeader
  <2> HIDE DEF Under
  <2> QED BY <2>1, SequenceFacts
<1>2. Under # {} /\ Under \subseteq Nat /\ name # Blank
      /\ Under = {j \in DOMAIN Headers : Headers[j] = name}
  <2>1. DOMAIN Headers = {j \in DOMAIN Header : Header[j] # Blank}
        /\ \A j \in DOMAIN Headers : Headers[j] = Header[j]
    BY DEF Headers
  <2>2. PICK i \in DOMAIN Headers : Headers[i] = name
    BY DEF Columns
  <2> QED BY <1>1, <2>1, <2>2
<1> DEFINE behind == {n \in Nat : \E j \in Under : n = Len(Header) - j}
<1>3. behind \subseteq Nat /\ behind # {}
  BY <1>1, <1>2
<1>4. PICK least \in behind : \A n \in behind : least <= n
  <2> HIDE DEF behind
  <2> QED BY <1>3, LeastNumber
<1>5. PICK last \in Under : least = Len(Header) - last
  BY <1>4
<1>6. Last(last)
  <2> SUFFICES ASSUME NEW k \in Under PROVE k <= last
    OBVIOUS
  <2>1. Len(Header) - k \in behind /\ last \in 1..Len(Header) /\ k \in 1..Len(Header)
    BY <1>1
  <2> QED BY <1>1, <1>4, <1>5, <2>1
<1>7. \A j \in Under : Last(j) => j = last
  BY <1>2, <1>5, <1>6
<1> DEFINE MayBe(i) == Headers[i] = name /\ \A j \in DOMAIN Headers : Headers[j] = name => j <= i
<1>8. \A i \in DOMAIN Headers : MayBe(i) <=> i \in Under /\ Last(i)
  BY <1>2
<1>9. last \in DOMAIN Headers
  BY <1>2, <1>5
<1> HIDE DEF Under, Last, MayBe, behind
<1>10. (CHOOSE j \in Under : Last(j)) = last
  BY <1>5, <1>6, <1>7
<1>11. (CHOOSE i \in DOMAIN Headers : MayBe(i)) = last
  BY <1>5, <1>6, <1>7, <1>8, <1>9
<1> QED BY <1>2, <1>10, <1>11 DEF Position, Under, Last, MayBe

\* A value that is there stands below the last cell of its name.
LEMMA ValueStays ==
  ASSUME file \in Upload, HasHeader, NEW name \in Columns, NEW l, Value(l, name) # Blank
  PROVE  LET line == file.table[l]
             Under == {j \in DOMAIN Header : Header[j] = name}
             last == CHOOSE j \in Under : \A k \in Under : k <= j
         IN  Under # {} /\ last \in DOMAIN line /\ line[last] = Value(l, name)
<1> DEFINE Under == {j \in DOMAIN Header : Header[j] = name}
           last == CHOOSE j \in Under : \A k \in Under : k <= j
<1>1. Under # {} /\ Position(name) = last
  BY LastPlace
<1> HIDE DEF Under, last
<1>2. last \in DOMAIN file.table[l] /\ file.table[l][last] = Value(l, name)
  BY <1>1 DEF Value
<1> QED BY <1>1, <1>2 DEF Under, last

\* No identifier and no status slips into another column, however many columns
\* the sheet has and wherever names or cells are missing.
THEOREM ColumnsHold == Spec => []ValuesStayInColumns
<1>1. Init => ValuesStayInColumns
  BY DEF Init, ValuesStayInColumns
<1>2. IInv /\ ValuesStayInColumns /\ [Next]_vars => ValuesStayInColumns'
  <2> SUFFICES ASSUME IInv, ValuesStayInColumns, [Next]_vars PROVE ValuesStayInColumns'
    OBVIOUS
  <2>1. file' = file
    BY DEF Next, vars, Construct, ReadHeader, RejectFile, ReadLine, BreakOff, LinesRead, NoRows,
           Preview, RejectMapping, Build, Raise
  <2>2. CASE accounts' = accounts
    BY <2>1, <2>2 DEF ValuesStayInColumns, Header
  <2>3. CASE Build
    <3>1. file \in Upload /\ HasHeader /\ IdColumn \in Columns /\ Header' = Header
      BY <2>1, <2>3 DEF Build, IInv, TypeOK, RowsAreLines, Header
    <3>2. ASSUME NEW a \in accounts'
          PROVE  /\ a.identifier = Value(a.line, IdColumn) /\ a.identifier # Blank
                 /\ a.status = "enabled" =>
                      /\ StatusColumn \in Columns /\ Value(a.line, StatusColumn) # Blank
                      /\ Value(a.line, StatusColumn) \in EnabledCell
      <4>1. PICK l \in Identified :
              a = [line |-> l, identifier |-> Value(l, IdColumn), status |-> StatusOf(l)]
        BY <2>3 DEF Build
      <4> QED BY <4>1 DEF Identified, StatusOf
    <3>3. ASSUME NEW a \in accounts'
          PROVE  LET line == file.table[a.line]
                     Under(name) == {j \in DOMAIN Header : Header[j] = name}
                     Last(name) == CHOOSE j \in Under(name) : \A k \in Under(name) : k <= j
                 IN  /\ Last(IdColumn) \in DOMAIN line /\ line[Last(IdColumn)] = a.identifier
                     /\ a.identifier # Blank
                     /\ a.status = "enabled" =>
                          /\ Under(StatusColumn) # {} /\ Last(StatusColumn) \in DOMAIN line
                          /\ line[Last(StatusColumn)] \in EnabledCell
      <4> DEFINE line == file.table[a.line]
                 Under(name) == {j \in DOMAIN Header : Header[j] = name}
                 Last(name) == CHOOSE j \in Under(name) : \A k \in Under(name) : k <= j
      <4>1. \A name \in Columns : Value(a.line, name) # Blank =>
              Under(name) # {} /\ Last(name) \in DOMAIN line /\ line[Last(name)] = Value(a.line, name)
        BY <3>1, ValueStays
      <4> HIDE DEF Under, Last, line
      <4>2. /\ Last(IdColumn) \in DOMAIN line /\ line[Last(IdColumn)] = a.identifier
            /\ a.identifier # Blank
            /\ a.status = "enabled" =>
                 /\ Under(StatusColumn) # {} /\ Last(StatusColumn) \in DOMAIN line
                 /\ line[Last(StatusColumn)] \in EnabledCell
        BY <3>1, <3>2, <4>1
      <4> QED BY <4>2 DEF Under, Last, line
    <3> QED BY <2>1, <3>1, <3>3 DEF ValuesStayInColumns
  <2> QED BY <2>2, <2>3 DEF Next, vars, resultVars, Construct, ReadHeader, RejectFile, ReadLine,
                            BreakOff, LinesRead, NoRows, Preview, RejectMapping, Raise
<1> QED BY <1>1, <1>2, Invariance, PTL DEF Spec
=============================================================================
