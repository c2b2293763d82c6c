------------------------------ MODULE ResultPages ------------------------------
(***************************************************************************)
(* The stored rows of comparisons and what administrators write on them:   *)
(* the pages that show a comparison, the handler that saves a value, and   *)
(* the export, which finds the values by another way than the pages        *)
(* (src/app/web/routes.py, src/app/export/excel.py).                       *)
(***************************************************************************)
EXTENDS Integers, SequencesExt

CONSTANTS
  AccountKey,      \* normalized keys, as their places in the alphabet
  Field,           \* keys of custom fields
  DisplayOrder,    \* of each field; several may have the same
  Value,           \* values as they are stored, the empty one included
  Formula,         \* those that begin with one of FORMULA_PREFIXES
  Quoted,          \* of each of them, the same behind a quotation mark
  PAGE_SIZE,
  MaxComparisons,  \* comparisons ever stored, rows of them all, and rows and
  MaxRows,         \* fields that have a value (bounds of the model)
  MaxAnnotations

ASSUME ResultPagesAssumption ==
  /\ AccountKey \subseteq Nat /\ IsFiniteSet(AccountKey)
  /\ IsFiniteSet(Field)
  /\ DisplayOrder \in [Field -> Nat]
  /\ "" \in Value
  /\ Formula \subseteq Value \ {""}
  /\ DOMAIN Quoted = Formula /\ \A v \in Formula : Quoted[v] \notin Formula
  /\ PAGE_SIZE \in Nat \ {0}
  /\ {MaxComparisons, MaxRows, MaxAnnotations} \subseteq Nat

VARIABLES
  comparisons,  \* of each comparison, the rows: the risk level of each account_key
  annotations,  \* the value of each row and field that has one
  is_active     \* the fields that are shown and may be written

pageVars == <<comparisons, annotations, is_active>>

RiskLevel == {"high", "medium", "low", "none"}

RowsOf(c) == DOMAIN comparisons[c]
StoredRows ==
  Cardinality(UNION {{c} \X RowsOf(c) : c \in DOMAIN comparisons})

PagesInit ==
  /\ comparisons = <<>>
  /\ annotations = [cell \in {} |-> ""]
  /\ is_active = Field

-----------------------------------------------------------------------------
\* run_comparison stores one row for each key of either list.
StoreComparison(keys, risks) ==
  /\ Len(comparisons) < MaxComparisons
  /\ StoredRows + Cardinality(keys) <= MaxRows
  /\ comparisons' = Append(comparisons, [k \in keys |-> risks[k]])
  /\ UNCHANGED <<annotations, is_active>>

\* Who manages the database switches a field on or off: no route does.
SwitchField(f) ==
  /\ is_active' = IF f \in is_active THEN is_active \ {f} ELSE is_active \union {f}
  /\ UNCHANGED <<comparisons, annotations>>

\* save_annotation: of a stored row and an active field; the row and field have
\* one value, which is replaced.
SaveAnnotation(c, k, f, value) ==
  /\ f \in is_active
  /\ LET cell == <<[comparison |-> c, account_key |-> k], f>>
     IN  annotations' = [x \in DOMAIN annotations \union {cell} |->
                           IF x = cell THEN value ELSE annotations[x]]
  /\ Cardinality(DOMAIN annotations') <= MaxAnnotations
  /\ UNCHANGED <<comparisons, is_active>>

PagesNext ==
  \/ \E keys \in SUBSET AccountKey : \E risks \in [keys -> RiskLevel] :
       StoreComparison(keys, risks)
  \/ \E f \in Field : SwitchField(f)
  \/ \E c \in DOMAIN comparisons : \E k \in RowsOf(c), f \in Field, value \in Value :
       SaveAnnotation(c, k, f, value)

PagesSpec == PagesInit /\ [][PagesNext]_pageVars

-----------------------------------------------------------------------------
(* The pages of a comparison.                                              *)

\* Mutant: the levels are put in the order of their names.
ByName == [high |-> 0, low |-> 1, medium |-> 2, none |-> 3]

\* order.get(r.risk_level, 3)
PageRank == [high |-> 0, medium |-> 1, low |-> 2, none |-> 3]

\* The sort key of a row: its rank and its key.
Before(c, rank, k, l) ==
  LET m == rank[comparisons[c][k]]
      n == rank[comparisons[c][l]]
  IN  m < n \/ (m = n /\ k < l)

\* Keys of comparison c among keys, in that order.
Sorted(c, keys, rank) ==
  CHOOSE s \in SetToSeqs(keys) : \A i, j \in DOMAIN s : i < j => Before(c, rank, s[i], s[j])

TotalPages(n) == IF n = 0 THEN 1 ELSE (n + PAGE_SIZE - 1) \div PAGE_SIZE

\* Keys on a page, when the filters let the keys wanted pass.
PageRows(c, wanted, page) ==
  LET rows == Sorted(c, RowsOf(c) \intersect wanted, PageRank)
      start == (page - 1) * PAGE_SIZE
  IN  SubSeq(rows, start + 1, IF start + PAGE_SIZE < Len(rows) THEN start + PAGE_SIZE
                                                                ELSE Len(rows))

\* The places where paging through the comparison shows a row: page and line.
PlacesShown(c, wanted) ==
  UNION {{page} \X DOMAIN PageRows(c, wanted, page) :
           page \in 1..TotalPages(Cardinality(RowsOf(c) \intersect wanted))}

RowAt(c, wanted, place) == PageRows(c, wanted, place[1])[place[2]]

\* _load_annotations, by row.
PageValue(c, k, f) ==
  LET cell == <<[comparison |-> c, account_key |-> k], f>>
  IN  IF cell \in DOMAIN annotations THEN annotations[cell] ELSE ""

-----------------------------------------------------------------------------
(* The export of a comparison.                                             *)

\* RiskLevel.sort_order
SortOrder == [high |-> 0, medium |-> 1, low |-> 2, none |-> 3]

ExportRows(c) == Sorted(c, RowsOf(c), SortOrder)

\* Orders in which the query may return the active fields.
Columns ==
  {s \in SetToSeqs(is_active) :
     \A i, j \in DOMAIN s : i < j => DisplayOrder[s[i]] <= DisplayOrder[s[j]]}

\* Mutant: the values of the account in any comparison.
JoinedByKey(c, k) == {cell \in DOMAIN annotations : cell[1].account_key = k}

\* _load_annotations_by_key: the annotations of comparison c under the key k.
Joined(c, k) ==
  {cell \in DOMAIN annotations : cell[1].comparison = c /\ cell[1].account_key = k}

\* The values in the order of the columns; columns without a value are blank.
InColumns(columns, found) ==
  [i \in DOMAIN columns |-> IF columns[i] \in DOMAIN found THEN found[columns[i]] ELSE ""]

\* The values joined to a row: none if it has no annotations.
ExportValues(c, k, columns) ==
  LET cells == Joined(c, k)
      found == [f \in {cell[2] : cell \in cells} |->
                  annotations[CHOOSE cell \in cells : cell[2] = f]]
  IN  IF cells = {} THEN <<>> ELSE InColumns(columns, found)

\* sanitize_for_export: a spreadsheet shall take no value for a formula.
SanitizeForExport(v) == IF v \in Formula THEN Quoted[v] ELSE v

\* The custom cells of a row.
ExportCells(c, k, columns) ==
  LET values == ExportValues(c, k, columns)
  IN  [i \in DOMAIN values |-> SanitizeForExport(values[i])]

-----------------------------------------------------------------------------
Earlier(p, q) == p[1] < q[1] \/ (p[1] = q[1] /\ p[2] < q[2])

\* routes.py:552: paging through a comparison, under any filter, shows every
\* row that passes it, and in the order in which the export lists them: none on
\* two pages, and none between two pages.
PagesHoldEveryRow ==
  \A c \in DOMAIN comparisons : \A wanted \in SUBSET AccountKey :
    LET places == PlacesShown(c, wanted)
        export == ExportRows(c)
    IN  /\ {RowAt(c, wanted, p) : p \in places} = RowsOf(c) \intersect wanted
        /\ \A p, q \in places : Earlier(p, q) =>
             \E i, j \in DOMAIN export :
               i < j /\ export[i] = RowAt(c, wanted, p) /\ export[j] = RowAt(c, wanted, q)

\* excel.py:73, routes.py:1131: a row of the export has under the heading of
\* every active field what the page shows there, quoted if a spreadsheet would
\* compute it, and nothing where that is empty: whatever was written on another
\* comparison, on a field since switched off, or in which order.  No cell is a
\* formula (tests/test_export.py:42).
ExportMatchesPage ==
  \A c \in DOMAIN comparisons : \A columns \in Columns, k \in RowsOf(c) :
    LET cells == ExportCells(c, k, columns)
    IN  /\ Len(cells) <= Len(columns)
        /\ \A i \in DOMAIN columns :
             SanitizeForExport(PageValue(c, k, columns[i]))
               = IF i \in DOMAIN cells THEN cells[i] ELSE ""
        /\ \A i \in DOMAIN cells : cells[i] \notin Formula

-----------------------------------------------------------------------------
(* What ExportMatchesPage rests on.                                        *)

Rows == UNION {[K -> RiskLevel] : K \in SUBSET AccountKey}

PagesTypeOK ==
  /\ comparisons \in Seq(Rows)
  /\ annotations \in [DOMAIN annotations -> Value]
  /\ is_active \subseteq Field

\* Every value is of a stored row and of a field.
ValuesHaveRows ==
  \A cell \in DOMAIN annotations :
    \E c \in DOMAIN comparisons, f \in Field : \E k \in RowsOf(c) :
      cell = <<[comparison |-> c, account_key |-> k], f>>

PagesInv == PagesTypeOK /\ ValuesHaveRows
=============================================================================
