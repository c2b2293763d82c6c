------------------------------- MODULE FileFetch -------------------------------
(***************************************************************************)
(* FileProvider (src/app/providers/file_provider.py): the accounts of one  *)
(* uploaded sheet.  A caller may look at the file first (test_connection,  *)
(* which reads a few rows) and then fetches it.  A table is the sequence   *)
(* of its lines, the first being the header; the empty cell stands for     *)
(* None and for white space.  One line read is one step.                   *)
(***************************************************************************)
EXTENDS Naturals, Sequences, FiniteSets

CONSTANTS
  Cell,          \* what a cell may hold, Blank included
  Blank,         \* a cell without text
  IdColumn,      \* column_mapping.identifier
  StatusColumn,  \* column_mapping.status
  EnabledCell,   \* column_mapping.enabled_values
  MaxRows,       \* FileConfig.max_rows
  PreviewRows,   \* PREVIEW_ROWS
  Uploads        \* the files a provider may be made for

Upload == [size     : {"empty", "fits", "too large"},
           readable : BOOLEAN,    \* a known suffix, not damaged, the sheet is there
           table    : Seq(Seq(Cell)),
           breaks   : Nat]        \* the line that csv or openpyxl cannot read, or 0

ASSUME CellAssumption == Blank \in Cell /\ {IdColumn, StatusColumn} \subseteq Cell \ {Blank}
ASSUME LimitAssumption == PreviewRows \in Nat \ {0} /\ MaxRows \in Nat /\ PreviewRows <= MaxRows
ASSUME UploadAssumption ==
  Uploads \subseteq {u \in Upload : u.breaks = 0 \/ u.breaks \in 2..Len(u.table)}

VARIABLES
  file,      \* content and name, as __init__ keeps them
  task,      \* "test" (test_connection) or "fetch"
  pc,        \* how far the call has come
  at,        \* lines of the table read so far
  rows,      \* result: the numbers of the lines kept
  preview,   \* what test_connection said of the identifier column
  accounts,  \* FetchResult.accounts, each with the line it stems from
  total,     \* FetchResult.total_reported
  warnings   \* FetchResult.warnings, by kind

vars == <<file, task, pc, at, rows, preview, accounts, total, warnings>>
resultVars == <<accounts, total, warnings>>

AccountStatus == {"enabled", "disabled", "unknown"}
Account == [line : Nat, identifier : Cell, status : AccountStatus]

TypeOK ==
  /\ file \in Upload
  /\ task \in {"test", "fetch"}
  /\ pc \in {"construct", "header", "lines", "build", "returned", "raised"}
  /\ at \in Nat
  /\ rows \in Seq(Nat)
  /\ preview \in {"none", "raised", "found", "missing"}
  /\ accounts \in SUBSET Account
  /\ total \in Nat
  /\ warnings \subseteq {"skipped", "limit"}

Init ==
  /\ file \in Uploads
  /\ task \in {"test", "fetch"}
  /\ pc = "construct"
  /\ at = 0
  /\ rows = <<>>
  /\ preview = "none"
  /\ accounts = {}
  /\ total = 0
  /\ warnings = {}

-----------------------------------------------------------------------------
Header == file.table[1]

\* Mutant: the columns without a name are squeezed out of the positions.
SqueezedHeaders ==
  LET named == SelectSeq(Header, LAMBDA c : c # Blank) IN [i \in DOMAIN named |-> named[i]]

\* _normalize_headers: position -> name, of the columns that have one.
Headers == [i \in {j \in DOMAIN Header : Header[j] # Blank} |-> Header[i]]

Columns == {Headers[i] : i \in DOMAIN Headers}

\* The last position of a name: the one that _row_to_dict is left with.
Position(name) ==
  CHOOSE i \in DOMAIN Headers :
    Headers[i] = name /\ \A j \in DOMAIN Headers : Headers[j] = name => j <= i

\* _row_to_dict(headers, row)[name]; a short line has no cell there.
Value(line, name) ==
  LET i == Position(name) IN IF i \in DOMAIN file.table[line] THEN file.table[line][i] ELSE Blank

IsBlank(line) == \A i \in DOMAIN file.table[line] : file.table[line][i] = Blank

\* A call ends with an exception: the caller of test_connection goes on to
\* fetch all the same.
Raise ==
  /\ IF task = "test"
       THEN task' = "fetch" /\ pc' = "header" /\ preview' = "raised"
       ELSE pc' = "raised" /\ UNCHANGED <<task, preview>>
  /\ at' = 0 /\ rows' = <<>>
  /\ UNCHANGED <<file, resultVars>>

\* __init__: size limits; without a provider there is no call.
Construct ==
  /\ pc = "construct"
  /\ pc' = IF file.size = "fits" THEN "header" ELSE "raised"
  /\ UNCHANGED <<file, task, at, rows, preview, resultVars>>

\* _read_rows opens the file and reads the header.
HasHeader == file.readable /\ file.table # <<>> /\ Columns # {}

ReadHeader ==
  /\ pc = "header" /\ HasHeader
  /\ pc' = "lines"
  /\ at' = 1
  /\ UNCHANGED <<file, task, rows, preview, resultVars>>

RejectFile ==
  /\ pc = "header" /\ ~HasHeader
  /\ Raise

Limit == IF task = "test" THEN PreviewRows ELSE MaxRows

\* Mutant: the limit counts blank lines as well.
LimitOnLines == at > Limit

LimitReached == Len(rows) >= Limit

\* The reader raises in the middle of the file: the next line is read before
\* the limit is looked at.
BreaksOff == at + 1 = file.breaks

BreakOff ==
  /\ pc = "lines" /\ BreaksOff
  /\ Raise

\* One turn of the loop over the lines: a blank one is passed over.
ReadLine ==
  /\ pc = "lines" /\ ~LimitReached /\ at < Len(file.table) /\ ~BreaksOff
  /\ at' = at + 1
  /\ rows' = IF IsBlank(at') THEN rows ELSE Append(rows, at')
  /\ UNCHANGED <<file, task, pc, preview, resultVars>>

LinesRead ==
  /\ pc = "lines" /\ (LimitReached \/ at = Len(file.table)) /\ ~BreaksOff
  /\ rows # <<>>
  /\ pc' = "build"
  /\ UNCHANGED <<file, task, at, rows, preview, resultVars>>

\* No line holds anything: sniff_columns and fetch both raise a DataError.
NoRows ==
  /\ pc = "lines" /\ (LimitReached \/ at = Len(file.table)) /\ ~BreaksOff
  /\ rows = <<>>
  /\ Raise

\* test_connection answers with the columns it found.
Preview ==
  /\ pc = "build" /\ task = "test"
  /\ preview' = IF IdColumn \in Columns THEN "found" ELSE "missing"
  /\ task' = "fetch" /\ pc' = "header"
  /\ at' = 0 /\ rows' = <<>>
  /\ UNCHANGED <<file, resultVars>>

RejectMapping ==
  /\ pc = "build" /\ task = "fetch" /\ IdColumn \notin Columns
  /\ Raise

StatusOf(line) ==
  IF StatusColumn \notin Columns \/ Value(line, StatusColumn) = Blank THEN "unknown"
  ELSE IF Value(line, StatusColumn) \in EnabledCell THEN "enabled" ELSE "disabled"

Kept == {rows[i] : i \in DOMAIN rows}
Identified == {l \in Kept : Value(l, IdColumn) # Blank}

\* Mutant: the limit is noticed only when it is exceeded.
WarnedWhenExceeded ==
  {w \in {"skipped"} : Identified # Kept} \union {w \in {"limit"} : Len(rows) > MaxRows}

Warnings ==
  {w \in {"skipped"} : Identified # Kept} \union {w \in {"limit"} : Len(rows) >= MaxRows}

\* The rows become accounts; those without an identifier are skipped.
Build ==
  /\ pc = "build" /\ task = "fetch" /\ IdColumn \in Columns
  /\ pc' = "returned"
  /\ accounts' = {[line |-> l, identifier |-> Value(l, IdColumn), status |-> StatusOf(l)] :
                    l \in Identified}
  /\ total' = Len(rows)
  /\ warnings' = Warnings
  /\ UNCHANGED <<file, task, at, rows, preview>>

Next ==
  \/ Construct \/ ReadHeader \/ RejectFile \/ ReadLine \/ BreakOff \/ LinesRead \/ NoRows
  \/ Preview \/ RejectMapping \/ Build

Spec == Init /\ [][Next]_vars

-----------------------------------------------------------------------------
\* The lines of the file that hold anything: what a complete list would list.
Filled(upto) == {l \in 2..upto : ~IsBlank(l)}
Expected == Filled(Len(file.table))

\* The rows are the lines read that hold anything, each once and in order, and
\* the loop ends at the limit or at the end of the sheet.
RowsAreLines ==
  /\ Kept = Filled(at)
  /\ \A i, j \in DOMAIN rows : i < j => rows[i] < rows[j]
  /\ pc \in {"construct", "header"} => at = 0 /\ rows = <<>>
  /\ pc \in {"lines", "build", "returned"} => HasHeader /\ at <= Len(file.table)
  /\ pc \in {"build", "returned"} =>
       rows # <<>> /\ (Len(rows) >= Limit \/ at = Len(file.table))
  /\ Len(rows) = Cardinality(Kept)
  /\ pc = "lines" => at > 0 /\ Cardinality(Filled(at - 1)) < Limit
  /\ file.breaks # 0 => at < file.breaks /\ file.breaks \in 2..Len(file.table)
  /\ pc \in {"build", "returned"} => ~BreaksOff

\* What each outcome, of the preview and of the fetch, says of the file.
BreaksWithin(n) ==
  file.breaks # 0 /\ Cardinality(Filled(file.breaks - 2)) < n
Usable == file.size = "fits" /\ HasHeader /\ Expected # {}
OutcomesTell ==
  /\ pc \in {"header", "lines", "build", "returned"} => file.size = "fits"
  /\ preview = "found" => Usable /\ IdColumn \in Columns
  /\ preview = "missing" => IdColumn \notin Columns
  /\ preview = "raised" => ~Usable \/ BreaksWithin(PreviewRows)
  /\ pc = "returned" => Usable /\ IdColumn \in Columns
  /\ pc = "raised" => ~(Usable /\ IdColumn \in Columns) \/ file.breaks # 0

\* Nothing is built before the end, and then from the rows.
AccountsAreRows ==
  IF pc = "returned"
    THEN /\ task = "fetch"
         /\ {a.line : a \in accounts} = Identified
         /\ total = Len(rows)
         /\ warnings = {} => Identified = Kept /\ Len(rows) < MaxRows
    ELSE accounts = {} /\ warnings = {}

\* The inductive invariant.
IInv == TypeOK /\ RowsAreLines /\ OutcomesTell /\ AccountsAreRows

Listing == INSTANCE AccountListing WITH
  Person   <- Nat,
  expected <- Expected,
  accounts <- {a.line : a \in accounts},
  warned   <- warnings # {},
  outcome  <- IF pc \in {"returned", "raised"} THEN pc ELSE "fetching"

\* base.py:132: the whole sheet, or a part of it with a warning, or an
\* exception; what lies beyond max_rows or lacks an identifier never goes
\* unmentioned.
ListingSpec == Listing!Spec

\* test_connection and fetch read the file apart, the first only its beginning,
\* and with limits of their own: a fetch returns a list only if the test before
\* it found the column, and then always, but for a file damaged further down.
PreviewForetells ==
  /\ pc = "returned" => preview \in {"none", "found"}
  /\ pc = "raised" => preview # "found" \/ file.breaks # 0

\* file_provider.py:263: an identifier or a status never slips into another
\* column, whatever columns lack a name and however long a line is.  Each is
\* compared with the last cell below a header cell of that name.
ValuesStayInColumns ==
  \A a \in accounts :
    LET line == file.table[a.line]
        Under(name) == {j \in DOMAIN Header : Header[j] = name}
        Last(name) == CHOOSE j \in Under(name) : \A k \in Under(name) : k <= j
    IN  /\ Last(IdColumn) \in DOMAIN line /\ line[Last(IdColumn)] = a.identifier
        /\ a.identifier # Blank
        /\ a.status = "enabled" =>
             /\ Under(StatusColumn) # {} /\ Last(StatusColumn) \in DOMAIN line
             /\ line[Last(StatusColumn)] \in EnabledCell
=============================================================================
