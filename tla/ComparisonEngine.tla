--------------------------- MODULE ComparisonEngine ---------------------------
(***************************************************************************)
(* compare() of src/app/comparison/engine.py: two fetched account lists    *)
(* become one sorted list of rows with a risk each, counts and warnings.   *)
(* The two indexes are filled account by account; the rows are then built  *)
(* over the union of two key views, whose order Python leaves open, one    *)
(* row per step, and sorted at the end.                                    *)
(***************************************************************************)
EXTENDS Integers, Sequences, FiniteSets, Functions

CONSTANTS
  Key,         \* normalized keys, as their places in the sort order
  Identifier,  \* identifiers as the sources spell them
  KeyOf,       \* Account.normalized_key: trimmed and lower-cased
  Trait,       \* what a source may say of an account: email, display_name
  Text,        \* the values of a trait, up to the folding that compares them
  Results      \* the FetchResults a comparison may meet

Blank == "blank"        \* the source leaves the trait empty
NoReport == -1          \* total_reported is None

AccountStatus == {"enabled", "disabled", "unknown"}
MatchStatus == {"only_in_a", "only_in_b", "matched", "attribute_mismatch"}
RiskLevel == {"high", "medium", "low", "none"}

Account == [identifier : Identifier, status : AccountStatus,
            traits : [Trait -> Text \union {Blank}]]

FetchResult == [accounts       : Seq(Account),
                total_reported : Nat \union {NoReport},
                warned         : BOOLEAN]    \* does it carry a warning of its own?

ASSUME KeyAssumption == Key \subseteq Nat /\ IsFiniteSet(Key)
ASSUME KeyOfAssumption == KeyOf \in [Identifier -> Key]
ASSUME ResultsAssumption == Results \subseteq FetchResult

VARIABLES
  result,         \* the two arguments, by side
  authoritative,  \* a_is_authoritative: A is the identity source
  pc,             \* "A" and "B" (filling that index), "rows", "done"
  read,           \* accounts read of the list whose index is being filled
  index,          \* index_a and index_b, by side
  rows,           \* the rows so far
  counts,         \* status_counts and risk_counts
  warnings        \* the summary's warnings: kind and side

vars == <<result, authoritative, pc, read, index, rows, counts, warnings>>

Side == {"A", "B"}
Row == [key : Key, status : MatchStatus, risk : RiskLevel]
Warning == {"source", "duplicate", "mismatch"} \X Side

\* A dict from keys to accounts.
IsDict(d) == \E K \in SUBSET Key : d \in [K -> Account]

TypeOK ==
  /\ result \in [Side -> FetchResult]
  /\ authoritative \in BOOLEAN
  /\ pc \in {"A", "B", "rows", "done"}
  /\ read \in Nat
  /\ DOMAIN index = Side /\ \A s \in Side : IsDict(index[s])
  /\ rows \in Seq(Row)
  /\ counts \in [MatchStatus \union RiskLevel -> Nat]
  /\ warnings \subseteq Warning

Init ==
  /\ result \in [Side -> Results]
  /\ authoritative \in BOOLEAN
  /\ pc = "A"
  /\ read = 0
  /\ index = [s \in Side |-> <<>>]
  /\ rows = <<>>
  /\ counts = [c \in MatchStatus \union RiskLevel |-> 0]
  /\ warnings = {}

-----------------------------------------------------------------------------
List(s) == result[s].accounts
KeyIn(s, i) == KeyOf[List(s)[i].identifier]

\* Mutant: plain assignment, so that the last account of a key wins.
Overwritten(d, k, a) == [x \in DOMAIN d \union {k} |-> IF x = k THEN a ELSE d[x]]

\* dict.setdefault: the first account of a key wins.
SetDefault(d, k, a) == [x \in DOMAIN d \union {k} |-> IF x \in DOMAIN d THEN d[x] ELSE a]

\* One turn of _build_index on the list of side pc.
ReadAccount ==
  /\ pc \in Side
  /\ read < Len(List(pc))
  /\ read' = read + 1
  /\ index' = [index EXCEPT ![pc] = SetDefault(@, KeyIn(pc, read'), List(pc)[read'])]
  /\ UNCHANGED <<result, authoritative, pc, rows, counts, warnings>>

\* Mutant: a single duplicate goes unnoticed.
DuplicatesBeyondOne(s) == Len(List(s)) > Cardinality(DOMAIN index[s]) + 1

\* _warn_on_duplicates: more accounts than keys.
HasDuplicates(s) == Len(List(s)) > Cardinality(DOMAIN index[s])

\* Mutant: only a source that reports too few is suspected.
ReportsTooFew(s) ==
  result[s].total_reported # NoReport /\ result[s].total_reported < Len(List(s))

\* FetchResult.has_count_mismatch.
HasCountMismatch(s) ==
  result[s].total_reported # NoReport /\ result[s].total_reported # Len(List(s))

\* The end of an index; after the second one compare() collects its warnings.
IndexBuilt ==
  /\ pc \in Side
  /\ read = Len(List(pc))
  /\ read' = 0
  /\ IF pc = "A"
       THEN pc' = "B" /\ UNCHANGED warnings
       ELSE /\ pc' = "rows"
            /\ warnings' = {w \in Warning :
                 \/ w[1] = "source" /\ result[w[2]].warned
                 \/ w[1] = "duplicate" /\ HasDuplicates(w[2])
                 \/ w[1] = "mismatch" /\ HasCountMismatch(w[2])}
  /\ UNCHANGED <<result, authoritative, index, rows, counts>>

-----------------------------------------------------------------------------
\* _diff_attributes is not empty: both sides say something, and not the same.
Differ(a, b) ==
  \/ "unknown" \notin {a.status, b.status} /\ a.status # b.status
  \/ \E t \in Trait : Blank \notin {a.traits[t], b.traits[t]} /\ a.traits[t] # b.traits[t]

StatusOf(k) ==
  IF k \notin DOMAIN index["B"] THEN "only_in_a"
  ELSE IF k \notin DOMAIN index["A"] THEN "only_in_b"
  ELSE IF Differ(index["A"][k], index["B"][k]) THEN "attribute_mismatch"
  ELSE "matched"

Is(s, k, status) == index[s][k].status = status

\* Mutant: the authority of source A is not asked for.
AlwaysAuthoritative(k) ==
  LET status == StatusOf(k) IN
  IF status = "only_in_b" /\ Is("B", k, "enabled") THEN "high" ELSE "low"

\* _assess_risk.
RiskOf(k) ==
  LET status == StatusOf(k) IN
  IF status = "matched" THEN "none"
  ELSE IF ~authoritative THEN "low"
  ELSE IF status = "only_in_b"
    THEN IF Is("B", k, "enabled") THEN "high" ELSE "medium"
  ELSE IF status = "attribute_mismatch"
    THEN IF Is("A", k, "disabled") /\ Is("B", k, "enabled") THEN "high" ELSE "low"
  ELSE IF Is("A", k, "disabled") THEN "none" ELSE "low"

AllKeys == DOMAIN index["A"] \union DOMAIN index["B"]
Rowed == {rows[i].key : i \in DOMAIN rows}

\* One turn of the loop over the union of the two key views, in any order.
AddRow ==
  /\ pc = "rows"
  /\ \E k \in AllKeys \ Rowed :
       rows' = Append(rows, [key |-> k, status |-> StatusOf(k), risk |-> RiskOf(k)])
  /\ UNCHANGED <<result, authoritative, pc, read, index, counts, warnings>>

SortOrder == [high |-> 0, medium |-> 1, low |-> 2, none |-> 3]

\* Mutant: only the risk is sorted by.
ByRiskOnly(r, s) == SortOrder[r.risk] < SortOrder[s.risk]

\* The sort key (risk.sort_order, key).
Before(r, s) ==
  \/ SortOrder[r.risk] < SortOrder[s.risk]
  \/ SortOrder[r.risk] = SortOrder[s.risk] /\ r.key < s.key

\* The results of sorting a sequence: its elements, never out of order.
SortedFrom(seq) ==
  {s \in [DOMAIN seq -> Range(seq)] :
     /\ Range(s) = Range(seq)
     /\ \A i, j \in DOMAIN s : i < j => ~Before(s[j], s[i])}

\* rows.sort() and the summary's counts, zeros included.
Summarize ==
  /\ pc = "rows"
  /\ AllKeys = Rowed
  /\ pc' = "done"
  /\ rows' \in SortedFrom(rows)
  /\ counts' = [c \in MatchStatus \union RiskLevel |->
                  Cardinality({i \in DOMAIN rows : c \in {rows[i].status, rows[i].risk}})]
  /\ UNCHANGED <<result, authoritative, read, index, warnings>>

Next == ReadAccount \/ IndexBuilt \/ AddRow \/ Summarize

Spec == Init /\ [][Next]_vars

-----------------------------------------------------------------------------
KeysOf(s) == {KeyIn(s, i) : i \in DOMAIN List(s)}

\* a is the first account of key k in the list of side s.
IsFirst(s, k, a) ==
  \E i \in DOMAIN List(s) :
    /\ List(s)[i] = a /\ KeyIn(s, i) = k
    /\ \A j \in DOMAIN List(s) : KeyIn(s, j) = k => i <= j

Shown(k, risk) == \E i \in DOMAIN rows : rows[i].key = k /\ rows[i].risk = risk

\* AC-08: whoever is disabled in the identity source and enabled in the other
\* system is shown with high risk.  A list that names a person twice can hide
\* the account in question, and then the summary warns of duplicates.
RevocationGapIsHigh ==
  pc = "done" /\ authoritative =>
    \A i \in DOMAIN List("A"), j \in DOMAIN List("B") :
      /\ KeyIn("A", i) = KeyIn("B", j)
      /\ List("A")[i].status = "disabled" /\ List("B")[j].status = "enabled"
      => \/ Shown(KeyIn("A", i), "high")
         \/ \E s \in Side : <<"duplicate", s>> \in warnings

\* High risk is never cried out of turn: only with an identity source, for an
\* account that the other system has enabled, and whose owner the identity
\* source does not know or has disabled.
HighIsJustified ==
  \A k \in Rowed : Shown(k, "high") =>
    /\ authoritative
    /\ \E b \in Range(List("B")) : IsFirst("B", k, b) /\ b.status = "enabled"
    /\ k \in KeysOf("A") => \E a \in Range(List("A")) : IsFirst("A", k, a) /\ a.status = "disabled"

\* A summary without warnings vouches for its input: no source warned or
\* reported another count, and every account has a row of its own key.
NothingLostSilently ==
  pc = "done" /\ warnings = {} =>
    \A s \in Side :
      /\ ~result[s].warned
      /\ result[s].total_reported \in {NoReport, Len(List(s))}
      /\ \A i, j \in DOMAIN List(s) : KeyIn(s, i) = KeyIn(s, j) => i = j
      /\ KeysOf(s) \subseteq Rowed

\* The order of the key views cannot be seen in the result: one row per key,
\* strictly ordered by risk and key, which leaves a single arrangement.
OneArrangement ==
  pc = "done" =>
    /\ Rowed = KeysOf("A") \union KeysOf("B")
    /\ \A i, j \in DOMAIN rows : i < j =>
         /\ SortOrder[rows[i].risk] <= SortOrder[rows[j].risk]
         /\ rows[i].risk = rows[j].risk => rows[i].key < rows[j].key

-----------------------------------------------------------------------------
\* The inductive invariant behind the safety properties.
Read(s) == IF pc = s THEN read ELSE IF pc = "A" THEN 0 ELSE Len(List(s))

ReadWithin == read <= IF pc \in Side THEN Len(List(pc)) ELSE 0

\* An index holds the first account of every key read so far.
IndexHoldsFirst ==
  \A s \in Side :
    /\ DOMAIN index[s] = {KeyIn(s, i) : i \in 1..Read(s)}
    /\ \A k \in DOMAIN index[s] : \E i \in 1..Read(s) :
         /\ index[s][k] = List(s)[i] /\ KeyIn(s, i) = k
         /\ \A j \in 1..Read(s) : KeyIn(s, j) = k => i <= j

\* An index is as large as what was read only if no key was read twice.
IndexCountsKeys ==
  \A s \in Side :
    /\ Cardinality(DOMAIN index[s]) <= Read(s)
    /\ Cardinality(DOMAIN index[s]) = Read(s) =>
         \A i, j \in 1..Read(s) : KeyIn(s, i) = KeyIn(s, j) => i = j

RowsFollowIndex ==
  /\ pc \in Side => rows = <<>>
  /\ \A i \in DOMAIN rows : /\ rows[i].key \in AllKeys
                            /\ rows[i].status = StatusOf(rows[i].key)
                            /\ rows[i].risk = RiskOf(rows[i].key)
  /\ \A i, j \in DOMAIN rows : rows[i].key = rows[j].key => i = j
  /\ pc = "done" => Rowed = AllKeys

WarningsAreKept ==
  pc \in {"rows", "done"} =>
    \A s \in Side : /\ result[s].warned => <<"source", s>> \in warnings
                    /\ HasDuplicates(s) => <<"duplicate", s>> \in warnings
                    /\ HasCountMismatch(s) => <<"mismatch", s>> \in warnings

IInv ==
  /\ TypeOK
  /\ ReadWithin
  /\ IndexHoldsFirst
  /\ IndexCountsKeys
  /\ RowsFollowIndex
  /\ WarningsAreKept
=============================================================================
