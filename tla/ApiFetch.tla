-------------------------------- MODULE ApiFetch --------------------------------
(***************************************************************************)
(* ApiProvider.fetch (src/app/providers/api_provider.py): the account list *)
(* of an HTTP API, page by page, each page requested again while the       *)
(* failure may pass.  The list itself does not change during the fetch.    *)
(***************************************************************************)
EXTENDS Naturals, Sequences, FiniteSets, Functions

CONSTANTS
  Servers,          \* the APIs a source may be configured for
  PageSize,         \* page_size
  MaxRetries,       \* max_retries: attempts at one page
  MaxPages,         \* MAX_PAGES
  MaxTotalRecords   \* MAX_TOTAL_RECORDS

\* What an element of the JSON array may be: an object with the mapped field,
\* one without it, or no object at all.
Element == {"named", "nameless", "junk"}

\* An API: its list, the most it puts on one page whatever is asked for,
\* whether a page before the last may be empty when a cursor leads on, and
\* whether its cursors may lead anywhere: back, to the same page, or too far.
Server == [list : Seq(Element), cap : Nat \ {0}, gaps : BOOLEAN, strays : BOOLEAN]
Paging == {"none", "offset_limit", "page_number", "cursor"}

ASSUME ServersAssumption == Servers \subseteq Server
ASSUME LimitAssumption ==
  /\ PageSize \in Nat \ {0} /\ MaxRetries \in Nat \ {0}
  /\ MaxPages \in Nat \ {0} /\ MaxTotalRecords \in Nat \ {0}

VARIABLES
  server, paging,   \* the configuration; neither changes
  pc,               \* "request", "pause", "build", "returned", "raised"
  page, raw,        \* pages done; raw_records, as places in the list
  cursor,           \* the place the cursor leads to, 0 for None
  attempt,          \* failed attempts at the page
  accounts, warnings,
  error,            \* category of the exception raised
  sent              \* history: requests sent, counted up to TooMany

vars == <<server, paging, pc, page, raw, cursor, attempt, accounts, warnings, error, sent>>

TooMany == MaxPages * MaxRetries + 1

\* Failures of one attempt.
Passing == {"busy", "timeout", "connect"}          \* busy: 429 and 5xx
Lasting == {"refused", "tls", "rejected", "malformed", "dropped"}
Failure == Passing \union Lasting
Category == {"connection", "authentication", "tls", "configuration", "data", "uncaught"}
Warning == {"records", "pages", "skipped"}

TypeOK ==
  /\ server \in Servers /\ paging \in Paging
  /\ pc \in {"request", "pause", "build", "returned", "raised"}
  /\ page \in 0..MaxPages
  /\ raw \in Seq(DOMAIN server.list)
  /\ cursor \in 0..(Len(server.list) + 1)
  /\ attempt \in 0..(MaxRetries - 1)
  /\ accounts \subseteq DOMAIN server.list
  /\ warnings \subseteq Warning
  /\ error \in Category \union {"none"}
  /\ sent \in 0..TooMany

Init ==
  /\ server \in Servers /\ paging \in Paging
  /\ pc = "request"
  /\ page = 0 /\ raw = <<>> /\ cursor = 0 /\ attempt = 0
  /\ accounts = {} /\ warnings = {}
  /\ error = "none" /\ sent = 0

-----------------------------------------------------------------------------
Smaller(m, n) == IF m < n THEN m ELSE n
Places(first, size) == {i \in DOMAIN server.list : first < i /\ i <= first + size}

Send == sent' = Smaller(sent + 1, TooMany)

\* Mutant: every page is asked for from the start.
FromStart == 0

\* Where _pagination_params asks the server to begin.
Offset ==
  CASE paging = "offset_limit" -> Len(raw)
    [] paging = "page_number"  -> page * Smaller(PageSize, server.cap)
    [] OTHER                   -> IF cursor = 0 THEN 0 ELSE cursor - 1

\* Pages the server may answer with, as places.  Only for the two numbered
\* schemes does the request name a size.
Pages ==
  LET sizes == IF paging \in {"offset_limit", "page_number"} THEN {Smaller(PageSize, server.cap)}
               ELSE IF paging = "none" THEN {server.cap}
               ELSE (IF server.gaps THEN 0 ELSE 1)..server.cap
  IN  {Places(Offset, n) : n \in sizes}

\* _extract_records keeps the objects, in their order.
Records(places) ==
  LET objects == {i \in places : server.list[i] # "junk"}
  IN  [n \in 1..Cardinality(objects) |->
         CHOOSE i \in objects : Cardinality({j \in objects : j <= i}) = n]

\* The cursors that may come with a page.  The code follows any that is not
\* empty; an honest one leads to the place behind the page, if there is one.
CursorsAfter(places) ==
  LET behind == Offset + Cardinality(places) + 1
  IN  IF server.strays THEN 0..(Len(server.list) + 1)
      ELSE IF behind <= Len(server.list) THEN {behind} ELSE {0}

\* Mutant: reaching the limit on pages is not mentioned.
LimitsSilently(all, turned) == IF Len(all) >= MaxTotalRecords THEN {"records"} ELSE {}

\* Warnings for the limits: all are the records so far, turned the pages.
LimitWarnings(all, turned) ==
  IF Len(all) >= MaxTotalRecords THEN {"records"}
  ELSE IF turned = MaxPages THEN {"pages"} ELSE {}

\* Mutant: a short page is the last one, by a cursor as well.
EndsOnShortPage(all, records, next) ==
  \/ Len(all) >= MaxTotalRecords
  \/ paging = "cursor" /\ next = 0
  \/ Len(records) < PageSize

\* Does the loop end after these records of a page?
EndsWith(all, records, next) ==
  \/ Len(all) >= MaxTotalRecords
  \/ paging = "none"
  \/ paging = "cursor" /\ next = 0
  \/ paging \in {"offset_limit", "page_number"} /\ Len(records) < PageSize

\* An answer with a page, and the rest of that turn of the loop.  At the limit
\* on records the loop is left before the cursor is looked at.
ReceivePage ==
  /\ pc = "request"
  /\ \E places \in Pages : \E next \in CursorsAfter(places) :
       LET records == Records(places)
           all == raw \o records
       IN  /\ raw' = all
           /\ cursor' = IF paging = "cursor" /\ records # <<>> /\ Len(all) < MaxTotalRecords
                        THEN next ELSE cursor
           /\ IF records = <<>>
                THEN pc' = "build" /\ UNCHANGED <<page, warnings>>
                ELSE IF EndsWith(all, records, next)
                THEN /\ pc' = "build" /\ page' = page
                     /\ warnings' = warnings \union LimitWarnings(all, page)
                ELSE /\ page' = page + 1
                     /\ pc' = IF page' = MaxPages THEN "build" ELSE "request"
                     /\ warnings' = warnings \union LimitWarnings(all, page')
  /\ attempt' = 0 /\ Send
  /\ UNCHANGED <<server, paging, accounts, error>>

\* Mutant: the last attempt is followed by one more.
MayRetryLate == attempt <= MaxRetries - 1

\* attempt < max_retries - 1
MayRetry == attempt < MaxRetries - 1

\* Mutant: the failed attempt is not counted.
Uncounted == attempt

Counted == attempt + 1

\* A failure that may pass: time.sleep, and the request is sent again.
Pause ==
  /\ pc = "request" /\ MayRetry
  /\ pc' = "pause" /\ attempt' = Counted /\ Send
  /\ UNCHANGED <<server, paging, page, raw, cursor, accounts, warnings, error>>

Retry ==
  /\ pc = "pause" /\ pc' = "request"
  /\ UNCHANGED <<server, paging, page, raw, cursor, attempt, accounts, warnings, error, sent>>

\* The exception a failure ends in.  A server that stays busy falls through to
\* raise_for_status; a connection that breaks off is no case of the try.
Raised(failure) ==
  CASE failure \in {"timeout", "connect"}  -> "connection"
    [] failure \in {"busy", "rejected"}    -> "configuration"
    [] failure = "refused"                 -> "authentication"
    [] failure = "tls"                     -> "tls"
    [] failure = "malformed"               -> "data"
    [] failure = "dropped"                 -> "uncaught"

GiveUp(failure) ==
  /\ pc = "request"
  /\ failure \in Passing => ~MayRetry
  /\ pc' = "raised" /\ error' = Raised(failure)
  /\ Send
  /\ UNCHANGED <<server, paging, page, raw, cursor, attempt, accounts, warnings>>

Named == {i \in Range(raw) : server.list[i] = "named"}

\* Mutant: records without an identifier are skipped in silence.
SkippedUnwarned == {}

\* _to_accounts skipped something.
SkipWarnings == IF Range(raw) # Named THEN {"skipped"} ELSE {}

Build ==
  /\ pc = "build"
  /\ pc' = "returned"
  /\ accounts' = Named
  /\ warnings' = warnings \union SkipWarnings
  /\ UNCHANGED <<server, paging, page, raw, cursor, attempt, error, sent>>

Next == ReceivePage \/ Pause \/ Retry \/ Build \/ \E failure \in Failure : GiveUp(failure)

\* Every request ends: by an answer, an error or the timeout of 30 s.
Spec == Init /\ [][Next]_vars
FairSpec == Spec /\ WF_vars(Next)

-----------------------------------------------------------------------------
\* The cursors, if any are used, lead on to what has not been read.
Honest == paging = "cursor" => ~server.strays

\* No record is read twice, whatever the paging scheme, unless the API's own
\* cursor leads back: the next page begins behind the last one, and a retried
\* page is counted once.
NothingTwice == Honest => IsInjective(raw)

\* The load on the API: max_retries attempts for each page begun, MAX_PAGES
\* pages, also when a cursor leads in a circle.
RequestsBounded ==
  /\ sent < TooMany
  /\ pc = "request" => sent <= page * MaxRetries + attempt

\* The fetch ends, also on a cursor that leads back or to the same page again:
\* every turn adds a record and a page, and both are limited.
Terminates == <>(pc \in {"returned", "raised"})

\* Nobody takes the list for complete that was read along a cursor which still
\* led on to records when the loop ended: one of the two limits ended it, and
\* its warning is there.  This is of pages with at least one object each; an
\* empty page ends the loop in silence.
EndlessIsTold ==
  /\ paging = "cursor" /\ ~server.gaps /\ "junk" \notin Range(server.list)
  /\ pc \in {"build", "returned"} /\ cursor \in DOMAIN server.list
  => warnings \intersect {"records", "pages"} # {}

\* What the source holds under the mapped field.
Expected == {i \in DOMAIN server.list : server.list[i] = "named"}

\* An API that fills the pages asked for with objects, and answers in one page
\* when no paging is configured.
WellBehaved(s, how) ==
  /\ "junk" \notin Range(s.list)
  /\ how \in {"offset_limit", "page_number"} => s.cap >= PageSize
  /\ how = "none" => s.cap >= Len(s.list)
  /\ how = "cursor" => ~s.gaps /\ ~s.strays

Listing == INSTANCE AccountListing WITH
  Person   <- Nat,
  expected <- Expected,
  warned   <- pc = "returned" /\ warnings # {},
  outcome  <- IF pc \in {"returned", "raised"} THEN pc ELSE "fetching"

\* The provider contract, for an API that is well-behaved.
ListingSteps == [][WellBehaved(server, paging) => Listing!Next]_(Listing!listingVars)

-----------------------------------------------------------------------------
\* What has been read so far.
SoFar ==
  /\ attempt > 0 => pc \in {"request", "pause", "raised"}
  /\ pc \in {"request", "pause"} => page < MaxPages /\ sent <= page * MaxRetries + attempt
  /\ pc \in {"request", "pause", "build"} => accounts = {} /\ error = "none"
  /\ pc = "returned" => accounts = Named
  /\ pc = "raised" <=> error # "none"

\* The next page begins behind all that was read.  The numbered schemes go on
\* after full pages only, and without paging there is no second page.
ReadInOrder ==
  /\ Honest => \A i, j \in DOMAIN raw : i < j => raw[i] < raw[j]
  /\ paging # "cursor" => cursor = 0
  /\ pc \in {"request", "pause"} =>
       /\ Honest => \A i \in DOMAIN raw : raw[i] <= Offset
       /\ paging = "none" => raw = <<>>
       /\ paging \in {"offset_limit", "page_number"} =>
            Len(raw) = page * PageSize /\ (page > 0 => PageSize <= server.cap)

\* A well-behaved API has been read up to the offset, and at the end as a whole
\* unless a limit was met.
NothingLeftOut ==
  WellBehaved(server, paging) =>
    /\ pc \in {"request", "pause"} => Places(0, Offset) \subseteq Range(raw)
    /\ pc = "build" /\ warnings = {} => DOMAIN server.list \subseteq Range(raw)

IInv ==
  /\ TypeOK
  /\ SoFar
  /\ RequestsBounded
  /\ ReadInOrder
  /\ NothingLeftOut
=============================================================================
