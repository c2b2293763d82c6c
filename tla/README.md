# contorell in TLA+

contorell is a read-only tool for access audits: it fetches lists of accounts
from Active Directory, HTTP APIs and typed or uploaded lists, keeps them as
snapshots, compares two of them, and shows who holds which entitlement although
the identity source does not know them or has disabled them. This directory
holds TLA+ models of its core, TLC configurations that check them on small
instances, and proofs, checked by TLAPS, of the properties that matter most.

## The system

One process runs one event loop. Every handler is an `async def` that calls
SQLAlchemy, LDAP and HTTP synchronously, so that **a handler runs to its end
without another handler in between**. FastAPI runs the synchronous dependencies
(`get_session`, `get_current_user`, `require_admin`) in worker threads *before*
the handler: between them and the handler others may run. A request has one
database session, committed explicitly, rolled back when an exception leaves
it, and closed without a commit when nobody commits. Sessions of users are
signed cookies; the server keeps no list of them.

| Component | State | Operations | What makes it correct |
|---|---|---|---|
| Provider contract (`providers/base.py`) | – | `fetch`, `test_connection` | a complete list, or a warning, or an exception |
| LDAP provider (`providers/ldap_provider.py`) | stack, visited set and entries of a walk | `fetch` with three strategies or a template; `find_user_groups`, `test_connection` | complete on cyclic and shared groups, bounded load, no stranger |
| API provider (`providers/api_provider.py`) | page, cursor, records, attempts | `fetch` with four paging schemes, retries | nothing twice, bounded requests and an end whatever the cursors, no silent truncation, right category of error |
| File provider (`providers/file_provider.py`) | rows read so far | `test_connection`, `fetch` | limits and skipped rows are warned about, values stay in their columns, the preview foretells the fetch |
| Query templates, escaping (`providers/ldap_queries.py`) | – | choosing a template, building filters | a parameter that is needed is there |
| Comparison engine (`comparison/engine.py`) | two indexes, rows, counts, warnings | `compare` | every revocation gap is shown as a high risk, nothing is lost in silence, a result independent of set order |
| Access review (`access_review/engine.py`, `web/services.py`) | – | `build_review`, `entitlement_detail` | matrix and anomalies divide the members, the two pages agree on each of them |
| Sources, snapshots, comparisons (`web/routes.py`, `web/services.py`, `db/`) | rows in the database, the session of a running comparison | save, toggle, typed list, compare | a comparison happens wholly or not at all; pages show the last fetch |
| Login (`auth/service.py`) | user rows, `LoginAttempt` records, audit log | `authenticate`, `ensure_bootstrap_admin` | guesses bounded per identity and per row, waiting helps, outcomes audited |
| Requests and accounts (`web/deps.py`, `web/routes.py`, `main.py`) | user rows, requests being served | dependencies, create, update, restart | a withdrawn role opens nothing, an administrator remains, the trail tells the truth |
| Notes, maintainers, annotations (`web/services.py`, `web/routes.py`) | rows, requests being served | save, replace | who writes is entitled for that very source, notes follow their account through snapshots and spellings |
| Source forms (`web/source_forms.py`) | the stored configuration, pages in browsers | parse, fill in, save, build a provider | what the form accepts the provider accepts, editing changes only what was edited (but for one switch, see the runs) |
| Result pages, export (`web/routes.py`, `export/excel.py`) | stored rows and annotations | paging, filters, sorting, joining annotations | every row is shown once, page and export have the same values, no exported cell is a formula |
| CSRF, URL guard, encryption, configuration | token in the cookie | checks | – |
| Deployment scripts (`scripts/`) | containers, services, `.env` | install, deploy, roll back | no half-deployed state is left running |

What is hard here: graph walks with a depth limit; limits, retries and
truncation of paged lists and files; a role read in one thread and used later in
another step; settings that go through a page and back and are checked twice;
counters with windows; one commit after several steps that may fail; several
views computed apart from the same rows. `PROJECT.json` lists every such hazard
at its line with the properties that watch it.

## Modules

| Module | Models |
|---|---|
| `AccountListing` | the provider contract, an abstract specification of three actions |
| `LdapFetch`, `MCLdapFetch`, `LdapFetchProofs` | `LdapProvider.fetch` |
| `ApiFetch`, `MCApiFetch`, `PagingProofs` | `ApiProvider.fetch` |
| `FileFetch`, `MCFileFetch`, `FileFetchProofs` | `FileProvider`, its preview and its fetch |
| `SourceSettings`, `MCSourceSettings`, `AdministrationProofs` | a configuration on its way through form, row and provider |
| `ComparisonEngine`, `MCComparisonEngine`, `ComparisonEngineProofs` | `compare` |
| `LoginService`, `LoginServiceProofs` | `AuthService` |
| `UserAdmin`, `AdministrationProofs` | roles, requests, account administration |
| `Stewardship`, `MCStewardship`, `StewardshipProofs` | notes and maintainers, and the requests that write them |
| `AccessReview` | the operators of both review pages |
| `AccessWorkspace`, `MCAccessWorkspace`, `AccessWorkspaceProofs` | sources, snapshots and comparisons, and the pages built from them |
| `ResultPages`, `MCResultPages`, `PagingProofs` | stored rows and annotations, their pages and their export |
| `Deployment` | the steps of `scripts/deploy.sh` |
| `MCAdministration` | `SourceSettings` and `UserAdmin`, each while the other rests, for one run |

`LdapFetch`, `ApiFetch` and `FileFetch` each instantiate `AccountListing` under
a refinement mapping. `AccessWorkspace` extends `AccessReview`; it takes what a
fetch returns from a constant (`Fetchable`), which `LdapFetch` and `ApiFetch`
are about, and leaves the content of a comparison to `ComparisonEngine` and
`ResultPages`, and the configuration of a source to `SourceSettings`.
`Stewardship` takes changes of roles from `UserAdmin` as one action
(`Administer`).

`PagingProofs` is about two components, `ApiFetch` and `ResultPages`, and
`AdministrationProofs` about `UserAdmin` and `SourceSettings`; each extends both
of its two. `UserAdmin` and `ResultPages` therefore put `Admin` and `Pages`
before the names that others use as well (`AdminInit`, `PagesNext`).

### LdapFetch

Variables are those of `fetch` and `_fetch_recursive`: `pending` is the stack
(top first), `visited` is `visited_groups`, `collected` is the dictionary of
entries, `logged` the groups dropped beyond `MAX_NESTING_DEPTH`. One iteration
of the `while` loop is one of `SkipVisited`, `CutOff` and `Expand`; `Expand`
does both searches and puts the new sub-groups on the stack in any order the
server may list them. `Connect`, `SearchOnce`, `Build` and `Fails` are the
rest. A group is its lower-cased DN. The directory does not change during a
fetch.

### ApiFetch

`ReceivePage` is an answered request with the rest of that turn of the loop,
`Pause` and `Retry` a failure that may pass, `GiveUp` one that ends the fetch,
`Build` the conversion and the warnings. Records are places in the server's
list, so that a record read twice would show. A server is a list, a cap on its
pages, whether it may send an empty page before the last cursor (`gaps`), and
whether its cursors may lead anywhere (`strays`). `cursor` is the place a cursor
leads to. The code follows every cursor that is not empty: an honest server's
leads to the place behind the page, one that strays leads back, to the same page
again, onward or beyond the list, and never needs to end. Along cursors that
never end a fetch is ended by one of the limits only, and `EndlessIsTold` says
that its list then bears a warning.

### FileFetch

A table is the sequence of its lines, the first being the header; the empty cell
stands for `None` and for white space. The class is modelled as it stands; no
route of the web application makes one yet. `ReadHeader` and `RejectFile` are the
beginning of `_read_xlsx` and `_read_csv`, `ReadLine` one turn of their common
loop, `LinesRead`, `NoRows` and `BreakOff` its ends. `Preview` is the end of
`test_connection`, after which the caller fetches all the same; `RejectMapping`
and `Build` are the rest of `fetch`. The number of its line stands for a row, so
that a row that is missing or in the wrong place would show. `breaks` is a line
that csv or openpyxl cannot read.

### SourceSettings

One source. `FormOf` is `config_to_form_values` and the page made of it,
`Submit` the answer of a browser in which any fields were changed, one, several
or all of them, `Save` and `Refuse` the two ends of `save_source`. `ConfigOf` is
`to_config_json`, `Accepted` is `parse_ldap_form`, `ProviderAccepts` is what
`build_provider`, `LdapConfig.validate` and `build_query_filter` check again.
`plain` stands for the fields that are only copied. Several tabs may show the
form; each shows what was stored when it was opened. `EditsStayLocal` is about
every form that would be accepted.

### ComparisonEngine

`ReadAccount` is one turn of `_build_index`, `IndexBuilt` its end (after the
second index the warnings are collected), `AddRow` one turn over the union of
the key views in any order, `Summarize` the sort and the counts. The result of
the sort is any sequence of the same rows that the sort key does not put out of
order, and `OneArrangement` shows that there is one only.

### LoginService

All logins under one identity, that is a username up to case: what the counters
go by. The UPN and the `DOMAIN\user` spelling of one AD account are two identities
to the code, each with its own counters and row, and the bounds hold for each. One
authentication is one step, since the login handler runs to its end.
`FailAsUser` and `FailAsStranger` write the row's counter and the
`LoginAttempt` record; `Succeeds` clears both; `Refuse` is either counter
refusing; `Deny` is an inactive row. `guesses` and `rowFails` are history
variables: when failures happened since the last success. An administrator
creates and (de)activates rows at any time.

### UserAdmin

A request takes a slot and goes through `Arrive`, `Depend` (the two
dependencies) and one of `Create`, `UpdateOther`, `UpdateSelf`, `Reject`.
`UpdateSelf` is separate because `session.get` returns the very object the
dependency loaded, and a flush writes only columns that differ from what was
loaded. `Restart` loses the requests and runs `ensure_bootstrap_admin`, whose name
and password are taken to be configured; without them it creates nobody.
`request[s].held` and `staleActors` are history: was the requester an
administrator at some moment since the request arrived, and who acted on a role
already withdrawn.

### Stewardship

Requests as in `UserAdmin`: `Arrive`, `Depend`, and one of `SaveNote`,
`SetMaintainers` and `Reject`. `role` is what the dependency loaded, while
`user_can_maintain` asks for the assignment when the handler runs. `seen` is
history: the standings of the requester since the request arrived. `said` is
history: the note saved last on each account, under whatever spelling.

### AccessReview and AccessWorkspace

`snapshots` is in the order of `fetched_at`. `BeginComparison`,
`FetchAndStore` (twice), `CommitComparison` and `FailComparison` are
`POST /compare`; no other handler runs while `tx` is open. What has been
flushed is in `tx` until the one commit, and `FailComparison` may come at every
point, as an error or as the end of the process. A snapshot holds a *set* of
accounts, because the relationship that loads them has no order: where the code
takes the first account of a key the model takes any. Identical accounts in a
snapshot are one. The home page lists a key once, the page of a source every
account: `DetailKinds` are the anomalies the latter shows of one key, and
`DetailAnomalyCount` counts its accounts.

### ResultPages

`comparisons` holds the risk level of each stored row, `annotations` the values
of rows and fields. `StoreComparison` is the end of `run_comparison`,
`SaveAnnotation` the handler; `SwitchField` is done in the database, since no
route changes a field. `PlacesShown` are the pages and lines on which
`view_comparison` shows a row, and `RowAt` the row shown there;
`PageValue` and `ExportValues` are the two ways to the value of a row and field.
`ExportCells` are the latter as `sanitize_for_export` leaves them: a value of
`Formula` (one that begins with `=`, `+`, `-`, `@`, tab or CR) is `Quoted`.
A filter is the set of keys that it lets pass.

### Deployment

`Deploy`, `Up`, `Poll` and `SmokeTest` are the steps of `deploy.sh` (the choice
of services changes nothing), `Rollback` is `--rollback` or `--down`. The module
exists for one statement of the README about them.

## Runs

| Run | Shows | Bounds |
|---|---|---|
| `LdapFetch` | the inductive invariant, completeness unless cut, when cuts happen, two searches per group, the contract, termination | 4 groups, depth limit 2: every relation over 3 of them, cycles and self-membership included, and every relation over 4 without self-membership |
| `ApiFetch` | nothing twice, bounded requests, the contract for well-behaved APIs, a warning on what a cursor still led on from, termination | lists of up to 4 elements of 3 kinds, of up to 2 where cursors lead anywhere, caps 1–3, page size 2, 3 attempts, 3 pages, 4 records |
| `FileFetch` | the contract, what the preview foretells, columns | tables of up to 3 lines below a header, 2 rows at most, 1 in the preview |
| `ComparisonEngine` | the five properties of a comparison | lists of up to 2 accounts over 4 spellings of 3 keys |
| `LoginService` | both bounds, and that waiting helps | 2 spellings, limits of 2 and 3 failures, spans of 2 ticks, 7 instants |
| `Administration` | form and provider agree, edits stay local; roles, the lockout guard, the trail | 1 tab, 3 templates of which 2 share a parameter, 2 texts, 2 values of the copied fields, 2 passwords; 3 users, 2 requests at a time |
| `Stewardship` | who writes is entitled, notes follow their account | 2 users, 2 sources, 1 account in 2 spellings, 2 requests at a time; users, sources and slots are symmetric |
| `AccessWorkspace` | comparisons are atomic, the pages agree and lose nothing | 3 sources, 4 snapshots (two comparisons, or one and typed lists), 3 possible results of a fetch |
| `ResultPages` | paging is complete and in order, the export has the values of the page and no formulas | 3 keys, 2 fields, 3 values of which 1 is a formula, 2 comparisons of 3 rows together, 2 annotations, pages of 2 rows |

Why these are enough: three groups hold every kind of cycle, diamond and
self-membership, and four with a limit of two the shortest chains beyond it. A
list of four elements meets the limit on records; pages of one element meet the
limit on pages. A list of two read in a circle meets either. Three lines exceed
a limit of two rows and leave one to be blank. With two templates that share a
parameter and one that has none, every change of template is there. Two accounts
give a duplicate, two keys a union with an order. Seven instants exceed two
whole windows, so that a window that ended and started anew is covered. Two
requests are what a race needs, three users give a race a bystander; of two
sources one is the wrong one. Four snapshots give a source a second, newer one.
Three rows take two pages of two. The proofs remove the bounds, for every
component but `Deployment`. `Administration` runs two modules that share no
variable, each while the other is in its initial state: what holds of each apart
holds of both together, and each has its own properties. Its source has one tab,
whose page is never out of date; a second one takes TLC too long, and the proof
is for any number of tabs.

The other runs each check one property that a comment or document states and
that the code does not have; TLC's trace is the explanation:

| Run | Said | Done |
|---|---|---|
| `UserAdminRemains` | administrators are kept from disabling or demoting themselves and so locking up the system (routes.py:417) | two administrators demote each other: neither himself, yet the system is locked up |
| `SourceSettingsRoundTrip` | no setting is lost between the form, the stored configuration and the form again (test_source_forms.py:235) | `config_to_form_values` has no `allow_plaintext`: an edit of such a source is refused until its box is ticked again, or takes the permission away |
| `TimeoutRollsBack` | a health check that times out rolls back (README.md:112) | the container is left running; only a failed smoke test calls `compose down` |

Other places where the models do what the code does, and a document says
otherwise; no run is spent on them:

- A group beyond the depth limit leaves a line in the log only, and
  `total_reported` counts what was fetched, against base.py:132 and :62. What
  does hold is `CompleteUnlessCut` and `CutOnlyOnLongChain`.
- An API that stays busy (429, 5xx) ends in a `ConfigurationError`, although
  api_provider.py:234-235 calls such failures passing (`Raised` in `ApiFetch`).
- The `login_denied` entry is added and never committed (`Deny` in
  `LoginService`), against README.md:282.
- The status of an account of the master is not looked at, so that "normal"
  (services.py:253) includes those whom the master lists as disabled.
- The page of one source shows no warning about its list, though the home page
  does (services.py:296, access_review/engine.py:123); with duplicates by case it
  counts more anomalies than the home page does (`DetailAnomalyCount`).
- Templates with the same parameter have inputs of the same name, of which
  `save_source` reads the last (`Sent` in `SourceSettings`).
- No route creates a custom field, although models.py:292 lets administrators
  define them; so `SwitchField` of `ResultPages` is external.
- A failure of `docker compose up` does not roll back either (deploy.sh:132).
- A short or empty page ends an API fetch in silence even when the API holds
  more (api_provider.py:342, 360), which is why `ListingSteps` asks for a
  `WellBehaved` API.
- A connection that breaks off leaves `fetch` as the HTTP library's exception
  (`uncaught` in `ApiFetch`), not as the `ProviderError` of base.py:144-145.
- `admin_users_create` compares spellings exactly, so that one identity may get
  two rows that differ in case (`AdminCreates` in `LoginService`), against
  service.py:211 and 324. `GuessesBounded` holds all the same.
- The role is read before the handler runs, so that a withdrawal does not stop a
  request already admitted (`staleActors` in `UserAdmin`), against README.md:280.
- `build_access_review` keeps one account of each key without the warning that
  engine.py:95 speaks of.
- A typed list is stored with every status unknown (`ManualList` in
  `AccessWorkspace`), although engine.py:36 says AD is asked for it.

## Fairness

Only the two fetches over a network have liveness properties. Both run inside
one handler that nothing else in the process can suspend, and each search and
each request ends by an answer, an error or its timeout (30 s); so the code
never stays before an enabled step. `LdapFetch!FairSpec` asks for weak fairness
of the steps that make progress and never for a failure; `ApiFetch!FairSpec` for
weak fairness of the whole next-state relation. `FileFetch` states safety only:
its loop runs over a list in memory. So do the other modules: nothing makes a
user log in or an administrator act.

`CHECK_DEADLOCK FALSE` is set where the modelled run ends (the three fetches and
the comparison), or where the clock does (`LoginService`).

## What is proved

For every value of the constants, from the named assumptions in the modules:
every safety invariant that a passing run checks, and every property of single
steps.

- `LdapFetchProofs`: the inductive invariant `IInv`, and from it `OnlyMembers`,
  `CompleteUnlessCut`, `SmallTreeUncut`, `CutOnlyOnLongChain`,
  `EachGroupSearchedOnce`, that every step keeps the contract of
  `AccountListing` as long as nothing was cut (`ListingSteps`), and that the
  fetch implements it when no more than `MaxDepth + 1` groups exist. Completeness
  rests on `WalkIsThorough` (what an expanded group holds is collected, visited
  or waiting): once the stack is empty, the visited set is closed, and
  `Reachable` is the least closed set. That no small tree is cut rests on
  `DepthIsEarned` (an entry's depth is at most the number of groups visited),
  and that a cut needs a long chain on `DepthIsChain`: every entry of the stack
  ends a chain of different groups that is as long as its depth says. The groups
  of that chain but the last are visited, so the chain never meets itself.
- `PagingProofs` on `ApiFetch`: `IInv`, `NothingTwice`, `EndlessIsTold`,
  `ListingSteps`.
  `RequestsBounded` bounds the requests by the pages begun and the attempts of
  each. `ReadInOrder` says that the records are in the order of the server's
  list and all before the place where the next page begins, which no scheme
  takes back unless the API's own cursors stray; hence no element comes twice.
  `NothingLeftOut` says that before that place nothing is missing while the API
  is well behaved; so a list that ends without a warning is whole.
  `EndlessIsTold` is inductive with `IInv`: by a cursor the loop ends where none
  comes, on an empty page, which a cursor to a record does not bring, or at a
  limit.
- `FileFetchProofs`: `IInv`, `PreviewForetells`, `ValuesStayInColumns`, and that
  the fetch implements `AccountListing` (`ListingSpec`). `RowsAreLines` is what
  carries them: the rows are the filled lines read so far, and fewer than the
  limit lie before the last one read; so a preview that broke off met the damage
  within its first rows, and a fetch that returns fewer rows than the limit has
  read to the end. For `ValuesStayInColumns`, the column of a repeated heading
  is its last one (`LastPlace`), for the dictionary of the code and for the
  property alike.
- `AdministrationProofs` on `SourceSettings`: `IInv`, `StoredConfigBuilds`,
  `EditsStayLocal`, for edits of any number of fields. `Canonical` says that a
  group and a template exclude each other in what is stored, and that a
  parameter is stored for the chosen template only; without it, filling in a
  page and reading it back could bring up a parameter of another template.
- `ComparisonEngineProofs`: `IInv`, `RevocationGapIsHigh`,
  `NothingLostSilently`, `HighIsJustified`, `OneArrangement`. The heart is
  `IndexHoldsFirst` (an index holds the first account of each key read) and
  `IndexCountsKeys` (it is as large as the list only without duplicates).
- `LoginServiceProofs`: `IInv`, `GuessesBounded`, `RowGuessesBounded`,
  `WaitingHelps`. `RecordCountsRun` says which failures the record counts: the
  latest ones, and all others lie more than a window before the first of them;
  hence a window that holds an uncounted failure holds no counted one from
  before it. `RowFollowsFailures` says the same of a row and its lockouts.
- `AdministrationProofs` on `UserAdmin`: `AdminInv`, `WithdrawnBeforeIsRefused`,
  `AdminRemainsUnlessStale`, `TrailTellsRows`. The last two need each other's
  company: a handler whose actor still holds the role leaves that actor an
  administrator (`LocksSelfOut`), and its loaded object equals the row.
- `StewardshipProofs`: `IInv`, `EntitledWrites`, `NotesStay` for
  `NotesFollowMembers`. `SeenIsReal` ties the role a request was admitted with,
  and the committed row, to the history of what it has seen. That a note is found
  again needs no invariant beyond itself, only that normalizing twice changes
  nothing (`NormalizedAssumption`).
- `AccessWorkspaceProofs`: `IInv`, `LastFetchIsShown`, `PagesAgree`,
  `ReviewIsPartition`. `TxInOrder` ties what a running comparison has flushed to
  how far it has come, and `SnapshotsComePaired` says that the fetched snapshots
  are those of the comparisons, two and two; both are what a comparison stored
  by half would break. The two pages agree because the anomalies of either are
  those of the keys that the master has not, in whatever order the accounts were
  loaded, and because every key the home page counts has an account that the
  other page counts (`OneOfEachKey`); `LatestIsLast` and `TypedListsStay` say
  which list that is.
- `PagingProofs` on `ResultPages`: `ExportMatchesPage` and `PagesHoldEveryRow`.
  The first rests on `PagesInv`, an inductive invariant of its own (every value
  is of a stored row and of a field): the values joined by key are then those
  found by row; each is quoted or not by the same rule. The second rests on
  three lemmas: rows can be sorted by level and key (`Sortable`, over the ranks
  of the rows, since an induction over them is out of reach), the lines of the
  pages are those of the whole (`PageAndLine`), and an earlier place is an
  earlier line (`PlacesInOrder`).

Only model-checked: the termination of the two fetches over a network, since
liveness under fairness is out of the prover's reach, as is `ENABLED`; and
the three runs that end in a violation.

## Not modelled

- Attribute conversion, LDAP filters and their escaping, the fixed columns and
  the look of exports, templates, CSRF, URL checks, encryption and the
  validation of environment variables: stateless, or a library's.
- `test_connection` of LDAP and API, `find_user_groups`, the choice among bind
  methods, API credentials and redirects: one request each, nothing kept.
- Renaming a source; which configuration a snapshot was fetched with, which the
  program does not store.
- `install.sh` and `deploy-native.sh`: they run once, and nothing in the program
  depends on how far they came. (With `--force` install.sh makes new keys, which
  no longer open secrets and databases made with the old ones.)

What could follow: a variant of each loop (groups not yet visited with what is
on the stack; requests left under the limits) as a safety property, so that the
part of termination that is not about fairness is proved too; the redirects and
the mapping of fields of `ApiProvider`; and `find_user_groups`.
