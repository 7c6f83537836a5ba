# Verification of the multi-tenant analytics service

TLA+ models, TLC runs and TLAPS proofs for the FastAPI + Polars + ClickHouse +
Postgres service in this repository. Paths below are relative to
`src/backend/app/` unless they start with `src/`.

## 1. The system

A tenant's CSV file is loaded by an ETL run into five ClickHouse tables; the run,
its quality report and its findings are recorded in Postgres. Dashboards read
ClickHouse through endpoints scoped by tenant and role; accounts live in Postgres.

| component | state | operations | interacts with |
|---|---|---|---|
| ETL pipeline `etl/service.py` | local accumulators of one `run_etl` call | open record, clear facts, batch loop, final checks, settle | writers, accumulator, rules, Postgres, ClickHouse |
| raw writer `etl/raw_writer.py` | none | chunked INSERT into RAW | called per batch, before anything else |
| issues writer `etl/issues_writer.py` | `_cleared_run_ids` | reset once per run, chunked INSERT into ISSUES | called per batch with issue rows |
| rules `etl/rules.py`, masks in `etl/service.py` | none (pure), but the masks read CLEAN | 14 row rules, edit distance, issue rows | used by the batch loop |
| quality accumulator `etl/quality.py` | counters, capped example lists | `add_*`, `set_*`, `summary`, `findings` | fed by the batch loop |
| column mapping `etl/schema.py` | none | explicit header mapping | used per batch |
| ETL endpoint and CLI `etl/router.py`, `etl/run.py` | none | start a run, list runs | call `run_etl` with no mutual exclusion |
| ledger `db/models.py` | `EtlRun.status`, `QualityReport`, `QualityFinding` | written by `run_etl` | read by `/etl/runs`, `/quality/latest` |
| quality API `quality/router.py` | the module-level cache | latest, findings, overview, issues, issue detail, issues-analytics | ClickHouse, Postgres, TTL cache |
| TTL cache `analytics/cache.py` | `_store` | `get`, `set` | shared by the server's worker threads, no lock |
| analytics API `analytics/*.py` | none | KPIs, breakdowns, transactions pages, ad-hoc, filter options | ClickHouse, whose tables loads change under it |
| accounts `auth/*.py`, `tenants/router.py`, `core/*.py` | `tenants`, `users`; a token in the client's cookie | login, sign-up, guest, logout, create user, role checks | Postgres |
| start-up `db/wait.py`, `db/seed.py`, `scripts/create_test_users.py` | seed rows | wait for Postgres, seed, add test users | run by every container, or inside one |
| web pages `web/**` | browser state | dashboard, slice-and-dice, transactions pager, account forms | the APIs, or the same services directly |

What is hard here:

* **Concurrency.** Endpoint calls run on worker threads, the CLI in a process of its
  own; ClickHouse has no transactions across statements, so two runs interleave
  statement by statement. The TTL cache is read and popped without a lock. Sign-up
  checks and inserts in two statements; a container seeds beside another one.
* **Failure.** A statement can fail anywhere; the handler records it but removes
  nothing from ClickHouse; a crash leaves no record at all. A container can die
  between the flush and the commit of its seed.
* **Stale reads.** Duplicate detection reads CLEAN before it inserts. A page is two
  statements, an issues panel four, a dashboard eleven, each at a moment of its own; the
  options of a filter are read under inputs that may change before one is picked.
* **Batching.** The file is cut into batches by the reader; flags, capped lists, id
  sets and the city map are made per batch or carried from one to the next.
* **Two of each.** Every rule is written twice, as a row function and as a mask; the
  account routes once for the API and once for the pages.
* **Ties.** Pages are cut by LIMIT/OFFSET from orders that are not total.

What makes each part correct: a reload leaves exactly its file; every fact can be
traced and every issue fact explained; each row is routed once, by the rules the tests
speak of; ids are unique in CLEAN; a settled run has its report; the report says
something of the file and not of its batches; an answer is of one tenant, and of one's
own rows where the role says so; going through all pages shows everything once, up to
ties; accounts are unique per tenant, seeds whole, tokens earned. `hazards` in
`PROJECT.json` lists where each can go wrong, with the properties that watch it.

## 2. The modules

### EtlPipeline: `run_etl`

Each run is a process with a program counter `pc[r]`; one action per ClickHouse
statement or Postgres commit, in the order of the code.

| model | code |
|---|---|
| `Open`, `Connect` | 786-797: commit of the running record, client and schema |
| `ClearClean/Issue/All` | 798-811: one synchronous `ALTER TABLE ... DELETE` each, skipped by a dry run |
| `LoadUsers` | 812-829 |
| `ReadBatch`, `EndOfFile` | 841-844 |
| `InsertRows(r, t)` | one INSERT of `raw_writer`, `issues_writer` or `_insert_clickhouse_table`: full chunks, then the remainder |
| `LookUp` | one SELECT of `_fetch_existing_transaction_ids` 288-331 |
| `Evaluate` | 1060-1074 with `_evaluate_issue_rows` 377-695, from what the look-ups found |
| `ResetIssues` | `IssuesWriter._reset_run`, before the run's first records |
| `ValidateOnly`, `BadHeaders` | dry run; headers that do not map |
| `PostLoadChecks`, `FlushReport`, `Commit` | 1091-1182 |
| `SetupFails` | an exception before the `try`: nothing is recorded |
| `RunFails`, `RecordFailure` | an exception inside it: "failed" is recorded |
| `FailureUnrecorded` | the handler's own commit raises (Postgres gone; session unusable after a failed flush or commit) |
| `Crash` | the process dies between two statements |

`tab[t]` is the set of `<<run, row>>` entries of a table; a row is its position in
the file. Its contents are reduced to what routing depends on: the stripped id
(`IdOf`), whether the stored id has blanks around it (`Padded`), whether any rule but
the duplicate rule flags it (`Faulty`), and two attributes the final checks look at
(`Sparse`, `Named`). A row without id is `Faulty` (missing_required) and has an `IdOf`
of its own. `Faulty` is a constant set: that a verdict does not depend on the batch is
`VerdictsTravel` of IssueRows, except for the city map, which the constant leaves out.
The ids of a batch are looked up `LookupBatch` at a time (5000 in the code) in any order;
`todo` holds the rows whose ids are still to be looked up and `flagged` those found.
A statement is atomic: a single-node ClickHouse applies one INSERT block at once and
the DELETEs wait for their mutation. `MaxActive` is not in the code: it says how many
runs the operators let overlap, so that the runs that need no overlap to refute a claim
show it without. `alone` is history: whether another load of the run's tenant was active
beside it (`Rivals`). One module so answers both questions, "what holds anyway" and
"what holds for a load that nobody disturbs".

### RunLedger: what the readers of a run may rely on

What `/etl/runs` and `/quality/latest` may rely on: recorded once as running, settled
at most once, the report visible together with a final status. `LedgerSpec` says that
EtlPipeline implements it, with the pipeline's `Runs`, `status` and `report`.

### TypoDistance, RowRules, IssueRows: the rules

`EditDistanceLte` is `_edit_distance_lte` (rules.py:775-812) with its early exits, as a
fold over rows of the table. `RowRules` has one operator per row function; `IssueRows`
has one per mask of `_evaluate_issue_rows`, written from the masks and not from the
functions, the city map of the batch, and the construction of the issue rows with its
running index. `EvaluateBatch` is one batch: the ids stored already are fetched, the
masks decide, unflagged rows become clean.

A text cell is a word over a small alphabet with a look (padded, in capitals). A number
cell has a form, the number it denotes and the number its digits spell. The forms are the
ways of writing a number that Python's `float()`, a Polars cast and the two cleaners do
not all read alike: plain, padded (" 1000"), grouped ("1_000"), dressed ("$1,000"),
escaped ("1\000"), exponent ("1e3"), printed (a value of a column that was read as
numbers and whose text form has letters), junk and blank. Patterns are the sets of words
they match. Amounts are whole cents and computed totals integers in 1/10000 of a cent;
infinities, NaN and the drift of binary floating point are not modelled.

Among the cells modelled, a mask and its function differ on these, which `Comparable`
names rule by rule: for the price, numbers that are padded or grouped, which `float()`
reads and no Polars cast does, and totals half a cent off a cent, which go to the even
cent in Python and away from zero in Polars; for the financial total, numbers that are
escaped (the mask's pattern keeps a backslash that the function's drops) or printed (the
mask strips the letters of "1e-05" where the function takes the value); for duplicates,
ids with capitals, whose case only the function lowers. Not a disagreement but worth
knowing: "10%" counts as no discount for PRICE_MISMATCH and as 10 for
FINANCIAL_TOTAL_MISMATCH, whose cleaning reads the text `1e3` as 13.

### QualityReport: accumulator and findings

One action per batch (`Accumulate` stands for the loop body as far as the report is
concerned), one for the end of the file, one for the report. `read` is the history of
lines; the properties compare the counters with what the whole history says.
Missing values are counted for every required column, cells that do not parse for the
nine columns of `Parsed` only (969-977): rating, loyalty points and the returning flag are
cast without a word. `StoredIds` follows 868-878 and 1052-1058: a batch with no id at all
gets one hash for all its rows (`concat_str` of a null is null), and a missing id beside
present ones is `str(None)`.

### IssuesAnalytics: endpoint and cache

Workers run `issues_analytics` with the cache calls inlined: lookup, expiry check,
pop, four table reads, store, respond. A panel is the set of records it was computed
from. The issues writer adds records meanwhile; nothing deletes any, because the
reset by run id finds none (EtlPipeline's `AuditTrailGrows`) and the reload clears
the fact tables only. The local variables of a worker are emptied when its frame is
gone. `Panels` is 4 in the code and a parameter in the model.

### FactQueries, Analytics: reading while loads go on

`FactQueries` is what the statements return: scope tables, filters and their parsing,
tenant and owner conditions, search, ORDER BY with NULLs last and ties open
(`Orderings` is every order the statement may settle on), LIMIT/OFFSET (`Cut`),
grouping. The ad-hoc endpoint has its own copies of the parsing and of the conditions
(`AdHocFilters`, `AdHocWhere`: `queries.py` 272-408 and 484-497), with lists of values and
equality of numbers. Texts are stored with their blanks, perhaps empty (`EmptyText`), and
stripped when they come as a parameter (`Strip`). An aggregate is the set of rows it was computed from, so "two tiles agree"
and "nothing counted twice" can be said exactly.

`Analytics` is one viewer with one visit open, over tables that change:

| model | code |
|---|---|
| `InsertFact`, `ClearFacts` | the loads, seen from the tables only: 226-262 and 803-811 of `etl/service.py` |
| `OpenPages`, `ReadRows`, `CountRows`, `Render`, `RequestFails`, `TurnPage` | `transactions_page` with its pager: `web/router.py` 423-589, `analytics/service.py` 290-367, the fragment's links |
| `OpenStudio`, `Step`, `RunAgain`, `Answer(i)`, `AnswerFails(i)` | `slice_dice.js` 542-633 and the ad-hoc endpoint: any request in flight may be the next one answered |
| `OpenBoard`, `Refresh(scope)`, `ReadTile(t)` | `dashboard.html` 529-672: the page opens, the Apply and scope buttons, the tile endpoints |
| `EditInput`, `AskOptions(f)`, `PickOption(f, v)` | the filter inputs, and the filter options read under them, applied or not |
| `Leave` | the visit ends, or its first request fails |

A visit's arguments come from what its form offers (of the studio's eleven dimensions and
six metrics, a text and the date, a sum and a count; texts are numbered in their order); `SortColumn`, `PageSize`, `Clamp`
and `SortKey` are what the handlers make of them. `amount`/`total_amount` and
`order_date`/`event_ts` are one field each. The text typed for filter options selects
any subset of the values. `inputs` are the dashboard's filters as they stand in the form,
`ask.params` as they were last applied; `under[f]` remembers which of the other inputs the
list of options of `f` was read for, `chosen` a value picked from a list that still fits
them, and `picked` such a value in force. A list of options outlives a change of scope and
of inputs; what is picked from one that no longer fits is not claimed to show anything. `screen` is what is on the screen; `shown`, `start`,
`changes`, `kept` and `serial` are history: what each page has shown, what matched when
the visit began, how often the table changed, whether anything was cleared, whether two
requests were ever in flight.

### AccountRegistry, Accounts: tenants, users, tokens, start-up

`AccountRegistry` is what the users table and the tokens promise: nobody is replaced,
an address is enrolled once in a tenant, and who holds the token of an account has
shown its address and password. `Accounts` is shown to implement it (`RegistrySpec`).

| model | code |
|---|---|
| `StartContainer`, `WaitForDb`, `SeedCount`, `SeedFlush`, `SeedCommit` | `entrypoint.sh`, `db/wait.py`, `db/seed.py`: tenants are flushed (others now wait), users added, one commit |
| `ScriptLooks`, `ScriptFlush`, `ScriptCommit`, `ScriptDies` | `create_test_users.py` |
| `Crash(k)` | a container dies: open transaction rolled back, requests lost |
| `ResolveTenant`, `FindExisting`, `CreateUser`, `IssueToken` | sign-up, of the API and of the page |
| `IssueGuestToken`, `Login`, `Logout` | guest access, login, logout |
| `Authorize`, `LoadTenant`, `CreateUser` | user creation by an admin |

`EmailStr` lowers the domain of an address where the API reads a JSON body; the page's
form and the login take what was typed. `Address(r)` is what a request's handler works
with: normalized for the API's sign-up and user creation, raw otherwise.

`holder` is the process whose flushed tenants are not committed yet: Postgres makes
others that insert the same slug wait for it. The script's several looks are one step:
it acts on them only in its flush and commit, and an insert made meanwhile makes these
fail whenever the look was. `CreateUser` against the unique constraint is the answer
"error": neither sign-up nor user creation catches the IntegrityError, and user creation
does not look first. `Login` takes any row with the address: `authenticate_user`
(`auth/service.py:27`) does not ask for a tenant. Containers are not restarted by
anything (`docker-compose.yml` has no restart policy); `StartContainer` is an operator.
`FairSpec` adds the fairness under which starts come to an end.

### Variants

Operators whose comment starts with "Variant" are altered copies of the definition
after them. No specification uses them; each property is shown to notice at least one
(`mutants` in `PROJECT.json`).

## 3. Runs

| run | bounds | shows |
|---|---|---|
| EtlConcurrent | 2 runs, 2 tenants, 3 files (8 rows), insert size 2, one id per look-up, full overlap | the unconditional safety properties, the action properties and the refinement, for same-tenant and cross-tenant interleavings with faults at each statement; `UndisturbedReloadIsExact`, after a failed or crashed first run and beside another tenant's |
| EtlConcurrentReload | 1 tenant, overlap | `ReloadIsExact` is violated |
| EtlPaddedIds | 1 tenant, no overlap | `CleanIdsUniquePerTenant` is violated |
| EtlSettled | 1 tenant, no overlap | `EndedRunsAreSettled` is violated |
| EtlRetry | 1 tenant, no overlap | `RetriesKeepOneRecord` is violated |
| IssueRows | nearly 6 000 files of one or two batches, words of up to 4 letters, city map at 3 rows and 3/4 | masks and row functions agree, the banded distance is the edit distance, issue rows belong to their rows, city verdicts are outvoted, verdicts do not depend on the batch |
| QualityReport | 5 lines of 6 kinds, batches of up to 3, example cap 2 | counts, duplicates and temporal finding are those of the file for every cut |
| QualityMissingIds | the same | `DuplicatesAreRepeatedIds` is violated |
| IssuesCache | 2 workers, 2 tenants, 2 records, 2 panels, TTL 1, clock 0..2, symmetry | tenant isolation, nesting and staleness of answers |
| Accounts | 2 containers, 2 clients, 3 requests, 2 seeded tenants, the script, an address in two spellings, symmetry | the registry, whole seeds, served only when seeded, admins at home, refusals with a reason |
| AccountsStart | 3 containers, the script, no requests, `FairSpec` | `StartsSettle`: every start ends in serving or in an exit |
| Analytics | 7 table entries, 3 users (normal, guest, admin), 4 pages + 5 studio + 6 dashboard visits, two of them with options, 2 requests in flight, 1 change during a visit | answers in scope, nothing skipped, repeats only at ties, a true pager, screen and offset together, tiles in agreement, live options |

Why the bounds are enough.

* *ETL.* Two runs give every pairwise interleaving, and no action reads more than one
  other run's rows. The main file has a batch of three and one of two with insert size
  2, so there are full chunks, remainders and exact multiples, several look-ups per batch, an id repeated inside a
  batch and one across batches, and a faulty row; the other files give the padded id
  and the headers that do not map.
* *IssueRows.* Every word up to the band of the distance and longer ones beyond it;
  every form of every amount; totals at, within and beyond both tolerances; every pair
  of batches of up to two ids; every batch of up to four rows that name a city, so the
  count, the share and a tie are each met and missed by one.
* *QualityReport.* Five lines exceed the example cap by a batch in which all mismatch.
* *IssuesCache.* Two ticks let an entry be stored, expire and be replaced, and a
  computation last longer than the TTL.
* *Accounts.* Two containers race on the seed with the script beside them; three
  requests are enough for two sign-ups of one address and a login, or a sign-up, a
  login and a creation; one address exists in two tenants with different rows. Three containers and the script
  make a start wait for one that itself waits, with a third to overtake it.
* *Analytics.* The rows have two that tie on the day, NULLs in each nullable column, one
  of another tenant and one of another owner, one in the issue table; page sizes of 1
  and 2 give up to three pages with full, partial and empty last ones. Studio visits
  ordered by a dimension and by a metric have more than one group, and pages of one
  group. One change is enough to separate any two statements of a visit; two requests
  in flight to let answers come in the other order. `OptionLimit` is 1, so that options
  are cut; the filters (`Edits`) go from one value to another and so tell inputs in force
  from inputs that are not; one row has an id with a blank before it, and is a dead option
  without the proviso of `OptionsAreLive`. Tiles and options do not interact but through
  the conditions, so that a visit follows either all tiles or the options of one field
  (`tiles`, `fields` and `edits` of `BoardAsks`): a guest's, who changes the scope between
  lists and picks, and a normal user's, who edits another input between them.

Deadlock is not checked where the system may stop: ETL runs end, the quality report
is written once, a file is read through, requests are bounded by `MaxRequests`.
IssuesCache and Analytics check it: some request can always arrive, some visit end.

Symmetry is used in IssuesCache and Accounts, over workers, tenants, records,
clients and containers that no constant distinguishes, for safety only; AccountsStart
checks liveness and has none.

Fairness. `FairSpec` of Accounts is weak fairness of what `entrypoint.sh` and the script do
without being asked, and strong fairness of the two flushes that may have to wait for
another transaction's tenants: Postgres wakes a waiter when that transaction ends, so it is
not passed over for ever, though the script may be started, flush and die again and again.
With weak fairness there the property fails. Nobody has to start a container or the
script, and nothing has to die. The other modules state safety only: nothing in the code
makes a person start a load, send a request or turn a page.

## 4. Findings

1. **Overlapping reloads** (`etl/service.py:804`): "keep reloads deterministic per
   tenant" fails when two runs of a tenant overlap; nothing prevents it.
2. **Padded ids** (`etl/service.py:297`, 409-420): the duplicates query compares
   stripped ids with ids stored as they came.
3. **Runs left running** (`etl/service.py:787-831`, 1164-1190): an exception before the
   `try`, or a failing handler, leaves the record as "running".
4. **Retries** (`etl/issues_writer.py:38`): the reset is by run id, and every retry has
   a new one.
5. **Missing ids** (`etl/service.py:870-873`, 1053-1058): the fallback hash of lines in a
   batch without ids is that of a null for all of them, so that different lines count as
   duplicates; in a batch with some ids the others count as duplicates of `"None"`.

Observed while modelling, without a run of their own: pages are deterministic and do
not overlap, as `analytics/queries.py:613` and `tests/qa/test_api_pagination.py:155-191`
have it, only where no two rows tie on the sort column (`RepeatsOnlyAtTies` is exactly
what is left); after a failed Next the studio's offset stays moved, so that the next one
skips a page (`slice_dice.js:631`; `GroupsNotSkipped` leaves such visits out); a refused
date filter is not dropped like other unreadable values but makes the statement fail; the
aliases `sum(quantity) AS quantity` and `toStartOfMonth(order_date) AS order_date`
shadow columns the WHERE clause names; an id stored with blanks is offered as a filter
option and, trimmed when picked, leads to an empty dashboard, and so may an option from a
list read before the scope changed (`OptionsAreLive` leaves both out); who signs up through
the API with capitals in the domain of the address cannot log in with the address as typed;
login across tenants, as said above.

## 5. Proofs

All for arbitrary constants that satisfy the named assumptions of the modules. The
insert size is at least 2: the issues writer appends its first row before the check that
flushes, so with size 1 its first chunk would have two rows.

* **FoldLemmas.** What the other proofs need of folds. The library's induction theorems
  take an operator as a parameter and cannot be cited; the same facts about sets can:
  `Induction` says that a set with 0 and the successors of its numbers has them all.
  From it, a fold over a finite set has a value (`FoldExists`) and the type of its step
  (`FoldHasType`), and a fold over a sequence goes through one run of values
  (`FoldRuns`), about which invariants can be shown entry by entry (`HoldsAlong`).
* **EtlPipelineProofs.** `TypeInv` = types plus what each phase knows of `batch`,
  `todo` and `flagged`. `AuditInv` adds: the rows still to be sent are part of the
  current batch; RAW holds the whole current batch once it has been read in; the issue
  records of `flagged` are complete before CLEAN is touched; a run whose writer has
  not reset has no records. From it: `IssueFactsAreExplained`, `FactsAreTraceable`, and,
  because a reset then finds nothing, `AuditTrailOnlyGrows`.
  *Routing.* The invariant says which rows of a run may be in CLEAN and in
  ISSUE at each phase: of earlier batches, or of the current one and, by `flagged`, on
  the right side, less what is still in `todo`. `RowsAreRoutedOnce` follows.
  `CleanIdsAreUnique` needs in addition what each look-up has settled for the ids it asked
  for (`LookUpsHold`) and what the mask still guarantees between `Evaluate` and the
  batch's last CLEAN insert (`MaskHolds`): an unflagged id occurs once in the batch,
  and among the run's earlier CLEAN rows only with blanks. Other runs can delete CLEAN
  rows meanwhile, which never breaks it.
  `ReloadsAreExact` speaks of loads that no other load of their tenant overlaps; the run
  EtlConcurrentReload shows that it is false of others. `ExactInv` adds that a run with an
  active rival is not `alone` (`Apart`), that a run has nothing before it reads (`Unread`),
  and of a run that is alone, that each table it has cleared holds no other run's rows of
  its tenant (`Swept`), that every batch before the current one is loaded and the current
  one as far as the phase says (`Loaded`, `Loading`), and that a record whose fact is still
  to come is of a flagged row (`RecordsMatch`). The steps of other runs are either of other
  tenants, whose rows these parts do not mention, or of dry runs, which change no table
  (`StepLeavesOthers`, `OthersExact`); runs that ended left rows behind, which `Swept` covers.
  *Ledger.* Each step maps to a ledger step or a stutter, given that a run
  has no record before `Open`, is "running" without a report while active, and a
  verdict is a final status. `SuccessIsAlwaysAudited` strengthens with: the audit rows
  of all batches before the current one are complete, and `EndOfFile` is the only way
  to `finish` for a real run. `OnlyReloadsEverChange` needs that a run that clears or
  inserts is not dry.
* **TypoDistanceProofs.** `EarlyExitsChangeNothing`: for any two words and any bound,
  `_edit_distance_lte` answers what the whole table of Levenshtein distances says; the
  table exists and there is one only. `NextRow` computes a row of it (`NextRowIs`), the
  search goes through the rows or gives up where no entry is within the bound
  (`SearchRuns`, `SearchFinds`), and none is later then (`StaysAbove`). What the numbers
  mean: one edit changes any entry of the last column by one at most (`OneEditFurther`,
  column by column, before, across and after the edit), and an entry of two at most is
  made by one edit from each side (`DistanceTwoMeets`), so that within two is one edit
  from either word to a word in between (`WithinTwoMeets`).
* **IssueRowsProofs.** One lemma per rule: its mask and its function agree at every row
  of the types, given the city map and the ids; the financial and price rules rest on
  `RoundingAlike`, the two roundings differing at most at ties. `MaskIsRule` joins the
  fourteen, on the cells `Comparable` admits. `VerdictsTravelAlways` adds that what the mask of a row is computed from is the
  row alone, for twelve rules. `CityVerdictsAreOutvotedAlways` counts: rows that name the
  city with the accepted country and those with another one are disjoint parts of all
  that name it (`CountsOfParts`), and the share left follows (`ShareLeft`).
  `TyposAreTwoEdits` joins `WithinTwoMeets` with what a set of edited words holds
  (`OneEditMeans`). The issue rows are folds over the batch: `FilterBy` keeps the entries
  of the mask in their order, so the n-th of them is the row of rank n, and the running
  index of the loop is that rank at every flagged row (`RecordsAlwaysAlign`).
  `ReferenceAssumption` says that the places of the reference lists are words of the
  alphabet, which a model over words cannot do without.
* **QualityReportProofs.** `CountsAreOfFile` rests on the cardinality of the lines that
  satisfy a predicate in `read \o b` being the sum of those in `read` and in `b`, and on
  the two-part category count being exactly the batch's mismatches; cells that do not
  parse are counted for the columns in `Parsed` and for no other.
  `TemporalIsOfFile` adds that the midnight flag is that of the lines read.
  `DuplicatesAreOfFile`: `SeenInv` says that, when every line has an id, the set of
  ids is that of the lines read; `RepeatsCounted` says that the lines less the distinct
  ids are the lines whose id occurred before; it picks the first line of each id
  (`LeastOfNaturals`).
* **IssuesAnalyticsProofs.** `Sound(q, b, n)`: the panels show only tenant n's records,
  each contains the earlier ones, and a record one of them misses was inserted at `b`
  or later. It holds of every payload stored, found, being computed or answered. An
  unexpired or fresh answer is given before `stored + TTL`; `StalenessIsBounded` is the
  arithmetic of the two.
* **AnalyticsProofs.** Everything rests on `CutByRank`: whatever order a statement settles
  on, a row that ties with no other is at the place its rank gives, so it is on the page
  of its rank and on no other. `RepeatsNeedTies` follows (`PlacedInv`). `NoGaps` needs
  `CoverInv`: while nothing is cleared, a row that matched at the beginning and has not
  been seen comes later than the page at hand, and with those before it exceeds what the
  pages so far can hold; additions only move it further, and the total is counted after
  the rows. `PagerIsTrue` (`CountInv`) is the count of the same two statements.
  `ScreenAgrees`: the extra row that is fetched is there exactly when groups are left
  (`ExtraRowTells`). `TilesAgree`: each statement's groups partition what matches
  (`TileSplit`), and what matches only grows between two clearings. `NoDeadOptions`
  (`OptionInv`): an offered value is that of a visible row that passes the other conditions
  it was read under (`Offered`), is not empty, and, if it has no blanks at its ends, comes
  out of the parameter as it went in; so once it is picked under these conditions and
  applied, that row passes them all, and until rows are cleared it stays (`Live`).
  `EveryGroupIsMet` (`UnmetInv`) is the argument of `NoGaps` for a user who has one
  request in flight at most: a group not shown yet lies ahead of the offset asked for,
  and of the whole page once it is answered; the extra row tells whether any is left.
  Amounts are summed by a fold, so that the sum is a number needs `FoldHasType`
  (`RevenueIsNumber`); that loads leave the order of the groups alone needs the sort
  column to be a dimension (`GroupsGrow`).
  `AnswersStayInScope` is that `Selected` lets only the viewer's rows through, whatever the
  filters.
* **AccountsProofs.** `IInv` = `TypeOK`, `SeedIsWhole`, `AdminsStayHome` and five parts:
  `Keys` (ids are given out in order, ids and slugs name one tenant), `Locks` (who has
  flushed tenants holds the lock, and they are not there yet), `ScriptKnows` (a tenant the
  script has not found missing is there), `Works` (what each handler knows at its place:
  the admin it authorized, the user it created, the address it found) and `Seeded` (a
  serving container has a tenant). `Facts` only become truer as tenants and users grow,
  so what a handler knew holds while others commit. `AccountsImplementRegistry` maps
  commits to `Enroll`, tokens to `SignIn` and `Visit`, and all else to stutters; several
  users committed at once are one `Enroll`.

Only model-checked: `StartsSettle`, since liveness is out of the prover's reach, and the
violations, which are counterexamples. Every other property of a run is a theorem.

## 6. Not modelled

* **ClickHouse's schema at start-up** (`db/clickhouse.py`, `_startup` in `main.py`): each
  statement is IF NOT EXISTS and the whole is retried; requests see no state of it.
* **Column mapping.** The outcome of `build_explicit_mapping` is (headers map, or the run
  fails); `detect_mapping` and its aliases have no caller.
* **Quality API** beyond issues-analytics. No endpoint keeps state. The latest report and
  its findings are what one commit made visible (RunLedger); the overview is five
  statements and the issues list two, whose figures can be of different moments of a load,
  as those of the dashboard and of the transactions page, which are modelled. The ETL and
  account listings, `me` and the admin page only read as well.
* **Analytics details**: date grains of ad-hoc queries, the quantity metric, averages,
  charts and export. A change of metrics, filters, grain or scope in the studio is a visit
  of its own, so that an answer to the earlier question cannot arrive after it; so is the
  answer of an earlier refresh of the dashboard that arrives after the next was begun.
* **Accounts details**: nothing in the program sets `is_active` to false; the remapping
  of fact owners to users (`etl/service.py` 812-829) is a lookup per run and is not
  followed across sign-ups; JWT and password cryptography.
* **Values**: outlier statistics by ClickHouse quantiles, the example texts of findings,
  a NaN or infinite amount (it makes a strict cast fail the run, which `RunFails`
  covers), binary floating point.
* HTML and CSS, logging, configuration, Pydantic schemas, tests, benchmarks and tools.
