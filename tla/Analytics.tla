------------------------------- MODULE Analytics -------------------------------
(***************************************************************************)
(* One viewer in front of the fact tables while loads go on: the pager of   *)
(* the transactions page (analytics/service.py, web/router.py), the         *)
(* slice-and-dice studio with its ad-hoc endpoint (slice_dice.js), and the  *)
(* dashboard with its filter options (dashboard.html).  Every statement     *)
(* sees the tables of its own moment.                                       *)
(*                                                                         *)
(* Loads are seen from the tables only: a row appears in one of them, or a  *)
(* tenant's rows are cleared from one, as EtlPipeline's Connect and         *)
(* InsertRows do; a block of rows is a block of steps.                      *)
(*                                                                         *)
(* Definitions whose comment starts with "Variant" are altered copies of    *)
(* the definition after them, used by no specification.                     *)
(***************************************************************************)
EXTENDS FactQueries, SequencesExt

CONSTANTS
  Facts,           \* the entries <<table, row>> loads may write
  Users,           \* [id, tenant, role] of the accounts that look at them
  PageAsks,        \* [user, sort, dir, search, size] of visits to the transactions
  StudioAsks,      \* [user, scope, payload, by, metric, sort, dir, limit] of the studio
  BoardAsks,       \* [user, scope, params, tiles, fields, edits] of the dashboard; the
                   \* last three bound what is looked at, asked for and typed
  Edits,           \* <<slot, value>>: what may be typed into its filter inputs
  Tiles,           \* the tiles of the dashboard that are followed
  OptionFields,    \* the fields whose inputs' options are followed
  GuestCap,        \* rows on a guest's page: 25 in the code
  StudioCap,       \* most groups of one answer: 500 in the code
  TileLimit,       \* most groups of a tile: 12 of a breakdown, 8 of the products
  OptionLimit,     \* most options offered: 20 in the code
  FirstPages,      \* pages a visit may start at
  MaxInFlight,     \* bound on the studio's requests in flight
  MaxOffset,       \* bound on the studio's offset
  MaxChanges       \* bound on the changes to the table during a visit

\* A row goes to the table of all rows and to the one of its verdict.
Belongs(r, t) == t \in {"all", IF r.faulty THEN "issue" ELSE "clean"}

\* What the studio groups by and measures: a text and the date stand for the dimensions, a
\* sum and a count for the metrics.
Dimensions == {"category", "day"}
Metrics == {"revenue", "orders"}

\* Numbers and texts may be missing; a stored text may be empty, or have blanks at its ends.
ASSUME FactsAssumption ==
  /\ IsFiniteSet(Facts) /\ NULL \notin Int
  /\ \A f \in Facts :
       /\ Belongs(f[2], f[1])
       /\ f[2].day \in Int \cup {NULL} /\ f[2].amount \in Int \cup {NULL}
       /\ f[2].returning \in {0, 1, NULL}
       /\ f[2].id \in Int /\ f[2].category \in Int \cup {NULL}

\* A visit asks for what its form offers; the limit of the studio may be any number.
ASSUME AsksAssumption ==
  /\ \A a \in PageAsks :
       a \in [user : Users, sort : {a.sort}, dir : {"asc", "desc"}, search : {a.search},
              size : Nat \ {0}]
  /\ \A a \in StudioAsks :
       a \in [user : Users, scope : Scopes, payload : {a.payload}, by : SUBSET Dimensions,
              metric : Metrics, sort : {a.sort}, dir : {"asc", "desc"}, limit : Int]
  /\ \A a \in BoardAsks :
       /\ a \in [user : Users, scope : Scopes, params : {a.params}, tiles : SUBSET Tiles,
                 fields : SUBSET OptionFields, edits : SUBSET Edits]
       /\ DOMAIN a.params = Slots
  /\ \A e \in Edits : e[1] \in Slots

ASSUME BoundsAssumption ==
  /\ GuestCap \in Nat \ {0} /\ StudioCap \in Nat \ {0} /\ TileLimit \in Nat
  /\ FirstPages \subseteq Nat \ {0}
  /\ MaxInFlight \in Nat \ {0} /\ MaxChanges \in Nat

\* A normalised text and one stored as it came stand for the fields that offer options.
ASSUME DashboardAssumption ==
  /\ Tiles \subseteq {"kpis", "timeseries", "breakdown", "products", "segments"}
  /\ OptionFields \subseteq {"id", "category"}

VARIABLES
  store,    \* store[t]: the rows of each fact table
  view,     \* what the viewer has open
  ask,      \* what was asked for on opening it, and by whom
  phase,    \* where the transactions request is
  wanted,   \* the page it asks for
  fetched,  \* the rows it has read
  page,     \* the page on the screen, 0 before the first
  total,    \* the count that came with it
  screen,   \* the rows, or group labels, on the screen
  offset,   \* state.offset of the studio
  more,     \* state.hasMore, by which the Next button is enabled
  back,     \* the Previous button is enabled
  ready,    \* the Run button is enabled
  flight,   \* the offsets of its requests in flight
  failed,   \* one of them has failed
  serial,   \* it never had two in flight
  tiles,    \* the tiles of the dashboard that were answered
  inputs,   \* what its filter inputs hold, applied or not
  options,  \* the values offered for an input, by its field
  under,    \* history: the conditions they were offered under, if in this scope
  chosen,   \* history: the value picked, if the other inputs were still those
  picked,   \* history: the same of the filters in force
  shown,    \* history: what each page or offset has shown
  start,    \* history: the rows that matched when the visit began
  changes,  \* history: how often the table has changed since then
  kept      \* history: nothing was cleared from it since then

pager == <<phase, wanted, fetched, page, total>>
studio == <<offset, more, back, ready, flight, failed, serial>>
panel == <<inputs, options, under, chosen, picked>>
board == <<tiles, panel>>
opened == <<view, ask, start>>
vars == <<store, opened, pager, studio, board, screen, shown, changes, kept>>

Rows == {f[2] : f \in Facts}
Sortable == {"day", "amount"}

(* What the visit selects. *)

TableOf(v, a) == IF v = "pages" THEN "clean" ELSE ScopeTable(ResolveScope(a.scope, a.user))
Viewed == TableOf(view, ask)

\* The rows of the store s that a visit with arguments a selects.
Selected(s, v, a) ==
  LET S == s[TableOf(v, a)]
  IN  CASE v = "pages" -> Searched(S, a.user, a.search)
        [] v = "studio" -> AdHocWhere(S, a.user, a.by, a.payload)
        [] v = "board" -> Where(S, a.user, ParseFilters(a.params))

Matching == Selected(store, view, ask)

Init ==
  /\ store = [t \in Tables |-> {}]
  /\ view = "none" /\ ask = NULL /\ start = {}
  /\ phase = "idle" /\ wanted = 0 /\ fetched = {} /\ page = 0 /\ total = 0
  /\ offset = 0 /\ more = FALSE /\ back = FALSE /\ ready = TRUE /\ flight = <<>>
  /\ failed = FALSE /\ serial = TRUE
  /\ tiles = <<>> /\ inputs = <<>>
  /\ options = [f \in OptionFields |-> {}] /\ under = [f \in OptionFields |-> {}]
  /\ chosen = NULL /\ picked = NULL
  /\ screen = {} /\ shown = <<>> /\ changes = 0 /\ kept = TRUE

\* The visit ends, or its first request does without an answer.
Leave ==
  /\ view # "none"
  /\ view' = "none" /\ ask' = NULL /\ start' = {}
  /\ phase' = "idle" /\ wanted' = 0 /\ fetched' = {} /\ page' = 0 /\ total' = 0
  /\ offset' = 0 /\ more' = FALSE /\ back' = FALSE /\ ready' = TRUE /\ flight' = <<>>
  /\ failed' = FALSE /\ serial' = TRUE
  /\ tiles' = <<>> /\ inputs' = <<>>
  /\ options' = [f \in OptionFields |-> {}] /\ under' = [f \in OptionFields |-> {}]
  /\ chosen' = NULL /\ picked' = NULL
  /\ screen' = {} /\ shown' = <<>> /\ changes' = 0 /\ kept' = TRUE
  /\ UNCHANGED store

Open(v, a) ==
  /\ view = "none"
  /\ view' = v /\ ask' = a
  /\ start' = Selected(store, v, a)
  /\ UNCHANGED <<store, screen, shown, changes, kept>>

Show(key, items) ==
  /\ screen' = items
  /\ shown' = [k \in DOMAIN shown \cup {key} |->
                 IF k \notin DOMAIN shown THEN items
                 ELSE IF k = key THEN shown[k] \cup items ELSE shown[k]]

(* Loads. *)

\* During a visit only the table it looks at is of interest.
Changed(t) ==
  /\ view # "none" => t = Viewed /\ changes < MaxChanges
  /\ changes' = IF view = "none" THEN 0 ELSE changes + 1

InsertFact(t, r) ==
  /\ r \notin store[t]
  /\ store' = [store EXCEPT ![t] = @ \cup {r}]
  /\ Changed(t)
  /\ UNCHANGED <<opened, pager, studio, board, screen, shown, kept>>

ClearFacts(t, n) ==
  /\ \E r \in store[t] : r.tenant = n
  /\ store' = [store EXCEPT ![t] = {r \in @ : r.tenant # n}]
  /\ Changed(t)
  /\ kept' = (view = "none")
  /\ UNCHANGED <<opened, pager, studio, board, screen, shown>>

(* The transactions page. *)

\* The web page falls back to the date where the API refuses the sort column.
SortColumn(sort) == IF sort \in Sortable THEN sort ELSE "day"

PageSize(u, size) == IF u.role = "GUEST" /\ size > GuestCap THEN GuestCap ELSE size

\* Variant: pages counted from zero.
OffsetFromZero(p, size) == p * size

OffsetOf(p, size) == (p - 1) * size

TotalPages(count, size) == IF count = 0 THEN 1 ELSE (count + size - 1) \div size

\* Variant: there is always a page before.
HasPrevEver == page >= 1

HasPrev == page > 1
HasNext == page < TotalPages(total, ask.size)

OpenPages(a, p) ==
  /\ Open("pages", [a EXCEPT !.sort = SortColumn(@), !.size = PageSize(a.user, @)])
  /\ phase' = "rows" /\ wanted' = p
  /\ UNCHANGED <<fetched, page, total, studio, board>>

\* Variant: the total is taken before the rows.
StatementsCountFirst == <<"count", "rows">>

\* The two statements of a request, in this order.
Statements == <<"rows", "count">>
After(p) == IF p = Statements[1] THEN Statements[2] ELSE "render"

ReadRows ==
  /\ phase = "rows"
  /\ \E P \in Pages(Matching, [r \in Matching |-> r[ask.sort]], ask.dir,
                    ask.size, OffsetOf(wanted, ask.size)) : fetched' = P
  /\ phase' = After("rows")
  /\ UNCHANGED <<store, opened, wanted, page, total, studio, board, screen, shown, changes, kept>>

CountRows ==
  /\ phase = "count"
  /\ total' = Cardinality(Matching)
  /\ phase' = After("count")
  /\ UNCHANGED <<store, opened, wanted, fetched, page, studio, board, screen, shown, changes, kept>>

\* The table and its links replace what was on the screen.
Render ==
  /\ phase = "render"
  /\ page' = wanted /\ Show(wanted, fetched) /\ fetched' = {}
  /\ phase' = "shown"
  /\ UNCHANGED <<store, opened, wanted, total, studio, board, changes, kept>>

\* A statement of a later page fails: the fragment is not swapped in.
RequestFails ==
  /\ phase \in {"rows", "count"} /\ page # 0
  /\ phase' = "shown" /\ wanted' = page /\ fetched' = {}
  /\ UNCHANGED <<store, opened, page, total, studio, board, screen, shown, changes, kept>>

\* The Previous and Next buttons.
TurnPage ==
  /\ phase = "shown"
  /\ \/ HasPrev /\ wanted' = page - 1
     \/ HasNext /\ wanted' = page + 1
  /\ phase' = "rows"
  /\ UNCHANGED <<store, opened, fetched, page, total, studio, board, screen, shown, changes, kept>>

(* The studio. *)

Clamp(limit) == CASE limit < 1 -> 1 [] limit > StudioCap -> StudioCap [] OTHER -> limit

\* What is not selected cannot be sorted by.
SortKey(a) == IF a.sort \in a.by \cup {a.metric} THEN a.sort ELSE a.metric

\* The values the groups are ordered by.
Measure(S, a) ==
  [g \in Labels(S, a.by) |->
     CASE a.sort = "revenue" -> Revenue(Members(S, g))
       [] a.sort = "orders" -> Cardinality(Members(S, g))
       [] OTHER -> g[a.sort]]

OpenStudio(a) ==
  /\ Open("studio", [a EXCEPT !.sort = SortKey(a), !.limit = Clamp(@)])
  /\ flight' = <<0>> /\ ready' = FALSE
  /\ UNCHANGED <<offset, more, back, failed, serial, pager, board>>

\* Variant: no extra row is fetched.
FetchExactly(limit) == limit

FetchLimit(limit) == limit + 1

\* Variant: the offset stays where the buttons left it.
AnswerKeepsOffset(i) ==
  /\ ~Fails(AdHocFilters(ask.payload))
  /\ \E o \in Orderings(Labels(Matching, ask.by), Measure(Matching, ask), ask.dir) :
       /\ more' = (Cardinality(Cut(o, FetchLimit(ask.limit), flight[i])) > ask.limit)
       /\ Show(flight[i], Cut(o, ask.limit, flight[i]))
  /\ back' = (offset # 0) /\ ready' = TRUE
  /\ flight' = RemoveAt(flight, i)
  /\ UNCHANGED <<store, opened, offset, failed, serial, pager, board, changes, kept>>

\* An answer arrives and overwrites rows, offset and hasMore, whichever it is.
Answer(i) ==
  /\ ~Fails(AdHocFilters(ask.payload))
  /\ \E o \in Orderings(Labels(Matching, ask.by), Measure(Matching, ask), ask.dir) :
       /\ more' = (Cardinality(Cut(o, FetchLimit(ask.limit), flight[i])) > ask.limit)
       /\ Show(flight[i], Cut(o, ask.limit, flight[i]))
  /\ offset' = flight[i]
  /\ back' = (flight[i] # 0) /\ ready' = TRUE
  /\ flight' = RemoveAt(flight, i)
  /\ UNCHANGED <<store, opened, failed, serial, pager, board, changes, kept>>

\* A request fails: a message replaces the table, offset and buttons stay.
AnswerFails(i) ==
  /\ screen' = {} /\ failed' = TRUE /\ ready' = TRUE
  /\ flight' = RemoveAt(flight, i)
  /\ UNCHANGED <<store, opened, offset, more, back, serial, pager, board, shown, changes, kept>>

\* Each button blanks the table and sends a request for the offset it leaves, whatever
\* is in flight.
Request ==
  /\ view = "studio" /\ Len(flight) < MaxInFlight
  /\ flight' = Append(flight, offset')
  /\ screen' = {} /\ ready' = FALSE
  /\ serial' = (serial /\ flight = <<>>)
  /\ UNCHANGED <<store, opened, more, back, failed, pager, board, shown, changes, kept>>

\* Previous and Next.
Step ==
  /\ \/ back /\ offset > 0 /\ offset' = IF offset > ask.limit THEN offset - ask.limit ELSE 0
     \/ more /\ offset + ask.limit <= MaxOffset /\ offset' = offset + ask.limit
  /\ Request

\* Run, which a request disables until some answer enables it again.
RunAgain == ready /\ offset' = 0 /\ Request

(* The dashboard. *)

\* The page opens, or is refreshed for the first time with these filters.
OpenBoard(a) ==
  /\ Open("board", a)
  /\ inputs' = a.params
  /\ UNCHANGED <<pager, studio, tiles, options, under, chosen, picked>>

\* Variant: the segments leave the filters out.
TileResultsUnfiltered(t) ==
  CASE t = "segments" -> {Segments(Where(store[Viewed], ask.user, <<>>))}
    [] OTHER -> {{Matching}}

\* What the statement behind a tile may return: the classes of rows it aggregates.
TileResults(t) ==
  CASE t = "kpis" -> {{Matching}}
    [] t = "timeseries" -> {GroupBy(Matching, {"day"})}
    [] t = "breakdown" -> Top(GroupBy(Matching, {"category"}), TileLimit)
    [] t = "products" -> Top(GroupByProduct(Matching), TileLimit)
    [] t = "segments" -> {Segments(Matching)}

\* The statements of a refresh are sent together and run in any order.
ReadTile(t) ==
  /\ view = "board" /\ t \in ask.tiles \ DOMAIN tiles
  /\ ~Fails(ParseFilters(ask.params))
  /\ \E result \in TileResults(t) : tiles' = [x \in DOMAIN tiles \cup {t} |-> IF x = t THEN result ELSE tiles[x]]
  /\ UNCHANGED <<store, opened, panel, pager, studio, screen, shown, changes, kept>>

\* The conditions of the inputs but for that of a field, which does not narrow its options.
InputOf(f) == <<f, "=">>
OtherFilters(params, f) == Restrict(ParseFilters(params), DOMAIN ParseFilters(params) \ {InputOf(f)})

\* Variant: the options always come from the clean table.
OptionRowsOfClean(params, f) == Where(store["clean"], ask.user, OtherFilters(params, f))

OptionRows(params, f) == Where(store[Viewed], ask.user, OtherFilters(params, f))

\* Of the values the text typed so far occurs in, the first ones are offered; when the
\* statement fails, the list stays as it is.
AskOptions(f) ==
  /\ view = "board" /\ f \in ask.fields
  /\ ~Fails(OtherFilters(inputs, f))
  /\ \E V \in SUBSET ({r[f] : r \in OptionRows(inputs, f)} \ {NULL, EmptyText}) :
       \E offered \in Pages(V, [v \in V |-> v], "asc", OptionLimit, 0) :
         options' = [options EXCEPT ![f] = offered]
  /\ under' = [under EXCEPT ![f] = {OtherFilters(inputs, f)}]
  /\ UNCHANGED <<store, opened, tiles, inputs, chosen, picked, pager, studio, screen, shown,
                 changes, kept>>

PickOption(f, v) ==
  /\ view = "board" /\ v \in options[f]
  /\ inputs' = [inputs EXCEPT ![InputOf(f)] = v]
  /\ chosen' = IF OtherFilters(inputs, f) \in under[f] THEN v ELSE NULL
  /\ UNCHANGED <<store, opened, tiles, options, under, picked, pager, studio, screen, shown,
                 changes, kept>>

EditInput(slot, value) ==
  /\ view = "board" /\ <<slot, value>> \in ask.edits
  /\ inputs' = [inputs EXCEPT ![slot] = value]
  /\ chosen' = NULL
  /\ UNCHANGED <<store, opened, tiles, options, under, picked, pager, studio, screen, shown,
                 changes, kept>>

\* The Apply button and the scope buttons, which a normal user finds disabled: the inputs
\* come into force and the dashboard is refreshed.  Lists of options stay as they are.
Refresh(scope) ==
  /\ view = "board" /\ (ask.user.role = "NORMAL" => scope = ask.scope)
  /\ ask' = [ask EXCEPT !.scope = scope, !.params = inputs]
  /\ start' = Selected(store, view, ask')
  /\ tiles' = <<>> /\ changes' = 0
  /\ IF scope = ask.scope
     THEN picked' = chosen /\ UNCHANGED <<under, chosen>>
     ELSE picked' = NULL /\ chosen' = NULL /\ under' = [f \in OptionFields |-> {}]
  /\ UNCHANGED <<store, view, inputs, options, pager, studio, screen, shown, kept>>

Next ==
  \/ \E f \in Facts : InsertFact(f[1], f[2])
  \/ \E t \in Tables, u \in Users : ClearFacts(t, u.tenant)
  \/ Leave
  \/ \E a \in PageAsks, p \in FirstPages : OpenPages(a, p)
  \/ ReadRows \/ CountRows \/ Render \/ RequestFails \/ TurnPage
  \/ \E a \in StudioAsks : OpenStudio(a)
  \/ \E i \in DOMAIN flight : Answer(i) \/ AnswerFails(i)
  \/ Step \/ RunAgain
  \/ \E a \in BoardAsks : OpenBoard(a)
  \/ \E t \in Tiles : ReadTile(t)
  \/ \E f \in OptionFields : AskOptions(f) \/ \E v \in options[f] : PickOption(f, v)
  \/ \E e \in Edits : EditInput(e[1], e[2])
  \/ \E scope \in Scopes : Refresh(scope)

Spec == Init /\ [][Next]_vars

------------------------------------------------------------------------------
(* Types. *)

TypeOK ==
  /\ store \in [Tables -> SUBSET Rows]
  /\ view \in {"none", "pages", "studio", "board"}
  /\ view # "none" => ask.user \in Users
  /\ phase \in {"idle", "rows", "count", "render", "shown"}
  /\ phase # "idle" <=> view = "pages"
  /\ wanted \in Nat
  /\ view = "pages" => wanted >= 1 /\ (phase = "shown" => page = wanted)
  /\ page \in Nat /\ total \in Nat /\ offset \in Nat
  /\ fetched \subseteq Rows /\ start \subseteq Rows
  /\ flight \in Seq(Nat) /\ Len(flight) <= MaxInFlight
  /\ DOMAIN tiles \subseteq Tiles /\ \A t \in DOMAIN tiles : tiles[t] \subseteq SUBSET Rows
  /\ more \in BOOLEAN /\ back \in BOOLEAN /\ ready \in BOOLEAN
  /\ failed \in BOOLEAN /\ serial \in BOOLEAN
  /\ view = "board" => DOMAIN inputs = Slots
  /\ options \in [OptionFields -> SUBSET Int] /\ DOMAIN under = OptionFields
  /\ chosen \in Int \cup {NULL} /\ picked \in Int \cup {NULL}
  /\ changes \in 0..MaxChanges /\ kept \in BOOLEAN

(* What the answers show. *)

Mine(r) ==
  /\ r.tenant = ask.user.tenant
  /\ ask.user.role = "NORMAL" => r.owner = ask.user.id /\ ~r.faulty

\* Whatever is asked of whichever table, with any scope, filter or search, at any moment
\* of a load: no row of another tenant is shown or aggregated, and a normal user sees
\* nothing but clean rows of their own (analytics/router.py:48, queries.py:182).
AnswersInScope ==
  /\ \A r \in fetched : Mine(r)
  /\ view = "pages" => \A r \in screen : Mine(r)
  /\ \A t \in DOMAIN tiles : \A c \in tiles[t] : \A r \in c : Mine(r)
  /\ view = "studio" /\ kept =>
       \A g \in screen : \E r \in store[Viewed] : Mine(r) /\ Label(r, ask.by) = g

Seen == UNION {shown[k] : k \in DOMAIN shown}
AtEnd == phase = "shown" /\ ~HasNext

\* No other row of S has its sort value.
Untied(r, S) == \A x \in S : x[ask.sort] = r[ask.sort] => x = r

\* A viewer who goes from the first page to one without a next link has seen every row
\* that matched when they began and is alone with its sort value, whatever loads add in
\* between: additions push rows to later pages only, and the total is counted after the
\* rows were read (analytics/service.py:326 promises no gaps).
NothingSkipped ==
  AtEnd /\ kept /\ 1 \in DOMAIN shown => \A r \in start : Untied(r, Matching) => r \in Seen

\* While the table does not change, a row shown on two pages shares its sort value with
\* another: ties are the only way pages overlap (analytics/queries.py:613 calls the order
\* deterministic).
RepeatsOnlyAtTies ==
  view = "pages" /\ changes = 0 =>
    \A p, q \in DOMAIN shown : p # q =>
      \A r \in shown[p] \cap shown[q] : ~Untied(r, Matching)

\* The total shown covers the page it came with unless rows were cleared, and while the
\* table does not change the next link is there exactly when rows are left.
PagerFollowsRows ==
  phase = "shown" /\ kept =>
    /\ screen # {} => OffsetOf(page, ask.size) + Cardinality(screen) <= total
    /\ changes = 0 => (HasNext <=> Cardinality(Matching) > page * ask.size)

Settled == view = "studio" /\ flight = <<>>
UntiedGroup(g) ==
  \A h \in Labels(Matching, ask.by) :
    Measure(Matching, ask)[h] = Measure(Matching, ask)[g] => h = g

\* A studio user who waits for each answer and goes on while hasMore says so has seen, at
\* the end, every group there was in the beginning that no other ties with: in a table
\* that does not change, and when groups are ordered by a dimension also while it grows
\* (analytics/service.py:410, slice_dice.js:631).
GroupsNotSkipped ==
  Settled /\ serial /\ ~failed /\ ~more /\ kept /\ (changes = 0 \/ ask.sort \in ask.by) =>
    \A g \in Labels(start, ask.by) : UntiedGroup(g) => g \in Seen

\* Answers may come in any order, but the groups on the screen are always of the offset
\* that Previous and Next count from, and both buttons are of that offset too: in a table
\* that has not changed, Next is enabled exactly when groups are left
\* (slice_dice.js:557-572).
ScreenIsOfOffset ==
  view = "studio" /\ screen # {} =>
    /\ offset \in DOMAIN shown /\ screen \subseteq shown[offset]
    /\ back <=> offset # 0
    /\ changes = 0 => (more <=> Cardinality(Labels(Matching, ask.by)) > offset + ask.limit)

\* Rows a tile has to count: the segments know no row without the flag.
Counted(t) == {r \in start : t = "segments" => r.returning # NULL}

\* Each tile of a refresh is computed at a moment of its own, yet all of them count every
\* row there was in the beginning, once, and none that is not there now, unless rows were
\* cleared or LIMIT cut the groups: in a table at rest, all tiles agree
\* (dashboard.html:541, analytics/service.py:28-287).
TilesBetween ==
  view = "board" /\ kept =>
    \A t \in DOMAIN tiles :
      /\ UNION tiles[t] \subseteq Matching
      /\ \A c, d \in tiles[t] : c # d => c \cap d = {}
      /\ Cardinality(tiles[t]) < TileLimit \/ t \notin {"breakdown", "products"}
           => Counted(t) \subseteq UNION tiles[t]

\* A value offered for a filter and put into force beside the filters it was offered for
\* leaves something to show, whatever was typed, offered or loaded in between, provided
\* that it has no blanks at its ends: options are read from the same table under the same
\* scope and the other inputs (analytics/router.py:324, dashboard.html:643).
OptionsAreLive ==
  picked # NULL /\ Strip(picked) = picked /\ kept /\ "kpis" \in DOMAIN tiles =>
    UNION tiles["kpis"] # {}
=============================================================================
