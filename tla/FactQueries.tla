------------------------------ MODULE FactQueries ------------------------------
(***************************************************************************)
(* What the analytics statements return: the query builders of              *)
(* analytics/queries.py with the filters of analytics/filters.py, the scope *)
(* tables of analytics/tables.py and the endpoints' own arguments.          *)
(*                                                                         *)
(* An aggregate is modelled as the set of rows it was computed from, a page *)
(* as the set of items on it.  SQL's three-valued logic and the place of    *)
(* NULLs in an order are modelled by what ClickHouse does.                  *)
(*                                                                         *)
(* Definitions whose comment starts with "Variant" are altered copies of    *)
(* the definition after them, used by no specification.                     *)
(***************************************************************************)
EXTENDS Integers, Sequences, FiniteSetsExt, Functions, TLC

CONSTANTS
  NULL,     \* SQL's NULL; also no search text
  Absent,   \* a query parameter that is missing or empty
  Blank,    \* a flag, number or date of blanks only
  Junk,     \* one that reads as no flag, number or date
  EmptyText,
  Stripped  \* a text with blanks at its ends |-> the text without them

\* Texts are numbered in their order.
ASSUME TextsAssumption ==
  /\ EmptyText \in Int /\ NULL \notin Int /\ Absent \notin Int
  /\ DOMAIN Stripped \subseteq Int \ {EmptyText}
  /\ \A text \in DOMAIN Stripped : Stripped[text] \in Int \ DOMAIN Stripped

Strip(text) == IF text \in DOMAIN Stripped THEN Stripped[text] ELSE text

(* Scopes. *)

Scopes == {"clean", "issues", "all"}
Tables == {"clean", "issue", "all"}

\* Variant: the role is not looked at.
ScopeAsAsked(scope, u) == scope

ResolveScope(scope, u) == IF u.role = "NORMAL" THEN "clean" ELSE scope

ScopeTable(scope) ==
  CASE scope = "clean" -> "clean"
    [] scope = "issues" -> "issue"
    [] OTHER -> "all"

(* Filters.  A parameter map gives each slot, a field and a comparison, its  *)
(* raw value; the slots whose value survives the parsing are the conditions  *)
(* of the WHERE clause.                                                      *)

TextFields == {"id", "category"}
Slots == { <<"id", "=">>, <<"category", "=">>, <<"returning", "=">>, <<"amount", ">=">>,
           <<"amount", "<=">>, <<"day", ">=">>, <<"day", "<=">> }

\* A text that is not blank, a flag or number that can be read, any date at all.
Kept(slot, raw) ==
  CASE slot[1] \in TextFields -> raw # Absent /\ Strip(raw) # EmptyText
    [] slot[1] = "day" -> raw # Absent
    [] OTHER -> raw \notin {Absent, Blank, Junk}

ParseFilters(params) ==
  [s \in {s \in DOMAIN params : Kept(s, params[s])} |->
     IF s[1] \in TextFields THEN Strip(params[s]) ELSE params[s]]

\* The ad-hoc payload has entries of its own: a list of texts or one text, an exact number
\* or a range.  What its form leaves out is not in its domain.
AdHocSlots == { <<"category", "in">>, <<"category", "=">>, <<"returning", "=">>,
                <<"amount", "=">>, <<"amount", ">=">>, <<"amount", "<=">>,
                <<"day", ">=">>, <<"day", "<=">> }

AdHocKept(slot, raw) ==
  CASE slot = <<"category", "in">> -> \E text \in raw : Strip(text) # EmptyText
    [] slot = <<"category", "=">> -> raw # Absent /\ Strip(raw) # EmptyText
    [] slot[1] \in {"returning", "amount"} -> raw \notin {Absent, Blank, Junk}
    [] slot[1] = "day" -> raw # Absent

AdHocFilters(payload) ==
  [s \in {s \in DOMAIN payload : AdHocKept(s, payload[s])} |->
     CASE s[2] = "in" -> {Strip(text) : text \in payload[s]} \ {EmptyText}
       [] s = <<"category", "=">> -> Strip(payload[s])
       [] OTHER -> payload[s]]

\* parseDateTimeBestEffort raises on what is no date: the statement fails.
Unreadable(s, value) == s[1] = "day" /\ value \in {Blank, Junk}
Fails(conditions) == \E s \in DOMAIN conditions : Unreadable(s, conditions[s])

\* A comparison with NULL is not true.
Holds(r, s, value) ==
  /\ r[s[1]] # NULL /\ ~Unreadable(s, value)
  /\ CASE s[2] = "=" -> r[s[1]] = value
       [] s[2] = "in" -> r[s[1]] \in value
       [] s[2] = ">=" -> r[s[1]] >= value
       [] s[2] = "<=" -> r[s[1]] <= value

Passes(r, conditions) == \A s \in DOMAIN conditions : Holds(r, s, conditions[s])

\* Variant: the owner condition is forgotten.
WhereOfTenant(S, u, conditions) ==
  {r \in S : r.tenant = u.tenant /\ Passes(r, conditions)}

Where(S, u, conditions) ==
  {r \in S : /\ r.tenant = u.tenant
             /\ u.role = "NORMAL" => r.owner = u.id
             /\ Passes(r, conditions)}

\* Variant: the studio's query forgets the owner.
AdHocWhereOfTenant(S, u, by, payload) ==
  {r \in S : r.tenant = u.tenant /\ Passes(r, AdHocFilters(payload)) /\ ("day" \in by => r.day # NULL)}

\* The studio's query writes its own conditions, and groups no row by a missing date.
AdHocWhere(S, u, by, payload) ==
  {r \in S : /\ r.tenant = u.tenant
             /\ u.role = "NORMAL" => r.owner = u.id
             /\ Passes(r, AdHocFilters(payload))
             /\ "day" \in by => r.day # NULL}

\* The search for a transaction id: exact, or any text that occurs in it.
Found(r, search) ==
  \/ search = NULL
  \/ search # NULL /\ search.mode = "exact" /\ r.id = search.text
  \/ search # NULL /\ search.mode = "contains" /\ search.text \in r.parts

Searched(S, u, search) == {r \in Where(S, u, <<>>) : Found(r, search)}

(* Orders.  ORDER BY leaves the order of equal values open, and every        *)
(* statement may settle it differently.  NULLs come last in both directions. *)

Precedes(a, b, dir) ==
  /\ a # NULL
  /\ \/ b = NULL
     \/ b # NULL /\ dir = "asc" /\ a < b
     \/ b # NULL /\ dir = "desc" /\ b < a

Orderings(S, key, dir) ==
  {o \in [1..Cardinality(S) -> S] :
     \A i, j \in 1..Cardinality(S) : i < j => o[i] # o[j] /\ ~Precedes(key[o[j]], key[o[i]], dir)}

\* Variant: the cut begins one early.
CutFromBefore(o, limit, offset) == {o[i] : i \in (offset .. offset + limit) \cap DOMAIN o}

\* LIMIT limit OFFSET offset
Cut(o, limit, offset) == {o[i] : i \in (offset + 1 .. offset + limit) \cap DOMAIN o}

\* What a statement that sorts S and cuts the result may return.
Pages(S, key, dir, limit, offset) == {Cut(o, limit, offset) : o \in Orderings(S, key, dir)}

(* Aggregates: a grouped statement returns classes of rows. *)

\* sum(): NULLs are skipped, and the sum of nothing but NULLs is NULL.
Revenue(S) ==
  LET paid == {r \in S : r.amount # NULL}
  IN  IF paid = {} THEN NULL ELSE FoldSet(LAMBDA r, sum : r.amount + sum, 0, paid)

\* What a row is grouped by: the values of some fields.
Label(r, by) == [d \in by |-> r[d]]
Labels(S, by) == {Label(r, by) : r \in S}
Members(S, label) == {r \in S : Label(r, DOMAIN label) = label}
GroupBy(S, by) == {Members(S, g) : g \in Labels(S, by)}

\* coalesce(product_name, ..., 'Unknown'): the unnamed rows join those of that name.
Unknown == 0
ProductOf(r) == IF r.product = NULL THEN Unknown ELSE r.product
GroupByProduct(S) == {{r \in S : ProductOf(r) = p} : p \in {ProductOf(r) : r \in S}}

\* ORDER BY revenue DESC LIMIT limit
Top(classes, limit) == Pages(classes, [c \in classes |-> Revenue(c)], "desc", limit, 0)

Segments(S) == {{r \in S : r.returning = 0}, {r \in S : r.returning = 1}}
=============================================================================
