---------------------------- MODULE AnalyticsProofs ----------------------------
(***************************************************************************)
(* Proofs about Analytics, for every set of facts, users and visits.        *)
(***************************************************************************)
EXTENDS Analytics, FoldLemmas, SequenceTheorems

(* Arithmetic. *)

LEMMA TimesGrows ==
  ASSUME NEW a \in Nat, NEW b \in Nat, NEW s \in Nat, a <= b
  PROVE  a * s <= b * s
<1>1. PICK d \in Nat : b = a + d
  BY b - a \in Nat
<1>2. b * s = a * s + d * s
  BY <1>1
<1>3. d * s \in Nat /\ a * s \in Nat
  OBVIOUS
<1> QED BY <1>2, <1>3

\* A page is not the last one exactly when rows are left after it.
LEMMA LastPage ==
  ASSUME NEW c \in Nat, NEW s \in Nat \ {0}, NEW p \in Nat \ {0}
  PROVE  p < TotalPages(c, s) <=> c > p * s
<1> DEFINE q == (c + s - 1) \div s
           m == (c + s - 1) % s
<1>1. c + s - 1 = s * q + m /\ m \in 0..(s - 1) /\ q \in Nat
  OBVIOUS
<1> HIDE DEF q, m
<1>2. p * s \in Nat /\ p * s >= s
  <2>1. 1 * s <= p * s BY TimesGrows
  <2> QED BY <2>1
<1>3. CASE c = 0
  BY <1>2, <1>3 DEF TotalPages
<1>4. CASE c # 0
  <2>1. TotalPages(c, s) = q
    BY <1>4 DEF TotalPages, q
  <2>2. ASSUME p < q PROVE c > p * s
    <3>1. (p + 1) * s <= q * s
      BY <1>1, <2>2, TimesGrows
    <3>2. (p + 1) * s = p * s + s /\ q * s = s * q
      BY <1>1
    <3> QED BY <1>1, <1>2, <3>1, <3>2
  <2>3. ASSUME q <= p PROVE c <= p * s
    <3>1. q * s <= p * s /\ q * s = s * q
      BY <1>1, <2>3, TimesGrows
    <3> QED BY <1>1, <1>2, <3>1
  <2> QED BY <1>1, <1>2, <2>1, <2>2, <2>3
<1> QED BY <1>3, <1>4

-----------------------------------------------------------------------------
(* Orders and cuts. *)

LEMMA ImageFinite ==
  ASSUME NEW S, IsFiniteSet(S), NEW f, NEW T, f \in [S -> T], \A t \in T : \E x \in S : f[x] = t
  PROVE  IsFiniteSet(T)
<1>1. f \in Surjection(S, T)
  BY DEF Surjection
<1> QED BY <1>1, FS_Surjection

LEMMA CutIsPart ==
  ASSUME NEW S, NEW o \in [1..Cardinality(S) -> S], NEW limit, NEW from
  PROVE  Cut(o, limit, from) \subseteq S
  BY DEF Cut

\* An ordering lists every element once.
LEMMA OrderingIsBijection ==
  ASSUME NEW S, IsFiniteSet(S), NEW key, NEW dir, NEW o \in Orderings(S, key, dir)
  PROVE  /\ Cardinality(S) \in Nat
         /\ o \in Bijection(1..Cardinality(S), S)
<1> DEFINE n == Cardinality(S)
<1>1. n \in Nat
  BY FS_CardinalityType
<1>2. IsFiniteSet(1..n) /\ Cardinality(1..n) = n
  BY <1>1, FS_Interval
<1>3. o \in [1..n -> S] /\ \A i, j \in 1..n : i < j => o[i] # o[j]
  BY DEF Orderings
<1>4. \A i, j \in 1..n : o[i] = o[j] => i = j
  BY <1>1, <1>3
<1>5. o \in Injection(1..n, S)
  BY <1>3, <1>4 DEF Injection, IsInjective
<1>6. o \in Surjection(1..n, S)
  BY <1>2, <1>5, FS_Injection
<1> QED BY <1>1, <1>5, <1>6 DEF Bijection

\* How many elements a cut has.
LEMMA CutSize ==
  ASSUME NEW S, IsFiniteSet(S), NEW key, NEW dir, NEW o \in Orderings(S, key, dir),
         NEW limit \in Nat, NEW from \in Nat
  PROVE  /\ IsFiniteSet(Cut(o, limit, from))
         /\ Cardinality(Cut(o, limit, from)) =
              IF Cardinality(S) >= from + limit THEN limit
              ELSE IF Cardinality(S) > from THEN Cardinality(S) - from ELSE 0
<1> DEFINE n == Cardinality(S)
           I == (from + 1 .. from + limit) \cap 1..n
           C == Cut(o, limit, from)
           m == IF n >= from + limit THEN from + limit ELSE n
<1>1. n \in Nat /\ o \in [1..n -> S] /\ \A i, j \in 1..n : o[i] = o[j] => i = j
  BY OrderingIsBijection DEF Bijection, Injection, IsInjective
<1>2. I = from + 1 .. m
  BY <1>1
<1>3. IsFiniteSet(I) /\ Cardinality(I) = IF from + 1 > m THEN 0 ELSE m - from
  <2>1. m \in Int /\ from + 1 \in Int
    BY <1>1
  <2> HIDE DEF m, I
  <2>2. /\ IsFiniteSet(from + 1 .. m)
        /\ Cardinality(from + 1 .. m) = IF from + 1 > m THEN 0 ELSE m - (from + 1) + 1
    BY <2>1, FS_Interval
  <2> QED BY <1>2, <2>1, <2>2
<1>4. C = {o[i] : i \in I}
  BY <1>1 DEF Cut
<1> DEFINE f == [i \in I |-> o[i]]
<1>5. f \in Bijection(I, C)
  BY <1>1, <1>4 DEF Bijection, Injection, Surjection, IsInjective
<1>6. IsFiniteSet(C) /\ Cardinality(C) = Cardinality(I)
  BY <1>3, <1>5, FS_Bijection DEF ExistsBijection
<1> QED BY <1>1, <1>3, <1>6

\* A page that is not empty ends within the list.
LEMMA PageFits ==
  ASSUME NEW S, IsFiniteSet(S), NEW key, NEW dir, NEW limit \in Nat, NEW from \in Nat,
         NEW P \in Pages(S, key, dir, limit, from), P # {}
  PROVE  from + Cardinality(P) <= Cardinality(S)
<1>1. PICK o \in Orderings(S, key, dir) : P = Cut(o, limit, from)
  BY DEF Pages
<1>2. /\ IsFiniteSet(Cut(o, limit, from))
      /\ Cardinality(Cut(o, limit, from)) =
           IF Cardinality(S) >= from + limit THEN limit
           ELSE IF Cardinality(S) > from THEN Cardinality(S) - from ELSE 0
  BY CutSize
<1>3. Cardinality(P) # 0 /\ Cardinality(S) \in Nat
  BY <1>1, <1>2, FS_EmptySet, FS_CardinalityType
<1> QED BY <1>1, <1>2, <1>3

\* An element that no other ties with is on a cut exactly when the number of elements that
\* precede it is within the cut.
Comparable(key, S) == \A x \in S : key[x] \in Int \cup {NULL}
Before(r, S, key, dir) == {x \in S : Precedes(key[x], key[r], dir)}

LEMMA PrecedesIrreflexive ==
  ASSUME NEW a \in Int \cup {NULL}, NEW dir \in {"asc", "desc"}
  PROVE  ~Precedes(a, a, dir)
  BY FactsAssumption DEF Precedes

LEMMA CutByRank ==
  ASSUME NEW S, IsFiniteSet(S), NEW key, Comparable(key, S), NEW dir \in {"asc", "desc"},
         NEW o \in Orderings(S, key, dir), NEW limit \in Nat, NEW from \in Nat,
         NEW r \in S, \A x \in S : key[x] = key[r] => x = r
  PROVE  /\ Cardinality(Before(r, S, key, dir)) \in Nat
         /\ Cardinality(Before(r, S, key, dir)) < Cardinality(S)
         /\ r \in Cut(o, limit, from) <=>
              /\ from <= Cardinality(Before(r, S, key, dir))
              /\ Cardinality(Before(r, S, key, dir)) < from + limit
<1> DEFINE n == Cardinality(S)
           B == Before(r, S, key, dir)
<1>1. n \in Nat /\ o \in [1..n -> S] /\ \A i, j \in 1..n : o[i] = o[j] => i = j
  BY OrderingIsBijection DEF Bijection, Injection, IsInjective
<1>2. \A x \in S : \E i \in 1..n : o[i] = x
  BY OrderingIsBijection DEF Bijection, Surjection
<1>3. \A i, j \in 1..n : i < j => ~Precedes(key[o[j]], key[o[i]], dir)
  BY DEF Orderings
<1>4. PICK k \in 1..n : o[k] = r
  BY <1>2
<1>5. B = {o[i] : i \in 1..(k - 1)}
  <2>1. ASSUME NEW i \in 1..(k - 1) PROVE o[i] \in B
    <3>1. i \in 1..n /\ i < k /\ o[i] \in S /\ o[i] # r
      BY <1>1, <1>4
    <3>2. key[o[i]] # key[r] /\ ~Precedes(key[r], key[o[i]], dir)
      BY <1>3, <1>4, <3>1
    <3>3. key[o[i]] \in Int \cup {NULL} /\ key[r] \in Int \cup {NULL}
      BY <3>1 DEF Comparable
    <3>4. Precedes(key[o[i]], key[r], dir)
      BY <3>2, <3>3, FactsAssumption DEF Precedes
    <3> QED BY <3>1, <3>4 DEF Before
  <2>2. ASSUME NEW x \in B PROVE \E i \in 1..(k - 1) : x = o[i]
    <3>1. x \in S /\ Precedes(key[x], key[r], dir)
      BY DEF Before
    <3>2. PICK i \in 1..n : o[i] = x
      BY <1>2, <3>1
    <3>3. i # k
      BY <1>4, <3>1, <3>2, FactsAssumption DEF Precedes, Comparable
    <3>4. ~(k < i)
      BY <1>3, <1>4, <3>1, <3>2
    <3> QED BY <1>1, <3>2, <3>3, <3>4
  <2> QED BY <2>1, <2>2
<1> HIDE DEF B
<1>6. Cardinality(B) = k - 1
  <2> DEFINE f == [i \in 1..(k - 1) |-> o[i]]
  <2>1. f \in Bijection(1..(k - 1), B)
    BY <1>1, <1>5 DEF Bijection, Injection, Surjection, IsInjective
  <2>2. IsFiniteSet(1..(k - 1)) /\ Cardinality(1..(k - 1)) = k - 1
    <3>1. 1 \in Int /\ k - 1 \in Int /\ ~(1 > k - 1) => k - 1 - 1 + 1 = k - 1
      BY <1>1
    <3>2. /\ IsFiniteSet(1 .. k - 1)
          /\ Cardinality(1 .. k - 1) = IF 1 > k - 1 THEN 0 ELSE k - 1 - 1 + 1
      BY <3>1, FS_Interval
    <3> QED BY <1>1, <3>2
  <2> QED BY <2>1, <2>2, FS_Bijection DEF ExistsBijection
<1>7. r \in Cut(o, limit, from) <=> k \in from + 1 .. from + limit
  BY <1>1, <1>4 DEF Cut
<1> QED BY <1>1, <1>6, <1>7 DEF B

\* A cut with fewer elements than its limit, from the start, has them all.
LEMMA ShortCutIsAll ==
  ASSUME NEW S, IsFiniteSet(S), NEW key, NEW dir, NEW o \in Orderings(S, key, dir),
         NEW limit \in Nat, Cardinality(Cut(o, limit, 0)) < limit
  PROVE  Cut(o, limit, 0) = S
<1>1. Cardinality(S) \in Nat /\ Cardinality(S) < limit
  BY CutSize, OrderingIsBijection
<1>2. o \in [1..Cardinality(S) -> S] /\ \A x \in S : \E i \in 1..Cardinality(S) : o[i] = x
  BY OrderingIsBijection DEF Bijection, Injection, Surjection
<1> QED BY <1>1, <1>2 DEF Cut

-----------------------------------------------------------------------------
(* Types. *)

StoreInv == \A t \in Tables : \A r \in store[t] : r \in Rows /\ Belongs(r, t)

AskInv ==
  /\ view = "pages" => /\ ask.sort \in Sortable /\ ask.dir \in {"asc", "desc"}
                       /\ ask.size \in Nat \ {0}
  /\ view = "studio" => /\ ask.dir \in {"asc", "desc"} /\ ask.limit \in Nat \ {0}
                        /\ ask.by \subseteq Dimensions /\ ask.sort \in ask.by \cup Metrics
  /\ view = "board" =>
       /\ ask = [user |-> ask.user, scope |-> ask.scope, params |-> ask.params,
                 tiles |-> ask.tiles, fields |-> ask.fields, edits |-> ask.edits]
       /\ DOMAIN ask.params = Slots

\* What is not open has no state.
IdleInv ==
  /\ view = "none" => /\ DOMAIN shown = {} /\ screen = {} /\ start = {} /\ page = 0
                      /\ kept /\ changes = 0 /\ serial /\ ~failed
  /\ view # "pages" => fetched = {} /\ page = 0
  /\ view # "studio" => flight = <<>> /\ offset = 0
  /\ view # "board" => /\ DOMAIN tiles = {} /\ \A f \in OptionFields : options[f] = {}
                       /\ chosen = NULL /\ picked = NULL

TypeInv == TypeOK /\ StoreInv /\ AskInv /\ IdleInv

LEMMA RowsFinite == IsFiniteSet(Rows)
<1> DEFINE f == [x \in Facts |-> x[2]]
<1>1. f \in [Facts -> Rows] /\ \A r \in Rows : \E x \in Facts : f[x] = r
  BY DEF Rows
<1>2. IsFiniteSet(Facts)
  BY FactsAssumption
<1> HIDE DEF f
<1> QED BY <1>1, <1>2, ImageFinite

LEMMA PartOfRowsFinite ==
  ASSUME NEW S \in SUBSET Rows
  PROVE  IsFiniteSet(S) /\ Cardinality(S) \in Nat
  BY RowsFinite, FS_Subset, FS_CardinalityType

LEMMA RowFields ==
  ASSUME NEW r \in Rows
  PROVE  /\ r.day \in Int \cup {NULL} /\ r.amount \in Int \cup {NULL}
         /\ r.returning \in {0, 1, NULL}
         /\ r.id \in Int /\ r.category \in Int \cup {NULL}
  BY FactsAssumption DEF Rows

LEMMA TablesOnly ==
  ASSUME NEW v, NEW a
  PROVE  TableOf(v, a) \in Tables
  BY DEF TableOf, ScopeTable, Tables

LEMMA SelectedIsPart ==
  ASSUME NEW s, NEW v \in {"pages", "studio", "board"}, NEW a
  PROVE  Selected(s, v, a) \subseteq s[TableOf(v, a)]
  BY DEF Selected, Searched, Where, AdHocWhere

LEMMA MatchingIsPart ==
  ASSUME TypeOK, view # "none"
  PROVE  Matching \subseteq store[Viewed] /\ Matching \subseteq Rows
         /\ IsFiniteSet(Matching) /\ Cardinality(Matching) \in Nat
<1>1. Matching \subseteq store[Viewed] /\ store[Viewed] \subseteq Rows
  BY SelectedIsPart, TablesOnly DEF TypeOK, Matching, Viewed
<1> QED BY <1>1, PartOfRowsFinite

LEMMA RemoveAtShortens ==
  ASSUME NEW s \in Seq(Nat), NEW i \in DOMAIN s
  PROVE  RemoveAt(s, i) \in Seq(Nat) /\ Len(RemoveAt(s, i)) = Len(s) - 1
<1>1. i \in 1..Len(s)
  OBVIOUS
<1>2. SubSeq(s, 1, i - 1) \in Seq(Nat) /\ Len(SubSeq(s, 1, i - 1)) = i - 1
  BY <1>1, SubSeqProperties
<1>3. SubSeq(s, i + 1, Len(s)) \in Seq(Nat) /\ Len(SubSeq(s, i + 1, Len(s))) = Len(s) - i
  <2>1. i + 1 \in Int /\ Len(s) \in Int /\ \A j \in i + 1 .. Len(s) : s[j] \in Nat
    BY <1>1
  <2>2. /\ SubSeq(s, i + 1, Len(s)) \in Seq(Nat)
        /\ Len(SubSeq(s, i + 1, Len(s))) = IF i + 1 <= Len(s) THEN Len(s) - (i + 1) + 1 ELSE 0
    BY <2>1, SubSeqProperties
  <2> QED BY <1>1, <2>1, <2>2
<1> DEFINE front == SubSeq(s, 1, i - 1)
           rest == SubSeq(s, i + 1, Len(s))
<1>4. RemoveAt(s, i) = front \o rest
  BY DEF RemoveAt
<1>5. /\ front \in Seq(Nat) /\ Len(front) = i - 1
      /\ rest \in Seq(Nat) /\ Len(rest) = Len(s) - i
  BY <1>2, <1>3
<1> HIDE DEF front, rest
<1>6. front \o rest \in Seq(Nat) /\ Len(front \o rest) = Len(front) + Len(rest)
  BY <1>5, ConcatProperties
<1> QED BY <1>1, <1>4, <1>5, <1>6

\* A tile shows classes of matching rows.
LEMMA TilePart ==
  ASSUME NEW t, NEW result \in TileResults(t), t \in Tiles, TypeOK, view = "board"
  PROVE  result \subseteq SUBSET Matching
<1>1. CASE t \in {"kpis", "segments"}
  BY <1>1 DEF TileResults, Segments
<1>2. CASE t = "timeseries"
  BY <1>2 DEF TileResults, GroupBy, Members
<1>3. ASSUME NEW classes \in SUBSET SUBSET Matching, result \in Top(classes, TileLimit)
      PROVE  result \subseteq SUBSET Matching
  BY <1>3, CutIsPart DEF Top, Pages, Orderings
<1>4. CASE t = "breakdown"
  <2>1. GroupBy(Matching, {"category"}) \in SUBSET SUBSET Matching
    BY DEF GroupBy, Members
  <2> QED BY <1>3, <1>4, <2>1 DEF TileResults
<1>5. CASE t = "products"
  <2>1. GroupByProduct(Matching) \in SUBSET SUBSET Matching
    BY DEF GroupByProduct
  <2> QED BY <1>3, <1>5, <2>1 DEF TileResults
<1> QED BY <1>1, <1>2, <1>4, <1>5, DashboardAssumption

LEMMA Empty == DOMAIN <<>> = {} /\ <<>> \in Seq(Nat) /\ Len(<<>>) = 0
<1>1. DOMAIN <<>> = 1..0
  OBVIOUS
<1> QED BY <1>1

\* What is done at the filter inputs short of applying them.
AtInputs ==
  \/ \E f \in OptionFields : AskOptions(f) \/ \E v \in options[f] : PickOption(f, v)
  \/ \E e \in Edits : EditInput(e[1], e[2])

LEMMA InputsAlone ==
  ASSUME AtInputs
  PROVE  /\ view = "board"
         /\ UNCHANGED <<store, opened, tiles, picked, pager, studio, screen, shown, changes, kept>>
  BY DEF AtInputs, AskOptions, PickOption, EditInput

LEMMA InputIsSlot ==
  ASSUME NEW f \in OptionFields
  PROVE  InputOf(f) \in Slots /\ InputOf(f)[1] = f /\ InputOf(f)[2] = "=" /\ f \in TextFields
  BY DashboardAssumption DEF InputOf, Slots, TextFields

\* An offered value stands in a row that meets the other conditions.
LEMMA OfferedIsStored ==
  ASSUME TypeOK, NEW f \in OptionFields, AskOptions(f), NEW v \in options'[f]
  PROVE  v \in Int \ {EmptyText} /\ \E r \in OptionRows(inputs, f) : r[f] = v
<1>1. PICK V \in SUBSET ({r[f] : r \in OptionRows(inputs, f)} \ {NULL, EmptyText}) :
        \E offered \in Pages(V, [x \in V |-> x], "asc", OptionLimit, 0) :
          options' = [options EXCEPT ![f] = offered]
  BY DEF AskOptions
<1>2. PICK o \in Orderings(V, [x \in V |-> x], "asc") : options'[f] = Cut(o, OptionLimit, 0)
  BY <1>1 DEF Pages, TypeOK
<1>3. v \in V
  BY <1>2, CutIsPart DEF Orderings
<1>4. PICK r \in OptionRows(inputs, f) : v = r[f] /\ v \notin {NULL, EmptyText}
  BY <1>1, <1>3
<1>5. r \in Rows
  BY TablesOnly DEF OptionRows, Where, Viewed, TypeOK
<1>6. r.id \in Int /\ r.category \in Int \cup {NULL} /\ f \in {"id", "category"}
  BY <1>5, RowFields, DashboardAssumption
<1> QED BY <1>4, <1>6

LEMMA StartTypes == Init => TypeInv
<1> SUFFICES ASSUME Init PROVE TypeInv
  OBVIOUS
<1>1. store \in [Tables -> SUBSET Rows] /\ StoreInv
  BY DEF Init, StoreInv
<1>2. DOMAIN shown = {} /\ DOMAIN tiles = {} /\ flight \in Seq(Nat) /\ Len(flight) = 0
  BY Empty DEF Init
<1>3. flight = <<>>
  BY DEF Init
<1>4. /\ view = "none" /\ phase = "idle" /\ fetched = {} /\ start = {} /\ screen = {}
      /\ kept /\ serial /\ ~failed /\ changes = 0 /\ offset = 0
      /\ page = 0 /\ total = 0 /\ wanted = 0
      /\ chosen = NULL /\ picked = NULL
      /\ options \in [OptionFields -> SUBSET Int] /\ \A f \in OptionFields : options[f] = {}
      /\ DOMAIN under = OptionFields
      /\ {kept, serial, failed, more, back, ready} \subseteq BOOLEAN
  BY DEF Init
<1>5. TypeOK
  BY <1>1, <1>2, <1>4, BoundsAssumption DEF TypeOK
<1>6. AskInv /\ IdleInv
  BY <1>2, <1>3, <1>4 DEF AskInv, IdleInv
<1> QED BY <1>1, <1>5, <1>6 DEF TypeInv

LEMMA TypeStep ==
  ASSUME TypeInv, [Next]_vars
  PROVE  TypeInv'
<1> USE DEF TypeInv, panel
<1>1. ASSUME NEW f \in Facts, InsertFact(f[1], f[2]) PROVE TypeInv'
  <2>1. f[2] \in Rows /\ Belongs(f[2], f[1])
    BY FactsAssumption DEF Rows
  <2>2. store' \in [Tables -> SUBSET Rows] /\ StoreInv'
    BY <1>1, <2>1 DEF InsertFact, TypeOK, StoreInv
  <2> QED BY <1>1, <2>2, BoundsAssumption
         DEF InsertFact, Changed, TypeOK, AskInv, IdleInv, opened, pager, studio, board
<1>2. ASSUME NEW t \in Tables, NEW u \in Users, ClearFacts(t, u.tenant) PROVE TypeInv'
  <2>1. store' \in [Tables -> SUBSET Rows] /\ StoreInv'
    BY <1>2 DEF ClearFacts, TypeOK, StoreInv
  <2> QED BY <1>2, <2>1, BoundsAssumption
         DEF ClearFacts, Changed, TypeOK, AskInv, IdleInv, opened, pager, studio, board
<1>3. CASE Leave
  <2>1. DOMAIN shown' = {} /\ DOMAIN tiles' = {} /\ flight' \in Seq(Nat) /\ Len(flight') = 0
    BY <1>3, Empty DEF Leave
  <2>2. flight' = <<>>
    BY <1>3 DEF Leave
  <2>3. /\ view' = "none" /\ phase' = "idle" /\ fetched' = {} /\ start' = {} /\ screen' = {}
        /\ kept' /\ serial' /\ ~failed' /\ changes' = 0 /\ offset' = 0
        /\ page' = 0 /\ total' = 0 /\ wanted' = 0 /\ store' = store
        /\ chosen' = NULL /\ picked' = NULL
        /\ options' \in [OptionFields -> SUBSET Int] /\ \A f \in OptionFields : options'[f] = {}
        /\ DOMAIN under' = OptionFields
        /\ {kept', serial', failed', more', back', ready'} \subseteq BOOLEAN
    BY <1>3 DEF Leave
  <2>4. TypeOK'
    BY <2>1, <2>3, BoundsAssumption DEF TypeOK
  <2> QED BY <2>1, <2>2, <2>3, <2>4 DEF StoreInv, AskInv, IdleInv
<1>4. ASSUME NEW a \in PageAsks, NEW p \in FirstPages, OpenPages(a, p) PROVE TypeInv'
  <2> DEFINE b == [a EXCEPT !.sort = SortColumn(@), !.size = PageSize(a.user, @)]
  <2>1. /\ b.user \in Users /\ b.sort \in Sortable /\ b.dir \in {"asc", "desc"}
        /\ b.size \in Nat \ {0}
    BY AsksAssumption, BoundsAssumption DEF SortColumn, PageSize, Sortable
  <2> HIDE DEF b
  <2>2. Selected(store, "pages", b) \subseteq Rows
    BY SelectedIsPart, TablesOnly DEF TypeOK
  <2>3. p \in Nat /\ p >= 1
    BY BoundsAssumption
  <2> QED BY <1>4, <2>1, <2>2, <2>3
         DEF OpenPages, Open, TypeOK, StoreInv, AskInv, IdleInv, studio, board, b
<1>5. CASE ReadRows
  <2>1. fetched' \subseteq Rows
    BY <1>5, MatchingIsPart, CutIsPart DEF ReadRows, Pages, Orderings, TypeOK
  <2> QED BY <1>5, <2>1
         DEF ReadRows, After, Statements, TypeOK, StoreInv, AskInv, IdleInv, opened, studio, board
<1>6. CASE CountRows
  <2>1. Cardinality(Matching) \in Nat
    BY <1>6, MatchingIsPart DEF CountRows, TypeOK
  <2> QED BY <1>6, <2>1
         DEF CountRows, After, Statements, TypeOK, StoreInv, AskInv, IdleInv, opened, studio, board
<1>7. CASE Render
  BY <1>7 DEF Render, Show, TypeOK, StoreInv, AskInv, IdleInv, opened, studio, board
<1>8. CASE RequestFails
  BY <1>8 DEF RequestFails, TypeOK, StoreInv, AskInv, IdleInv, opened, studio, board
<1>9. CASE TurnPage
  BY <1>9 DEF TurnPage, HasPrev, TypeOK, StoreInv, AskInv, IdleInv, opened, studio, board
<1>10. ASSUME NEW a \in StudioAsks, OpenStudio(a) PROVE TypeInv'
  <2> DEFINE b == [a EXCEPT !.sort = SortKey(a), !.limit = Clamp(@)]
  <2>1. /\ b.user \in Users /\ b.dir \in {"asc", "desc"} /\ b.limit \in Nat \ {0}
        /\ b.by \subseteq Dimensions /\ b.sort \in b.by \cup Metrics
    BY AsksAssumption, BoundsAssumption DEF Clamp, SortKey
  <2> HIDE DEF b
  <2>2. Selected(store, "studio", b) \subseteq Rows
    BY SelectedIsPart, TablesOnly DEF TypeOK
  <2>3. <<0>> \in Seq(Nat) /\ Len(<<0>>) = 1
    OBVIOUS
  <2>4. flight' \in Seq(Nat) /\ Len(flight') = 1
    BY <1>10, <2>3 DEF OpenStudio
  <2>5. /\ view = "none" /\ view' = "studio" /\ ask' = b /\ start' = Selected(store, "studio", b)
        /\ ready' = FALSE
        /\ UNCHANGED <<store, screen, shown, changes, kept, offset, more, back, failed, serial>>
        /\ UNCHANGED <<pager, board>>
    BY <1>10 DEF OpenStudio, Open, b
  <2>6. start' \subseteq Rows /\ ask'.user \in Users /\ Len(flight') <= MaxInFlight
    BY <2>1, <2>2, <2>4, <2>5, BoundsAssumption
  <2>7. TypeOK'
    BY <2>4, <2>5, <2>6 DEF TypeOK, pager, board
  <2>8. AskInv' /\ StoreInv'
    BY <2>1, <2>5 DEF StoreInv, AskInv
  <2>9. IdleInv'
    BY <2>5 DEF IdleInv, pager, board
  <2> QED BY <2>7, <2>8, <2>9
<1>11. ASSUME NEW i \in DOMAIN flight, Answer(i) PROVE TypeInv'
  <2>1. flight' \in Seq(Nat) /\ Len(flight') <= MaxInFlight /\ flight[i] \in Nat
    BY <1>11, RemoveAtShortens, BoundsAssumption DEF Answer, TypeOK
  <2>2. view = "studio" /\ more' \in BOOLEAN
    BY <1>11 DEF IdleInv, Answer
  <2> QED BY <1>11, <2>1, <2>2
         DEF Answer, Show, TypeOK, StoreInv, AskInv, IdleInv, opened, pager, board
<1>12. ASSUME NEW i \in DOMAIN flight, AnswerFails(i) PROVE TypeInv'
  <2>1. flight' \in Seq(Nat) /\ Len(flight') <= MaxInFlight
    BY <1>12, RemoveAtShortens, BoundsAssumption DEF AnswerFails, TypeOK
  <2>2. view = "studio"
    BY <1>12 DEF IdleInv
  <2> QED BY <1>12, <2>1, <2>2
         DEF AnswerFails, TypeOK, StoreInv, AskInv, IdleInv, opened, pager, board
<1>13. ASSUME Request, offset' \in Nat PROVE TypeInv'
  <2>1. flight' \in Seq(Nat) /\ Len(flight') <= MaxInFlight
    BY <1>13, BoundsAssumption DEF Request, TypeOK
  <2> QED BY <1>13, <2>1
         DEF Request, TypeOK, StoreInv, AskInv, IdleInv, opened, pager, board
<1>14. CASE Step \/ RunAgain
  <2>1. offset' \in Nat
    BY <1>14 DEF Step, RunAgain, Request, TypeOK, AskInv
  <2> QED BY <1>13, <1>14, <2>1 DEF Step, RunAgain
<1>15. ASSUME NEW a \in BoardAsks, OpenBoard(a) PROVE TypeInv'
  <2>1. /\ a \in [user : Users, scope : Scopes, params : {a.params}, tiles : SUBSET Tiles,
                  fields : SUBSET OptionFields, edits : SUBSET Edits]
        /\ DOMAIN a.params = Slots
    BY AsksAssumption
  <2>2. Selected(store, "board", a) \subseteq Rows
    BY SelectedIsPart, TablesOnly DEF TypeOK
  <2> QED BY <1>15, <2>1, <2>2
         DEF OpenBoard, Open, TypeOK, StoreInv, AskInv, IdleInv, pager, studio, board
<1>16. ASSUME NEW t \in Tiles, ReadTile(t) PROVE TypeInv'
  <2>1. PICK result \in TileResults(t) :
          tiles' = [x \in DOMAIN tiles \cup {t} |-> IF x = t THEN result ELSE tiles[x]]
    BY <1>16 DEF ReadTile
  <2>2. result \subseteq SUBSET Rows
    BY <1>16, TilePart, MatchingIsPart DEF ReadTile
  <2> QED BY <1>16, <2>1, <2>2
         DEF ReadTile, TypeOK, StoreInv, AskInv, IdleInv, opened, pager, studio
<1>17. CASE AtInputs
  <2>1. view = "board" /\ DOMAIN inputs = Slots
    BY <1>17, InputsAlone DEF TypeOK
  <2>2. /\ options' \in [OptionFields -> SUBSET Int] /\ DOMAIN under' = OptionFields
        /\ chosen' \in Int \cup {NULL} /\ DOMAIN inputs' = Slots
    <3>1. ASSUME NEW f \in OptionFields, AskOptions(f)
          PROVE  options' \in [OptionFields -> SUBSET Int]
      <4>1. options'[f] \subseteq Int
        BY <3>1, OfferedIsStored
      <4>2. PICK offered : options' = [options EXCEPT ![f] = offered]
        BY <3>1 DEF AskOptions
      <4> QED BY <4>1, <4>2 DEF TypeOK
    <3>2. ASSUME NEW f \in OptionFields, NEW v \in options[f], PickOption(f, v)
          PROVE  chosen' \in Int \cup {NULL} /\ DOMAIN inputs' = Slots /\ UNCHANGED <<options, under>>
      BY <2>1, <3>2 DEF PickOption, TypeOK
    <3>3. ASSUME NEW f \in OptionFields, AskOptions(f)
          PROVE  DOMAIN under' = OptionFields /\ UNCHANGED <<inputs, chosen>>
      BY <3>3 DEF AskOptions, TypeOK
    <3>4. ASSUME NEW e \in Edits, EditInput(e[1], e[2])
          PROVE  chosen' = NULL /\ DOMAIN inputs' = Slots /\ UNCHANGED <<options, under>>
      BY <2>1, <3>4 DEF EditInput
    <3> QED BY <1>17, <2>1, <3>1, <3>2, <3>3, <3>4 DEF AtInputs, TypeOK
  <2> QED BY <1>17, <2>1, <2>2, InputsAlone
         DEF TypeOK, StoreInv, AskInv, IdleInv, opened, pager, studio
<1>18. ASSUME NEW scope \in Scopes, Refresh(scope) PROVE TypeInv'
  <2>1. view = "board" /\ DOMAIN inputs = Slots
    BY <1>18 DEF Refresh, TypeOK
  <2>2. ask = [user |-> ask.user, scope |-> ask.scope, params |-> ask.params,
               tiles |-> ask.tiles, fields |-> ask.fields, edits |-> ask.edits]
    BY <2>1 DEF AskInv
  <2>3. ask' = [user |-> ask.user, scope |-> scope, params |-> inputs,
                tiles |-> ask.tiles, fields |-> ask.fields, edits |-> ask.edits]
    BY <1>18, <2>2 DEF Refresh
  <2>4. start' \subseteq Rows /\ DOMAIN tiles' = {}
    BY <1>18, <2>1, Empty, SelectedIsPart, TablesOnly DEF Refresh, TypeOK
  <2>5. /\ DOMAIN under' = OptionFields
        /\ chosen' \in Int \cup {NULL} /\ picked' \in Int \cup {NULL}
    BY <1>18 DEF Refresh, TypeOK
  <2>6. UNCHANGED <<store, view, inputs, options, pager, studio, screen, shown, kept>> /\ changes' = 0
    BY <1>18 DEF Refresh
  <2>7. TypeOK'
    BY <2>1, <2>3, <2>4, <2>5, <2>6, BoundsAssumption DEF TypeOK, pager, studio
  <2> QED BY <2>1, <2>3, <2>6, <2>7 DEF StoreInv, AskInv, IdleInv, pager, studio
<1>19. CASE UNCHANGED vars
  BY <1>19 DEF vars, opened, pager, studio, board, TypeOK, StoreInv, AskInv, IdleInv
<1> QED BY <1>1, <1>2, <1>3, <1>4, <1>5, <1>6, <1>7, <1>8, <1>9, <1>10, <1>11, <1>12, <1>14,
           <1>15, <1>16, <1>17, <1>18, <1>19 DEF Next, AtInputs

LEMMA TypeAlways == Spec => []TypeInv
  BY StartTypes, TypeStep, PTL DEF Spec

\* TypeOK: every variable keeps its type, through every visit and every load.
THEOREM TypeCorrect == Spec => []TypeOK
<1>1. TypeInv => TypeOK
  BY DEF TypeInv
<1> QED BY <1>1, TypeAlways, PTL

-----------------------------------------------------------------------------
(* Whose rows are shown. *)

\* What a visit selects is its user's to see, in whatever table it looks.
LEMMA SelectedIsMine ==
  ASSUME TypeInv, NEW v \in {"pages", "studio", "board"}, NEW a, NEW r \in Selected(store, v, a)
  PROVE  /\ r.tenant = a.user.tenant
         /\ a.user.role = "NORMAL" => r.owner = a.user.id /\ ~r.faulty
<1>1. r.tenant = a.user.tenant /\ (a.user.role = "NORMAL" => r.owner = a.user.id)
  BY DEF Selected, Searched, Where, AdHocWhere
<1>2. ASSUME a.user.role = "NORMAL" PROVE ~r.faulty
  <2>1. TableOf(v, a) = "clean"
    BY <1>2 DEF TableOf, ResolveScope, ScopeTable
  <2>2. r \in store["clean"] /\ "clean" \in Tables
    BY <2>1, SelectedIsPart DEF Tables
  <2>3. Belongs(r, "clean")
    BY <2>2 DEF TypeInv, StoreInv
  <2> QED BY <2>3 DEF Belongs
<1> QED BY <1>1, <1>2

LEMMA MatchingIsMine ==
  ASSUME TypeInv, view # "none"
  PROVE  \A r \in Matching : Mine(r) /\ r \in store[Viewed]
  BY SelectedIsMine, MatchingIsPart DEF Matching, Mine, TypeInv, TypeOK

LEMMA ScopeStep ==
  ASSUME TypeInv, AnswersInScope, [Next]_vars
  PROVE  AnswersInScope'
<1>1. ASSUME NEW f \in Facts, InsertFact(f[1], f[2]) PROVE AnswersInScope'
  <2>1. \A t \in Tables : store[t] \subseteq store'[t]
    BY <1>1 DEF InsertFact, TypeInv, TypeOK
  <2>2. store[Viewed] \subseteq store'[Viewed]
    BY <2>1, TablesOnly DEF Viewed
  <2> QED BY <1>1, <2>2
         DEF InsertFact, AnswersInScope, Mine, Viewed, opened, pager, studio, board
<1>2. ASSUME NEW t \in Tables, NEW u \in Users, ClearFacts(t, u.tenant) PROVE AnswersInScope'
  BY <1>2 DEF ClearFacts, AnswersInScope, Mine, opened, pager, studio, board
<1>3. CASE Leave
  <2>1. view' = "none" /\ fetched' = {} /\ DOMAIN tiles' = {}
    BY <1>3, Empty DEF Leave
  <2> QED BY <2>1 DEF AnswersInScope
<1>4. ASSUME NEW a \in PageAsks, NEW p \in FirstPages, OpenPages(a, p) PROVE AnswersInScope'
  BY <1>4 DEF OpenPages, Open, AnswersInScope, TypeInv, IdleInv, board
<1>5. CASE ReadRows
  <2>1. fetched' \subseteq Matching /\ view = "pages"
    BY <1>5, CutIsPart DEF ReadRows, Pages, Orderings, TypeInv, TypeOK
  <2> QED BY <1>5, <2>1, MatchingIsMine
         DEF ReadRows, AnswersInScope, Mine, TypeInv, IdleInv, opened, board
<1>6. CASE CountRows
  BY <1>6 DEF CountRows, AnswersInScope, Mine, Viewed, opened, board
<1>7. CASE Render
  <2>1. view = "pages" /\ fetched' = {} /\ screen' = fetched
    BY <1>7 DEF Render, Show, TypeInv, TypeOK
  <2> QED BY <1>7, <2>1 DEF Render, AnswersInScope, Mine, TypeInv, IdleInv, opened, board
<1>8. CASE RequestFails
  BY <1>8 DEF RequestFails, AnswersInScope, Mine, Viewed, opened, board
<1>9. CASE TurnPage
  BY <1>9 DEF TurnPage, AnswersInScope, Mine, Viewed, opened, board
<1>10. ASSUME NEW a \in StudioAsks, OpenStudio(a) PROVE AnswersInScope'
  <2>1. /\ view = "none" /\ view' = "studio"
        /\ UNCHANGED <<fetched, screen, tiles>>
    BY <1>10 DEF OpenStudio, Open, pager, board
  <2> QED BY <2>1 DEF AnswersInScope, TypeInv, IdleInv
<1>11. ASSUME NEW i \in DOMAIN flight, Answer(i) PROVE AnswersInScope'
  <2>1. view = "studio"
    BY DEF TypeInv, IdleInv
  <2>2. PICK o \in Orderings(Labels(Matching, ask.by), Measure(Matching, ask), ask.dir) :
          screen' = Cut(o, ask.limit, flight[i])
    BY <1>11 DEF Answer, Show
  <2>3. screen' \subseteq Labels(Matching, ask.by)
    BY <2>2, CutIsPart DEF Orderings
  <2>4. \A g \in screen' : \E r \in store[Viewed] : Mine(r) /\ Label(r, ask.by) = g
    BY <2>1, <2>3, MatchingIsMine DEF Labels
  <2>5. UNCHANGED <<store, view, ask, fetched, tiles>>
    BY <1>11 DEF Answer, opened, pager, board
  <2> QED BY <2>1, <2>4, <2>5 DEF AnswersInScope, Mine, Viewed, TypeInv, IdleInv
<1>12. ASSUME NEW i \in DOMAIN flight, AnswerFails(i) PROVE AnswersInScope'
  BY <1>12 DEF AnswerFails, AnswersInScope, Mine, Viewed, opened, pager, board
<1>13. CASE Step \/ RunAgain
  BY <1>13 DEF Step, RunAgain, Request, AnswersInScope, Mine, Viewed, opened, pager, board
<1>14. ASSUME NEW a \in BoardAsks, OpenBoard(a) PROVE AnswersInScope'
  BY <1>14 DEF OpenBoard, Open, AnswersInScope, TypeInv, IdleInv, pager, board
<1>15. ASSUME NEW t \in Tiles, ReadTile(t) PROVE AnswersInScope'
  <2>1. PICK result \in TileResults(t) :
          tiles' = [x \in DOMAIN tiles \cup {t} |-> IF x = t THEN result ELSE tiles[x]]
    BY <1>15 DEF ReadTile
  <2>2. \A c \in result : \A r \in c : Mine(r)
    BY <1>15, TilePart, MatchingIsMine DEF ReadTile, TypeInv
  <2> QED BY <1>15, <2>1, <2>2
         DEF ReadTile, AnswersInScope, Mine, TypeInv, IdleInv, opened, pager
<1>16. CASE AtInputs
  BY <1>16, InputsAlone DEF AnswersInScope, Mine, Viewed, opened, pager
<1>17. ASSUME NEW scope \in Scopes, Refresh(scope) PROVE AnswersInScope'
  <2>1. view' = "board" /\ fetched' = fetched /\ view = "board" /\ DOMAIN tiles' = {}
    BY <1>17, Empty DEF Refresh, pager
  <2> QED BY <2>1 DEF AnswersInScope, TypeInv, IdleInv
<1>18. CASE UNCHANGED vars
  BY <1>18 DEF vars, opened, pager, studio, board, AnswersInScope, Mine, Viewed
<1> QED BY <1>1, <1>2, <1>3, <1>4, <1>5, <1>6, <1>7, <1>8, <1>9, <1>10, <1>11, <1>12, <1>13,
           <1>14, <1>15, <1>16, <1>17, <1>18 DEF Next, AtInputs

\* AnswersInScope: whatever is asked of whichever table at any moment of a load, nothing
\* of another tenant is shown, and a normal user sees clean rows of their own.
THEOREM AnswersStayInScope == Spec => []AnswersInScope
<1>1. Init => AnswersInScope
  BY Empty DEF Init, AnswersInScope
<1>2. TypeInv /\ AnswersInScope /\ [Next]_vars => AnswersInScope'
  BY ScopeStep
<1> QED BY <1>1, <1>2, TypeAlways, PTL DEF Spec

-----------------------------------------------------------------------------
(* What loads do to an open visit. *)

Loaded ==
  /\ UNCHANGED <<opened, pager, studio, board, screen, shown>>
  /\ changes' = changes + 1
  /\ kept' => kept /\ \A t \in Tables : store[t] \subseteq store'[t]

Unseen == UNCHANGED <<store, opened, pager, screen, shown, changes, kept>>

LEMMA LoadSteps ==
  ASSUME TypeInv, view # "none",
         \/ \E f \in Facts : InsertFact(f[1], f[2])
         \/ \E t \in Tables, u \in Users : ClearFacts(t, u.tenant)
  PROVE  Loaded
<1>1. ASSUME NEW f \in Facts, InsertFact(f[1], f[2]) PROVE Loaded
  <2>1. \A t \in Tables : store[t] \subseteq store'[t]
    BY <1>1 DEF InsertFact, TypeInv, TypeOK
  <2>2. changes' = changes + 1
    BY <1>1 DEF InsertFact, Changed
  <2> QED BY <1>1, <2>1, <2>2 DEF InsertFact, Loaded
<1>2. ASSUME NEW t \in Tables, NEW u \in Users, ClearFacts(t, u.tenant) PROVE Loaded
  <2>1. changes' = changes + 1 /\ ~kept'
    BY <1>2 DEF ClearFacts, Changed
  <2> QED BY <1>2, <2>1 DEF ClearFacts, Loaded
<1> QED BY <1>1, <1>2

LEMMA MatchingGrows ==
  ASSUME TypeInv, view # "none", Loaded, kept'
  PROVE  Matching \subseteq Matching'
<1>1. view' = view /\ ask' = ask /\ Viewed \in Tables /\ store[Viewed] \subseteq store'[Viewed]
  BY TablesOnly DEF Loaded, opened, Viewed
<1>2. view \in {"pages", "studio", "board"}
  BY DEF TypeInv, TypeOK
<1> QED BY <1>1, <1>2 DEF Matching, Selected, Viewed, Searched, Where, AdHocWhere

LEMMA PagerSteps ==
  ASSUME TypeInv, [Next]_vars, view' = "pages"
  PROVE  \/ \E a \in PageAsks, p \in FirstPages : OpenPages(a, p)
         \/ view = "pages" /\ Loaded
         \/ ReadRows \/ CountRows \/ Render \/ RequestFails \/ TurnPage
         \/ view = "pages" /\ Unseen
<1>1. CASE \/ \E f \in Facts : InsertFact(f[1], f[2])
           \/ \E t \in Tables, u \in Users : ClearFacts(t, u.tenant)
  <2>1. view = "pages"
    BY <1>1 DEF InsertFact, ClearFacts, opened
  <2> QED BY <1>1, <2>1, LoadSteps
<1>2. ASSUME NEW a \in StudioAsks, OpenStudio(a) PROVE FALSE
  BY <1>2 DEF OpenStudio, Open
<1>3. ASSUME NEW a \in BoardAsks, OpenBoard(a) PROVE FALSE
  BY <1>3 DEF OpenBoard, Open
<1>4. ASSUME NEW i \in DOMAIN flight, Answer(i) \/ AnswerFails(i) PROVE FALSE
  <2>1. view = "studio"
    BY DEF TypeInv, IdleInv
  <2> QED BY <1>4, <2>1 DEF Answer, AnswerFails, opened
<1>5. CASE Step \/ RunAgain
  BY <1>5 DEF Step, RunAgain, Request, opened
<1>6. ASSUME NEW t \in Tiles, ReadTile(t) PROVE FALSE
  BY <1>6 DEF ReadTile, opened
<1>7. CASE AtInputs
  BY <1>7, InputsAlone DEF opened
<1>8. ASSUME NEW scope \in Scopes, Refresh(scope) PROVE FALSE
  BY <1>8 DEF Refresh
<1>9. CASE Leave
  BY <1>9 DEF Leave
<1>10. CASE UNCHANGED vars
  BY <1>10 DEF vars, opened, Unseen
<1> QED BY <1>1, <1>2, <1>3, <1>4, <1>5, <1>6, <1>7, <1>8, <1>9, <1>10 DEF Next, AtInputs

-----------------------------------------------------------------------------
(* Pages and ranks. *)

Keys(S) == [x \in S |-> x[ask.sort]]

\* How many matching rows come before r in every ordering.
Rank(r) == Cardinality(Before(r, Matching, Keys(Matching), ask.dir))
InWindow(r, p) ==
  OffsetOf(p, ask.size) <= Rank(r) /\ Rank(r) < OffsetOf(p, ask.size) + ask.size

LEMMA RankIsNumber ==
  ASSUME TypeInv, view = "pages", NEW r \in Matching
  PROVE  Rank(r) \in Nat
<1>1. Before(r, Matching, Keys(Matching), ask.dir) \in SUBSET Rows
  BY MatchingIsPart DEF Before, TypeInv
<1> QED BY <1>1, PartOfRowsFinite DEF Rank

LEMMA RankBelow ==
  ASSUME TypeInv, view = "pages", NEW r \in Matching, Untied(r, Matching)
  PROVE  Rank(r) < Cardinality(Matching)
<1> DEFINE B == Before(r, Matching, Keys(Matching), ask.dir)
<1>1. B \subseteq Matching
  BY DEF Before
<1>2. r \notin B
  <2>1. ~Precedes(r[ask.sort], r[ask.sort], ask.dir)
    BY MatchingIsPart, RowFields, PrecedesIrreflexive DEF TypeInv, AskInv, Sortable
  <2> QED BY <2>1 DEF Before, Keys
<1>3. IsFiniteSet(Matching)
  BY MatchingIsPart DEF TypeInv
<1> QED BY <1>1, <1>2, <1>3, FS_Subset, FS_CardinalityType DEF Rank

\* What a page shows.
LEMMA PageOfRanks ==
  ASSUME TypeInv, view = "pages", NEW p \in Nat \ {0},
         NEW P \in Pages(Matching, Keys(Matching), ask.dir, ask.size, OffsetOf(p, ask.size))
  PROVE  /\ P \subseteq Matching
         /\ P # {} => OffsetOf(p, ask.size) + Cardinality(P) <= Cardinality(Matching)
         /\ \A r \in Matching : Untied(r, Matching) => (r \in P <=> InWindow(r, p))
<1> DEFINE from == OffsetOf(p, ask.size)
<1>1. PICK o \in Orderings(Matching, Keys(Matching), ask.dir) : P = Cut(o, ask.size, from)
  BY DEF Pages
<1>2. /\ IsFiniteSet(Matching) /\ Matching \subseteq Rows /\ Cardinality(Matching) \in Nat
      /\ ask.dir \in {"asc", "desc"} /\ ask.size \in Nat \ {0} /\ ask.sort \in Sortable
  BY MatchingIsPart DEF TypeInv, AskInv
<1>3. from \in Nat
  <2>1. p - 1 \in Nat
    OBVIOUS
  <2> QED BY <1>2, <2>1 DEF OffsetOf
<1> HIDE DEF from
<1>4. Comparable(Keys(Matching), Matching)
  BY <1>2, RowFields DEF Comparable, Keys, Sortable
<1>5. P \subseteq Matching
  BY <1>1, CutIsPart DEF Orderings
<1>6. P # {} => from + Cardinality(P) <= Cardinality(Matching)
  BY <1>2, <1>3, PageFits DEF from
<1>7. ASSUME NEW r \in Matching, Untied(r, Matching)
      PROVE  r \in P <=> InWindow(r, p)
  <2>1. \A x \in Matching : Keys(Matching)[x] = Keys(Matching)[r] => x = r
    BY <1>7 DEF Untied, Keys
  <2> QED BY <1>1, <1>2, <1>3, <1>4, <2>1, CutByRank DEF Rank, InWindow, from
<1> QED BY <1>5, <1>6, <1>7 DEF from

\* The statement behind a page.
LEMMA FetchedPage ==
  ASSUME TypeInv, ReadRows
  PROVE  /\ fetched' \in Pages(Matching, Keys(Matching), ask.dir, ask.size, OffsetOf(wanted, ask.size))
         /\ view = "pages" /\ wanted \in Nat \ {0} /\ phase' = "count"
         /\ UNCHANGED <<store, view, ask, start, wanted, page, total, screen, shown, changes, kept>>
  BY DEF ReadRows, Keys, TypeInv, TypeOK, After, Statements, opened

\* What rows there are, and their ranks, only a load can change.
LEMMA RanksStay ==
  ASSUME UNCHANGED <<store, view, ask>>
  PROVE  /\ Matching' = Matching
         /\ \A r : (Untied(r, Matching))' <=> Untied(r, Matching)
         /\ \A r : Rank(r)' = Rank(r)
         /\ \A r, p : InWindow(r, p)' <=> InWindow(r, p)
  BY DEF Matching, Selected, Untied, Rank, Keys, Before, InWindow, OffsetOf

\* Rows that are added make no rank smaller, and may only tie more rows.
LEMMA RanksGrow ==
  ASSUME TypeInv, TypeInv', view = "pages", Loaded, kept'
  PROVE  /\ Matching \subseteq Matching'
         /\ Cardinality(Matching) <= Cardinality(Matching') /\ Cardinality(Matching') \in Nat
         /\ \A r \in Matching : (Untied(r, Matching))' => Untied(r, Matching)
         /\ \A r \in Matching : Rank(r) <= Rank(r)' /\ Rank(r)' \in Nat
<1>1. view' = "pages" /\ ask' = ask /\ Matching \subseteq Matching'
  BY MatchingGrows DEF Loaded, opened
<1>2. Matching' \in SUBSET Rows
  <2>1. Matching' = Selected(store', "pages", ask')
    BY <1>1 DEF Matching
  <2>2. store'[TableOf("pages", ask')] \in SUBSET Rows
    BY TablesOnly DEF TypeInv, TypeOK
  <2> QED BY <2>1, <2>2, SelectedIsPart
<1>3. Cardinality(Matching) <= Cardinality(Matching') /\ Cardinality(Matching') \in Nat
  BY <1>1, <1>2, PartOfRowsFinite, FS_Subset
<1>4. ASSUME NEW r \in Matching PROVE Rank(r) <= Rank(r)' /\ Rank(r)' \in Nat
  <2>1. Before(r, Matching, Keys(Matching), ask.dir)
          \subseteq Before(r, Matching', Keys(Matching)', ask.dir)
    BY <1>1 DEF Before, Keys
  <2>2. Before(r, Matching', Keys(Matching)', ask.dir) \in SUBSET Rows
    BY <1>2 DEF Before
  <2> QED BY <1>1, <2>1, <2>2, PartOfRowsFinite, FS_Subset DEF Rank
<1>5. \A r \in Matching : (Untied(r, Matching))' => Untied(r, Matching)
  BY <1>1 DEF Untied
<1> QED BY <1>1, <1>3, <1>4, <1>5
-----------------------------------------------------------------------------
(* RepeatsOnlyAtTies: a row without ties is on the one page its rank belongs to. *)

Placed(r, p) == r \in Matching /\ (Untied(r, Matching) => InWindow(r, p))

PlacedInv ==
  view = "pages" /\ changes = 0 =>
    /\ \A p \in DOMAIN shown : p \in Nat \ {0} /\ \A r \in shown[p] : Placed(r, p)
    /\ phase \in {"count", "render"} => \A r \in fetched : Placed(r, wanted)

LEMMA PlacedStays ==
  ASSUME UNCHANGED <<store, view, ask>>
  PROVE  \A r, p : Placed(r, p)' <=> Placed(r, p)
  BY RanksStay DEF Placed

LEMMA PlacedStep ==
  ASSUME TypeInv, PlacedInv, [Next]_vars
  PROVE  PlacedInv'
<1> SUFFICES ASSUME view' = "pages", changes' = 0 PROVE PlacedInv'
  BY DEF PlacedInv
<1>1. ASSUME NEW a \in PageAsks, NEW p \in FirstPages, OpenPages(a, p) PROVE PlacedInv'
  <2>1. DOMAIN shown' = {} /\ phase' = "rows"
    BY <1>1 DEF OpenPages, Open, TypeInv, IdleInv
  <2> QED BY <2>1 DEF PlacedInv
<1>2. CASE view = "pages" /\ Loaded
  <2>1. changes' # 0
    BY <1>2 DEF Loaded, TypeInv, TypeOK
  <2> QED BY <2>1
<1>3. CASE ReadRows
  <2>1. \A r \in fetched' : Placed(r, wanted)
    BY <1>3, FetchedPage, PageOfRanks DEF Placed
  <2>2. /\ view = "pages" /\ changes = 0
        /\ UNCHANGED <<store, view, ask, wanted, shown>>
    BY <1>3, FetchedPage
  <2> QED BY <2>1, <2>2, PlacedStays DEF PlacedInv
<1>4. CASE CountRows
  <2>1. /\ view = "pages" /\ changes = 0 /\ phase = "count"
        /\ UNCHANGED <<store, view, ask, wanted, shown, fetched>>
    BY <1>4 DEF CountRows, opened
  <2> QED BY <2>1, PlacedStays DEF PlacedInv
<1>5. CASE Render
  <2>1. /\ view = "pages" /\ changes = 0 /\ phase = "render" /\ phase' = "shown"
        /\ UNCHANGED <<store, view, ask, wanted>>
    BY <1>5 DEF Render, opened
  <2>2. \A p \in DOMAIN shown' :
          /\ p \in DOMAIN shown \cup {wanted}
          /\ \A r \in shown'[p] : (p \in DOMAIN shown /\ r \in shown[p]) \/ (p = wanted /\ r \in fetched)
    BY <1>5 DEF Render, Show
  <2>3. wanted \in Nat \ {0}
    BY <2>1 DEF TypeInv, TypeOK
  <2>4. \A p \in DOMAIN shown' : p \in Nat \ {0} /\ \A r \in shown'[p] : Placed(r, p)
    BY <2>1, <2>2, <2>3 DEF PlacedInv
  <2> QED BY <2>1, <2>4, PlacedStays DEF PlacedInv
<1>6. CASE RequestFails \/ TurnPage
  <2>1. /\ view = "pages" /\ changes = 0 /\ phase' \in {"shown", "rows"}
        /\ UNCHANGED <<store, view, ask, shown>>
    BY <1>6 DEF RequestFails, TurnPage, opened
  <2> QED BY <2>1, PlacedStays DEF PlacedInv
<1>7. CASE view = "pages" /\ Unseen
  <2>1. UNCHANGED <<store, view, ask, phase, wanted, fetched, shown, changes>>
    BY <1>7 DEF Unseen, opened, pager
  <2> QED BY <1>7, <2>1, PlacedStays DEF PlacedInv
<1> QED BY <1>1, <1>2, <1>3, <1>4, <1>5, <1>6, <1>7, PagerSteps

LEMMA WindowsApart ==
  ASSUME TypeInv, view = "pages", NEW r \in Matching,
         NEW p \in Nat \ {0}, NEW q \in Nat \ {0}, InWindow(r, p), InWindow(r, q)
  PROVE  p = q
<1>1. ask.size \in Nat \ {0} /\ Rank(r) \in Nat
  BY RankIsNumber DEF TypeInv, AskInv
<1>2. ASSUME NEW i \in Nat \ {0}, NEW j \in Nat \ {0}, i < j, InWindow(r, i), InWindow(r, j)
      PROVE  FALSE
  <2>1. i * ask.size <= (j - 1) * ask.size
    BY <1>1, <1>2, TimesGrows, j - 1 \in Nat
  <2>2. (i - 1) * ask.size + ask.size = i * ask.size
    BY <1>1
  <2>3. i * ask.size \in Nat /\ (i - 1) * ask.size \in Int /\ (j - 1) * ask.size \in Nat
    BY <1>1, i - 1 \in Nat, j - 1 \in Nat
  <2> QED BY <1>1, <1>2, <2>1, <2>2, <2>3 DEF InWindow, OffsetOf
<1> QED BY <1>2

\* RepeatsOnlyAtTies: in a table that does not change, pages overlap at ties only.
THEOREM RepeatsNeedTies == Spec => []RepeatsOnlyAtTies
<1>1. Init => PlacedInv
  BY DEF Init, PlacedInv
<1>2. TypeInv /\ PlacedInv /\ [Next]_vars => PlacedInv'
  BY PlacedStep
<1>3. TypeInv /\ PlacedInv => RepeatsOnlyAtTies
  <2> SUFFICES ASSUME TypeInv, PlacedInv, view = "pages", changes = 0,
                      NEW p \in DOMAIN shown, NEW q \in DOMAIN shown, p # q,
                      NEW r \in shown[p] \cap shown[q], Untied(r, Matching)
               PROVE  FALSE
    BY DEF RepeatsOnlyAtTies
  <2>1. p \in Nat \ {0} /\ q \in Nat \ {0} /\ r \in Matching /\ InWindow(r, p) /\ InWindow(r, q)
    BY DEF PlacedInv, Placed
  <2> QED BY <2>1, WindowsApart
<1> QED BY <1>1, <1>2, <1>3, TypeAlways, PTL DEF Spec
-----------------------------------------------------------------------------
(* PagerFollowsRows: the total belongs to the page it came with. *)

Fits(P, p, count) == P # {} => OffsetOf(p, ask.size) + Cardinality(P) <= count

CountInv ==
  view = "pages" /\ kept =>
    /\ phase # "render" /\ page # 0 =>
         Fits(screen, page, total) /\ (changes = 0 => total = Cardinality(Matching))
    /\ phase = "count" => Fits(fetched, wanted, Cardinality(Matching))
    /\ phase = "render" =>
         Fits(fetched, wanted, total) /\ (changes = 0 => total = Cardinality(Matching))

\* What is unchanged by a step that leaves the rows alone and is not the pager's.
LEMMA FitsStays ==
  ASSUME ask' = ask
  PROVE  \A P, p, c : Fits(P, p, c)' <=> Fits(P, p, c)
  BY DEF Fits, OffsetOf

LEMMA CountStep ==
  ASSUME TypeInv, TypeInv', CountInv, [Next]_vars
  PROVE  CountInv'
<1> SUFFICES ASSUME view' = "pages", kept' PROVE CountInv'
  BY DEF CountInv
<1>1. ASSUME NEW a \in PageAsks, NEW p \in FirstPages, OpenPages(a, p) PROVE CountInv'
  <2>1. page' = 0 /\ phase' = "rows"
    BY <1>1 DEF OpenPages, Open, TypeInv, IdleInv
  <2> QED BY <2>1 DEF CountInv
<1>2. CASE view = "pages" /\ Loaded
  <2>1. /\ changes' # 0 /\ kept
        /\ UNCHANGED <<ask, phase, wanted, fetched, page, total, screen>>
    BY <1>2 DEF Loaded, TypeInv, TypeOK, opened, pager
  <2>2. Cardinality(Matching) <= Cardinality(Matching') /\ Cardinality(Matching') \in Nat
    BY <1>2, RanksGrow
  <2>3. phase = "count" => Fits(fetched, wanted, Cardinality(Matching'))
    <3>1. SUFFICES ASSUME phase = "count", fetched # {}
                   PROVE OffsetOf(wanted, ask.size) + Cardinality(fetched) <= Cardinality(Matching')
      BY DEF Fits
    <3>2. OffsetOf(wanted, ask.size) + Cardinality(fetched) <= Cardinality(Matching)
      BY <1>2, <2>1, <3>1 DEF CountInv, Fits
    <3>3. Cardinality(fetched) \in Nat /\ Cardinality(Matching) \in Nat
      BY <1>2, PartOfRowsFinite, MatchingIsPart DEF TypeInv, TypeOK
    <3>4. OffsetOf(wanted, ask.size) \in Int
      BY <1>2 DEF OffsetOf, TypeInv, TypeOK, AskInv
    <3> QED BY <2>2, <3>2, <3>3, <3>4
  <2> QED BY <1>2, <2>1, <2>3, FitsStays DEF CountInv
<1>3. CASE ReadRows
  <2>1. Fits(fetched', wanted, Cardinality(Matching))
    BY <1>3, FetchedPage, PageOfRanks DEF Fits
  <2>2. /\ view = "pages" /\ kept /\ phase = "rows" /\ phase' = "count"
        /\ UNCHANGED <<store, view, ask, wanted, page, total, screen, changes>>
    BY <1>3, FetchedPage DEF ReadRows
  <2> QED BY <2>1, <2>2, FitsStays, RanksStay DEF CountInv
<1>4. CASE CountRows
  <2>1. /\ view = "pages" /\ kept /\ phase = "count" /\ phase' = "render"
        /\ total' = Cardinality(Matching)
        /\ UNCHANGED <<store, view, ask, wanted, page, screen, fetched>>
    BY <1>4 DEF CountRows, opened, After, Statements
  <2> QED BY <2>1, FitsStays, RanksStay DEF CountInv
<1>5. CASE Render
  <2>1. /\ view = "pages" /\ kept /\ phase = "render" /\ phase' = "shown"
        /\ page' = wanted /\ screen' = fetched
        /\ UNCHANGED <<store, view, ask, total, changes>>
    BY <1>5 DEF Render, Show, opened
  <2> QED BY <2>1, FitsStays, RanksStay DEF CountInv
<1>6. CASE RequestFails \/ TurnPage
  <2>1. /\ view = "pages" /\ kept /\ phase # "render" /\ phase' \in {"shown", "rows"}
        /\ UNCHANGED <<store, view, ask, page, total, screen, changes>>
    BY <1>6 DEF RequestFails, TurnPage, opened
  <2> QED BY <2>1, FitsStays, RanksStay DEF CountInv
<1>7. CASE view = "pages" /\ Unseen
  <2>1. UNCHANGED <<store, view, ask, phase, wanted, fetched, page, total, screen, changes, kept>>
    BY <1>7 DEF Unseen, opened, pager
  <2> QED BY <1>7, <2>1, FitsStays, RanksStay DEF CountInv
<1> QED BY <1>1, <1>2, <1>3, <1>4, <1>5, <1>6, <1>7, PagerSteps

\* PagerFollowsRows: the total covers its page, and the next link is there exactly when
\* rows are left.
THEOREM PagerIsTrue == Spec => []PagerFollowsRows
<1>1. Init => CountInv
  BY DEF Init, CountInv
<1>2. TypeInv /\ TypeInv' /\ CountInv /\ [Next]_vars => CountInv'
  BY CountStep
<1>3. TypeInv /\ CountInv => PagerFollowsRows
  <2> SUFFICES ASSUME TypeInv, CountInv, phase = "shown", kept
               PROVE  /\ Fits(screen, page, total)
                      /\ changes = 0 => (HasNext <=> Cardinality(Matching) > page * ask.size)
    BY DEF PagerFollowsRows, Fits
  <2>1. /\ view = "pages" /\ page \in Nat \ {0} /\ total \in Nat /\ ask.size \in Nat \ {0}
    BY DEF TypeInv, TypeOK, AskInv
  <2>2. Fits(screen, page, total) /\ (changes = 0 => total = Cardinality(Matching))
    BY <2>1 DEF CountInv
  <2>3. HasNext <=> total > page * ask.size
    BY <2>1, LastPage DEF HasNext
  <2> QED BY <2>2, <2>3
<1> QED BY <1>1, <1>2, <1>3, TypeAlways, PTL DEF Spec

-----------------------------------------------------------------------------
(* NothingSkipped: what a viewer from page 1 on has missed so far is on later pages. *)

Missing == {r \in start : Untied(r, Matching) /\ r \notin Seen}

\* The rows of M, if any, come after page p, and n rows reach beyond it.
Later(M, p) == \A r \in M : p * ask.size <= Rank(r)
Beyond(M, p, n) == M # {} => n > p * ask.size

Started == 1 \in DOMAIN shown
Starting == Started \/ wanted = 1

CoverInv ==
  view = "pages" /\ kept =>
    /\ start \subseteq Matching
    /\ IF page = 0 THEN DOMAIN shown = {} ELSE wanted <= page + 1
    /\ Started => Later(Missing, page)
    /\ Started /\ phase # "render" => Beyond(Missing, page, total)
    /\ Starting /\ phase \in {"count", "render"} => Later(Missing \ fetched, wanted)
    /\ Starting /\ phase = "render" => Beyond(Missing \ fetched, wanted, total)

\* A step that moves neither rows nor the history changes none of it.
LEMMA MissingStays ==
  ASSUME UNCHANGED <<store, view, ask, start, shown>>
  PROVE  /\ Missing' = Missing /\ (Started' <=> Started)
         /\ \A M, p : Later(M, p)' <=> Later(M, p)
         /\ \A M, p, n : Beyond(M, p, n)' <=> Beyond(M, p, n)
  BY RanksStay DEF Missing, Seen, Started, Later, Beyond

\* While rows are added, less is missing and what is lies no earlier.
LEMMA MissingShrinks ==
  ASSUME TypeInv, TypeInv', view = "pages", Loaded, kept', start \subseteq Matching,
         NEW X, NEW p \in Nat
  PROVE  /\ start' \subseteq Matching' /\ Missing' \subseteq Missing
         /\ Later(Missing \ X, p) => Later(Missing \ X, p)'
<1>1. start' = start /\ shown' = shown /\ ask' = ask
  BY DEF Loaded, opened
<1>2. Matching \subseteq Matching' /\ \A r \in Matching : (Untied(r, Matching))' => Untied(r, Matching)
  BY RanksGrow
<1>3. Missing' \subseteq Missing
  BY <1>1, <1>2 DEF Missing, Seen
<1>4. ASSUME Later(Missing \ X, p), NEW r \in (Missing \ X)' PROVE p * ask.size <= Rank(r)'
  <2>1. r \in Matching /\ p * ask.size <= Rank(r)
    BY <1>3, <1>4 DEF Later, Missing
  <2>2. Rank(r) \in Nat /\ Rank(r)' \in Nat /\ Rank(r) <= Rank(r)'
    BY <2>1, RanksGrow, RankIsNumber
  <2>3. p * ask.size \in Int
    BY DEF TypeInv, AskInv
  <2> QED BY <2>1, <2>2, <2>3
<1> QED BY <1>1, <1>2, <1>3, <1>4 DEF Later

\* What a request for the next page after the seen ones leaves out lies after that page.
LEMMA FetchCovers ==
  ASSUME TypeInv, CoverInv, kept, ReadRows, Starting
  PROVE  \A r \in Missing \ fetched' : wanted * ask.size <= Rank(r)
<1>1. SUFFICES ASSUME NEW r \in Missing \ fetched' PROVE wanted * ask.size <= Rank(r)
  OBVIOUS
<1>2. view = "pages" /\ wanted \in Nat \ {0} /\ page \in Nat /\ ask.size \in Nat \ {0}
  BY FetchedPage DEF TypeInv, TypeOK, AskInv
<1>3. r \in Matching /\ Untied(r, Matching) /\ Rank(r) \in Nat
  BY <1>2, RankIsNumber DEF CoverInv, Missing
<1>4. ~InWindow(r, wanted)
  BY <1>1, <1>2, <1>3, FetchedPage, PageOfRanks
<1>5. OffsetOf(wanted, ask.size) <= Rank(r)
  <2>1. CASE wanted = 1
    BY <1>2, <1>3, <2>1 DEF OffsetOf
  <2>2. CASE Started
    <3>1. page # 0 /\ wanted <= page + 1 /\ page * ask.size <= Rank(r)
      BY <1>2, <2>2 DEF CoverInv, Started, Later
    <3>2. (wanted - 1) * ask.size <= page * ask.size
      BY <1>2, <3>1, TimesGrows, wanted - 1 \in Nat
    <3>3. (wanted - 1) * ask.size \in Int /\ page * ask.size \in Int
      BY <1>2
    <3> QED BY <1>3, <3>1, <3>2, <3>3 DEF OffsetOf
  <2> QED BY <2>1, <2>2 DEF Starting
<1>6. OffsetOf(wanted, ask.size) + ask.size = wanted * ask.size /\ wanted * ask.size \in Nat
  BY <1>2 DEF OffsetOf
<1> QED BY <1>2, <1>3, <1>4, <1>5, <1>6 DEF InWindow

LEMMA CoverStep ==
  ASSUME TypeInv, TypeInv', CoverInv, [Next]_vars
  PROVE  CoverInv'
<1> SUFFICES ASSUME view' = "pages", kept' PROVE CoverInv'
  BY DEF CoverInv
<1>1. ASSUME NEW a \in PageAsks, NEW p \in FirstPages, OpenPages(a, p) PROVE CoverInv'
  <2>1. page' = 0 /\ phase' = "rows" /\ DOMAIN shown' = {}
    BY <1>1 DEF OpenPages, Open, TypeInv, IdleInv
  <2>2. start' \subseteq Matching'
    <3>1. start' = Selected(store, "pages", ask') /\ store' = store
      BY <1>1 DEF OpenPages, Open
    <3> QED BY <3>1 DEF Matching
  <2> QED BY <2>1, <2>2 DEF CoverInv, Started
<1>2. CASE view = "pages" /\ Loaded
  <2>1. /\ kept
        /\ UNCHANGED <<ask, phase, wanted, fetched, page, total, shown>>
    BY <1>2 DEF Loaded, opened, pager
  <2>2. start \subseteq Matching /\ wanted \in Nat /\ page \in Nat
    BY <1>2, <2>1 DEF CoverInv, TypeInv, TypeOK
  <2>3. start' \subseteq Matching' /\ Missing' \subseteq Missing
    BY <1>2, <2>2, MissingShrinks
  <2>4. Later(Missing, page) => Later(Missing, page)'
    <3>1. Missing \ {} = Missing /\ Missing' \ {} = Missing'
      OBVIOUS
    <3>2. Later(Missing \ {}, page) => Later(Missing \ {}, page)'
      BY <1>2, <2>1, <2>2, MissingShrinks
    <3> QED BY <3>1, <3>2
  <2>5. Later(Missing \ fetched, wanted) => Later(Missing \ fetched, wanted)'
    BY <1>2, <2>1, <2>2, MissingShrinks
  <2>6. /\ Beyond(Missing, page, total) => Beyond(Missing, page, total)'
        /\ Beyond(Missing \ fetched, wanted, total) => Beyond(Missing \ fetched, wanted, total)'
    BY <2>1, <2>3 DEF Beyond
  <2> QED BY <1>2, <2>1, <2>3, <2>4, <2>5, <2>6 DEF CoverInv, Started, Starting
<1>3. CASE ReadRows
  <2>1. /\ view = "pages" /\ kept /\ phase = "rows" /\ phase' = "count"
        /\ UNCHANGED <<store, view, ask, start, shown, wanted, page, total>>
    BY <1>3, FetchedPage DEF ReadRows
  <2>2. Starting => Later(Missing \ fetched', wanted)
    BY <1>3, <2>1, FetchCovers DEF Later
  <2> QED BY <2>1, <2>2, MissingStays, RanksStay DEF CoverInv, Starting, Later
<1>4. CASE CountRows
  <2>1. /\ view = "pages" /\ kept /\ phase = "count" /\ phase' = "render"
        /\ total' = Cardinality(Matching)
        /\ UNCHANGED <<store, view, ask, start, shown, wanted, page, fetched>>
    BY <1>4 DEF CountRows, opened, After, Statements
  <2>2. Starting => Beyond(Missing \ fetched, wanted, total')
    <3>1. SUFFICES ASSUME Starting, NEW r \in Missing \ fetched
                   PROVE  Cardinality(Matching) > wanted * ask.size
      BY <2>1 DEF Beyond
    <3>2. wanted * ask.size <= Rank(r) /\ r \in Matching /\ Untied(r, Matching)
      BY <2>1, <3>1 DEF CoverInv, Later, Missing
    <3>3. Rank(r) < Cardinality(Matching) /\ Rank(r) \in Nat /\ Cardinality(Matching) \in Nat
      BY <2>1, <3>2, RankIsNumber, RankBelow, MatchingIsPart DEF TypeInv
    <3>4. wanted * ask.size \in Int
      BY <2>1 DEF TypeInv, TypeOK, AskInv
    <3> QED BY <3>2, <3>3, <3>4
  <2> QED BY <2>1, <2>2, MissingStays, RanksStay DEF CoverInv, Starting, Later, Beyond
<1>5. CASE Render
  <2>1. /\ view = "pages" /\ kept /\ phase = "render" /\ phase' = "shown" /\ page' = wanted
        /\ fetched' = {}
        /\ UNCHANGED <<store, view, ask, start, wanted, total>>
    BY <1>5 DEF Render, opened
  <2>2. DOMAIN shown' = DOMAIN shown \cup {wanted} /\ Seen' = Seen \cup fetched
    <3>1. DOMAIN shown' = DOMAIN shown \cup {wanted}
      BY <1>5 DEF Render, Show
    <3>2. \A k \in DOMAIN shown' :
            shown'[k] = (IF k \in DOMAIN shown THEN shown[k] ELSE {}) \cup (IF k = wanted THEN fetched ELSE {})
      BY <1>5 DEF Render, Show
    <3> QED BY <3>1, <3>2 DEF Seen
  <2>3. Missing' = Missing \ fetched /\ (Started' <=> Starting)
    BY <2>1, <2>2, RanksStay DEF Missing, Started, Starting
  <2>4. wanted \in Nat \ {0}
    BY <2>1 DEF TypeInv, TypeOK
  <2> QED BY <2>1, <2>3, <2>4, RanksStay DEF CoverInv, Later, Beyond
<1>6. CASE RequestFails \/ TurnPage
  <2>1. /\ view = "pages" /\ kept /\ phase # "render" /\ phase' \in {"shown", "rows"}
        /\ UNCHANGED <<store, view, ask, start, shown, page, total>>
    BY <1>6 DEF RequestFails, TurnPage, opened
  <2>2. page \in Nat /\ page # 0
    BY <1>6, <2>1 DEF RequestFails, TurnPage, TypeInv, TypeOK
  <2>3. wanted' <= page + 1
    <3>1. wanted' \in {page - 1, page, page + 1}
      BY <1>6 DEF RequestFails, TurnPage, HasPrev, HasNext
    <3> QED BY <2>2, <3>1
  <2> QED BY <2>1, <2>2, <2>3, MissingStays, RanksStay DEF CoverInv
<1>7. CASE view = "pages" /\ Unseen
  <2>1. /\ UNCHANGED <<store, view, ask, start, shown>>
        /\ UNCHANGED <<phase, wanted, fetched, page, total, kept>>
    BY <1>7 DEF Unseen, opened, pager
  <2> QED BY <1>7, <2>1, MissingStays, RanksStay DEF CoverInv, Starting, Later, Beyond
<1> QED BY <1>1, <1>2, <1>3, <1>4, <1>5, <1>6, <1>7, PagerSteps

\* NothingSkipped: from the first page to the last one, every row without ties is shown.
THEOREM NoGaps == Spec => []NothingSkipped
<1>1. Init => CoverInv
  BY DEF Init, CoverInv
<1>2. TypeInv /\ TypeInv' /\ CoverInv /\ [Next]_vars => CoverInv'
  BY CoverStep
<1>3. TypeInv /\ CoverInv => NothingSkipped
  <2> SUFFICES ASSUME TypeInv, CoverInv, AtEnd, kept, Started, NEW r \in Missing PROVE FALSE
    BY DEF NothingSkipped, Started, Missing
  <2>1. /\ view = "pages" /\ phase = "shown" /\ page \in Nat \ {0} /\ total \in Nat
        /\ ask.size \in Nat \ {0}
    BY DEF AtEnd, TypeInv, TypeOK, AskInv
  <2>2. total > page * ask.size
    BY <2>1 DEF CoverInv, Beyond
  <2> QED BY <2>1, <2>2, LastPage DEF AtEnd, HasNext
<1> QED BY <1>1, <1>2, <1>3, TypeAlways, PTL DEF Spec
-----------------------------------------------------------------------------
(* ScreenIsOfOffset: whichever answer came last, screen, offset and buttons agree. *)

LEMMA LabelsFinite ==
  ASSUME NEW S, IsFiniteSet(S), NEW by
  PROVE  IsFiniteSet(Labels(S, by)) /\ Cardinality(Labels(S, by)) \in Nat
<1> DEFINE f == [r \in S |-> Label(r, by)]
<1>1. f \in [S -> Labels(S, by)] /\ \A g \in Labels(S, by) : \E r \in S : f[r] = g
  BY DEF Labels
<1> HIDE DEF f
<1> QED BY <1>1, ImageFinite, FS_CardinalityType

\* One row more than asked for says whether there are more.
LEMMA ExtraRowTells ==
  ASSUME NEW S, IsFiniteSet(S), NEW key, NEW dir, NEW o \in Orderings(S, key, dir),
         NEW limit \in Nat \ {0}, NEW from \in Nat
  PROVE  Cardinality(Cut(o, FetchLimit(limit), from)) > limit <=> Cardinality(S) > from + limit
<1> DEFINE l == FetchLimit(limit)
<1> l \in Nat
  BY DEF FetchLimit
<1>1. l = limit + 1 /\ Cardinality(S) \in Nat
  BY FS_CardinalityType DEF FetchLimit
<1> HIDE DEF l
<1>2. /\ IsFiniteSet(Cut(o, l, from))
      /\ Cardinality(Cut(o, l, from)) =
           IF Cardinality(S) >= from + l THEN l
           ELSE IF Cardinality(S) > from THEN Cardinality(S) - from ELSE 0
  BY CutSize
<1>3. Cardinality(Cut(o, l, from)) > limit <=> Cardinality(S) > from + limit
  BY <1>1, <1>2
<1> QED BY <1>3 DEF l

LEMMA ScreenStep ==
  ASSUME TypeInv, ScreenIsOfOffset, [Next]_vars
  PROVE  ScreenIsOfOffset'
<1> SUFFICES ASSUME view' = "studio", screen' # {} PROVE ScreenIsOfOffset'
  BY DEF ScreenIsOfOffset
<1>1. CASE \/ \E f \in Facts : InsertFact(f[1], f[2])
           \/ \E t \in Tables, u \in Users : ClearFacts(t, u.tenant)
  <2>1. view = "studio"
    BY <1>1 DEF InsertFact, ClearFacts, opened
  <2>2. Loaded
    BY <1>1, <2>1, LoadSteps
  <2>3. changes' # 0
    BY <2>2 DEF Loaded, TypeInv, TypeOK
  <2>4. UNCHANGED <<offset, shown, screen, back>>
    BY <2>2 DEF Loaded, studio
  <2> QED BY <2>1, <2>3, <2>4 DEF ScreenIsOfOffset
<1>2. CASE Leave \/ \E a \in BoardAsks : OpenBoard(a)
  BY <1>2 DEF Leave, OpenBoard, Open
<1>3. ASSUME NEW a \in PageAsks, NEW p \in FirstPages, OpenPages(a, p) PROVE FALSE
  BY <1>3 DEF OpenPages, Open
<1>4. CASE ReadRows \/ CountRows \/ Render \/ RequestFails \/ TurnPage
  <2>1. view = "pages"
    BY <1>4 DEF ReadRows, CountRows, Render, RequestFails, TurnPage, TypeInv, TypeOK
  <2>2. view' = view
    BY <1>4 DEF ReadRows, CountRows, Render, RequestFails, TurnPage, opened
  <2> QED BY <2>1, <2>2
<1>5. ASSUME NEW a \in StudioAsks, OpenStudio(a) PROVE FALSE
  BY <1>5 DEF OpenStudio, Open, TypeInv, IdleInv
<1>6. ASSUME NEW i \in DOMAIN flight, Answer(i) PROVE ScreenIsOfOffset'
  <2>1. view = "studio"
    BY DEF TypeInv, IdleInv
  <2> DEFINE L == Labels(Matching, ask.by)
  <2>2. PICK o \in Orderings(L, Measure(Matching, ask), ask.dir) :
          /\ more' = (Cardinality(Cut(o, FetchLimit(ask.limit), flight[i])) > ask.limit)
          /\ Show(flight[i], Cut(o, ask.limit, flight[i]))
    BY <1>6 DEF Answer
  <2>3. IsFiniteSet(L) /\ Cardinality(L) \in Nat
    BY <2>1, MatchingIsPart, LabelsFinite DEF TypeInv
  <2>4. flight[i] \in Nat /\ ask.limit \in Nat \ {0}
    BY <2>1 DEF TypeInv, TypeOK, AskInv
  <2> HIDE DEF L
  <2>5. more' <=> Cardinality(L) > flight[i] + ask.limit
    BY <2>2, <2>3, <2>4, ExtraRowTells
  <2>6. UNCHANGED <<store, view, ask>> /\ offset' = flight[i] /\ back' = (flight[i] # 0)
    BY <1>6 DEF Answer, opened
  <2>7. Labels(Matching, ask.by)' = L
    BY <2>6, RanksStay DEF L, Labels
  <2>8. offset' \in DOMAIN shown' /\ screen' \subseteq shown'[offset']
    BY <2>2, <2>6 DEF Show
  <2> QED BY <2>5, <2>6, <2>7, <2>8 DEF ScreenIsOfOffset
<1>7. ASSUME NEW i \in DOMAIN flight, AnswerFails(i) PROVE FALSE
  BY <1>7 DEF AnswerFails
<1>8. CASE Step \/ RunAgain
  BY <1>8 DEF Step, RunAgain, Request
<1>9. CASE \/ \E t \in Tiles : ReadTile(t)
           \/ AtInputs
           \/ \E scope \in Scopes : Refresh(scope)
  BY <1>9, InputsAlone DEF ReadTile, Refresh, opened
<1>10. CASE UNCHANGED vars
  <2>1. UNCHANGED <<store, view, ask>> /\ UNCHANGED <<screen, shown, offset, back, more, changes>>
    BY <1>10 DEF vars, opened, studio
  <2>2. Labels(Matching, ask.by)' = Labels(Matching, ask.by)
    BY <2>1, RanksStay DEF Labels
  <2> QED BY <2>1, <2>2 DEF ScreenIsOfOffset
<1> QED BY <1>1, <1>2, <1>3, <1>4, <1>5, <1>6, <1>7, <1>8, <1>9, <1>10 DEF Next, AtInputs

\* ScreenIsOfOffset: whatever order the answers come in, what is on the screen and both
\* buttons belong to the offset that is stepped from.
THEOREM ScreenAgrees == Spec => []ScreenIsOfOffset
<1>1. Init => ScreenIsOfOffset
  BY DEF Init, ScreenIsOfOffset
<1>2. TypeInv /\ ScreenIsOfOffset /\ [Next]_vars => ScreenIsOfOffset'
  BY ScreenStep
<1> QED BY <1>1, <1>2, TypeAlways, PTL DEF Spec

-----------------------------------------------------------------------------
(* GroupsNotSkipped: the groups a studio user has missed are on the pages ahead. *)

\* The amounts of some rows have a sum, or are all missing.
LEMMA RevenueIsNumber ==
  ASSUME NEW S \in SUBSET Rows
  PROVE  Revenue(S) \in Int \cup {NULL}
<1> DEFINE paid == {r \in S : r.amount # NULL}
           pick == [t \in SUBSET paid |-> CHOOSE r \in t : TRUE]
           plus(r, sum) == r.amount + sum
           at(r) == r
           elected(t) == CHOOSE r \in t : TRUE
           follows(g) == g = [t \in SUBSET paid |->
                                IF t = {} THEN 0
                                ELSE LET x == elected(t) IN plus(at(x), g[t \ {x}])]
           fold == CHOOSE g : follows(g)
           step == [p \in paid \X Int |-> plus(p[1], p[2])]
<1>1. Revenue(S) = IF paid = {} THEN NULL ELSE fold[paid]
  BY Zenon DEF Revenue, FoldSet, MapThenFoldSet
<1>2. IsFiniteSet(paid)
  BY PartOfRowsFinite
<1>3. \A r \in paid : r.amount \in Int
  BY RowFields
<1>4. \A t \in SUBSET paid : pick[t] = elected(t)
  OBVIOUS
<1>5. \A t \in SUBSET paid : t # {} => pick[t] \in t
  BY <1>4
<1>6. 0 \in Int
  OBVIOUS
<1>7. step \in [paid \X Int -> Int] /\ \A r \in paid, n \in Int : step[<<r, n>>] = plus(at(r), n)
  BY <1>3
<1> HIDE DEF paid, pick, plus, at, elected, step
<1>8. \E g : follows(g)
  <2>1. PICK g \in [SUBSET paid -> Int] : IsFold(g, paid, pick, 0, step)
    BY <1>2, <1>5, <1>6, <1>7, FoldExists, Zenon
  <2>2. ASSUME NEW t \in SUBSET paid, t # {}
        PROVE  step[<<pick[t], g[t \ {pick[t]}]>>] = plus(at(elected(t)), g[t \ {elected(t)}])
    <3>1. pick[t] = elected(t) /\ pick[t] \in paid /\ g[t \ {pick[t]}] \in Int
      BY <1>4, <1>5, <2>2
    <3> QED BY <1>7, <3>1
  <2>3. follows(g)
    BY <2>1, <2>2 DEF IsFold
  <2> QED BY <2>3, Zenon
<1>9. follows(fold)
  <2> HIDE DEF follows
  <2> QED BY <1>8, Zenon
<1> HIDE DEF fold
<1>10. FollowsOn(fold, paid, pick, Int, 0, step)
  <2>1. fold[{}] = 0
    BY <1>9, {} \in SUBSET paid
  <2>2. \A t \in SUBSET paid : t # {} => fold[t] = plus(at(elected(t)), fold[t \ {elected(t)}])
    BY <1>9
  <2>3. ASSUME NEW t \in SUBSET paid, t # {}, fold[t \ {pick[t]}] \in Int
        PROVE  fold[t] = step[<<pick[t], fold[t \ {pick[t]}]>>]
    <3>1. pick[t] = elected(t) /\ pick[t] \in paid
      BY <1>4, <1>5, <2>3
    <3> QED BY <1>7, <2>2, <2>3, <3>1
  <2> QED BY <2>1, <2>3 DEF FollowsOn
<1>11. fold[paid] \in Int
  BY <1>2, <1>5, <1>6, <1>7, <1>10, FoldHasType, Zenon
<1> QED BY <1>1, <1>11

Groups == Labels(Matching, ask.by)
GroupKeys == Measure(Matching, ask)
GroupRank(g) == Cardinality(Before(g, Groups, GroupKeys, ask.dir))

LEMMA RanksAreNumbers ==
  ASSUME NEW M \in SUBSET Rows, NEW by
  PROVE  /\ IsFiniteSet(Labels(M, by))
         /\ \A g, key, dir : /\ IsFiniteSet(Before(g, Labels(M, by), key, dir))
                            /\ Cardinality(Before(g, Labels(M, by), key, dir)) \in Nat
<1>1. IsFiniteSet(Labels(M, by))
  BY PartOfRowsFinite, LabelsFinite
<1>2. \A g, key, dir : Before(g, Labels(M, by), key, dir) \subseteq Labels(M, by)
  BY DEF Before
<1> QED BY <1>1, <1>2, FS_Subset, FS_CardinalityType

LEMMA GroupsAreRanked ==
  ASSUME TypeInv, view = "studio"
  PROVE  /\ IsFiniteSet(Groups) /\ Comparable(GroupKeys, Groups)
         /\ ask.dir \in {"asc", "desc"} /\ ask.limit \in Nat \ {0}
         /\ \A g \in Groups : GroupRank(g) \in Nat
<1>1. IsFiniteSet(Matching) /\ Matching \subseteq Rows
  BY MatchingIsPart DEF TypeInv
<1>2. IsFiniteSet(Groups)
  BY <1>1, RanksAreNumbers DEF Groups
<1>3. /\ ask.dir \in {"asc", "desc"} /\ ask.limit \in Nat \ {0}
      /\ ask.by \subseteq Dimensions /\ ask.sort \in ask.by \cup Metrics
  BY DEF TypeInv, AskInv
<1>4. ASSUME NEW g \in Groups PROVE GroupKeys[g] \in Int \cup {NULL}
  <2>1. PICK r \in Matching : g = Label(r, ask.by)
    BY DEF Groups, Labels
  <2>2. Members(Matching, g) \in SUBSET Rows
    BY <1>1 DEF Members
  <2>3. CASE ask.sort = "revenue"
    BY <2>2, <2>3, RevenueIsNumber DEF GroupKeys, Groups, Measure
  <2>4. CASE ask.sort = "orders"
    <3>1. Cardinality(Members(Matching, g)) \in Nat
      BY <2>2, PartOfRowsFinite
    <3> QED BY <2>4, <3>1 DEF GroupKeys, Groups, Measure
  <2>5. CASE ask.sort \notin Metrics
    <3>1. ask.sort \in ask.by /\ ask.sort \in {"category", "day"}
      BY <1>3, <2>5 DEF Dimensions
    <3>2. r.category \in Int \cup {NULL} /\ r.day \in Int \cup {NULL}
      BY <1>1, RowFields
    <3>3. GroupKeys[g] = r[ask.sort]
      BY <2>1, <2>5, <3>1 DEF GroupKeys, Groups, Measure, Metrics, Label
    <3> QED BY <3>1, <3>2, <3>3
  <2> QED BY <2>3, <2>4, <2>5 DEF Metrics
<1>5. ASSUME NEW g \in Groups PROVE GroupRank(g) \in Nat
  BY <1>1, RanksAreNumbers DEF GroupRank, Groups
<1> QED BY <1>2, <1>3, <1>4, <1>5 DEF Comparable

LEMMA GroupsStay ==
  ASSUME UNCHANGED <<store, view, ask>>
  PROVE  /\ Matching' = Matching /\ Groups' = Groups
         /\ \A g : UntiedGroup(g)' <=> UntiedGroup(g)
         /\ \A g : GroupRank(g)' = GroupRank(g)
  BY RanksStay DEF Groups, GroupKeys, GroupRank, UntiedGroup, Labels, Measure, Before

\* Groups that are ordered by a dimension keep their places while the table grows.
LEMMA GroupsGrow ==
  ASSUME TypeInv, TypeInv', view = "studio", Loaded, kept', ask.sort \in ask.by
  PROVE  /\ Matching \subseteq Matching' /\ Groups \subseteq Groups'
         /\ \A g \in Groups : UntiedGroup(g)' => UntiedGroup(g)
         /\ \A g \in Groups : GroupRank(g) <= GroupRank(g)' /\ GroupRank(g)' \in Nat
<1>1. view' = "studio" /\ ask' = ask /\ Matching \subseteq Matching'
  BY MatchingGrows DEF Loaded, opened
<1>2. Groups \subseteq Groups'
  BY <1>1 DEF Groups, Labels
<1>3. ask.sort \notin {"revenue", "orders"}
  BY DEF TypeInv, AskInv, Dimensions
<1>4. (\A g \in Groups : GroupKeys[g] = g[ask.sort]) /\ (\A g \in Groups' : GroupKeys'[g] = g[ask.sort])
  BY <1>1, <1>3 DEF GroupKeys, Groups, Measure
<1>5. \A g \in Groups : GroupKeys'[g] = GroupKeys[g]
  BY <1>2, <1>4
<1>6. ASSUME NEW g \in Groups, UntiedGroup(g)' PROVE UntiedGroup(g)
  BY <1>2, <1>5, <1>6 DEF UntiedGroup, Groups, GroupKeys
<1>7. ASSUME NEW g \in Groups PROVE GroupRank(g) <= GroupRank(g)' /\ GroupRank(g)' \in Nat
  <2>1. Before(g, Groups, GroupKeys, ask.dir) \subseteq Before(g, Groups', GroupKeys', ask'.dir)
    BY <1>1, <1>2, <1>5 DEF Before
  <2>2. Matching' \in SUBSET Rows
    <3>1. Matching' = Selected(store', "studio", ask')
      BY <1>1 DEF Matching
    <3>2. store'[TableOf("studio", ask')] \in SUBSET Rows
      BY TablesOnly DEF TypeInv, TypeOK
    <3> QED BY <3>1, <3>2, SelectedIsPart
  <2>3. /\ IsFiniteSet(Before(g, Groups', GroupKeys', ask'.dir))
        /\ Cardinality(Before(g, Groups', GroupKeys', ask'.dir)) \in Nat
    BY <2>2, RanksAreNumbers DEF Groups
  <2> QED BY <2>1, <2>3, FS_Subset DEF GroupRank
<1> QED BY <1>1, <1>2, <1>6, <1>7

Unmet == {g \in Labels(start, ask.by) : UntiedGroup(g) /\ g \notin Seen}
Ahead(G, n) == \A g \in G : n <= GroupRank(g)

\* A user who waits for each answer, with an order that loads leave alone.
Following == serial /\ ~failed /\ (changes = 0 \/ ask.sort \in ask.by)

UnmetInv ==
  view = "studio" /\ kept =>
    /\ start \subseteq Matching
    /\ serial => flight \in {<<>>, <<offset>>}
    /\ Following => Ahead(Unmet, IF flight = <<>> THEN offset + ask.limit ELSE offset)
    /\ Following /\ flight = <<>> /\ ~more => Unmet = {}

LEMMA StudioSteps ==
  ASSUME TypeInv, [Next]_vars, view' = "studio"
  PROVE  \/ \E a \in StudioAsks : OpenStudio(a)
         \/ view = "studio" /\ Loaded
         \/ \E i \in DOMAIN flight : Answer(i) \/ AnswerFails(i)
         \/ Step \/ RunAgain
         \/ view = "studio" /\ UNCHANGED vars
<1>1. CASE \/ \E f \in Facts : InsertFact(f[1], f[2])
           \/ \E t \in Tables, u \in Users : ClearFacts(t, u.tenant)
  <2>1. view = "studio"
    BY <1>1 DEF InsertFact, ClearFacts, opened
  <2> QED BY <1>1, <2>1, LoadSteps
<1>2. CASE Leave
  BY <1>2 DEF Leave
<1>3. ASSUME NEW a \in PageAsks, NEW p \in FirstPages, OpenPages(a, p) PROVE FALSE
  BY <1>3 DEF OpenPages, Open
<1>4. CASE ReadRows \/ CountRows \/ Render \/ RequestFails \/ TurnPage
  <2>1. view = "pages"
    BY <1>4 DEF ReadRows, CountRows, Render, RequestFails, TurnPage, TypeInv, TypeOK
  <2>2. view' = view
    BY <1>4 DEF ReadRows, CountRows, Render, RequestFails, TurnPage, opened
  <2> QED BY <2>1, <2>2
<1>5. ASSUME NEW a \in BoardAsks, OpenBoard(a) PROVE FALSE
  BY <1>5 DEF OpenBoard, Open
<1>6. CASE \/ \E t \in Tiles : ReadTile(t)
           \/ AtInputs
           \/ \E scope \in Scopes : Refresh(scope)
  BY <1>6, InputsAlone DEF ReadTile, Refresh, opened
<1>7. CASE UNCHANGED vars
  BY <1>7 DEF vars, opened
<1> QED BY <1>1, <1>2, <1>3, <1>4, <1>5, <1>6, <1>7 DEF Next, AtInputs

\* An answer for the first place not seen moves what is unmet behind its groups, and no
\* extra row means that nothing is.
LEMMA AnswerMeets ==
  ASSUME TypeInv, UnmetInv, view = "studio", kept, Following, NEW i \in DOMAIN flight, Answer(i)
  PROVE  /\ \A g \in Unmet : g \notin screen' => offset + ask.limit <= GroupRank(g)
         /\ ~more' => \A g \in Unmet : g \in screen'
         /\ offset' = offset
<1>1. flight = <<offset>> /\ flight[i] = offset /\ flight # <<>>
  <2>1. flight \in {<<>>, <<offset>>} /\ flight # <<>>
    BY Empty DEF UnmetInv, Following
  <2> QED BY <2>1
<1>2. IsFiniteSet(Groups) /\ Comparable(GroupKeys, Groups) /\ ask.dir \in {"asc", "desc"}
      /\ ask.limit \in Nat \ {0} /\ offset \in Nat
  BY GroupsAreRanked DEF TypeInv, TypeOK
<1>3. PICK o \in Orderings(Groups, GroupKeys, ask.dir) :
        /\ more' = (Cardinality(Cut(o, FetchLimit(ask.limit), offset)) > ask.limit)
        /\ screen' = Cut(o, ask.limit, offset)
  BY <1>1 DEF Answer, Show, Groups, GroupKeys
<1>4. more' <=> Cardinality(Groups) > offset + ask.limit
  BY <1>2, <1>3, ExtraRowTells
<1>5. ASSUME NEW g \in Unmet
      PROVE  /\ offset <= GroupRank(g) /\ GroupRank(g) \in Nat
             /\ GroupRank(g) < Cardinality(Groups)
             /\ g \in screen' <=> offset <= GroupRank(g) /\ GroupRank(g) < offset + ask.limit
  <2>1. Ahead(Unmet, offset) /\ start \subseteq Matching
    BY <1>1 DEF UnmetInv
  <2>2. g \in Groups /\ UntiedGroup(g)
    BY <2>1 DEF Unmet, Groups, Labels
  <2>3. \A h \in Groups : GroupKeys[h] = GroupKeys[g] => h = g
    BY <2>2 DEF UntiedGroup, Groups, GroupKeys
  <2>4. /\ GroupRank(g) \in Nat
        /\ GroupRank(g) < Cardinality(Groups)
        /\ g \in Cut(o, ask.limit, offset) <=> offset <= GroupRank(g) /\ GroupRank(g) < offset + ask.limit
    BY <1>2, <2>2, <2>3, CutByRank DEF GroupRank
  <2> QED BY <1>3, <2>1, <2>4 DEF Ahead
<1>6. Cardinality(Groups) \in Nat
  BY <1>2, FS_CardinalityType
<1>7. offset' = offset
  BY <1>1 DEF Answer
<1> QED BY <1>2, <1>4, <1>5, <1>6, <1>7

LEMMA UnmetStays ==
  ASSUME UNCHANGED <<store, view, ask, start, shown>>
  PROVE  Unmet' = Unmet /\ \A G, n : Ahead(G, n)' <=> Ahead(G, n)
  BY GroupsStay DEF Unmet, Seen, Ahead

LEMMA OneSent ==
  ASSUME NEW n
  PROVE  Append(<<>>, n) = <<n>> /\ <<n>> # <<>>
  OBVIOUS

LEMMA UnmetStep ==
  ASSUME TypeInv, TypeInv', UnmetInv, [Next]_vars
  PROVE  UnmetInv'
<1> SUFFICES ASSUME view' = "studio", kept' PROVE UnmetInv'
  BY DEF UnmetInv
<1>1. ASSUME NEW a \in StudioAsks, OpenStudio(a) PROVE UnmetInv'
  <2>1. /\ flight' = <<0>> /\ offset' = 0 /\ start' = Selected(store, "studio", ask')
        /\ store' = store
    BY <1>1 DEF OpenStudio, Open, TypeInv, IdleInv
  <2>2. start' = Matching'
    BY <2>1 DEF Matching
  <2>3. \A g : GroupRank(g)' \in Nat
    <3>1. Matching' \in SUBSET Rows
      BY <2>2 DEF TypeInv, TypeOK
    <3> QED BY <3>1, RanksAreNumbers DEF GroupRank, Groups
  <2>4. <<0>> # <<>>
    OBVIOUS
  <2> QED BY <2>1, <2>2, <2>3, <2>4 DEF UnmetInv, Ahead
<1>2. CASE view = "studio" /\ Loaded
  <2>1. /\ kept /\ changes' # 0
        /\ UNCHANGED <<ask, start, shown, flight, offset, more, failed, serial>>
    BY <1>2 DEF Loaded, TypeInv, TypeOK, opened, studio
  <2>2. start \subseteq Matching /\ Matching \subseteq Matching'
    BY <1>2, <2>1, MatchingGrows DEF UnmetInv
  <2>3. ASSUME Following', NEW n \in Nat, Ahead(Unmet, n)
        PROVE  Unmet' \subseteq Unmet /\ \A g \in Unmet' : n <= GroupRank(g)'
    <3>1. ask.sort \in ask.by /\ Following
      BY <2>1, <2>3 DEF Following
    <3>2. Labels(start, ask.by) \subseteq Groups
      BY <2>2 DEF Groups, Labels
    <3>3. /\ \A g \in Groups : UntiedGroup(g)' => UntiedGroup(g)
          /\ \A g \in Groups : GroupRank(g) <= GroupRank(g)' /\ GroupRank(g)' \in Nat
          /\ Groups \subseteq Groups'
      BY <1>2, <3>1, GroupsGrow
    <3>4. Unmet' \subseteq Unmet
      BY <2>1, <3>2, <3>3 DEF Unmet, Seen
    <3>5. ASSUME NEW g \in Unmet' PROVE n <= GroupRank(g)'
      <4>1. g \in Groups /\ n <= GroupRank(g)
        BY <2>3, <3>2, <3>4 DEF Ahead, Unmet
      <4>2. GroupRank(g) \in Nat /\ GroupRank(g)' \in Nat
        BY <1>2, <3>3, <4>1, GroupsAreRanked
      <4> QED BY <3>3, <4>1, <4>2
    <3> QED BY <3>4, <3>5
  <2>4. offset \in Nat /\ offset + ask.limit \in Nat
    BY <1>2 DEF TypeInv, TypeOK, AskInv
  <2>5. Following' => Following
    BY <2>1 DEF Following
  <2> DEFINE n == IF flight = <<>> THEN offset + ask.limit ELSE offset
  <2>6. n \in Nat
    BY <2>4
  <2>7. Following' => Ahead(Unmet, n)
    BY <1>2, <2>1, <2>5 DEF UnmetInv
  <2>8. n' = n
    BY <2>1
  <2>9. Following' => (\A g \in Unmet' : n <= GroupRank(g)') /\ Unmet' \subseteq Unmet
    <3> HIDE DEF n
    <3> QED BY <2>3, <2>6, <2>7
  <2>10. Following' => Ahead(Unmet, n)'
    BY <2>8, <2>9 DEF Ahead
  <2> QED BY <1>2, <2>1, <2>2, <2>5, <2>9, <2>10 DEF UnmetInv
<1>3. ASSUME NEW i \in DOMAIN flight, Answer(i) \/ AnswerFails(i)
      PROVE  /\ view = "studio" /\ kept /\ start \subseteq Matching /\ flight # <<>>
             /\ UNCHANGED <<store, view, ask, start, failed, serial, changes>> \/ failed'
             /\ UNCHANGED <<store, view, ask, start, serial>>
             /\ start' \subseteq Matching'
             /\ serial' => flight' = <<>>
  <2>1. view = "studio" /\ flight # <<>>
    BY Empty DEF TypeInv, IdleInv
  <2>2. /\ kept /\ flight' = RemoveAt(flight, i)
        /\ UNCHANGED <<store, view, ask, start, serial>>
        /\ UNCHANGED <<store, view, ask, start, failed, serial, changes>> \/ failed'
    BY <1>3 DEF Answer, AnswerFails, opened
  <2>3. start \subseteq Matching /\ Matching' = Matching
    BY <2>1, <2>2, GroupsStay DEF UnmetInv
  <2>4. ASSUME serial PROVE flight' = <<>>
    <3>1. flight = <<offset>> /\ flight \in Seq(Nat)
      BY <2>1, <2>2, <2>4 DEF UnmetInv, TypeInv, TypeOK
    <3>2. Len(flight) = 1
      BY <3>1
    <3>3. RemoveAt(flight, i) \in Seq(Nat) /\ Len(RemoveAt(flight, i)) = Len(flight) - 1
      BY <3>1, RemoveAtShortens
    <3> QED BY <2>2, <3>2, <3>3
  <2> QED BY <2>1, <2>2, <2>3, <2>4
<1>4. ASSUME NEW i \in DOMAIN flight, Answer(i) PROVE UnmetInv'
  <2>1. Following' => Following
    BY <1>4 DEF Following, Answer, opened
  <2>2. /\ view = "studio" /\ kept /\ UNCHANGED <<store, view, ask, start>>
        /\ start' \subseteq Matching' /\ (serial' => flight' = <<>>)
    BY <1>3, <1>4
  <2>3. Seen' = Seen \cup screen'
    <3>1. /\ DOMAIN shown' = DOMAIN shown \cup {flight[i]}
          /\ \A k \in DOMAIN shown' :
               shown'[k] = (IF k \in DOMAIN shown THEN shown[k] ELSE {})
                             \cup (IF k = flight[i] THEN screen' ELSE {})
      BY <1>4 DEF Answer, Show
    <3> QED BY <3>1 DEF Seen
  <2>4. Unmet' = Unmet \ screen'
    BY <2>2, <2>3, GroupsStay DEF Unmet
  <2>5. Following => /\ \A g \in Unmet : g \notin screen' => offset + ask.limit <= GroupRank(g)
                     /\ ~more' => \A g \in Unmet : g \in screen'
                     /\ offset' = offset
    BY <1>4, <2>2, AnswerMeets
  <2>6. Following' => /\ \A g \in Unmet' : offset' + ask'.limit <= GroupRank(g)'
                      /\ ~more' => Unmet' = {}
                      /\ flight' = <<>>
    BY <2>1, <2>2, <2>4, <2>5, GroupsStay DEF Following
  <2> QED BY <2>2, <2>6 DEF UnmetInv, Ahead
<1>5. ASSUME NEW i \in DOMAIN flight, AnswerFails(i) PROVE UnmetInv'
  <2>1. failed' /\ start' \subseteq Matching' /\ (serial' => flight' = <<>>)
    BY <1>3, <1>5 DEF AnswerFails
  <2> QED BY <2>1 DEF UnmetInv, Following
<1>6. CASE Step \/ RunAgain
  <2>1. /\ view = "studio" /\ kept /\ flight' = Append(flight, offset')
        /\ serial' = (serial /\ flight = <<>>)
        /\ UNCHANGED <<store, view, ask, start, shown>>
        /\ UNCHANGED <<more, failed, changes>>
    BY <1>6 DEF Step, RunAgain, Request, opened
  <2>2. start' \subseteq Matching'
    BY <2>1, GroupsStay DEF UnmetInv
  <2>3. serial' => flight' = <<offset'>> /\ flight' # <<>>
    BY <2>1, OneSent
  <2>4. ASSUME Following' PROVE Ahead(Unmet, offset')
    <3>1. Following /\ flight = <<>> /\ Ahead(Unmet, offset + ask.limit) /\ Unmet \subseteq Groups
      BY <2>1, <2>4 DEF Following, UnmetInv, Unmet, Groups, Labels
    <3>2. offset \in Nat /\ ask.limit \in Nat /\ \A g \in Groups : GroupRank(g) \in Nat
      BY <2>1, GroupsAreRanked DEF TypeInv, TypeOK
    <3>3. offset' \in Nat /\ offset' <= offset + ask.limit
      BY <1>6, <3>2 DEF Step, RunAgain
    <3> QED BY <3>1, <3>2, <3>3 DEF Ahead
  <2>5. Unmet' = Unmet /\ (\A g : GroupRank(g)' = GroupRank(g))
    BY <2>1, UnmetStays, GroupsStay
  <2>6. Following' => (\A g \in Unmet' : offset' <= GroupRank(g)') /\ flight' # <<>> /\ serial'
    BY <2>3, <2>4, <2>5 DEF Following, Ahead
  <2> QED BY <2>2, <2>3, <2>6 DEF UnmetInv, Ahead
<1>7. CASE view = "studio" /\ UNCHANGED vars
  <2>1. /\ UNCHANGED <<store, view, ask, start, shown>>
        /\ UNCHANGED <<flight, offset, more, failed, serial, changes, kept>>
    BY <1>7 DEF vars, opened, studio
  <2>2. Following' <=> Following
    BY <2>1 DEF Following
  <2> QED BY <1>7, <2>1, <2>2, UnmetStays, GroupsStay DEF UnmetInv
<1> QED BY <1>1, <1>2, <1>4, <1>5, <1>6, <1>7, StudioSteps

\* GroupsNotSkipped: going on while there is more shows every group that no other ties
\* with, in a table at rest and, ordered by a dimension, in one that grows.
THEOREM EveryGroupIsMet == Spec => []GroupsNotSkipped
<1>1. Init => UnmetInv
  BY DEF Init, UnmetInv
<1>2. TypeInv /\ TypeInv' /\ UnmetInv /\ [Next]_vars => UnmetInv'
  BY UnmetStep
<1>3. UnmetInv => GroupsNotSkipped
  BY DEF UnmetInv, GroupsNotSkipped, Settled, Following, Unmet
<1> QED BY <1>1, <1>2, <1>3, TypeAlways, PTL DEF Spec

-----------------------------------------------------------------------------
(* The dashboard. *)

LEMMA BoardSteps ==
  ASSUME TypeInv, [Next]_vars, view' = "board"
  PROVE  \/ \E a \in BoardAsks : OpenBoard(a)
         \/ view = "board" /\ Loaded
         \/ \E t \in Tiles : ReadTile(t)
         \/ AtInputs
         \/ \E scope \in Scopes : Refresh(scope)
         \/ view = "board" /\ UNCHANGED vars
<1>1. CASE \/ \E f \in Facts : InsertFact(f[1], f[2])
           \/ \E t \in Tables, u \in Users : ClearFacts(t, u.tenant)
  <2>1. view = "board"
    BY <1>1 DEF InsertFact, ClearFacts, opened
  <2> QED BY <1>1, <2>1, LoadSteps
<1>2. CASE Leave
  BY <1>2 DEF Leave
<1>3. ASSUME NEW a \in PageAsks, NEW p \in FirstPages, OpenPages(a, p) PROVE FALSE
  BY <1>3 DEF OpenPages, Open
<1>4. CASE ReadRows \/ CountRows \/ Render \/ RequestFails \/ TurnPage
  <2>1. view = "pages"
    BY <1>4 DEF ReadRows, CountRows, Render, RequestFails, TurnPage, TypeInv, TypeOK
  <2>2. view' = view
    BY <1>4 DEF ReadRows, CountRows, Render, RequestFails, TurnPage, opened
  <2> QED BY <2>1, <2>2
<1>5. ASSUME NEW a \in StudioAsks, OpenStudio(a) PROVE FALSE
  BY <1>5 DEF OpenStudio, Open
<1>6. ASSUME NEW i \in DOMAIN flight, Answer(i) \/ AnswerFails(i) PROVE FALSE
  <2>1. view = "studio"
    BY DEF TypeInv, IdleInv
  <2> QED BY <1>6, <2>1 DEF Answer, AnswerFails, opened
<1>7. CASE Step \/ RunAgain
  BY <1>7 DEF Step, RunAgain, Request, opened
<1>8. CASE UNCHANGED vars
  BY <1>8 DEF vars, opened
<1> QED BY <1>1, <1>2, <1>3, <1>4, <1>5, <1>6, <1>7, <1>8 DEF Next, AtInputs

(* TilesBetween: what a tile may show of the rows it was read from. *)

Apart(X) == \A c, d \in X : c # d => c \cap d = {}
Whole(t, X) == Cardinality(X) < TileLimit \/ t \notin {"breakdown", "products"}
Countable(t, S) == {r \in S : t = "segments" => r.returning # NULL}

LEMMA GroupsSplit ==
  ASSUME NEW S, NEW by
  PROVE  Apart(GroupBy(S, by)) /\ UNION GroupBy(S, by) = S
<1>1. ASSUME NEW c \in GroupBy(S, by), NEW d \in GroupBy(S, by), NEW r \in c \cap d PROVE c = d
  <2>1. PICK g \in Labels(S, by) : c = Members(S, g)
    BY DEF GroupBy
  <2>2. PICK h \in Labels(S, by) : d = Members(S, h)
    BY DEF GroupBy
  <2>3. DOMAIN g = by /\ DOMAIN h = by
    BY DEF Labels, Label
  <2>4. g = h
    BY <2>1, <2>2, <2>3 DEF Members
  <2> QED BY <2>1, <2>2, <2>4
<1>2. ASSUME NEW r \in S PROVE \E c \in GroupBy(S, by) : r \in c
  <2>1. Label(r, by) \in Labels(S, by) /\ DOMAIN Label(r, by) = by
    BY DEF Labels, Label
  <2>2. r \in Members(S, Label(r, by))
    BY <2>1 DEF Members
  <2> QED BY <2>1, <2>2 DEF GroupBy
<1>3. \A c \in GroupBy(S, by) : c \subseteq S
  BY DEF GroupBy, Members
<1> QED BY <1>1, <1>2, <1>3 DEF Apart

LEMMA ProductsSplit ==
  ASSUME NEW S
  PROVE  Apart(GroupByProduct(S)) /\ UNION GroupByProduct(S) = S
  BY DEF GroupByProduct, Apart

\* A tile cut short at the limit shows some of the groups, any other all of them.
LEMMA TopSplit ==
  ASSUME NEW S, IsFiniteSet(S), NEW classes, Apart(classes), UNION classes = S,
         NEW X \in Top(classes, TileLimit)
  PROVE  Apart(X) /\ (Cardinality(X) < TileLimit => UNION X = S)
<1>1. PICK o \in Orderings(classes, [c \in classes |-> Revenue(c)], "desc") : X = Cut(o, TileLimit, 0)
  BY DEF Top, Pages
<1>2. X \subseteq classes
  BY <1>1, CutIsPart DEF Orderings
<1>3. IsFiniteSet(classes)
  <2>1. IsFiniteSet(SUBSET S) /\ classes \in SUBSET SUBSET S
    BY FS_SUBSET
  <2> QED BY <2>1, FS_Subset
<1>4. Cardinality(X) < TileLimit => X = classes
  BY <1>1, <1>3, ShortCutIsAll, BoundsAssumption
<1> QED BY <1>2, <1>4 DEF Apart

LEMMA TileSplit ==
  ASSUME TypeInv, view = "board", NEW t \in Tiles, NEW X \in TileResults(t)
  PROVE  /\ UNION X \subseteq Matching /\ Apart(X)
         /\ Whole(t, X) => Countable(t, Matching) \subseteq UNION X
<1> DEFINE M == Matching
<1>1. IsFiniteSet(M) /\ \A r \in M : r.returning \in {0, 1, NULL}
  BY MatchingIsPart, RowFields DEF TypeInv
<1>2. UNION X \subseteq M
  BY TilePart DEF TypeInv
<1>3. CASE t = "kpis"
  BY <1>2, <1>3 DEF TileResults, Apart, Countable
<1>4. CASE t = "segments"
  <2>1. X = {{r \in M : r.returning = 0}, {r \in M : r.returning = 1}}
    BY <1>4 DEF TileResults, Segments
  <2>2. Apart(X) /\ Countable(t, M) \subseteq UNION X
    BY <1>1, <1>4, <2>1 DEF Apart, Countable
  <2> QED BY <1>2, <2>2
<1>5. CASE t = "timeseries"
  <2>1. X = GroupBy(M, {"day"})
    BY <1>5 DEF TileResults
  <2> QED BY <1>2, <2>1, GroupsSplit DEF Countable
<1>6. CASE t = "breakdown"
  <2>1. X \in Top(GroupBy(M, {"category"}), TileLimit)
    BY <1>6 DEF TileResults
  <2>2. Apart(GroupBy(M, {"category"})) /\ UNION GroupBy(M, {"category"}) = M
    BY GroupsSplit
  <2>3. Apart(X) /\ (Cardinality(X) < TileLimit => UNION X = M)
    BY <1>1, <2>1, <2>2, TopSplit
  <2> QED BY <1>2, <1>6, <2>3 DEF Whole, Countable
<1>7. CASE t = "products"
  <2>1. X \in Top(GroupByProduct(M), TileLimit)
    BY <1>7 DEF TileResults
  <2>2. Apart(X) /\ (Cardinality(X) < TileLimit => UNION X = M)
    BY <1>1, <2>1, ProductsSplit, TopSplit
  <2> QED BY <1>2, <1>7, <2>2 DEF Whole, Countable
<1> QED BY <1>3, <1>4, <1>5, <1>6, <1>7, DashboardAssumption

TileInv ==
  view = "board" /\ kept =>
    /\ start \subseteq Matching
    /\ \A t \in DOMAIN tiles :
         /\ UNION tiles[t] \subseteq Matching /\ Apart(tiles[t])
         /\ Whole(t, tiles[t]) => Countable(t, start) \subseteq UNION tiles[t]

LEMMA TileStep ==
  ASSUME TypeInv, TileInv, [Next]_vars
  PROVE  TileInv'
<1> SUFFICES ASSUME view' = "board", kept' PROVE TileInv'
  BY DEF TileInv
<1>1. ASSUME NEW a \in BoardAsks, OpenBoard(a) PROVE TileInv'
  <2>1. DOMAIN tiles' = {}
    BY <1>1 DEF OpenBoard, Open, board, TypeInv, IdleInv
  <2>2. start' = Matching'
    BY <1>1 DEF OpenBoard, Open, Matching
  <2> QED BY <2>1, <2>2 DEF TileInv
<1>2. CASE view = "board" /\ Loaded
  <2>1. kept /\ UNCHANGED <<start, tiles>>
    BY <1>2 DEF Loaded, opened, board
  <2>2. Matching \subseteq Matching'
    BY <1>2, MatchingGrows
  <2> QED BY <1>2, <2>1, <2>2 DEF TileInv
<1>3. ASSUME NEW t \in Tiles, ReadTile(t) PROVE TileInv'
  <2>1. view = "board" /\ kept /\ UNCHANGED <<store, view, ask, start>>
    BY <1>3 DEF ReadTile, opened
  <2>2. PICK X \in TileResults(t) :
          tiles' = [x \in DOMAIN tiles \cup {t} |-> IF x = t THEN X ELSE tiles[x]]
    BY <1>3 DEF ReadTile
  <2>3. start \subseteq Matching /\ Countable(t, start) \subseteq Countable(t, Matching)
    BY <2>1 DEF TileInv, Countable
  <2>4. /\ UNION X \subseteq Matching /\ Apart(X)
        /\ Whole(t, X) => Countable(t, start) \subseteq UNION X
    BY <2>1, <2>3, TileSplit
  <2>5. \A x \in DOMAIN tiles' :
          /\ UNION tiles'[x] \subseteq Matching /\ Apart(tiles'[x])
          /\ Whole(x, tiles'[x]) => Countable(x, start) \subseteq UNION tiles'[x]
    BY <2>1, <2>2, <2>4 DEF TileInv
  <2> QED BY <2>1, <2>3, <2>5, RanksStay DEF TileInv
<1>4. CASE AtInputs \/ (view = "board" /\ UNCHANGED vars)
  <2>1. view = "board" /\ UNCHANGED <<store, view, ask, start>> /\ UNCHANGED <<tiles, kept>>
    BY <1>4, InputsAlone DEF vars, opened, board
  <2> QED BY <2>1, RanksStay DEF TileInv
<1>5. ASSUME NEW scope \in Scopes, Refresh(scope) PROVE TileInv'
  <2>1. DOMAIN tiles' = {}
    BY <1>5, Empty DEF Refresh
  <2>2. start' = Matching'
    BY <1>5 DEF Refresh, Matching
  <2> QED BY <2>1, <2>2 DEF TileInv
<1> QED BY <1>1, <1>2, <1>3, <1>4, <1>5, BoardSteps

\* TilesBetween: every tile counts what was there at first, once, and nothing that is not
\* there now, so tiles of a table at rest agree.
THEOREM TilesAgree == Spec => []TilesBetween
<1>1. Init => TileInv
  BY DEF Init, TileInv
<1>2. TypeInv /\ TileInv /\ [Next]_vars => TileInv'
  BY TileStep
<1>3. TileInv => TilesBetween
  BY DEF TileInv, TilesBetween, Apart, Whole, Countable, Counted
<1> QED BY <1>1, <1>2, <1>3, TypeAlways, PTL DEF Spec
-----------------------------------------------------------------------------
(* OptionsAreLive: a row stands behind every option, and shows once it is in force. *)

\* What the viewer of the dashboard would see under some conditions.
Visible(conditions) == Where(store[Viewed], ask.user, conditions)

Offered(v, f) ==
  v \in Int \ {EmptyText} /\ \A conditions \in under[f] : \E r \in Visible(conditions) : r[f] = v
Live(value, conditions) == value # NULL /\ Strip(value) = value => Visible(conditions) # {}

OptionInv ==
  view = "board" /\ kept =>
    /\ \A f \in OptionFields : \A v \in options[f] : Offered(v, f)
    /\ Live(chosen, ParseFilters(inputs))
    /\ Live(picked, ParseFilters(ask.params))
    /\ picked # NULL /\ Strip(picked) = picked /\ "kpis" \in DOMAIN tiles => UNION tiles["kpis"] # {}

LEMMA VisibleGrows ==
  ASSUME NEW S, NEW T, S \subseteq T, NEW u, NEW conditions
  PROVE  Where(S, u, conditions) \subseteq Where(T, u, conditions)
  BY DEF Where

\* Putting the value of a field beside the other conditions selects the rows that have it.
LEMMA PickedRows ==
  ASSUME NEW params, DOMAIN params = Slots, NEW S, NEW u, NEW f \in OptionFields,
         NEW v \in Int \ {EmptyText}, Strip(v) = v,
         NEW r \in Where(S, u, OtherFilters(params, f)), r[f] = v
  PROVE  r \in Where(S, u, ParseFilters([params EXCEPT ![InputOf(f)] = v]))
<1> DEFINE slot == InputOf(f)
           old == ParseFilters(params)
           new == ParseFilters([params EXCEPT ![slot] = v])
<1>1. slot \in Slots /\ slot[1] = f /\ slot[2] = "=" /\ f \in TextFields
  BY InputIsSlot
<1> HIDE DEF slot
<1>2. ASSUME NEW s \in DOMAIN new, s # slot PROVE s \in DOMAIN old /\ new[s] = old[s]
  BY <1>2 DEF ParseFilters
<1>3. slot \in DOMAIN new => new[slot] = v
  BY <1>1 DEF ParseFilters
<1> HIDE DEF old, new
<1>4. r \in S /\ r.tenant = u.tenant /\ (u.role = "NORMAL" => r.owner = u.id)
  BY DEF Where
<1>5. \A s \in DOMAIN old \ {slot} : Holds(r, s, old[s])
  BY DEF Where, Passes, OtherFilters, Restrict, old, slot
<1>6. Holds(r, slot, v)
  BY <1>1, TextsAssumption DEF Holds, Unreadable, TextFields
<1>7. Passes(r, new)
  BY <1>2, <1>3, <1>5, <1>6 DEF Passes
<1> QED BY <1>4, <1>7 DEF Where, new, slot

LEMMA OptionStep ==
  ASSUME TypeInv, OptionInv, [Next]_vars
  PROVE  OptionInv'
<1> SUFFICES ASSUME view' = "board", kept' PROVE OptionInv'
  BY DEF OptionInv
<1>1. ASSUME NEW a \in BoardAsks, OpenBoard(a) PROVE OptionInv'
  <2>1. (\A f \in OptionFields : options'[f] = {}) /\ chosen' = NULL /\ picked' = NULL
    BY <1>1 DEF OpenBoard, Open, TypeInv, IdleInv
  <2> QED BY <2>1 DEF OptionInv, Live
<1>2. CASE view = "board" /\ Loaded
  <2>1. kept /\ UNCHANGED <<ask, view>> /\ UNCHANGED <<tiles, inputs, options, under, chosen, picked>>
    BY <1>2 DEF Loaded, opened, board, panel
  <2>2. store[Viewed] \subseteq store'[Viewed] /\ Viewed' = Viewed
    BY <1>2, <2>1, TablesOnly DEF Loaded, Viewed
  <2>3. \A conditions : Where(store[Viewed], ask.user, conditions)
                          \subseteq Where(store'[Viewed], ask.user, conditions)
    BY <2>2, VisibleGrows
  <2>4. \A f \in OptionFields : \A v \in options[f] : Offered(v, f)'
    BY <1>2, <2>1, <2>2, <2>3 DEF OptionInv, Offered, Visible
  <2>5. Live(chosen, ParseFilters(inputs))' /\ Live(picked, ParseFilters(ask.params))'
    BY <1>2, <2>1, <2>2, <2>3 DEF OptionInv, Live, Visible
  <2> QED BY <1>2, <2>1, <2>4, <2>5 DEF OptionInv
<1>3. ASSUME NEW t \in Tiles, ReadTile(t) PROVE OptionInv'
  <2>1. /\ view = "board" /\ kept /\ UNCHANGED <<store, view, ask>>
        /\ UNCHANGED <<inputs, options, under, chosen, picked>>
    BY <1>3 DEF ReadTile, opened, panel
  <2>2. PICK X \in TileResults(t) :
          tiles' = [x \in DOMAIN tiles \cup {t} |-> IF x = t THEN X ELSE tiles[x]]
    BY <1>3 DEF ReadTile
  <2>3. Matching = Visible(ParseFilters(ask.params))
    BY <2>1 DEF Matching, Selected, Visible, Viewed
  <2>4. t = "kpis" => UNION X = Visible(ParseFilters(ask.params))
    BY <2>2, <2>3 DEF TileResults
  <2>5. picked # NULL /\ Strip(picked) = picked /\ "kpis" \in DOMAIN tiles' => UNION tiles'["kpis"] # {}
    BY <2>1, <2>2, <2>4 DEF OptionInv, Live
  <2> QED BY <2>1, <2>5 DEF OptionInv, Offered, Live, Visible, Viewed
<1>4. ASSUME NEW f \in OptionFields, AskOptions(f) PROVE OptionInv'
  <2>1. /\ view = "board" /\ kept /\ UNCHANGED <<store, view, ask>>
        /\ UNCHANGED <<tiles, inputs, chosen, picked>>
    BY <1>4 DEF AskOptions, opened
  <2>2. under' = [under EXCEPT ![f] = {OtherFilters(inputs, f)}]
        /\ \E offered : options' = [options EXCEPT ![f] = offered]
    BY <1>4 DEF AskOptions
  <2>3. ASSUME NEW v \in options'[f] PROVE Offered(v, f)'
    <3>1. v \in Int \ {EmptyText} /\ \E r \in OptionRows(inputs, f) : r[f] = v
      BY <1>4, OfferedIsStored DEF TypeInv
    <3>2. under'[f] = {OtherFilters(inputs, f)} /\ Viewed' = Viewed
      BY <2>1, <2>2 DEF Viewed, TypeInv, TypeOK
    <3>3. OptionRows(inputs, f) = Where(store'[Viewed'], ask'.user, OtherFilters(inputs, f))
      BY <2>1, <3>2 DEF OptionRows
    <3>4. \A conditions \in under'[f] : \E r \in Where(store'[Viewed'], ask'.user, conditions) : r[f] = v
      BY <3>1, <3>2, <3>3
    <3> QED BY <3>1, <3>4 DEF Offered, Visible
  <2>4. ASSUME NEW g \in OptionFields, g # f, NEW v \in options'[g] PROVE Offered(v, g)'
    <3>1. options'[g] = options[g] /\ under'[g] = under[g]
      BY <2>2, <2>4 DEF TypeInv, TypeOK
    <3> QED BY <2>1, <2>4, <3>1 DEF OptionInv, Offered, Visible, Viewed
  <2> QED BY <2>1, <2>3, <2>4 DEF OptionInv, Live, Visible, Viewed
<1>5. ASSUME NEW f \in OptionFields, NEW v \in options[f], PickOption(f, v) PROVE OptionInv'
  <2>1. /\ view = "board" /\ kept /\ UNCHANGED <<store, view, ask>>
        /\ UNCHANGED <<tiles, options, under, picked>>
    BY <1>5 DEF PickOption, opened
  <2>2. /\ inputs' = [inputs EXCEPT ![InputOf(f)] = v]
        /\ chosen' = IF OtherFilters(inputs, f) \in under[f] THEN v ELSE NULL
    BY <1>5 DEF PickOption
  <2>3. ASSUME chosen' # NULL, Strip(chosen') = chosen'
        PROVE  Where(store[Viewed], ask.user, ParseFilters(inputs')) # {}
    <3>1. OtherFilters(inputs, f) \in under[f] /\ chosen' = v
      BY <2>2, <2>3
    <3>2. PICK r \in Where(store[Viewed], ask.user, OtherFilters(inputs, f)) : r[f] = v
      BY <2>1, <3>1 DEF OptionInv, Offered, Visible
    <3>3. v \in Int \ {EmptyText} /\ Strip(v) = v /\ DOMAIN inputs = Slots
      BY <2>1, <2>3, <3>1 DEF OptionInv, Offered, TypeInv, TypeOK
    <3>4. r \in Where(store[Viewed], ask.user, ParseFilters([inputs EXCEPT ![InputOf(f)] = v]))
      BY <3>2, <3>3, PickedRows
    <3> QED BY <2>2, <3>4
  <2> QED BY <2>1, <2>3 DEF OptionInv, Offered, Live, Visible, Viewed
<1>6. ASSUME NEW e \in Edits, EditInput(e[1], e[2]) PROVE OptionInv'
  <2>1. /\ view = "board" /\ kept /\ UNCHANGED <<store, view, ask>>
        /\ UNCHANGED <<tiles, options, under, picked>> /\ chosen' = NULL
    BY <1>6 DEF EditInput, opened
  <2> QED BY <2>1 DEF OptionInv, Offered, Live, Visible, Viewed
<1>7. ASSUME NEW scope \in Scopes, Refresh(scope) PROVE OptionInv'
  <2>1. /\ view = "board" /\ kept /\ UNCHANGED <<store, view>> /\ DOMAIN tiles' = {}
        /\ UNCHANGED <<inputs, options>>
    BY <1>7, Empty DEF Refresh
  <2>2. ask = [user |-> ask.user, scope |-> ask.scope, params |-> ask.params,
               tiles |-> ask.tiles, fields |-> ask.fields, edits |-> ask.edits]
    BY <2>1 DEF TypeInv, AskInv
  <2>3. ask'.user = ask.user /\ ask'.scope = scope /\ ask'.params = inputs
    BY <1>7, <2>2 DEF Refresh
  <2>4. CASE scope = ask.scope
    <3>1. Viewed' = Viewed
      BY <2>1, <2>3, <2>4 DEF Viewed, TableOf
    <3>2. picked' = chosen /\ UNCHANGED <<under, chosen>>
      BY <1>7, <2>4 DEF Refresh
    <3> QED BY <2>1, <2>3, <3>1, <3>2 DEF OptionInv, Offered, Live, Visible
  <2>5. CASE scope # ask.scope
    <3>1. picked' = NULL /\ chosen' = NULL /\ \A f \in OptionFields : under'[f] = {}
      BY <1>7, <2>5 DEF Refresh
    <3> QED BY <2>1, <3>1 DEF OptionInv, Offered, Live
  <2> QED BY <2>4, <2>5
<1>8. CASE view = "board" /\ UNCHANGED vars
  <2>1. /\ UNCHANGED <<store, view, ask, kept>>
        /\ UNCHANGED <<tiles, inputs, options, under, chosen, picked>>
    BY <1>8 DEF vars, opened, board, panel
  <2> QED BY <1>8, <2>1 DEF OptionInv, Offered, Live, Visible, Viewed
<1> QED BY <1>1, <1>2, <1>3, <1>4, <1>5, <1>6, <1>7, <1>8, BoardSteps DEF AtInputs

\* OptionsAreLive: a value that was offered for a filter and put into force beside the
\* filters it was offered for leaves something to show.
THEOREM NoDeadOptions == Spec => []OptionsAreLive
<1>1. Init => OptionInv
  BY DEF Init, OptionInv
<1>2. TypeInv /\ OptionInv /\ [Next]_vars => OptionInv'
  BY OptionStep
<1>3. TypeInv /\ OptionInv => OptionsAreLive
  BY DEF OptionInv, OptionsAreLive, TypeInv, TypeOK, IdleInv
<1> QED BY <1>1, <1>2, <1>3, TypeAlways, PTL DEF Spec
=============================================================================
