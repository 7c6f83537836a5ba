------------------------------ MODULE MCIssueRows ------------------------------
(***************************************************************************)
(* A small instance of IssueRows.  Two known countries and an alias, one     *)
(* city of the static map and one outside it, a map that accepts a city      *)
(* named three times with a share of three quarters.  The files are the ones in  *)
(* which each rule's cases occur: every short word as a country or a city,   *)
(* every form of an amount, a rate and a total, totals around each tolerance, every pair of   *)
(* batches of up to two identifiers, every batch of up to four rows that     *)
(* name a city, and pairs of batches that share a row.                      *)
(***************************************************************************)
EXTENDS IssueRows

Abca == <<"a", "b", "c", "a">>
Cca == <<"c", "c", "a">>
Ab == <<"a", "b">>
Static == <<"b", "b", "b", "c">>
Found == <<"z", "z", "z">>

MCLetters == {"a", "b", "c", "x", "z", "day", "t1", "t2", "t3", "t4", "RA", "RB", "-", "+", "0",
              "1", "2", "4", "paid", "open", "cash", "odd", "food", "legal"}
MCUnaccented == [l \in {"x"} |-> "a"]
MCSeparators == {"-"}
MCCountryReference == {Ab, Abca, Cca}
MCCityReference == {Static}
MCCountryAliases == [w \in {Ab} |-> Abca]
MCKnownCountries == {Abca, Cca}
MCCityToCountry == [c \in {Static} |-> Abca]
MCCountryToRegion == [c \in {Abca, Cca} |-> IF c = Abca THEN <<"RA">> ELSE <<"RB">>]
MCPostalCodeRegex == [c \in {Abca} |-> {<<"1", "2">>}]
MCPhonePrefixCountry ==
  [p \in {<<"1">>, <<"4">>, <<"4", "2">>} |->
     CASE p = <<"1">> -> {Abca, Cca} [] p = <<"4">> -> {Cca} [] OTHER -> {Abca}]
MCAllowedStatuses == {<<"paid">>, <<"open">>}
MCAllowedPaymentMethods == {<<"cash">>}
MCStatusRequiresPayment == {<<"paid">>}
MCAllowedDepartments == {<<"legal">>}
MCAllowedCategories == {<<"food">>}

Text(word) == [word |-> word, look |-> "plain"]
Looks(word, look) == [word |-> word, look |-> look]
Number(form, val) == [form |-> form, val |-> val, digits |-> val]
None == Text(<<>>)

Base == [
  transaction_id |-> Text(<<"t1">>), order_date |-> Text(<<"day">>), country |-> Text(Abca),
  city |-> Text(Static), region_code |-> Text(<<"RA">>), postal_code |-> Text(<<"1", "2">>),
  phone |-> None, status |-> Text(<<"paid">>), payment_method |-> Text(<<"cash">>),
  category |-> Text(<<"food">>), department |-> Text(<<"legal">>),
  quantity |-> Number("plain", 1), unit_price |-> Number("plain", 1000),
  total_amount |-> Number("plain", 1000), discount_percent |-> Number("blank", 0),
  tax_rate |-> Number("blank", 0)]

ShortWords == UNION {[1..n -> {"a", "b", "c"}] : n \in 0..4}
LongWords == {<<"a", "b", "c", "a", "a", "a">>, <<"a", "b", "c", "a", "b", "c", "a">>,
              <<"x", "b">>, <<"x", "b", "c", "a">>, <<"b", "b", "z", "z", "z", "c">>}
TypoRows ==
  {[Base EXCEPT !.country = Text(w)] : w \in ShortWords \cup LongWords}
    \cup {[Base EXCEPT !.city = Looks(w, "capital")] : w \in ShortWords \cup LongWords}

\* The quantity 1 and the total 1000 in every way to write them; "1e0" spells 10, and
\* the printed "true" nothing.
FormRows ==
  {[Base EXCEPT !.quantity = q, !.total_amount = t, !.discount_percent = Number(d, 0)] :
     q \in {Number(f, 1) : f \in NumberForms} \cup
           {[form |-> f, val |-> 1, digits |-> 10] : f \in {"exponent", "printed"}} \cup
           {[form |-> "printed", val |-> 1, digits |-> NoNumber]},
     t \in {Number(f, v) : f \in NumberForms, v \in {1000, 10000}},
     d \in {"plain", "padded", "dressed", "escaped", "printed", "junk", "blank"}}

\* Totals around the expected one: within a cent, beyond it, beyond a thousandth.
AmountRows ==
  {[Base EXCEPT !.quantity.val = q, !.unit_price.val = p, !.discount_percent = Number("plain", d),
                !.tax_rate = Number("dressed", t),
                !.total_amount.val = ExpectedTotal(q, p, d, t) \div 10000 + off] :
     q \in {1, -1, 3}, p \in {25, 50000}, d \in {0, 50}, t \in {0, 20},
     off \in {-160, -2, -1, 0, 1, 2, 160}}

VocabularyRows ==
  {[Base EXCEPT !.status = s, !.payment_method = p, !.category = c, !.department = d] :
     s \in {None, Text(<<"paid">>), Looks(<<"open">>, "capital"), Text(<<"odd">>)},
     p \in {None, Looks(<<"cash">>, "padded"), Text(<<"odd">>)},
     c \in {None, Text(<<"food">>), Text(<<"odd">>)},
     d \in {None, Text(<<"legal">>), Text(<<"odd">>)}}

PlaceRows ==
  {[Base EXCEPT !.country = Text(c), !.region_code = Text(r), !.postal_code = Text(p),
                !.phone = Text(n)] :
     c \in {<<>>, Ab, <<"x", "b">>, Abca, Cca, <<"z">>},
     r \in {<<>>, <<"RA">>, <<"RB">>},
     p \in {<<>>, <<"-">>, <<"1", "-", "2">>, <<"2">>},
     n \in {<<>>, <<"4", "2">>, <<"+">>, <<"+", "1", "2">>, <<"+", "4", "-", "2">>, <<"0", "0", "4">>}}

GapRows == {[Base EXCEPT ![f].form = "blank"] : f \in RequiredNumbers}
             \cup {[Base EXCEPT ![f] = Looks(<<>>, "padded")] : f \in RequiredText}

IdBatches ==
  LET ids == {Text(<<"t1">>), Looks(<<"t1">>, "padded"), Looks(<<"t1">>, "capital"),
              Text(<<"t2">>), None}
      IdRow(id) == [Base EXCEPT !.transaction_id = id]
  IN {<<IdRow(i)>> : i \in ids} \cup {<<IdRow(i), IdRow(j)>> : i, j \in ids}

CityBatches ==
  LET places == {<<Found, Abca>>, <<Found, Cca>>, <<Found, <<>>>>, <<Found, Ab>>, <<Static, Cca>>}
      ids == <<"t1", "t2", "t3", "t4">>
  IN UNION {{[k \in 1..n |-> [Base EXCEPT !.transaction_id = Text(<<ids[k]>>),
                                          !.city = Text(s[k][1]), !.country = Text(s[k][2])]] :
               s \in [1..n -> places]} : n \in 1..4}

SharedRows == GapRows \cup {
  Base, [Base EXCEPT !.city = Text(Found)], [Base EXCEPT !.country = Text(Cca)],
  [Base EXCEPT !.country = Text(<<"a", "c">>)], [Base EXCEPT !.status = Text(<<"odd">>)],
  [Base EXCEPT !.phone = Text(<<"+", "4">>)], [Base EXCEPT !.quantity.val = 2]}

MCFiles ==
  {<< <<r>> >> : r \in TypoRows \cup FormRows \cup AmountRows \cup VocabularyRows \cup PlaceRows}
    \cup {<<b>> : b \in CityBatches}
    \cup {<<b, c>> : b, c \in IdBatches}
    \cup {<< <<r, s>>, <<t, r>> >> : r, s, t \in SharedRows}
=============================================================================
