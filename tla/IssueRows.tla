------------------------------- MODULE IssueRows -------------------------------
(***************************************************************************)
(* Rule evaluation over a file, batch by batch (_evaluate_issue_rows and     *)
(* _build_city_country_reference of etl/service.py).  The rules of RowRules  *)
(* are written a second time here, as masks over the columns of a batch,     *)
(* and it is the masks the pipeline obeys: a flagged row becomes an issue    *)
(* row, the others are loaded as clean and their ids are what later batches  *)
(* are compared with.                                                       *)
(***************************************************************************)
EXTENDS RowRules

CONSTANTS
  MinCount, ShareNum, ShareDen,  \* min_count (25); min_share (0.9) as a fraction
  Files                          \* the files that may be loaded, each cut into batches

Codes == {RuleOrder[i] : i \in DOMAIN RuleOrder}

ASSUME ShareAssumption ==
  /\ MinCount \in Nat \ {0} /\ ShareNum \in Nat /\ ShareDen \in Nat \ {0}
  /\ 2 * ShareNum > ShareDen /\ ShareNum <= ShareDen
ASSUME FilesAssumption == Files \subseteq Seq(Seq(Row))

VARIABLES
  file,       \* the batches still to come
  clean,      \* the transaction ids of the tenant's clean rows, as stored
  batch,      \* the batch evaluated last
  existing,   \* existing_ids: those of its ids that were stored before it
  issueMask,  \* issue_mask_series
  issueRows   \* issue_rows

vars == <<file, clean, batch, existing, issueMask, issueRows>>

-----------------------------------------------------------------------------
\* Identifiers.

TransactionIds(b) == [k \in DOMAIN b |-> StripId(b[k].transaction_id)]

NonBlankIds(b) == {id \in {TransactionIds(b)[k] : k \in DOMAIN b} : ~Blank(id.word)}

DuplicateIds(b) ==
  {id \in NonBlankIds(b) : \E k, l \in DOMAIN b : k # l /\ TransactionIds(b)[k] = id
                                                        /\ TransactionIds(b)[l] = id}

\* Variant: fetches every stored id.
ExistingIdsOfStore(b) == {StripId(cell) : cell \in clean}

\* The store compares the stripped ids with the stored ones, which were not stripped.
ExistingIds(b) ==
  {id \in NonBlankIds(b) : \E cell \in clean : cell.look # "padded" /\ StripId(cell) = id}

-----------------------------------------------------------------------------
\* The map from cities to countries, extended by what the batch itself suggests.

CityOf(row) == NormalizeKey(row.city)
CountryOf(row) == NormalizeCountry(row.country)

Naming(b, city) == {k \in DOMAIN b : CityOf(b[k]) = city /\ ~Blank(CountryOf(b[k]))}
Placing(b, city, country) == {k \in Naming(b, city) : CountryOf(b[k]) = country}

\* Variant: the best country needs no share of the rows.
DominatesAnyShare(b, city, country) ==
  /\ ~Blank(city)
  /\ Cardinality(Naming(b, city)) >= MinCount
  /\ \A k \in Naming(b, city) : CountryOf(b[k]) # country =>
       Cardinality(Placing(b, city, CountryOf(b[k]))) < Cardinality(Placing(b, city, country))

Dominates(b, city, country) ==
  /\ ~Blank(city)
  /\ Cardinality(Naming(b, city)) >= MinCount
  /\ \A k \in Naming(b, city) : CountryOf(b[k]) # country =>
       Cardinality(Placing(b, city, CountryOf(b[k]))) < Cardinality(Placing(b, city, country))
  /\ Cardinality(Placing(b, city, country)) * ShareDen >= ShareNum * Cardinality(Naming(b, city))

DynamicCityMap(b) ==
  [city \in {c \in {CityOf(b[k]) : k \in DOMAIN b} :
               \E k \in Naming(b, c) : Dominates(b, c, CountryOf(b[k]))} |->
     CountryOf(b[CHOOSE k \in Naming(b, city) : Dominates(b, city, CountryOf(b[k]))])]

\* The static map wins.
CityCountryReference(b) ==
  [city \in DOMAIN CityToCountry \cup DOMAIN DynamicCityMap(b) |->
     IF city \in DOMAIN CityToCountry THEN CityToCountry[city] ELSE DynamicCityMap(b)[city]]

-----------------------------------------------------------------------------
\* The masks: TRUE at the rows a rule flags.

MissingMask(b) ==
  [k \in DOMAIN b |->
     \/ \E f \in RequiredText : b[k][f].word = <<>>
     \/ \E f \in RequiredNumbers : b[k][f].form = "blank"]

\* A cast to Float64: no white space, no underscore, nothing around the number.
CastFloat(cell) ==
  IF cell.form \in {"plain", "exponent", "printed"} THEN cell.val ELSE NoNumber

\* Polars' round: a tie goes away from zero.
RoundHalfAway(n) ==
  IF n >= 0 THEN (n + 5000) \div 10000 ELSE -((-n + 5000) \div 10000)

PriceMask(b) ==
  [k \in DOMAIN b |->
     /\ \A f \in AmountFields : CastFloat(b[k][f]) # NoNumber
     /\ Distance(RoundHalfAway(TotalRead(b[k], CastFloat)), CastFloat(b[k].total_amount)) > 1]

DuplicateMask(b, known) ==
  [k \in DOMAIN b |-> TransactionIds(b)[k] \in DuplicateIds(b) \cup known]

\* Variant: looks at the whole batch.
TypoMaskOfBatch(b) ==
  [k \in DOMAIN b |-> \E l \in DOMAIN b :
     \/ SuspectedTypoValue(NormalizeValue(b[l].country), CountryReference)
     \/ SuspectedTypoValue(NormalizeValue(b[l].city), CityReference)]

SuspiciousValues(values, reference) == {v \in values : SuspectedTypoValue(v, reference)}

\* Each distinct value of a column is looked at once.
TypoMask(b) ==
  LET countries == SuspiciousValues({NormalizeValue(b[k].country) : k \in DOMAIN b}, CountryReference)
      cities == SuspiciousValues({NormalizeValue(b[k].city) : k \in DOMAIN b}, CityReference)
  IN [k \in DOMAIN b |->
        NormalizeValue(b[k].country) \in countries \/ NormalizeValue(b[k].city) \in cities]

CountryCityMask(b) ==
  LET reference == CityCountryReference(b)
  IN [k \in DOMAIN b |->
        IF Blank(CityOf(b[k])) \/ Blank(CountryOf(b[k])) \/ CountryOf(b[k]) \notin KnownCountries
        THEN FALSE
        ELSE CityOf(b[k]) \in DOMAIN reference /\ reference[CityOf(b[k])] # CountryOf(b[k])]

\* Variant: a blank region is compared like any other.
RegionMaskOfBlanks(b) ==
  [k \in DOMAIN b |->
     CountryOf(b[k]) \in DOMAIN CountryToRegion
       /\ NormalizeRegion(b[k].region_code) # CountryToRegion[CountryOf(b[k])]]

RegionMask(b) ==
  [k \in DOMAIN b |->
     IF CountryOf(b[k]) \notin DOMAIN CountryToRegion \/ Blank(NormalizeRegion(b[k].region_code))
     THEN FALSE
     ELSE NormalizeRegion(b[k].region_code) # CountryToRegion[CountryOf(b[k])]]

PostalMask(b) ==
  [k \in DOMAIN b |->
     IF CountryOf(b[k]) \notin DOMAIN PostalCodeRegex \/ Blank(NormalizePostalCode(b[k].postal_code))
     THEN FALSE
     ELSE NormalizePostalCode(b[k].postal_code) \notin PostalCodeRegex[CountryOf(b[k])]]

PhoneMask(b) ==
  [k \in DOMAIN b |->
     IF CountryOf(b[k]) \notin KnownCountries \/ ~DialsAbroad(b[k].phone.word)
     THEN FALSE
     ELSE \E prefix \in DOMAIN PhonePrefixCountry :
            /\ MatchedPrefix(DigitsOf(b[k].phone.word), prefix)
            /\ ~(Cardinality(PhonePrefixCountry[prefix]) # 1
                   \/ CountryOf(b[k]) \in PhonePrefixCountry[prefix])]

\* _clean_numeric: the digits, dots, signs and backslashes of the column cast to text,
\* cast to Float64; a value of a numeric column is printed first, and a backslash stays
\* in the way.
CleanNumeric(cell) ==
  CASE cell.form \in {"plain", "padded", "grouped", "dressed"} -> cell.val
    [] cell.form \in {"exponent", "printed"} -> cell.digits
    [] OTHER -> NoNumber

\* An empty rate counts as none, one that cannot be read exempts the row.
FinancialMask(b) ==
  [k \in DOMAIN b |->
     /\ \A f \in AmountFields : CleanNumeric(b[k][f]) # NoNumber
     /\ \A f \in RateFields : b[k][f].form = "blank" \/ CleanNumeric(b[k][f]) # NoNumber
     /\ OffBy(TotalRead(b[k], CleanNumeric), CleanNumeric(b[k].total_amount))]

Unlisted(word, allowed) == ~Blank(word) /\ word \notin allowed

StatusMask(b) == [k \in DOMAIN b |-> Unlisted(NormalizeValue(b[k].status), AllowedStatuses)]
PaymentMask(b) ==
  [k \in DOMAIN b |-> Unlisted(NormalizeValue(b[k].payment_method), AllowedPaymentMethods)]
StatusPaymentMask(b) ==
  [k \in DOMAIN b |->
     /\ NormalizeValue(b[k].status) \in StatusRequiresPayment
     /\ \/ Blank(NormalizeValue(b[k].payment_method))
        \/ NormalizeValue(b[k].payment_method) \notin AllowedPaymentMethods]
CategoryMask(b) == [k \in DOMAIN b |-> Unlisted(NormalizeValue(b[k].category), AllowedCategories)]
DepartmentMask(b) ==
  [k \in DOMAIN b |-> Unlisted(NormalizeValue(b[k].department), AllowedDepartments)]

Mask(code, b, known) ==
  CASE code = "MISSING_REQUIRED" -> MissingMask(b)
    [] code = "PRICE_MISMATCH" -> PriceMask(b)
    [] code = "DUPLICATE_TRANSACTION_ID" -> DuplicateMask(b, known)
    [] code = "SUSPECTED_TYPO" -> TypoMask(b)
    [] code = "COUNTRY_CITY_MISMATCH" -> CountryCityMask(b)
    [] code = "REGION_COUNTRY_MISMATCH" -> RegionMask(b)
    [] code = "POSTAL_CODE_INVALID" -> PostalMask(b)
    [] code = "PHONE_COUNTRY_MISMATCH" -> PhoneMask(b)
    [] code = "FINANCIAL_TOTAL_MISMATCH" -> FinancialMask(b)
    [] code = "STATUS_INVALID" -> StatusMask(b)
    [] code = "PAYMENT_METHOD_INVALID" -> PaymentMask(b)
    [] code = "STATUS_PAYMENT_INCONSISTENT" -> StatusPaymentMask(b)
    [] code = "CATEGORY_INVALID" -> CategoryMask(b)
    [] code = "DEPARTMENT_INVALID" -> DepartmentMask(b)

-----------------------------------------------------------------------------
\* The outcome of a batch.

IssueMask(b, known) == [k \in DOMAIN b |-> \E code \in Codes : Mask(code, b, known)[k]]

\* The entries of s where the mask holds, as they came.
FilterBy(s, mask) ==
  FoldLeftDomain(LAMBDA rows, k : IF mask[k] THEN Append(rows, s[k]) ELSE rows, <<>>, s)

CodesOf(b, known, k) ==
  FilterBy(RuleOrder, [i \in DOMAIN RuleOrder |-> Mask(RuleOrder[i], b, known)[k]])

\* The rows kept for the issues table: raw_issue_dicts.
RawIssueRows(b, mask) == FilterBy(b, mask)

IssueRow(id, codes, raw) ==
  [transaction_id |-> id, issues |-> codes,
   severity |-> [i \in DOMAIN codes |-> Severity(codes[i])], raw_columns |-> raw]

\* Variant: the raw rows were not filtered by the mask.
IssueRowsOfUnfiltered(b, known, mask) ==
  FoldLeftDomain(
    LAMBDA rows, k :
      IF mask[k]
      THEN Append(rows, IssueRow(TransactionIds(b)[k], CodesOf(b, known, k), b[Len(rows) + 1]))
      ELSE rows,
    <<>>, b)

\* raw_idx counts the rows built so far.
IssueRowsOf(b, known, mask) ==
  LET raw == RawIssueRows(b, mask)
  IN FoldLeftDomain(
       LAMBDA rows, k :
         IF mask[k]
         THEN Append(rows, IssueRow(TransactionIds(b)[k], CodesOf(b, known, k), raw[Len(rows) + 1]))
         ELSE rows,
       <<>>, b)

-----------------------------------------------------------------------------
Init ==
  /\ file \in Files
  /\ clean = {} /\ batch = <<>> /\ existing = {} /\ issueMask = <<>> /\ issueRows = <<>>

\* The rest of the pipeline loads the rows the mask leaves before the next batch is read.
EvaluateBatch ==
  /\ file # <<>>
  /\ file' = Tail(file)
  /\ batch' = Head(file)
  /\ existing' = ExistingIds(Head(file))
  /\ issueMask' = IssueMask(Head(file), existing')
  /\ issueRows' = IssueRowsOf(Head(file), existing', issueMask')
  /\ clean' = clean \cup {Head(file)[k].transaction_id :
                            k \in {k \in DOMAIN Head(file) : ~issueMask'[k]}}

Next == EvaluateBatch

Spec == Init /\ [][Next]_vars

-----------------------------------------------------------------------------
IssueRowType ==
  [transaction_id : {StripId(cell) : cell \in {batch[k].transaction_id : k \in DOMAIN batch}},
   issues : Seq(Codes), severity : Seq({"error", "warn", "info"}),
   raw_columns : {batch[k] : k \in DOMAIN batch}]

\* TypeOK: what the variables hold; an issue row is made of cells of the batch.
TypeOK ==
  /\ file \in Seq(Seq(Row)) /\ batch \in Seq(Row)
  /\ clean \subseteq TextCell /\ existing \subseteq NonBlankIds(batch)
  /\ issueMask \in [DOMAIN batch -> BOOLEAN]
  /\ issueRows \in Seq(IssueRowType)

\* A cast and Python's float agree on the number cells of a row unless one is padded or
\* grouped, and the two roundings unless the expected total is half a cent off a cent.
PricedAlike(row) ==
  (\A f \in AmountFields : ParseFloat(row[f]) # NoNumber) =>
     /\ \A f \in NumberFields : row[f].form \notin {"padded", "grouped"}
     /\ TotalRead(row, ParseFloat) % 10000 # 5000

\* The two cleaners agree unless a backslash is left or a value was printed.
CleanedAlike(row) == \A f \in NumberFields : row[f].form \notin {"escaped", "printed"}

\* The two ways of comparing ids agree on an id without capitals.
Comparable(code, row) ==
  /\ code = "PRICE_MISMATCH" => PricedAlike(row)
  /\ code = "FINANCIAL_TOTAL_MISMATCH" => CleanedAlike(row)
  /\ code = "DUPLICATE_TRANSACTION_ID" => row.transaction_id.look # "capital"

\* MasksFollowRules: the masks of _evaluate_issue_rows flag a row for a rule exactly
\* when the rule's function in rules.py, the one the tests and the catalog speak of,
\* flags it, given the batch's ids and its city map.
MasksFollowRules ==
  \A k \in DOMAIN batch, code \in Codes :
    Comparable(code, batch[k]) =>
      (Mask(code, batch, existing)[k] <=>
         RowVerdict(code, batch[k], DuplicateIds(batch), existing, CityCountryReference(batch)))

\* The words one edit away from w, w among them.
OneEdit(w) ==
  {w} \cup {SubSeq(w, 1, i - 1) \o SubSeq(w, i + 1, Len(w)) : i \in DOMAIN w}
      \cup {SubSeq(w, 1, i - 1) \o <<l>> \o SubSeq(w, i + 1, Len(w)) : i \in DOMAIN w, l \in Letters}
      \cup {SubSeq(w, 1, i) \o <<l>> \o SubSeq(w, i + 1, Len(w)) : i \in 0..Len(w), l \in Letters}

\* One edit from either side meets in the middle.
TwoEditsFrom(w, reference) == \E r \in reference : OneEdit(w) \cap OneEdit(r) # {}

Misspells(word, reference) == word # <<>> /\ word \notin reference /\ TwoEditsFrom(word, reference)

\* TypoMeansTwoEdits: a row is suspected of a typo exactly when its country or its city
\* is not a reference word and two insertions, deletions or replacements of a letter
\* make it one; the early exits of _edit_distance_lte lose no word and add none.
TypoMeansTwoEdits ==
  \A k \in DOMAIN batch :
    TypoMask(batch)[k] <=> \/ Misspells(batch[k].country.word, CountryReference)
                           \/ Misspells(batch[k].city.word, CityReference)

\* RecordsAlign: the issue rows are the flagged rows in their order; each has the id of
\* its own raw row, the codes the masks give that very row, and their severities.
Rank(k) == Cardinality({l \in 1..k : issueMask[l]})
RecordsAlign ==
  /\ Len(issueRows) = Cardinality({k \in DOMAIN batch : issueMask[k]})
  /\ \A k \in DOMAIN batch : issueMask[k] =>
       LET record == issueRows[Rank(k)]
       IN /\ record.raw_columns = batch[k]
          /\ record.transaction_id = StripId(record.raw_columns.transaction_id)
          /\ record.issues # <<>>
          /\ {record.issues[i] : i \in DOMAIN record.issues}
               = {code \in Codes : Mask(code, batch, existing)[k]}
          /\ \A i \in DOMAIN record.issues : record.severity[i] = Severity(record.issues[i])

\* CityVerdictsAreOutvoted: a row flagged for a city that the static map does not know
\* is outvoted by its batch: at least min_count rows name the city, and no more than
\* the share left over by min_share of them name the row's own country.
CityVerdictsAreOutvoted ==
  \A k \in DOMAIN batch :
    CountryCityMask(batch)[k] /\ CityOf(batch[k]) \notin DOMAIN CityToCountry =>
      /\ Cardinality(Naming(batch, CityOf(batch[k]))) >= MinCount
      /\ Cardinality(Placing(batch, CityOf(batch[k]), CountryOf(batch[k]))) * ShareDen
           <= (ShareDen - ShareNum) * Cardinality(Naming(batch, CityOf(batch[k])))

\* VerdictsTravel: but for repeated ids and the batch's own city map, the same row gets
\* the same verdicts in whatever batch it arrives.
VerdictsTravel ==
  [][\A k \in DOMAIN batch, l \in DOMAIN batch', code \in
       Codes \ {"DUPLICATE_TRANSACTION_ID", "COUNTRY_CITY_MISMATCH"} :
       batch[k] = batch'[l] => (Mask(code, batch, existing)[k] <=> Mask(code, batch', existing')[l])]_vars
=============================================================================
