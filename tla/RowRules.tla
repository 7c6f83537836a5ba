-------------------------------- MODULE RowRules --------------------------------
(***************************************************************************)
(* The data quality rules of etl/rules.py, one operator per rule function.  *)
(* An operator is TRUE of a row when the function returns a result; the     *)
(* code and severity of that result are the rule's own (see Severity).      *)
(*                                                                         *)
(* A row is a record of cells.  A text cell is a word (a sequence of        *)
(* letters, empty for a null or blank value) with a look: "plain", "padded" *)
(* with white space, or "capital".  A number cell has a form (see           *)
(* NumberForms), the number it denotes, and what its digits, dots and minus *)
(* signs spell when everything else is left out.  Amounts are in cents,     *)
(* rates in percent, and computed totals in 1/10000 of a cent, which is     *)
(* exact; infinities, NaN and the drift of binary floating point are not    *)
(* modelled.                                                                *)
(***************************************************************************)
EXTENDS Integers, Sequences, FiniteSets, TypoDistance

CONSTANTS
  Letters, Unaccented,                 \* letters; those with an accent, without it
  Separators,                          \* letters POSTAL_CLEAN_RE removes
  CountryReference, CityReference,     \* COUNTRY_REFERENCE, CITY_REFERENCE
  CountryAliases, KnownCountries, CityToCountry, CountryToRegion,
  PostalCodeRegex,                     \* country |-> the codes its pattern matches
  PhonePrefixCountry,                  \* prefix |-> its countries
  AllowedStatuses, AllowedPaymentMethods, StatusRequiresPayment,
  AllowedDepartments, AllowedCategories,
  NoNumber                             \* what a reader makes of a cell that it cannot read

ASSUME NoNumberAssumption == NoNumber \notin Int
ASSUME NoBlankCountry == <<>> \notin KnownCountries

Words == Seq(Letters)

ASSUME ReferenceAssumption == CountryReference \subseteq Words /\ CityReference \subseteq Words

TextCell == [word : Words, look : {"plain", "padded", "capital"}]

\* How a number is written.  The text "1000" is plain, " 1000" padded, "1_000" grouped
\* (float reads it, and skips the underscore), "$1,000" dressed, "1\000" escaped, "1e3"
\* exponent; a column that was read as numbers or Booleans holds values, not texts, and
\* one whose text form has letters is printed.  Junk has no digits that make a number.
NumberForms == {"plain", "padded", "grouped", "dressed", "escaped", "exponent", "printed",
                "junk", "blank"}
NumberCell == [form : NumberForms, val : Int, digits : Int \cup {NoNumber}]

TextFields == {"transaction_id", "order_date", "country", "city", "region_code", "postal_code",
               "phone", "status", "payment_method", "category", "department"}
AmountFields == {"quantity", "unit_price", "total_amount"}
RateFields == {"discount_percent", "tax_rate"}
NumberFields == AmountFields \cup RateFields
Row == {r \in [TextFields \cup NumberFields -> TextCell \cup NumberCell] :
          /\ \A f \in TextFields : r[f] \in TextCell
          /\ \A f \in NumberFields : r[f] \in NumberCell}

\* The rule codes, in the order in which a row's issues are listed.
RuleOrder == <<
  "MISSING_REQUIRED", "PRICE_MISMATCH", "DUPLICATE_TRANSACTION_ID", "SUSPECTED_TYPO",
  "COUNTRY_CITY_MISMATCH", "REGION_COUNTRY_MISMATCH", "POSTAL_CODE_INVALID",
  "PHONE_COUNTRY_MISMATCH", "FINANCIAL_TOTAL_MISMATCH", "STATUS_INVALID",
  "PAYMENT_METHOD_INVALID", "STATUS_PAYMENT_INCONSISTENT", "CATEGORY_INVALID",
  "DEPARTMENT_INVALID">>

Severity(code) ==
  CASE code \in {"MISSING_REQUIRED", "PRICE_MISMATCH", "DUPLICATE_TRANSACTION_ID",
                 "COUNTRY_CITY_MISMATCH", "REGION_COUNTRY_MISMATCH",
                 "FINANCIAL_TOTAL_MISMATCH"} -> "error"
    [] code = "SUSPECTED_TYPO" -> "info"
    [] OTHER -> "warn"

-----------------------------------------------------------------------------
\* Normalization.

NormalizeValue(cell) == cell.word

StripAccents(word) ==
  [i \in DOMAIN word |-> IF word[i] \in DOMAIN Unaccented THEN Unaccented[word[i]] ELSE word[i]]

NormalizeKey(cell) == StripAccents(NormalizeValue(cell))

NormalizeCountry(cell) ==
  LET key == NormalizeKey(cell)
  IN IF key \in DOMAIN CountryAliases THEN CountryAliases[key] ELSE key

NormalizeRegion(cell) == NormalizeKey(cell)

NormalizePostalCode(cell) == SelectSeq(NormalizeKey(cell), LAMBDA l : l \notin Separators)

Blank(word) == word = <<>>

-----------------------------------------------------------------------------
\* Required fields and identifiers.

RequiredText == {"transaction_id", "order_date"}
RequiredNumbers == AmountFields

MissingRequired(row) ==
  \/ \E f \in RequiredText : Blank(NormalizeValue(row[f]))
  \/ \E f \in RequiredNumbers : row[f].form = "blank"

\* A stripped identifier, and the lower-case one the rule function looks up.
StripId(cell) == [word |-> cell.word, capital |-> cell.look = "capital"]
LowerId(cell) == [word |-> cell.word, capital |-> FALSE]

DuplicateTransactionId(cell, duplicateIds, existingIds) ==
  /\ ~Blank(NormalizeValue(cell))
  /\ LowerId(cell) \in duplicateIds \cup existingIds

-----------------------------------------------------------------------------
\* Amounts.

Or0(number) == IF number = NoNumber THEN 0 ELSE number

\* _parse_float: a value as it is, a text by Python's float.
ParseFloat(cell) ==
  IF cell.form \in {"plain", "padded", "grouped", "exponent", "printed"} THEN cell.val ELSE NoNumber

\* _parse_numeric_with_state: a value as it is, of a text its digits, dots and signs.
ParseNumeric(cell) ==
  CASE cell.form \in {"plain", "padded", "grouped", "dressed", "escaped", "printed"} -> cell.val
    [] cell.form = "exponent" -> cell.digits
    [] OTHER -> NoNumber
Invalid(cell) == cell.form # "blank" /\ ParseNumeric(cell) = NoNumber

ExpectedTotal(quantity, price, discount, tax) == quantity * price * (100 - discount) * (100 + tax)

\* The expected total of a row whose cells Read reads; a rate it cannot read counts as none.
TotalRead(row, Read(_)) ==
  ExpectedTotal(Read(row.quantity), Read(row.unit_price), Or0(Read(row.discount_percent)),
                Or0(Read(row.tax_rate)))

\* Python's round: a tie goes to the even neighbour.
RoundHalfEven(n) ==
  LET q == n \div 10000
      r == n % 10000
  IN IF r < 5000 \/ (r = 5000 /\ q % 2 = 0) THEN q ELSE q + 1

PriceMismatch(row) ==
  /\ \A f \in AmountFields : ParseFloat(row[f]) # NoNumber
  /\ Distance(RoundHalfEven(TotalRead(row, ParseFloat)), ParseFloat(row.total_amount)) > 1

\* Off by more than one cent and by more than a thousandth of the expected total.
OffBy(expected, total) ==
  /\ Distance(expected, total * 10000) > 10000
  /\ Distance(expected, total * 10000) > Distance(expected, 0) \div 1000

FinancialTotalMismatch(row) ==
  /\ \A f \in AmountFields : ParseNumeric(row[f]) # NoNumber
  /\ \A f \in RateFields : ~Invalid(row[f])
  /\ OffBy(TotalRead(row, ParseNumeric), ParseNumeric(row.total_amount))

-----------------------------------------------------------------------------
\* Places.

SuspectedTypoValue(value, reference) ==
  /\ ~Blank(value) /\ value \notin reference
  /\ \E candidate \in reference : EditDistanceLte(value, candidate, 2)

SuspectedTypo(row) ==
  \/ SuspectedTypoValue(NormalizeValue(row.country), CountryReference)
  \/ SuspectedTypoValue(NormalizeValue(row.city), CityReference)

CountryCityMismatch(country, city, cityToCountry) ==
  /\ NormalizeCountry(country) \in KnownCountries
  /\ ~Blank(NormalizeKey(city))
  /\ NormalizeKey(city) \in DOMAIN cityToCountry
  /\ cityToCountry[NormalizeKey(city)] # NormalizeCountry(country)

RegionCountryMismatch(country, region) ==
  /\ NormalizeCountry(country) \in DOMAIN CountryToRegion
  /\ ~Blank(NormalizeRegion(region))
  /\ NormalizeRegion(region) # CountryToRegion[NormalizeCountry(country)]

PostalCodeInvalid(country, code) ==
  /\ NormalizeCountry(country) \in DOMAIN PostalCodeRegex
  /\ ~Blank(NormalizePostalCode(code))
  /\ NormalizePostalCode(code) \notin PostalCodeRegex[NormalizeCountry(country)]

\* A phone number counts when it is written with "+" or "00"; its digits are what is
\* left without other characters and without a leading "00".
DialsAbroad(phone) == IsPrefix(<<"+">>, phone) \/ IsPrefix(<<"0", "0">>, phone)
Digits == {"0", "1", "2", "3", "4", "5", "6", "7", "8", "9"}
DigitsOf(phone) ==
  LET digits == SelectSeq(phone, LAMBDA l : l \in Digits)
  IN IF IsPrefix(<<"0", "0">>, digits) THEN SubSeq(digits, 3, Len(digits)) ELSE digits

\* The longest prefix of the number is the one that is looked up.
MatchedPrefix(digits, prefix) ==
  /\ prefix \in DOMAIN PhonePrefixCountry /\ IsPrefix(prefix, digits)
  /\ \A p \in DOMAIN PhonePrefixCountry : IsPrefix(p, digits) => Len(p) <= Len(prefix)

PhoneCountryMismatch(country, phone) ==
  /\ NormalizeCountry(country) \in KnownCountries
  /\ DialsAbroad(phone.word)
  /\ \E prefix \in DOMAIN PhonePrefixCountry :
       /\ MatchedPrefix(DigitsOf(phone.word), prefix)
       /\ Cardinality(PhonePrefixCountry[prefix]) = 1
       /\ NormalizeCountry(country) \notin PhonePrefixCountry[prefix]

-----------------------------------------------------------------------------
\* Codes of a fixed vocabulary.

StatusInvalid(status) ==
  ~Blank(NormalizeValue(status)) /\ NormalizeValue(status) \notin AllowedStatuses

PaymentMethodInvalid(method) ==
  ~Blank(NormalizeValue(method)) /\ NormalizeValue(method) \notin AllowedPaymentMethods

StatusPaymentInconsistent(status, method) ==
  /\ NormalizeValue(status) \in StatusRequiresPayment
  /\ Blank(NormalizeValue(method)) \/ NormalizeValue(method) \notin AllowedPaymentMethods

CategoryInvalid(category) ==
  ~Blank(NormalizeValue(category)) /\ NormalizeValue(category) \notin AllowedCategories

DepartmentInvalid(department) ==
  ~Blank(NormalizeValue(department)) /\ NormalizeValue(department) \notin AllowedDepartments

\* What the rule functions say of a row, given the ids and the city map they are handed.
RowVerdict(code, row, duplicateIds, existingIds, cityToCountry) ==
  CASE code = "MISSING_REQUIRED" -> MissingRequired(row)
    [] code = "PRICE_MISMATCH" -> PriceMismatch(row)
    [] code = "DUPLICATE_TRANSACTION_ID" ->
         DuplicateTransactionId(row.transaction_id, duplicateIds, existingIds)
    [] code = "SUSPECTED_TYPO" -> SuspectedTypo(row)
    [] code = "COUNTRY_CITY_MISMATCH" -> CountryCityMismatch(row.country, row.city, cityToCountry)
    [] code = "REGION_COUNTRY_MISMATCH" -> RegionCountryMismatch(row.country, row.region_code)
    [] code = "POSTAL_CODE_INVALID" -> PostalCodeInvalid(row.country, row.postal_code)
    [] code = "PHONE_COUNTRY_MISMATCH" -> PhoneCountryMismatch(row.country, row.phone)
    [] code = "FINANCIAL_TOTAL_MISMATCH" -> FinancialTotalMismatch(row)
    [] code = "STATUS_INVALID" -> StatusInvalid(row.status)
    [] code = "PAYMENT_METHOD_INVALID" -> PaymentMethodInvalid(row.payment_method)
    [] code = "STATUS_PAYMENT_INCONSISTENT" ->
         StatusPaymentInconsistent(row.status, row.payment_method)
    [] code = "CATEGORY_INVALID" -> CategoryInvalid(row.category)
    [] code = "DEPARTMENT_INVALID" -> DepartmentInvalid(row.department)
=============================================================================
