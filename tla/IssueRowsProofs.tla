---------------------------- MODULE IssueRowsProofs ----------------------------
(***************************************************************************)
(* Proofs about IssueRows, for every reference list, every share and every   *)
(* file.                                                                    *)
(***************************************************************************)
EXTENDS IssueRows, TypoDistanceProofs, SequenceTheorems

LEMMA CodesListed ==
  Codes = {"MISSING_REQUIRED", "PRICE_MISMATCH", "DUPLICATE_TRANSACTION_ID", "SUSPECTED_TYPO",
           "COUNTRY_CITY_MISMATCH", "REGION_COUNTRY_MISMATCH", "POSTAL_CODE_INVALID",
           "PHONE_COUNTRY_MISMATCH", "FINANCIAL_TOTAL_MISMATCH", "STATUS_INVALID",
           "PAYMENT_METHOD_INVALID", "STATUS_PAYMENT_INCONSISTENT", "CATEGORY_INVALID",
           "DEPARTMENT_INVALID"}
  BY SMTT(30) DEF Codes, RuleOrder

-----------------------------------------------------------------------------
(* The rules that read a row's cells the same way in both places. *)

LEMMA MissingAlike ==
  ASSUME NEW b, NEW k \in DOMAIN b
  PROVE  MissingMask(b)[k] <=> MissingRequired(b[k])
  BY DEF MissingMask, MissingRequired, Blank, NormalizeValue

\* A value of a column is suspicious exactly when it is so by itself.
LEMMA TypoAlike ==
  ASSUME NEW b, NEW k \in DOMAIN b
  PROVE  TypoMask(b)[k] <=> SuspectedTypo(b[k])
  BY DEF TypoMask, SuspectedTypo, SuspiciousValues

LEMMA CountryCityAlike ==
  ASSUME NEW b, NEW k \in DOMAIN b
  PROVE  CountryCityMask(b)[k]
           <=> CountryCityMismatch(b[k].country, b[k].city, CityCountryReference(b))
  BY NoBlankCountry DEF CountryCityMask, CountryCityMismatch, CityOf, CountryOf, Blank

LEMMA RegionAlike ==
  ASSUME NEW b, NEW k \in DOMAIN b
  PROVE  RegionMask(b)[k] <=> RegionCountryMismatch(b[k].country, b[k].region_code)
  BY DEF RegionMask, RegionCountryMismatch, CountryOf

LEMMA PostalAlike ==
  ASSUME NEW b, NEW k \in DOMAIN b
  PROVE  PostalMask(b)[k] <=> PostalCodeInvalid(b[k].country, b[k].postal_code)
  BY DEF PostalMask, PostalCodeInvalid, CountryOf

LEMMA PhoneAlike ==
  ASSUME NEW b, NEW k \in DOMAIN b
  PROVE  PhoneMask(b)[k] <=> PhoneCountryMismatch(b[k].country, b[k].phone)
  BY DEF PhoneMask, PhoneCountryMismatch, CountryOf

LEMMA VocabularyAlike ==
  ASSUME NEW b, NEW k \in DOMAIN b
  PROVE  /\ StatusMask(b)[k] <=> StatusInvalid(b[k].status)
         /\ PaymentMask(b)[k] <=> PaymentMethodInvalid(b[k].payment_method)
         /\ StatusPaymentMask(b)[k] <=> StatusPaymentInconsistent(b[k].status, b[k].payment_method)
         /\ CategoryMask(b)[k] <=> CategoryInvalid(b[k].category)
         /\ DepartmentMask(b)[k] <=> DepartmentInvalid(b[k].department)
  BY DEF StatusMask, StatusInvalid, PaymentMask, PaymentMethodInvalid, StatusPaymentMask,
         StatusPaymentInconsistent, CategoryMask, CategoryInvalid, DepartmentMask,
         DepartmentInvalid, Unlisted

-----------------------------------------------------------------------------
(* Amounts and identifiers. *)

LEMMA CellsOfRow ==
  ASSUME NEW r \in Row
  PROVE  /\ \A f \in NumberFields : r[f] \in NumberCell
         /\ \A f \in TextFields : r[f] \in TextCell
  BY DEF Row

LEMMA FieldsListed ==
  /\ AmountFields \subseteq NumberFields /\ RateFields \subseteq NumberFields
  /\ {"quantity", "unit_price", "total_amount"} \subseteq NumberFields
  /\ {"discount_percent", "tax_rate"} \subseteq NumberFields
  BY DEF NumberFields, AmountFields, RateFields

\* A backslash or a printed value apart, the two cleaners read a cell alike.
LEMMA CleanersAgree ==
  ASSUME NEW cell \in NumberCell, cell.form \notin {"escaped", "printed"}
  PROVE  /\ CleanNumeric(cell) = ParseNumeric(cell)
         /\ (cell.form = "blank" \/ CleanNumeric(cell) # NoNumber) <=> ~Invalid(cell)
<1>1. CleanNumeric(cell) = ParseNumeric(cell)
  BY DEF CleanNumeric, ParseNumeric, NumberCell, NumberForms
<1> QED
  BY <1>1, Zenon DEF Invalid

LEMMA FinancialAlike ==
  ASSUME NEW b, NEW k \in DOMAIN b, b[k] \in Row, CleanedAlike(b[k])
  PROVE  FinancialMask(b)[k] <=> FinancialTotalMismatch(b[k])
<1> DEFINE r == b[k]
<1>1. \A f \in NumberFields :
        /\ CleanNumeric(r[f]) = ParseNumeric(r[f])
        /\ (r[f].form = "blank" \/ CleanNumeric(r[f]) # NoNumber) <=> ~Invalid(r[f])
  BY CellsOfRow, CleanersAgree DEF CleanedAlike
<1>2. TotalRead(r, CleanNumeric) = TotalRead(r, ParseNumeric)
  BY <1>1, FieldsListed DEF TotalRead
<1>3. /\ \A f \in AmountFields : CleanNumeric(r[f]) = ParseNumeric(r[f])
      /\ \A f \in RateFields :
           (r[f].form = "blank" \/ CleanNumeric(r[f]) # NoNumber) <=> ~Invalid(r[f])
      /\ CleanNumeric(r.total_amount) = ParseNumeric(r.total_amount)
  BY <1>1, FieldsListed
<1> QED
  BY <1>2, <1>3, Zenon DEF FinancialMask, FinancialTotalMismatch

\* Away from a tie the two roundings agree.
LEMMA RoundingAlike ==
  ASSUME NEW n \in Int, n % 10000 # 5000
  PROVE  RoundHalfAway(n) = RoundHalfEven(n)
  BY DEF RoundHalfAway, RoundHalfEven

\* A cast reads no more than Python's float, and the same.
LEMMA CastsAreParsed ==
  ASSUME NEW cell \in NumberCell
  PROVE  /\ CastFloat(cell) # NoNumber => ParseFloat(cell) # NoNumber
         /\ cell.form \notin {"padded", "grouped"} => CastFloat(cell) = ParseFloat(cell)
         /\ ParseFloat(cell) \in Int \cup {NoNumber}
  BY NoNumberAssumption DEF CastFloat, ParseFloat, NumberCell, NumberForms

LEMMA TotalIsNumber ==
  ASSUME NEW r \in Row, \A f \in AmountFields : ParseFloat(r[f]) # NoNumber
  PROVE  TotalRead(r, ParseFloat) \in Int
<1>1. \A f \in NumberFields : ParseFloat(r[f]) \in Int \cup {NoNumber}
  BY CellsOfRow, CastsAreParsed
<1>2. ParseFloat(r.quantity) \in Int /\ ParseFloat(r.unit_price) \in Int
  BY <1>1, FieldsListed DEF AmountFields
<1>3. Or0(ParseFloat(r.discount_percent)) \in Int /\ Or0(ParseFloat(r.tax_rate)) \in Int
  BY <1>1, FieldsListed DEF Or0
<1>4. ASSUME NEW q \in Int, NEW p \in Int, NEW d \in Int, NEW t \in Int
      PROVE  ExpectedTotal(q, p, d, t) \in Int
  BY DEF ExpectedTotal
<1> QED
  BY <1>2, <1>3, <1>4 DEF TotalRead

LEMMA PriceAlike ==
  ASSUME NEW b, NEW k \in DOMAIN b, b[k] \in Row, PricedAlike(b[k])
  PROVE  PriceMask(b)[k] <=> PriceMismatch(b[k])
<1> DEFINE r == b[k]
<1>1. \A f \in NumberFields :
        /\ CastFloat(r[f]) # NoNumber => ParseFloat(r[f]) # NoNumber
        /\ r[f].form \notin {"padded", "grouped"} => CastFloat(r[f]) = ParseFloat(r[f])
  BY CellsOfRow, CastsAreParsed
<1>2. CASE \E f \in AmountFields : ParseFloat(r[f]) = NoNumber
  BY <1>1, <1>2, FieldsListed DEF PriceMask, PriceMismatch
<1>3. CASE \A f \in AmountFields : ParseFloat(r[f]) # NoNumber
  <2>1. /\ \A f \in NumberFields : r[f].form \notin {"padded", "grouped"}
        /\ TotalRead(r, ParseFloat) % 10000 # 5000
    BY <1>3, Zenon DEF PricedAlike
  <2>2. \A f \in NumberFields : CastFloat(r[f]) = ParseFloat(r[f])
    BY <1>1, <2>1
  <2>3. TotalRead(r, CastFloat) = TotalRead(r, ParseFloat)
    BY <2>2, FieldsListed DEF TotalRead
  <2>4. RoundHalfAway(TotalRead(r, ParseFloat)) = RoundHalfEven(TotalRead(r, ParseFloat))
    <3>1. r \in Row /\ TotalRead(r, ParseFloat) \in Int
      BY <1>3, TotalIsNumber
    <3> QED
      BY <2>1, <3>1, RoundingAlike
  <2>5. /\ \A f \in AmountFields : CastFloat(r[f]) = ParseFloat(r[f])
        /\ CastFloat(r.total_amount) = ParseFloat(r.total_amount)
    BY <2>2, FieldsListed
  <2> QED
    BY <2>3, <2>4, <2>5, Zenon DEF PriceMask, PriceMismatch
<1> QED
  BY <1>2, <1>3

LEMMA DuplicateAlike ==
  ASSUME NEW b, NEW k \in DOMAIN b, NEW known, known \subseteq NonBlankIds(b),
         b[k].transaction_id.look # "capital"
  PROVE  DuplicateMask(b, known)[k]
           <=> DuplicateTransactionId(b[k].transaction_id, DuplicateIds(b), known)
<1>1. LowerId(b[k].transaction_id) = TransactionIds(b)[k]
  BY DEF LowerId, TransactionIds, StripId
<1>2. TransactionIds(b)[k] \in NonBlankIds(b) => ~Blank(NormalizeValue(b[k].transaction_id))
  BY DEF NonBlankIds, TransactionIds, StripId, NormalizeValue
<1> QED
  BY <1>1, <1>2 DEF DuplicateMask, DuplicateTransactionId, DuplicateIds

-----------------------------------------------------------------------------
(* Mask and rule, code by code. *)

LEMMA MaskArms ==
  ASSUME NEW b, NEW known
  PROVE  /\ Mask("MISSING_REQUIRED", b, known) = MissingMask(b)
         /\ Mask("PRICE_MISMATCH", b, known) = PriceMask(b)
         /\ Mask("DUPLICATE_TRANSACTION_ID", b, known) = DuplicateMask(b, known)
         /\ Mask("SUSPECTED_TYPO", b, known) = TypoMask(b)
         /\ Mask("COUNTRY_CITY_MISMATCH", b, known) = CountryCityMask(b)
         /\ Mask("REGION_COUNTRY_MISMATCH", b, known) = RegionMask(b)
         /\ Mask("POSTAL_CODE_INVALID", b, known) = PostalMask(b)
         /\ Mask("PHONE_COUNTRY_MISMATCH", b, known) = PhoneMask(b)
         /\ Mask("FINANCIAL_TOTAL_MISMATCH", b, known) = FinancialMask(b)
         /\ Mask("STATUS_INVALID", b, known) = StatusMask(b)
         /\ Mask("PAYMENT_METHOD_INVALID", b, known) = PaymentMask(b)
         /\ Mask("STATUS_PAYMENT_INCONSISTENT", b, known) = StatusPaymentMask(b)
         /\ Mask("CATEGORY_INVALID", b, known) = CategoryMask(b)
         /\ Mask("DEPARTMENT_INVALID", b, known) = DepartmentMask(b)
  BY DEF Mask

LEMMA RuleArms ==
  ASSUME NEW r, NEW dups, NEW known, NEW map
  PROVE  /\ RowVerdict("MISSING_REQUIRED", r, dups, known, map) = MissingRequired(r)
         /\ RowVerdict("PRICE_MISMATCH", r, dups, known, map) = PriceMismatch(r)
         /\ RowVerdict("DUPLICATE_TRANSACTION_ID", r, dups, known, map)
              = DuplicateTransactionId(r.transaction_id, dups, known)
         /\ RowVerdict("SUSPECTED_TYPO", r, dups, known, map) = SuspectedTypo(r)
         /\ RowVerdict("COUNTRY_CITY_MISMATCH", r, dups, known, map)
              = CountryCityMismatch(r.country, r.city, map)
         /\ RowVerdict("REGION_COUNTRY_MISMATCH", r, dups, known, map)
              = RegionCountryMismatch(r.country, r.region_code)
         /\ RowVerdict("POSTAL_CODE_INVALID", r, dups, known, map)
              = PostalCodeInvalid(r.country, r.postal_code)
         /\ RowVerdict("PHONE_COUNTRY_MISMATCH", r, dups, known, map)
              = PhoneCountryMismatch(r.country, r.phone)
         /\ RowVerdict("FINANCIAL_TOTAL_MISMATCH", r, dups, known, map) = FinancialTotalMismatch(r)
         /\ RowVerdict("STATUS_INVALID", r, dups, known, map) = StatusInvalid(r.status)
         /\ RowVerdict("PAYMENT_METHOD_INVALID", r, dups, known, map)
              = PaymentMethodInvalid(r.payment_method)
         /\ RowVerdict("STATUS_PAYMENT_INCONSISTENT", r, dups, known, map)
              = StatusPaymentInconsistent(r.status, r.payment_method)
         /\ RowVerdict("CATEGORY_INVALID", r, dups, known, map) = CategoryInvalid(r.category)
         /\ RowVerdict("DEPARTMENT_INVALID", r, dups, known, map) = DepartmentInvalid(r.department)
  BY DEF RowVerdict

\* The codes whose verdict depends on the row alone.
OwnCodes == Codes \ {"DUPLICATE_TRANSACTION_ID", "COUNTRY_CITY_MISMATCH"}

LEMMA MaskIsRule ==
  ASSUME NEW b, NEW k \in DOMAIN b, b[k] \in Row, NEW known, known \subseteq NonBlankIds(b),
         NEW code \in Codes, Comparable(code, b[k])
  PROVE  Mask(code, b, known)[k]
           <=> RowVerdict(code, b[k], DuplicateIds(b), known, CityCountryReference(b))
<1>1. CASE code = "PRICE_MISMATCH"
  BY <1>1, PriceAlike, MaskArms, RuleArms DEF Comparable
<1>2. CASE code = "DUPLICATE_TRANSACTION_ID"
  BY <1>2, DuplicateAlike, MaskArms, RuleArms DEF Comparable
<1>3. CASE code = "MISSING_REQUIRED"
  BY <1>3, MissingAlike, MaskArms, RuleArms
<1>4. CASE code = "SUSPECTED_TYPO"
  BY <1>4, TypoAlike, MaskArms, RuleArms
<1>5. CASE code = "COUNTRY_CITY_MISMATCH"
  BY <1>5, CountryCityAlike, MaskArms, RuleArms
<1>6. CASE code = "REGION_COUNTRY_MISMATCH"
  BY <1>6, RegionAlike, MaskArms, RuleArms
<1>7. CASE code = "POSTAL_CODE_INVALID"
  BY <1>7, PostalAlike, MaskArms, RuleArms
<1>8. CASE code = "PHONE_COUNTRY_MISMATCH"
  BY <1>8, PhoneAlike, MaskArms, RuleArms
<1>9. CASE code = "FINANCIAL_TOTAL_MISMATCH"
  BY <1>9, FinancialAlike, MaskArms, RuleArms DEF Comparable
<1>10. CASE code = "STATUS_INVALID"
  BY <1>10, VocabularyAlike, MaskArms, RuleArms
<1>11. CASE code = "PAYMENT_METHOD_INVALID"
  BY <1>11, VocabularyAlike, MaskArms, RuleArms
<1>12. CASE code = "STATUS_PAYMENT_INCONSISTENT"
  BY <1>12, VocabularyAlike, MaskArms, RuleArms
<1>13. CASE code = "CATEGORY_INVALID"
  BY <1>13, VocabularyAlike, MaskArms, RuleArms
<1>14. CASE code = "DEPARTMENT_INVALID"
  BY <1>14, VocabularyAlike, MaskArms, RuleArms
<1> QED
  BY <1>1, <1>2, <1>3, <1>4, <1>5, <1>6, <1>7, <1>8, <1>9, <1>10, <1>11, <1>12, <1>13, <1>14,
     CodesListed

-----------------------------------------------------------------------------
(* The batches of a file, and the ids fetched for one. *)

BatchInv ==
  /\ file \in Seq(Seq(Row)) /\ batch \in Seq(Row)
  /\ existing \subseteq NonBlankIds(batch)

LEMMA BatchInvInit ==
  ASSUME Init
  PROVE  BatchInv
  BY FilesAssumption DEF Init, BatchInv

LEMMA BatchInvStep ==
  ASSUME BatchInv, [Next]_vars
  PROVE  BatchInv'
<1>1. CASE EvaluateBatch
  <2>1. Head(file) \in Seq(Row) /\ Tail(file) \in Seq(Seq(Row))
    BY <1>1 DEF EvaluateBatch, BatchInv
  <2>2. ExistingIds(Head(file)) \subseteq NonBlankIds(Head(file))
    BY DEF ExistingIds
  <2>3. NonBlankIds(batch)' = NonBlankIds(Head(file))
    BY <1>1 DEF EvaluateBatch, NonBlankIds, TransactionIds
  <2> QED
    BY <1>1, <2>1, <2>2, <2>3 DEF EvaluateBatch, BatchInv
<1>2. CASE UNCHANGED vars
  <2>1. NonBlankIds(batch)' = NonBlankIds(batch)
    BY <1>2 DEF vars, NonBlankIds, TransactionIds
  <2> QED
    BY <1>2, <2>1 DEF vars, BatchInv
<1> QED
  BY <1>1, <1>2 DEF Next

\* For every file, the batches stay batches of rows and the ids fetched for one are its own.
THEOREM BatchInvAlways == Spec => []BatchInv
  BY BatchInvInit, BatchInvStep, PTL DEF Spec

\* Whatever the reference lists hold, the masks flag a row for a rule exactly when the
\* rule's function does, however the row's numbers are written, where Comparable has
\* the two read the cells and round alike.
THEOREM MasksFollowRulesAlways == Spec => []MasksFollowRules
<1>1. BatchInv => MasksFollowRules
  <2> SUFFICES ASSUME BatchInv, NEW k \in DOMAIN batch, NEW code \in Codes,
                      Comparable(code, batch[k])
               PROVE  Mask(code, batch, existing)[k]
                        <=> RowVerdict(code, batch[k], DuplicateIds(batch), existing,
                                       CityCountryReference(batch))
    BY Zenon DEF MasksFollowRules
  <2>1. batch[k] \in Row /\ existing \subseteq NonBlankIds(batch)
    BY DEF BatchInv
  <2> QED
    BY <2>1, MaskIsRule
<1> QED
  BY <1>1, BatchInvAlways, PTL

-----------------------------------------------------------------------------
(* A verdict of a row's own. *)

\* The masks over numbers look at one row.
LEMMA AmountsTravel ==
  ASSUME NEW b, NEW k \in DOMAIN b, NEW c, NEW l \in DOMAIN c, b[k] = c[l]
  PROVE  /\ PriceMask(b)[k] <=> PriceMask(c)[l]
         /\ FinancialMask(b)[k] <=> FinancialMask(c)[l]
  BY DEF PriceMask, FinancialMask

LEMMA OwnVerdict ==
  ASSUME NEW b, NEW k \in DOMAIN b, b[k] \in Row, NEW code \in OwnCodes, NEW known, NEW dups,
         NEW seen, NEW map, code \notin {"PRICE_MISMATCH", "FINANCIAL_TOTAL_MISMATCH"}
  PROVE  Mask(code, b, known)[k] <=> RowVerdict(code, b[k], dups, seen, map)
<1>3. CASE code = "MISSING_REQUIRED"
  BY <1>3, MissingAlike, MaskArms, RuleArms
<1>4. CASE code = "SUSPECTED_TYPO"
  BY <1>4, TypoAlike, MaskArms, RuleArms
<1>6. CASE code = "REGION_COUNTRY_MISMATCH"
  BY <1>6, RegionAlike, MaskArms, RuleArms
<1>7. CASE code = "POSTAL_CODE_INVALID"
  BY <1>7, PostalAlike, MaskArms, RuleArms
<1>8. CASE code = "PHONE_COUNTRY_MISMATCH"
  BY <1>8, PhoneAlike, MaskArms, RuleArms
<1>10. CASE code \in {"STATUS_INVALID", "PAYMENT_METHOD_INVALID", "STATUS_PAYMENT_INCONSISTENT",
                      "CATEGORY_INVALID", "DEPARTMENT_INVALID"}
  <2>1. CASE code = "STATUS_INVALID"
    BY <2>1, VocabularyAlike, MaskArms, RuleArms
  <2>2. CASE code = "PAYMENT_METHOD_INVALID"
    BY <2>2, VocabularyAlike, MaskArms, RuleArms
  <2>3. CASE code = "STATUS_PAYMENT_INCONSISTENT"
    BY <2>3, VocabularyAlike, MaskArms, RuleArms
  <2>4. CASE code = "CATEGORY_INVALID"
    BY <2>4, VocabularyAlike, MaskArms, RuleArms
  <2>5. CASE code = "DEPARTMENT_INVALID"
    BY <2>5, VocabularyAlike, MaskArms, RuleArms
  <2> QED
    BY <1>10, <2>1, <2>2, <2>3, <2>4, <2>5
<1> QED
  BY <1>3, <1>4, <1>6, <1>7, <1>8, <1>10, CodesListed DEF OwnCodes

\* Whatever batches a row arrives in, the rules that are not about the batch give it
\* the same verdicts.
THEOREM VerdictsTravelAlways == Spec => VerdictsTravel
<1> DEFINE Travels == \A k \in DOMAIN batch, l \in DOMAIN batch', code \in
                        Codes \ {"DUPLICATE_TRANSACTION_ID", "COUNTRY_CITY_MISMATCH"} :
                        batch[k] = batch'[l] =>
                          (Mask(code, batch, existing)[k] <=> Mask(code, batch', existing')[l])
<1>1. BatchInv /\ BatchInv' /\ [Next]_vars => [Travels]_vars
  <2> SUFFICES ASSUME BatchInv, NEW k \in DOMAIN batch, NEW l \in DOMAIN batch',
                      NEW code \in OwnCodes, batch[k] = batch'[l]
               PROVE  Mask(code, batch, existing)[k] <=> Mask(code, batch', existing')[l]
    BY DEF OwnCodes
  <2>1. batch[k] \in Row /\ batch'[l] \in Row
    BY DEF BatchInv
  <2>2. CASE code \in {"PRICE_MISMATCH", "FINANCIAL_TOTAL_MISMATCH"}
    BY <2>2, AmountsTravel, MaskArms
  <2>3. CASE code \notin {"PRICE_MISMATCH", "FINANCIAL_TOTAL_MISMATCH"}
    <3> DEFINE verdict(r) == RowVerdict(code, r, {}, {}, <<>>)
    <3>1. Mask(code, batch, existing)[k] <=> verdict(batch[k])
      BY <2>1, <2>3, OwnVerdict
    <3>2. Mask(code, batch', existing')[l] <=> verdict(batch'[l])
      BY <2>1, <2>3, OwnVerdict
    <3> QED
      BY <3>1, <3>2
  <2> QED
    BY <2>2, <2>3
<1> QED
  BY <1>1, BatchInvAlways, PTL DEF Spec, VerdictsTravel

-----------------------------------------------------------------------------
(* The city map a batch suggests. *)

LEMMA CountsOfParts ==
  ASSUME NEW N, IsFiniteSet(N), NEW X, X \subseteq N, NEW Y, Y \subseteq N, X \cap Y = {}
  PROVE  /\ Cardinality(X) \in Nat /\ Cardinality(Y) \in Nat /\ Cardinality(N) \in Nat
         /\ Cardinality(X) + Cardinality(Y) <= Cardinality(N)
<1>1. IsFiniteSet(X) /\ IsFiniteSet(Y) /\ IsFiniteSet(X \cup Y)
  BY FS_Subset
<1>2. Cardinality(X \cup Y) = Cardinality(X) + Cardinality(Y) - Cardinality(X \cap Y)
  BY <1>1, FS_Union
<1>3. Cardinality(X \cap Y) = 0
  BY FS_EmptySet
<1>4. Cardinality(X \cup Y) <= Cardinality(N)
  BY FS_Subset
<1>5. Cardinality(X) \in Nat /\ Cardinality(Y) \in Nat /\ Cardinality(N) \in Nat
  BY <1>1, FS_CardinalityType
<1> QED
  BY <1>2, <1>3, <1>4, <1>5

LEMMA ShareLeft ==
  ASSUME NEW x \in Nat, NEW y \in Nat, NEW n \in Nat, x + y <= n, x * ShareDen >= ShareNum * n
  PROVE  y * ShareDen <= (ShareDen - ShareNum) * n
<1> USE ShareAssumption
<1>1. (x + y) * ShareDen <= n * ShareDen
  OBVIOUS
<1>2. (x + y) * ShareDen = x * ShareDen + y * ShareDen
  OBVIOUS
<1>3. (ShareDen - ShareNum) * n = n * ShareDen - ShareNum * n
  OBVIOUS
<1>4. /\ x * ShareDen \in Int /\ y * ShareDen \in Int
      /\ n * ShareDen \in Int /\ ShareNum * n \in Int
  OBVIOUS
<1> QED
  BY <1>1, <1>2, <1>3, <1>4

LEMMA Outvoted ==
  ASSUME NEW b \in Seq(Row), NEW k \in DOMAIN b, CountryCityMask(b)[k],
         CityOf(b[k]) \notin DOMAIN CityToCountry
  PROVE  /\ Cardinality(Naming(b, CityOf(b[k]))) >= MinCount
         /\ Cardinality(Placing(b, CityOf(b[k]), CountryOf(b[k]))) * ShareDen
              <= (ShareDen - ShareNum) * Cardinality(Naming(b, CityOf(b[k])))
<1> DEFINE city == CityOf(b[k])
           N == Naming(b, city)
           j == CHOOSE i \in N : Dominates(b, city, CountryOf(b[i]))
           X == Placing(b, city, CountryOf(b[j]))
           Y == Placing(b, city, CountryOf(b[k]))
<1>1. /\ city \in DOMAIN CityCountryReference(b)
      /\ CityCountryReference(b)[city] # CountryOf(b[k])
  BY DEF CountryCityMask
<1>2. city \in DOMAIN DynamicCityMap(b) /\ DynamicCityMap(b)[city] # CountryOf(b[k])
  BY <1>1 DEF CityCountryReference
<1>3. /\ \E i \in N : Dominates(b, city, CountryOf(b[i]))
      /\ DynamicCityMap(b)[city] = CountryOf(b[j])
  BY <1>2 DEF DynamicCityMap
<1>4. Dominates(b, city, CountryOf(b[j])) /\ CountryOf(b[j]) # CountryOf(b[k])
  BY <1>2, <1>3
<1>5. IsFiniteSet(N)
  <2>1. N \subseteq 1..Len(b) /\ IsFiniteSet(1..Len(b))
    BY FS_Interval DEF Naming
  <2> QED
    BY <2>1, FS_Subset
<1>6. X \subseteq N /\ Y \subseteq N /\ X \cap Y = {}
  BY <1>4 DEF Placing
<1>7. /\ Cardinality(X) \in Nat /\ Cardinality(Y) \in Nat /\ Cardinality(N) \in Nat
      /\ Cardinality(X) + Cardinality(Y) <= Cardinality(N)
  BY <1>5, <1>6, CountsOfParts
<1>8. Cardinality(N) >= MinCount /\ Cardinality(X) * ShareDen >= ShareNum * Cardinality(N)
  BY <1>4 DEF Dominates
<1>9. Cardinality(Y) * ShareDen <= (ShareDen - ShareNum) * Cardinality(N)
  BY <1>7, <1>8, ShareLeft
<1> QED
  BY <1>8, <1>9

\* However a file is cut and whatever the share, a row is flagged for a city that only
\* the batch's own map knows when its batch outvotes it by that share.
THEOREM CityVerdictsAreOutvotedAlways == Spec => []CityVerdictsAreOutvoted
<1>1. BatchInv => CityVerdictsAreOutvoted
  BY Outvoted DEF BatchInv, CityVerdictsAreOutvoted
<1> QED
  BY <1>1, BatchInvAlways, PTL

-----------------------------------------------------------------------------
(* What a mask keeps of a sequence, and where the fold puts it. *)

\* A run that appends x[k] for each k the mask keeps, and skips the others.
AppendsKept(r, n, mask, x) ==
  /\ r[0] = <<>>
  /\ \A k \in 1..n : r[k] = IF mask[k] THEN Append(r[k - 1], x[k]) ELSE r[k - 1]

FiltersTo(result, V, s, mask) ==
  \E r \in [0..Len(s) -> Seq(V)] : AppendsKept(r, Len(s), mask, s) /\ r[Len(s)] = result

LEMMA FilterRuns ==
  ASSUME NEW V, NEW s \in Seq(V), NEW mask
  PROVE  FiltersTo(FilterBy(s, mask), V, s, mask)
<1> DEFINE n == Len(s)
           T == Seq(V)
           base == <<>>
           more(k, rows) == IF mask[k] THEN Append(rows, s[k]) ELSE rows
           at == [i \in DOMAIN s |-> i]
           follows(g) == g = [t \in SUBSET DOMAIN s |->
                                IF t = {} THEN base ELSE more(at[Max(t)], g[t \ {Max(t)}])]
           fold == CHOOSE g : follows(g)
           step == [p \in (1..n) \X T |-> more(p[1], p[2])]
<1>1. FilterBy(s, mask) = fold[DOMAIN s]
  BY Zenon DEF FilterBy, FoldLeftDomain, FoldLeft, MapThenFoldSet
<1>2. n \in Nat /\ DOMAIN s = 1..n /\ base \in T /\ \A k \in 1..n : at[k] = k
  OBVIOUS
<1>3. \A k \in 1..n, rows \in T : more(k, rows) \in T
  OBVIOUS
<1> HIDE DEF n, T, base, more, at
<1>4. step \in [(1..n) \X T -> T] /\ \A k \in 1..n, rows \in T : step[<<k, rows>>] = more(k, rows)
  BY <1>3
<1> HIDE DEF step
<1>5. \E g : follows(g)
  <2>1. PICK g \in [SUBSET (1..n) -> T] : IsPositionFold(g, n, base, step)
    BY <1>2, <1>4, PositionFold
  <2>2. ASSUME NEW t \in SUBSET (1..n), t # {}
        PROVE  step[<<Max(t), g[t \ {Max(t)}]>>] = more(at[Max(t)], g[t \ {Max(t)}])
    <3>1. Max(t) \in 1..n /\ g[t \ {Max(t)}] \in T
      BY <1>2, <2>2, LastOfInterval
    <3> QED
      BY <1>2, <1>4, <3>1
  <2>3. follows(g)
    BY <1>2, <2>1, <2>2 DEF IsPositionFold
  <2> QED
    BY <2>3, Zenon
<1>6. follows(fold)
  <2> HIDE DEF follows
  <2> QED
    BY <1>5, Zenon
<1> HIDE DEF fold
<1>7. Follows(fold, n, T, base, step)
  <2>1. {} \in SUBSET (1..n)
    OBVIOUS
  <2>2. \A t \in SUBSET (1..n) : t # {} => Max(t) \in 1..n
    BY <1>2, LastOfInterval
  <2>3. fold[{}] = base
    BY <1>2, <1>6, <2>1
  <2>4. \A t \in SUBSET (1..n) : t # {} => fold[t] = more(at[Max(t)], fold[t \ {Max(t)}])
    BY <1>2, <1>6
  <2>5. ASSUME NEW t \in SUBSET (1..n), t # {}, fold[t \ {Max(t)}] \in T
        PROVE  fold[t] = step[<<Max(t), fold[t \ {Max(t)}]>>]
    <3>1. Max(t) \in 1..n /\ at[Max(t)] = Max(t)
      BY <1>2, <2>2, <2>5
    <3> QED
      BY <1>4, <2>4, <2>5, <3>1
  <2> QED
    BY <2>3, <2>5 DEF Follows
<1>8. PICK r \in [0..n -> T] : IsRun(r, n, base, step) /\ r[n] = fold[1..n]
  <2>1. RunsTo(fold[1..n], n, T, base, step)
    BY <1>2, <1>4, <1>7, FoldRuns
  <2> QED
    BY <2>1 DEF RunsTo
<1>9. ASSUME NEW k \in 1..n PROVE r[k] = more(k, r[k - 1])
  <2>1. k - 1 \in 0..n
    BY <1>2
  <2>2. r[k - 1] \in T
    BY <2>1
  <2> QED
    BY <1>4, <1>8, <2>2 DEF IsRun
<1>10. r[0] = base /\ r[n] = fold[DOMAIN s]
  BY <1>2, <1>8 DEF IsRun
<1> QED
  <2>1. AppendsKept(r, n, mask, s)
    BY <1>9, <1>10 DEF AppendsKept, base, more
  <2> QED
    BY <1>1, <1>10, <2>1 DEF FiltersTo, n, T

\* How many of the first k entries a mask keeps.
Kept(mask, k) == Cardinality({l \in 1..k : mask[l]})

LEMMA KeptCounts ==
  ASSUME NEW mask, NEW k \in Nat
  PROVE  /\ Kept(mask, k) \in Nat /\ Kept(mask, 0) = 0
         /\ k > 0 => Kept(mask, k) = Kept(mask, k - 1) + (IF mask[k] THEN 1 ELSE 0)
<1> DEFINE upTo(m) == {l \in 1..m : mask[l]}
<1>1. \A m \in Nat : IsFiniteSet(upTo(m)) /\ Cardinality(upTo(m)) \in Nat
  <2> TAKE m \in Nat
  <2>1. IsFiniteSet(1..m) /\ upTo(m) \in SUBSET (1..m)
    BY FS_Interval
  <2> QED
    BY <2>1, FS_Subset, FS_CardinalityType
<1>2. upTo(0) = {}
  OBVIOUS
<1>3. CASE k > 0 /\ mask[k]
  <2>1. upTo(k) = upTo(k - 1) \cup {k} /\ k \notin upTo(k - 1) /\ k - 1 \in Nat
    BY <1>3
  <2> HIDE DEF upTo
  <2>2. Cardinality(upTo(k)) = Cardinality(upTo(k - 1)) + 1
    BY <1>1, <2>1, FS_AddElement
  <2> QED
    BY <1>1, <1>2, <1>3, <2>2, FS_EmptySet DEF Kept, upTo
<1>4. CASE k > 0 /\ ~mask[k]
  <2>1. upTo(k) = upTo(k - 1) /\ k - 1 \in Nat
    BY <1>4
  <2> QED
    BY <1>1, <1>2, <1>4, <2>1, FS_EmptySet DEF Kept
<1>5. CASE k = 0
  BY <1>1, <1>2, <1>5, FS_EmptySet DEF Kept
<1> QED
  BY <1>3, <1>4, <1>5

\* Where the first k entries end up: each that is kept at the place that counts it.
KeptTo(out, k, mask, x) ==
  /\ Len(out) = Kept(mask, k)
  /\ \A l \in 1..k : mask[l] => Kept(mask, l) \in DOMAIN out /\ out[Kept(mask, l)] = x[l]
  /\ \A i \in DOMAIN out : \E l \in 1..k : mask[l] /\ out[i] = x[l]

LEMMA KeptInOrder ==
  ASSUME NEW V, NEW n \in Nat, NEW mask, NEW r \in [0..n -> Seq(V)], NEW x \in [1..n -> V],
         AppendsKept(r, n, mask, x)
  PROVE  \A k \in 0..n : KeptTo(r[k], k, mask, x)
<1> DEFINE P == {k \in 0..n : KeptTo(r[k], k, mask, x)}
<1>1. 0 \in P
  BY KeptCounts DEF AppendsKept, KeptTo
<1>2. ASSUME NEW k \in 1..n, k - 1 \in P PROVE k \in P
  <2> DEFINE old == r[k - 1]
             new == r[k]
             m == Kept(mask, k - 1)
  <2>1. /\ k \in 0..n /\ k - 1 \in 0..n /\ old \in Seq(V) /\ new \in Seq(V) /\ x[k] \in V
        /\ m \in Nat /\ Kept(mask, k) = m + (IF mask[k] THEN 1 ELSE 0)
        /\ new = IF mask[k] THEN Append(old, x[k]) ELSE old
    <3>1. k \in Nat /\ k > 0 /\ k - 1 \in Nat /\ k \in 0..n /\ k - 1 \in 0..n
      OBVIOUS
    <3>2. m \in Nat /\ Kept(mask, k) = m + (IF mask[k] THEN 1 ELSE 0)
      BY <3>1, KeptCounts
    <3>3. new = IF mask[k] THEN Append(old, x[k]) ELSE old
      BY DEF AppendsKept
    <3>4. old \in Seq(V) /\ new \in Seq(V) /\ x[k] \in V
      BY <3>1
    <3> QED
      BY <3>1, <3>2, <3>3, <3>4
  <2>2. KeptTo(old, k - 1, mask, x)
    BY <1>2
  <2> HIDE DEF old, new, m
  <2>3. /\ DOMAIN old = 1..m
        /\ \A l \in 1..(k - 1) : mask[l] => Kept(mask, l) \in DOMAIN old /\ old[Kept(mask, l)] = x[l]
        /\ \A i \in DOMAIN old : \E l \in 1..(k - 1) : mask[l] /\ old[i] = x[l]
    BY <2>1, <2>2 DEF KeptTo, m
  <2>4. \A l \in 1..k : l = k \/ l \in 1..(k - 1)
    OBVIOUS
  <2>5. CASE ~mask[k]
    <3>1. new = old /\ Kept(mask, k) = m
      BY <2>1, <2>5
    <3>2. \A l \in 1..k : mask[l] => l \in 1..(k - 1)
      BY <2>4, <2>5
    <3>3. \A l \in 1..(k - 1) : l \in 1..k
      OBVIOUS
    <3>4. KeptTo(new, k, mask, x)
      BY <2>2, <2>3, <3>1, <3>2, <3>3 DEF KeptTo, m
    <3> QED
      BY <2>1, <3>4 DEF new
  <2>6. CASE mask[k]
    <3>1. /\ Len(new) = m + 1 /\ DOMAIN new = 1..(m + 1) /\ new[m + 1] = x[k]
          /\ \A i \in DOMAIN old : new[i] = old[i]
      BY <2>1, <2>3, <2>6
    <3>2. \A i \in DOMAIN new : i = m + 1 \/ i \in DOMAIN old
      BY <2>1, <2>3, <3>1
    <3>3. ASSUME NEW i \in DOMAIN new PROVE \E l \in 1..k : mask[l] /\ new[i] = x[l]
      <4>1. CASE i \in DOMAIN old
        <5>1. PICK l \in 1..(k - 1) : mask[l] /\ old[i] = x[l]
          BY <2>3, <4>1
        <5>2. l \in 1..k /\ new[i] = x[l]
          BY <3>1, <4>1, <5>1
        <5> QED
          BY <5>1, <5>2
      <4>2. CASE i = m + 1
        BY <2>6, <3>1, <4>2
      <4> QED
        BY <3>2, <4>1, <4>2
    <3>4. \A l \in 1..k : mask[l] => Kept(mask, l) \in DOMAIN new /\ new[Kept(mask, l)] = x[l]
      BY <2>1, <2>3, <2>4, <2>6, <3>1
    <3>5. KeptTo(new, k, mask, x)
      BY <2>1, <2>6, <3>1, <3>3, <3>4 DEF KeptTo
    <3> QED
      BY <2>1, <3>5 DEF new
  <2> QED
    BY <2>5, <2>6
<1> HIDE DEF P
<1>3. \A k \in 0..n : k \in P
  BY <1>1, <1>2, HoldsAlong
<1> QED
  BY <1>3 DEF P

\* What a filter keeps, and where.
LEMMA FilterKeeps ==
  ASSUME NEW V, NEW s \in Seq(V), NEW mask
  PROVE  FilterBy(s, mask) \in Seq(V) /\ KeptTo(FilterBy(s, mask), Len(s), mask, s)
<1> DEFINE n == Len(s)
<1>1. PICK r \in [0..n -> Seq(V)] : AppendsKept(r, n, mask, s) /\ r[n] = FilterBy(s, mask)
  BY FilterRuns DEF FiltersTo
<1>2. s \in [1..n -> V] /\ n \in Nat /\ n \in 0..n
  OBVIOUS
<1> HIDE DEF n
<1>3. \A k \in 0..n : KeptTo(r[k], k, mask, s)
  BY <1>1, <1>2, KeptInOrder
<1> QED
  BY <1>1, <1>2, <1>3 DEF n

-----------------------------------------------------------------------------
(* The records of a batch's flagged rows. *)

LEMMA RuleOrderType == RuleOrder \in Seq(Codes)
<1> DEFINE C == Codes
<1>1. /\ "MISSING_REQUIRED" \in C /\ "PRICE_MISMATCH" \in C /\ "DUPLICATE_TRANSACTION_ID" \in C
      /\ "SUSPECTED_TYPO" \in C /\ "COUNTRY_CITY_MISMATCH" \in C
      /\ "REGION_COUNTRY_MISMATCH" \in C /\ "POSTAL_CODE_INVALID" \in C
      /\ "PHONE_COUNTRY_MISMATCH" \in C /\ "FINANCIAL_TOTAL_MISMATCH" \in C
      /\ "STATUS_INVALID" \in C /\ "PAYMENT_METHOD_INVALID" \in C
      /\ "STATUS_PAYMENT_INCONSISTENT" \in C /\ "CATEGORY_INVALID" \in C
      /\ "DEPARTMENT_INVALID" \in C
  BY CodesListed
<1> HIDE DEF C
<1>2. RuleOrder \in Seq(C)
  BY <1>1, SMTT(30) DEF RuleOrder
<1> QED
  BY <1>2 DEF C

FlagsOf(b, known, k) == {code \in Codes : Mask(code, b, known)[k]}

\* The codes of a row are those of the masks that flag it.
LEMMA CodesAreFlags ==
  ASSUME NEW b, NEW known, NEW k
  PROVE  /\ CodesOf(b, known, k) \in Seq(Codes)
         /\ Range(CodesOf(b, known, k)) = FlagsOf(b, known, k)
<1> DEFINE mask == [i \in DOMAIN RuleOrder |-> Mask(RuleOrder[i], b, known)[k]]
           codes == CodesOf(b, known, k)
<1>1. RuleOrder \in Seq(Codes) /\ Codes = {RuleOrder[i] : i \in DOMAIN RuleOrder}
  BY RuleOrderType DEF Codes
<1>2. \A i \in DOMAIN RuleOrder : mask[i] = Mask(RuleOrder[i], b, known)[k]
  OBVIOUS
<1>3. codes = FilterBy(RuleOrder, mask)
  BY DEF CodesOf
<1> HIDE DEF mask, codes
<1>4. codes \in Seq(Codes) /\ KeptTo(codes, Len(RuleOrder), mask, RuleOrder)
  BY <1>1, <1>3, FilterKeeps
<1>5. DOMAIN RuleOrder = 1..Len(RuleOrder)
  BY <1>1
<1>6. ASSUME NEW i \in DOMAIN codes
      PROVE  \E l \in DOMAIN RuleOrder : Mask(RuleOrder[l], b, known)[k] /\ codes[i] = RuleOrder[l]
  BY <1>2, <1>4, <1>5 DEF KeptTo
<1>7. ASSUME NEW l \in DOMAIN RuleOrder, Mask(RuleOrder[l], b, known)[k]
      PROVE  \E i \in DOMAIN codes : codes[i] = RuleOrder[l]
  BY <1>2, <1>4, <1>5, <1>7 DEF KeptTo
<1>8. {codes[i] : i \in DOMAIN codes} = {code \in Codes : Mask(code, b, known)[k]}
  BY <1>1, <1>6, <1>7
<1> QED
  BY <1>4, <1>8 DEF codes, Range, FlagsOf

\* The records are appended one by one, each with the raw row that the records built so
\* far point at.
NextRecord(b, known, mask, k, built) ==
  IssueRow(TransactionIds(b)[k], CodesOf(b, known, k), RawIssueRows(b, mask)[built + 1])

Builds(r, b, known, mask) ==
  AppendsKept(r, Len(b), mask,
              [k \in 1..Len(b) |-> NextRecord(b, known, mask, k, Len(r[k - 1]))])

BuildsUpTo(result, V, b, known, mask) ==
  \E r \in [0..Len(b) -> Seq(V)] : r[Len(b)] = result /\ Builds(r, b, known, mask)

LEMMA IssueRowsRuns ==
  ASSUME NEW W, NEW b \in Seq(W), NEW known, NEW mask, NEW V,
         \A k \in DOMAIN b, i \in Nat :
           NextRecord(b, known, mask, k, i) \in V
  PROVE  BuildsUpTo(IssueRowsOf(b, known, mask), V, b, known, mask)
<1> DEFINE n == Len(b)
           T == Seq(V)
           base == <<>>
           entry(k, rows) == NextRecord(b, known, mask, k, Len(rows))
           more(k, rows) == IF mask[k] THEN Append(rows, entry(k, rows)) ELSE rows
           at == [i \in DOMAIN b |-> i]
           follows(g) == g = [t \in SUBSET DOMAIN b |->
                                IF t = {} THEN base ELSE more(at[Max(t)], g[t \ {Max(t)}])]
           fold == CHOOSE g : follows(g)
           step == [p \in (1..n) \X T |-> more(p[1], p[2])]
<1>1. IssueRowsOf(b, known, mask) = fold[DOMAIN b]
  BY Zenon DEF IssueRowsOf, NextRecord, FoldLeftDomain, FoldLeft, MapThenFoldSet
<1>2. n \in Nat /\ DOMAIN b = 1..n /\ base \in T /\ \A k \in 1..n : at[k] = k
  OBVIOUS
<1>3. \A k \in 1..n, rows \in T : more(k, rows) \in T
  <2>1. ASSUME NEW k \in 1..n, NEW rows \in T PROVE entry(k, rows) \in V
    <3>1. Len(rows) \in Nat /\ k \in DOMAIN b
      OBVIOUS
    <3> QED
      BY <3>1
  <2> HIDE DEF entry
  <2> QED
    BY <2>1
<1> HIDE DEF n, T, base, more, at
<1>4. step \in [(1..n) \X T -> T] /\ \A k \in 1..n, rows \in T : step[<<k, rows>>] = more(k, rows)
  BY <1>3
<1> HIDE DEF step
<1>5. \E g : follows(g)
  <2>1. PICK g \in [SUBSET (1..n) -> T] : IsPositionFold(g, n, base, step)
    BY <1>2, <1>4, PositionFold
  <2>2. ASSUME NEW t \in SUBSET (1..n), t # {}
        PROVE  step[<<Max(t), g[t \ {Max(t)}]>>] = more(at[Max(t)], g[t \ {Max(t)}])
    <3>1. Max(t) \in 1..n /\ g[t \ {Max(t)}] \in T
      BY <1>2, <2>2, LastOfInterval
    <3> QED
      BY <1>2, <1>4, <3>1
  <2>3. follows(g)
    BY <1>2, <2>1, <2>2 DEF IsPositionFold
  <2> QED
    BY <2>3, Zenon
<1>6. follows(fold)
  <2> HIDE DEF follows
  <2> QED
    BY <1>5, Zenon
<1> HIDE DEF fold
<1>7. Follows(fold, n, T, base, step)
  <2>1. {} \in SUBSET (1..n)
    OBVIOUS
  <2>2. \A t \in SUBSET (1..n) : t # {} => Max(t) \in 1..n
    BY <1>2, LastOfInterval
  <2>3. fold[{}] = base
    BY <1>2, <1>6, <2>1
  <2>4. \A t \in SUBSET (1..n) : t # {} => fold[t] = more(at[Max(t)], fold[t \ {Max(t)}])
    BY <1>2, <1>6
  <2>5. ASSUME NEW t \in SUBSET (1..n), t # {}, fold[t \ {Max(t)}] \in T
        PROVE  fold[t] = step[<<Max(t), fold[t \ {Max(t)}]>>]
    <3>1. Max(t) \in 1..n /\ at[Max(t)] = Max(t)
      BY <1>2, <2>2, <2>5
    <3> QED
      BY <1>4, <2>4, <2>5, <3>1
  <2> QED
    BY <2>3, <2>5 DEF Follows
<1>8. PICK r \in [0..n -> T] : IsRun(r, n, base, step) /\ r[n] = fold[1..n]
  <2>1. RunsTo(fold[1..n], n, T, base, step)
    BY <1>2, <1>4, <1>7, FoldRuns
  <2> QED
    BY <2>1 DEF RunsTo
<1>9. ASSUME NEW k \in 1..n PROVE r[k] = more(k, r[k - 1])
  <2>1. k - 1 \in 0..n
    BY <1>2
  <2>2. r[k - 1] \in T
    BY <2>1
  <2> QED
    BY <1>4, <1>8, <2>2 DEF IsRun
<1>10. r[0] = base /\ r[n] = fold[DOMAIN b]
  BY <1>2, <1>8 DEF IsRun
<1> DEFINE x == [k \in 1..n |-> entry(k, r[k - 1])]
<1>11. AppendsKept(r, n, mask, x)
  <2>1. \A k \in 1..n : x[k] = entry(k, r[k - 1])
    OBVIOUS
  <2> HIDE DEF x, entry
  <2> QED
    BY <1>9, <1>10, <2>1 DEF AppendsKept, base, more
<1> QED
  <2>1. r \in [0..Len(b) -> Seq(V)] /\ r[Len(b)] = IssueRowsOf(b, known, mask)
    BY <1>1, <1>8, <1>10 DEF n, T
  <2>2. Builds(r, b, known, mask)
    BY <1>11 DEF Builds, n
  <2> QED
    BY <2>1, <2>2 DEF BuildsUpTo

RecordOf(b, known, k) == IssueRow(TransactionIds(b)[k], CodesOf(b, known, k), b[k])

\* The record of a flagged row is built from that row.
LEMMA RecordsBuilt ==
  ASSUME NEW b \in Seq(Row), NEW known, NEW mask
  PROVE  /\ IssueRowsOf(b, known, mask) \in Seq({RecordOf(b, known, k) : k \in DOMAIN b})
         /\ KeptTo(IssueRowsOf(b, known, mask), Len(b), mask,
                   [k \in 1..Len(b) |-> RecordOf(b, known, k)])
<1> DEFINE n == Len(b)
           raw == RawIssueRows(b, mask)
           V == {NextRecord(b, known, mask, k, i) : k \in DOMAIN b, i \in Nat}
           out == IssueRowsOf(b, known, mask)
           own == [k \in 1..n |-> RecordOf(b, known, k)]
<1>1. n \in Nat /\ DOMAIN b = 1..n /\ n \in 0..n /\ \A k \in 1..n : k - 1 \in 0..n /\ k \in Nat /\ k > 0
  OBVIOUS
<1>2. BuildsUpTo(out, V, b, known, mask)
  BY IssueRowsRuns
<1>3. PICK r \in [0..n -> Seq(V)] : r[n] = out /\ Builds(r, b, known, mask)
  <2> HIDE DEF V, out
  <2> QED
    BY <1>2 DEF BuildsUpTo
<1> DEFINE x == [k \in 1..n |-> NextRecord(b, known, mask, k, Len(r[k - 1]))]
<1>4. x \in [1..n -> V] /\ \A k \in 1..n : x[k] = NextRecord(b, known, mask, k, Len(r[k - 1]))
  <2>1. ASSUME NEW k \in 1..n PROVE NextRecord(b, known, mask, k, Len(r[k - 1])) \in V
    <3>1. r[k - 1] \in Seq(V)
      BY <1>1
    <3>2. Len(r[k - 1]) \in Nat
      BY <3>1, LenProperties
    <3> QED
      BY <1>1, <3>2
  <2> QED
    BY <2>1
<1>11. AppendsKept(r, n, mask, x)
  BY <1>3 DEF Builds
<1>5. KeptTo(raw, n, mask, b)
  BY FilterKeeps DEF RawIssueRows
<1>6. \A k \in 1..n : own[k] = RecordOf(b, known, k)
  OBVIOUS
<1> HIDE DEF n, V, out, own, x, raw
<1>7. \A k \in 0..n : KeptTo(r[k], k, mask, x)
  BY <1>1, <1>4, <1>11, KeptInOrder
<1>8. ASSUME NEW k \in 1..n, mask[k] PROVE x[k] = own[k]
  <2>1. /\ Len(r[k - 1]) = Kept(mask, k - 1) /\ Kept(mask, k) = Kept(mask, k - 1) + 1
        /\ Kept(mask, k - 1) \in Nat
    <3>1. Len(r[k - 1]) = Kept(mask, k - 1)
      BY <1>1, <1>7 DEF KeptTo
    <3>2. k \in Nat /\ k > 0 /\ k - 1 \in Nat
      BY <1>1
    <3> QED
      BY <1>8, <3>1, <3>2, KeptCounts
  <2>2. raw[Kept(mask, k)] = b[k]
    BY <1>5, <1>8 DEF KeptTo
  <2> QED
    BY <1>4, <1>6, <2>1, <2>2 DEF NextRecord, RecordOf, raw
<1>9. KeptTo(out, n, mask, own)
  <2>1. KeptTo(out, n, mask, x)
    BY <1>1, <1>3, <1>7
  <2> QED
    BY <1>8, <2>1 DEF KeptTo
<1>10. out \in Seq({RecordOf(b, known, k) : k \in DOMAIN b})
  <2>1. out \in Seq(V)
    BY <1>1, <1>3
  <2>2. \A i \in DOMAIN out : out[i] \in {RecordOf(b, known, k) : k \in DOMAIN b}
    <3> TAKE i \in DOMAIN out
    <3>1. PICK k \in 1..n : out[i] = own[k]
      BY <1>9 DEF KeptTo
    <3> QED
      BY <1>1, <1>6, <3>1
  <2> DEFINE R == {RecordOf(b, known, k) : k \in DOMAIN b}
  <2> HIDE DEF R
  <2>3. out \in Seq(R)
    BY <2>1, <2>2 DEF R
  <2> QED
    BY <2>3 DEF R
<1> QED
  BY <1>9, <1>10 DEF n, out, own

\* What is known of the batch evaluated last: whom the mask flags, and where the record
\* of each flagged row is.
RecordsInv ==
  /\ clean \subseteq TextCell
  /\ issueMask \in [DOMAIN batch -> BOOLEAN]
  /\ \A k \in DOMAIN batch : issueMask[k] <=> \E code \in Codes : Mask(code, batch, existing)[k]
  /\ issueRows \in Seq({RecordOf(batch, existing, k) : k \in DOMAIN batch})
  /\ KeptTo(issueRows, Len(batch), issueMask,
            [k \in 1..Len(batch) |-> RecordOf(batch, existing, k)])

LEMMA RecordsInvInit ==
  ASSUME Init
  PROVE  RecordsInv
<1>1. batch = <<>> /\ issueRows = <<>> /\ issueMask = <<>> /\ clean = {}
  BY DEF Init
<1>2. DOMAIN batch = {} /\ Len(batch) = 0 /\ 1..0 = {} /\ issueMask \in [DOMAIN batch -> BOOLEAN]
  BY <1>1
<1>3. KeptTo(issueRows, Len(batch), issueMask,
             [k \in 1..Len(batch) |-> RecordOf(batch, existing, k)])
  BY <1>1, <1>2, KeptCounts DEF KeptTo
<1> QED
  BY <1>1, <1>2, <1>3 DEF RecordsInv

LEMMA RecordsInvStep ==
  ASSUME BatchInv, RecordsInv, [Next]_vars
  PROVE  RecordsInv'
<1>1. CASE EvaluateBatch
  <2> DEFINE b == Head(file)
             known == existing'
             mask == issueMask'
  <2>1. b \in Seq(Row) /\ batch' = b /\ mask = IssueMask(b, known)
          /\ issueRows' = IssueRowsOf(b, known, mask)
    BY <1>1 DEF EvaluateBatch, BatchInv
  <2>2. clean' \subseteq TextCell
    <3>1. \A k \in DOMAIN b : b[k].transaction_id \in TextCell
      BY <2>1, CellsOfRow DEF TextFields
    <3>2. clean' = clean \cup {b[k].transaction_id : k \in {k \in DOMAIN b : ~mask[k]}}
      BY <1>1 DEF EvaluateBatch
    <3> QED
      BY <3>1, <3>2 DEF RecordsInv
  <2>3. /\ mask \in [DOMAIN b -> BOOLEAN]
        /\ \A k \in DOMAIN b : mask[k] <=> \E code \in Codes : Mask(code, b, known)[k]
    BY <2>1 DEF IssueMask
  <2>4. /\ IssueRowsOf(b, known, mask) \in Seq({RecordOf(b, known, k) : k \in DOMAIN b})
        /\ KeptTo(IssueRowsOf(b, known, mask), Len(b), mask,
                  [k \in 1..Len(b) |-> RecordOf(b, known, k)])
    BY <2>1, RecordsBuilt
  <2> HIDE DEF b, known, mask
  <2> QED
    BY <2>1, <2>2, <2>3, <2>4 DEF RecordsInv, known, mask
<1>2. CASE UNCHANGED vars
  BY <1>2 DEF vars, RecordsInv
<1> QED
  BY <1>1, <1>2 DEF Next

LEMMA RecordsInvAlways == Spec => [](BatchInv /\ RecordsInv)
  BY BatchInvInit, BatchInvStep, RecordsInvInit, RecordsInvStep, PTL DEF Spec

LEMMA RecordType ==
  ASSUME BatchInv, NEW k \in DOMAIN batch
  PROVE  RecordOf(batch, existing, k) \in IssueRowType
<1> DEFINE codes == CodesOf(batch, existing, k)
           severity == [i \in DOMAIN codes |-> Severity(codes[i])]
<1>1. codes \in Seq(Codes)
  BY CodesAreFlags
<1>2. severity \in Seq({"error", "warn", "info"})
  <2>1. \A code : Severity(code) \in {"error", "warn", "info"}
    BY DEF Severity
  <2>2. DOMAIN codes = 1..Len(codes) /\ Len(codes) \in Nat
    BY <1>1
  <2> HIDE DEF codes
  <2> QED
    BY <2>1, <2>2
<1>3. TransactionIds(batch)[k] \in {StripId(cell) : cell \in {batch[l].transaction_id : l \in DOMAIN batch}}
  BY DEF TransactionIds
<1> QED
  BY <1>1, <1>2, <1>3 DEF RecordOf, IssueRow, IssueRowType

\* For every file, an issue row is made of cells of the batch, of listed codes and of
\* known severities.
THEOREM TypeCorrect == Spec => []TypeOK
<1>1. BatchInv /\ RecordsInv => TypeOK
  <2> SUFFICES ASSUME BatchInv, RecordsInv PROVE TypeOK
    OBVIOUS
  <2>1. issueRows \in Seq(IssueRowType)
    <3>1. \A k \in DOMAIN batch : RecordOf(batch, existing, k) \in IssueRowType
      BY RecordType
    <3> DEFINE R == {RecordOf(batch, existing, k) : k \in DOMAIN batch}
    <3>2. R \subseteq IssueRowType /\ issueRows \in Seq(R)
      BY <3>1 DEF RecordsInv
    <3> HIDE DEF R
    <3> QED
      BY <3>2
  <2> QED
    BY <2>1 DEF BatchInv, RecordsInv, TypeOK
<1> QED
  BY <1>1, RecordsInvAlways, PTL

\* For every file, the flagged rows and no others become issue rows, in their order, and
\* the position counted so far points each of them at its own raw row.
THEOREM RecordsAlwaysAlign == Spec => []RecordsAlign
<1>1. BatchInv /\ RecordsInv => RecordsAlign
  <2> SUFFICES ASSUME BatchInv, RecordsInv PROVE RecordsAlign
    OBVIOUS
  <2> DEFINE n == Len(batch)
             own == [k \in 1..n |-> RecordOf(batch, existing, k)]
  <2>1. n \in Nat /\ DOMAIN batch = 1..n
    BY DEF BatchInv
  <2>2. \A k \in 1..n : own[k] = RecordOf(batch, existing, k)
    OBVIOUS
  <2>3. KeptTo(issueRows, n, issueMask, own)
    BY DEF RecordsInv
  <2> HIDE DEF own
  <2>4. Len(issueRows) = Cardinality({k \in DOMAIN batch : issueMask[k]})
    BY <2>1, <2>3 DEF KeptTo, Kept
  <2>5. ASSUME NEW k \in DOMAIN batch, issueMask[k]
        PROVE  /\ issueRows[Rank(k)].raw_columns = batch[k]
               /\ issueRows[Rank(k)].transaction_id
                    = StripId(issueRows[Rank(k)].raw_columns.transaction_id)
               /\ issueRows[Rank(k)].issues # <<>>
               /\ {issueRows[Rank(k)].issues[i] : i \in DOMAIN issueRows[Rank(k)].issues}
                    = {code \in Codes : Mask(code, batch, existing)[k]}
               /\ \A i \in DOMAIN issueRows[Rank(k)].issues :
                    issueRows[Rank(k)].severity[i] = Severity(issueRows[Rank(k)].issues[i])
    <3> DEFINE codes == CodesOf(batch, existing, k)
               record == issueRows[Rank(k)]
    <3>1. record = RecordOf(batch, existing, k)
      <4>1. Rank(k) = Kept(issueMask, k)
        BY DEF Rank, Kept
      <4> QED
        BY <2>1, <2>2, <2>3, <2>5, <4>1 DEF KeptTo
    <3>2. /\ record.raw_columns = batch[k] /\ record.transaction_id = TransactionIds(batch)[k]
          /\ record.issues = codes
          /\ record.severity = [i \in DOMAIN codes |-> Severity(codes[i])]
      BY <3>1 DEF RecordOf, IssueRow
    <3>3. {codes[i] : i \in DOMAIN codes} = {code \in Codes : Mask(code, batch, existing)[k]}
      <4>1. Range(codes) = FlagsOf(batch, existing, k)
        BY CodesAreFlags
      <4> QED
        BY <4>1 DEF Range, FlagsOf
    <3>4. codes # <<>>
      <4>1. PICK code \in Codes : Mask(code, batch, existing)[k]
        BY <2>5 DEF RecordsInv
      <4>2. \E i \in DOMAIN codes : codes[i] = code
        BY <3>3, <4>1
      <4> QED
        BY <4>2
    <3>5. TransactionIds(batch)[k] = StripId(batch[k].transaction_id)
      BY DEF TransactionIds
    <3> HIDE DEF record, codes
    <3>6. /\ record.transaction_id = StripId(record.raw_columns.transaction_id)
          /\ record.issues # <<>>
          /\ {record.issues[i] : i \in DOMAIN record.issues}
               = {code \in Codes : Mask(code, batch, existing)[k]}
          /\ \A i \in DOMAIN record.issues : record.severity[i] = Severity(record.issues[i])
      BY <3>2, <3>3, <3>4, <3>5
    <3> QED
      BY <3>2, <3>6 DEF record
  <2> QED
    BY <2>4, <2>5, Zenon DEF RecordsAlign
<1> QED
  BY <1>1, RecordsInvAlways, PTL

-----------------------------------------------------------------------------
(* Suspected typos: the words of OneEdit, taken apart and put together.      *)

IsJoined(s, V, x, y) ==
  /\ s \in Seq(V) /\ Len(s) = Len(x) + Len(y)
  /\ \A j \in 1..Len(x) : s[j] = x[j]
  /\ \A j \in 1..Len(y) : s[Len(x) + j] = y[j]

LEMMA Joined ==
  ASSUME NEW V, NEW x \in Seq(V), NEW y \in Seq(V)
  PROVE  IsJoined(x \o y, V, x, y)
  BY DEF IsJoined

\* v is u with mid in the place of its letters from the k-th, without it, to the c-th,
\* without it: what the words of OneEdit are made of.
Spliced(v, u, k, mid, c) ==
  /\ v \in Seq(Letters) /\ Len(v) = k + Len(mid) + Len(u) + 1 - c
  /\ \A j \in 1..k : v[j] = u[j]
  /\ \A j \in 1..Len(mid) : v[k + j] = mid[j]
  /\ \A j \in c..Len(u) : v[j + 1 + k + Len(mid) - c] = u[j]

LEMMA SplicedParts ==
  ASSUME NEW u \in Seq(Letters), NEW k \in Nat, NEW c \in Nat, c > k, k <= Len(u), c <= Len(u) + 1,
         NEW mid \in Seq(Letters)
  PROVE  Spliced(SubSeq(u, 1, k) \o mid \o SubSeq(u, c, Len(u)), u, k, mid, c)
<1> DEFINE x == SubSeq(u, 1, k)
           y == SubSeq(u, c, Len(u))
           z == x \o mid
           v == z \o y
           n == Len(u)
           o == Len(mid)
<1>0. n \in Nat /\ o \in Nat
  OBVIOUS
<1>1. x \in Seq(Letters) /\ Len(x) = k /\ \A j \in 1..k : x[j] = u[j]
  OBVIOUS
<1>2. y \in Seq(Letters) /\ Len(y) = n + 1 - c /\ \A j \in 1..(n + 1 - c) : y[j] = u[c + j - 1]
  OBVIOUS
<1> HIDE DEF x, y
<1>3. /\ z \in Seq(Letters) /\ Len(z) = Len(x) + o /\ \A j \in 1..Len(x) : z[j] = x[j]
      /\ \A j \in 1..o : z[Len(x) + j] = mid[j]
  <2>1. mid \in Seq(Letters) /\ IsJoined(x \o mid, Letters, x, mid)
    BY <1>1, Joined
  <2> QED
    BY <2>1 DEF IsJoined
<1> HIDE DEF z
<1>4. /\ v \in Seq(Letters) /\ Len(v) = Len(z) + Len(y) /\ \A j \in 1..Len(z) : v[j] = z[j]
      /\ \A j \in 1..Len(y) : v[Len(z) + j] = y[j]
  <2>1. IsJoined(z \o y, Letters, z, y)
    BY <1>2, <1>3, Joined
  <2> QED
    BY <2>1 DEF IsJoined
<1>5. c > k /\ k <= n /\ c <= n + 1
  OBVIOUS
<1> HIDE DEF v, n, o
<1>6. ASSUME NEW j \in c..n PROVE v[j + 1 + k + o - c] = u[j]
  <2>1. /\ j + 1 - c \in 1..(n + 1 - c) /\ k + o + (j + 1 - c) = j + 1 + k + o - c
        /\ c + (j + 1 - c) - 1 = j
    BY <1>0, <1>5
  <2>2. v[k + o + (j + 1 - c)] = y[j + 1 - c]
    BY <1>1, <1>2, <1>3, <1>4, <2>1
  <2>3. y[j + 1 - c] = u[c + (j + 1 - c) - 1]
    BY <1>2, <2>1
  <2> QED
    BY <2>1, <2>2, <2>3
<1>7. Len(z) = k + o /\ \A j \in 1..k : z[j] = u[j]
  BY <1>1, <1>3
<1>8. /\ Len(v) = k + o + n + 1 - c
      /\ \A j \in 1..k : v[j] = u[j]
      /\ \A j \in 1..o : v[k + j] = mid[j]
  <2>1. Len(v) = k + o + n + 1 - c
    BY <1>0, <1>2, <1>4, <1>7
  <2>2. \A j \in 1..k : v[j] = u[j]
    BY <1>0, <1>4, <1>7
  <2>3. ASSUME NEW j \in 1..o PROVE v[k + j] = mid[j]
    <3>1. k + j \in 1..(k + o)
      BY <1>0
    <3>2. z[k + j] = mid[j]
      BY <1>1, <1>3
    <3> QED
      BY <1>4, <1>7, <3>1, <3>2
  <2> QED
    BY <2>1, <2>2, <2>3
<1>9. Spliced(v, u, k, mid, c)
  BY <1>4, <1>6, <1>8 DEF Spliced, n, o
<1> QED
  BY <1>9 DEF v, x, y, z

LEMMA ShortenedParts ==
  ASSUME NEW u \in Seq(Letters), NEW k \in Nat, NEW c \in Nat, c > k, k <= Len(u), c <= Len(u) + 1
  PROVE  Spliced(SubSeq(u, 1, k) \o SubSeq(u, c, Len(u)), u, k, <<>>, c)
<1> DEFINE x == SubSeq(u, 1, k)
<1>1. <<>> \in Seq(Letters) /\ x \in Seq(Letters)
  OBVIOUS
<1> HIDE DEF x
<1>2. x \o <<>> = x
  BY <1>1
<1>3. Spliced(x \o <<>> \o SubSeq(u, c, Len(u)), u, k, <<>>, c)
  BY <1>1, SplicedParts DEF x
<1> QED
  BY <1>2, <1>3 DEF x

\* A splice is determined by its parts, and is an edit when one letter at most goes and
\* one at most comes.
LEMMA SplicedOnce ==
  ASSUME NEW u \in Seq(Letters), NEW k \in Nat, NEW mid \in Seq(Letters), NEW c \in Nat, c > k,
         k <= Len(u), c <= Len(u) + 1, NEW v, Spliced(v, u, k, mid, c),
         NEW w, Spliced(w, u, k, mid, c)
  PROVE  v = w
<1> DEFINE n == Len(u)
           o == Len(mid)
<1>1. n \in Nat /\ o \in Nat /\ c > k /\ k <= n /\ c <= n + 1
  OBVIOUS
<1>2. v \in Seq(Letters) /\ w \in Seq(Letters) /\ Len(v) = Len(w) /\ Len(v) = k + o + n + 1 - c
  BY DEF Spliced
<1>3. ASSUME NEW j \in 1..Len(v) PROVE v[j] = w[j]
  <2>1. CASE j <= k
    BY <1>2, <2>1 DEF Spliced
  <2>2. CASE j > k /\ j <= k + o
    <3>1. j - k \in 1..o /\ k + (j - k) = j
      BY <1>1, <1>2, <2>2
    <3>2. v[k + (j - k)] = mid[j - k] /\ w[k + (j - k)] = mid[j - k]
      BY <3>1 DEF Spliced
    <3> QED
      BY <3>1, <3>2
  <2>3. CASE j > k + o
    <3> DEFINE i == j + c - 1 - k - o
    <3>1. i \in c..n /\ i + 1 + k + o - c = j
      BY <1>1, <1>2, <2>3
    <3> HIDE DEF i
    <3>2. v[i + 1 + k + o - c] = u[i] /\ w[i + 1 + k + o - c] = u[i]
      BY <3>1 DEF Spliced
    <3> QED
      BY <3>1, <3>2
  <2> QED
    BY <1>1, <1>2, <2>1, <2>2, <2>3
<1> HIDE DEF n, o
<1> QED
  BY <1>2, <1>3, SeqEqual

LEMMA SplicedIsEdit ==
  ASSUME NEW u \in Seq(Letters), NEW k \in Nat, NEW mid \in Seq(Letters), Len(mid) <= 1,
         NEW c \in Nat, c > k, c <= k + 2, k <= Len(u), c <= Len(u) + 1,
         NEW v, Spliced(v, u, k, mid, c)
  PROVE  v \in Seq(Letters) /\ EditedUpTo(u, Len(u), v, Len(v))
<1> DEFINE n == Len(u)
           p == c - k - 1
           q == Len(mid)
<1>1. n \in Nat /\ p \in {0, 1} /\ q \in {0, 1} /\ c = k + p + 1 /\ k + p <= n
  <2>1. n \in Nat /\ q \in Nat /\ q <= 1 /\ c <= n + 1
    OBVIOUS
  <2> HIDE DEF n, q
  <2>2. q \in {0, 1}
    BY <2>1
  <2>3. p \in {0, 1} /\ c = k + p + 1
    OBVIOUS
  <2>4. k + p <= n
    BY <2>1, <2>3
  <2> QED
    BY <2>1, <2>2, <2>3, <2>4
<1>2. v \in Seq(Letters) /\ Len(v) = k + q + n + 1 - c /\ \A j \in 1..k : v[j] = u[j]
  BY DEF Spliced
<1>3. \A j \in c..n : v[j + 1 + k + q - c] = u[j]
  BY DEF Spliced
<1> HIDE DEF n, p, q
<1>4. ASSUME NEW j \in (k + p + 1)..n PROVE v[j + q - p] = u[j]
  <2>1. j \in c..n /\ j + 1 + k + q - c = j + q - p
    BY <1>1
  <2>2. v[j + 1 + k + q - c] = u[j]
    BY <1>3, <2>1
  <2> QED
    BY <2>1, <2>2
<1>5. Len(v) = n - p + q
  BY <1>1, <1>2
<1>6. EditedAt(u, n, v, Len(v), k, p, q)
  BY <1>1, <1>2, <1>4, <1>5 DEF EditedAt
<1> QED
  BY <1>1, <1>2, <1>6 DEF EditedUpTo, n

LEMMA EditIsSpliced ==
  ASSUME NEW u \in Seq(Letters), NEW v \in Seq(Letters), NEW k \in Nat, NEW p \in {0, 1},
         NEW q \in {0, 1}, EditedAt(u, Len(u), v, Len(v), k, p, q),
         NEW mid \in Seq(Letters), Len(mid) = q, q = 1 => mid[1] = v[k + 1]
  PROVE  Spliced(v, u, k, mid, k + p + 1)
<1> DEFINE n == Len(u)
           c == k + p + 1
<1>1. n \in Nat /\ k + p <= n /\ Len(v) = n - p + q /\ \A j \in 1..k : v[j] = u[j]
  BY DEF EditedAt
<1>2. \A j \in c..n : v[j + q - p] = u[j]
  BY DEF EditedAt
<1>3. c \in Nat /\ c = k + p + 1
  OBVIOUS
<1> HIDE DEF n, c
<1>4. ASSUME NEW j \in c..n PROVE v[j + 1 + k + q - c] = u[j]
  <2>1. j + 1 + k + q - c = j + q - p
    BY <1>1, <1>3
  <2> QED
    BY <1>2, <2>1
<1>5. ASSUME NEW j \in 1..q PROVE v[k + j] = mid[j]
  <2>1. j = 1 /\ q = 1
    OBVIOUS
  <2> QED
    BY <2>1
<1>6. Len(v) = k + q + n + 1 - c
  BY <1>1, <1>3
<1> QED
  BY <1>1, <1>4, <1>5, <1>6 DEF Spliced, n, c

\* The words of OneEdit are those one edit away.
LEMMA OneEditMeans ==
  ASSUME NEW u \in Seq(Letters)
  PROVE  \A v : v \in OneEdit(u) <=> v \in Seq(Letters) /\ EditedUpTo(u, Len(u), v, Len(v))
<1> DEFINE n == Len(u)
<1>1. n \in Nat /\ DOMAIN u = 1..n /\ <<>> \in Seq(Letters) /\ Len(<<>>) = 0
      /\ \A l \in Letters : <<l>> \in Seq(Letters) /\ Len(<<l>>) = 1 /\ <<l>>[1] = l
  OBVIOUS
<1> DEFINE Without(i) == SubSeq(u, 1, i - 1) \o SubSeq(u, i + 1, n)
           With(i, l) == SubSeq(u, 1, i - 1) \o <<l>> \o SubSeq(u, i + 1, n)
           Adding(i, l) == SubSeq(u, 1, i) \o <<l>> \o SubSeq(u, i + 1, n)
<1>2. ASSUME NEW k \in Nat, k + 1 <= n
      PROVE  /\ k + 1 \in DOMAIN u /\ Spliced(Without(k + 1), u, k, <<>>, k + 2)
             /\ \A l \in Letters : Spliced(With(k + 1, l), u, k, <<l>>, k + 2)
  <2>1. /\ k + 2 > k /\ k <= Len(u) /\ k + 2 <= Len(u) + 1 /\ k + 2 \in Nat
        /\ (k + 1) - 1 = k /\ (k + 1) + 1 = k + 2 /\ k + 1 \in 1..n
    BY <1>1, <1>2
  <2>2. Spliced(SubSeq(u, 1, k) \o SubSeq(u, k + 2, Len(u)), u, k, <<>>, k + 2)
    BY <2>1, ShortenedParts
  <2>3. \A l \in Letters :
          Spliced(SubSeq(u, 1, k) \o <<l>> \o SubSeq(u, k + 2, Len(u)), u, k, <<l>>, k + 2)
    BY <1>1, <2>1, SplicedParts
  <2> QED
    BY <1>1, <2>1, <2>2, <2>3
<1>3. ASSUME NEW k \in Nat, k <= n, NEW l \in Letters
      PROVE  k \in 0..n /\ Spliced(Adding(k, l), u, k, <<l>>, k + 1)
  <2>1. k + 1 > k /\ k <= Len(u) /\ k + 1 <= Len(u) + 1 /\ k + 1 \in Nat
    BY <1>1, <1>3
  <2>2. <<l>> \in Seq(Letters)
    OBVIOUS
  <2>3. Spliced(SubSeq(u, 1, k) \o <<l>> \o SubSeq(u, k + 1, Len(u)), u, k, <<l>>, k + 1)
    BY <2>1, <2>2, SplicedParts
  <2> QED
    BY <1>1, <1>3, <2>3
<1>4. \A v : v \in OneEdit(u) <=>
        \/ v = u
        \/ \E i \in DOMAIN u : v = Without(i)
        \/ \E i \in DOMAIN u, l \in Letters : v = With(i, l)
        \/ \E i \in 0..n, l \in Letters : v = Adding(i, l)
  <2>1. OneEdit(u) = {u} \cup {Without(i) : i \in DOMAIN u}
                          \cup {With(i, l) : i \in DOMAIN u, l \in Letters}
                          \cup {Adding(i, l) : i \in 0..n, l \in Letters}
    BY DEF OneEdit
  <2> HIDE DEF n, Without, With, Adding
  <2> QED
    BY <2>1
<1> HIDE DEF n, Without, With, Adding
<1>5. ASSUME NEW k \in Nat, NEW mid \in Seq(Letters), Len(mid) <= 1, NEW c \in Nat, c > k,
             c <= k + 2, k <= n, c <= n + 1, NEW v, Spliced(v, u, k, mid, c)
      PROVE  v \in Seq(Letters) /\ EditedUpTo(u, Len(u), v, Len(v))
  BY <1>5, SplicedIsEdit DEF n
<1>6. ASSUME NEW v, v \in OneEdit(u) PROVE v \in Seq(Letters) /\ EditedUpTo(u, Len(u), v, Len(v))
  <2>1. CASE v = u
    <3>1. AgreeUpTo(u, n, u, n)
      BY DEF AgreeUpTo, SameUpTo
    <3> QED
      BY <1>1, <2>1, <3>1, AgreementIsNoEdit DEF n
  <2>2. ASSUME NEW i \in DOMAIN u, v = Without(i) \/ \E l \in Letters : v = With(i, l)
        PROVE  v \in Seq(Letters) /\ EditedUpTo(u, Len(u), v, Len(v))
    <3> DEFINE k == i - 1
    <3>1. k \in Nat /\ k + 1 = i /\ k + 1 <= n
      BY <1>1
    <3> HIDE DEF k
    <3>2. /\ k + 2 \in Nat /\ k + 2 > k /\ k + 2 <= k + 2 /\ k <= n /\ k + 2 <= n + 1
      BY <1>1, <3>1
    <3>3. \E mid \in Seq(Letters) : Len(mid) <= 1 /\ Spliced(v, u, k, mid, k + 2)
      <4>1. CASE v = Without(i)
        <5>1. Spliced(v, u, k, <<>>, k + 2)
          BY <1>2, <3>1, <4>1
        <5>2. <<>> \in Seq(Letters) /\ Len(<<>>) <= 1
          OBVIOUS
        <5> QED
          BY <5>1, <5>2
      <4>2. CASE \E l \in Letters : v = With(i, l)
        <5>1. PICK l \in Letters : v = With(i, l)
          BY <4>2
        <5>2. Spliced(v, u, k, <<l>>, k + 2)
          BY <1>2, <3>1, <5>1
        <5>3. <<l>> \in Seq(Letters) /\ Len(<<l>>) <= 1
          OBVIOUS
        <5> QED
          BY <5>2, <5>3
      <4> QED
        BY <2>2, <4>1, <4>2
    <3> QED
      BY <1>5, <3>1, <3>2, <3>3
  <2>3. ASSUME NEW i \in 0..n, NEW l \in Letters, v = Adding(i, l)
        PROVE  v \in Seq(Letters) /\ EditedUpTo(u, Len(u), v, Len(v))
    <3>1. i \in Nat /\ i <= n
      BY <1>1
    <3>2. /\ i + 1 \in Nat /\ i + 1 > i /\ i + 1 <= i + 2 /\ i + 1 <= n + 1
      BY <1>1, <3>1
    <3>3. Spliced(v, u, i, <<l>>, i + 1)
      BY <1>3, <2>3, <3>1
    <3>4. <<l>> \in Seq(Letters) /\ Len(<<l>>) <= 1
      OBVIOUS
    <3> QED
      BY <1>5, <3>1, <3>2, <3>3, <3>4
  <2> QED
    BY <1>4, <1>6, <2>1, <2>2, <2>3
<1>7. ASSUME NEW v \in Seq(Letters), EditedUpTo(u, Len(u), v, Len(v)) PROVE v \in OneEdit(u)
  <2>1. PICK k \in Nat, p \in {0, 1}, q \in {0, 1} : EditedAt(u, n, v, Len(v), k, p, q)
    BY <1>7 DEF EditedUpTo, n
  <2>2. k + p <= n /\ Len(v) = n - p + q /\ \A j \in 1..k : v[j] = u[j]
    BY <2>1 DEF EditedAt
  <2>3. q = 1 => v[k + 1] \in Letters
    <3>1. q = 1 => k + 1 \in 1..Len(v)
      BY <1>1, <2>2
    <3> QED
      BY <3>1
  <2>4. CASE p = 0 /\ q = 0
    <3>1. Len(v) = Len(u)
      BY <1>1, <2>2, <2>4 DEF n
    <3>2. ASSUME NEW j \in 1..n PROVE v[j] = u[j]
      <4>1. CASE j <= k
        BY <2>2, <4>1
      <4>2. CASE j > k
        <5>1. j \in (k + p + 1)..n /\ j + q - p = j
          BY <1>1, <2>4, <4>2
        <5> QED
          BY <2>1, <5>1 DEF EditedAt
      <4> QED
        BY <1>1, <4>1, <4>2
    <3>3. v = u
      BY <3>1, <3>2, SeqEqual DEF n
    <3> QED
      BY <1>4, <3>3
  <2>5. CASE p = 1 /\ q = 0
    <3>1. k + 1 <= n /\ k + p + 1 = k + 2
      BY <1>1, <2>2, <2>5
    <3>2. Spliced(v, u, k, <<>>, k + p + 1)
      <4>1. <<>> \in Seq(Letters) /\ Len(<<>>) = q /\ q # 1
        BY <1>1, <2>5
      <4>2. EditedAt(u, Len(u), v, Len(v), k, p, q)
        BY <2>1 DEF n
      <4> QED
        BY <4>1, <4>2, EditIsSpliced
    <3>3. Spliced(Without(k + 1), u, k, <<>>, k + 2) /\ k + 1 \in DOMAIN u
      BY <1>2, <3>1
    <3>4. k + 2 \in Nat /\ k + 2 > k /\ k <= Len(u) /\ k + 2 <= Len(u) + 1
      BY <1>1, <3>1 DEF n
    <3>5. v = Without(k + 1)
      BY <1>1, <3>1, <3>2, <3>3, <3>4, SplicedOnce
    <3> QED
      BY <1>4, <3>3, <3>5
  <2>6. CASE p = 1 /\ q = 1
    <3> DEFINE l == v[k + 1]
    <3>1. k + 1 <= n /\ k + p + 1 = k + 2 /\ l \in Letters
      BY <1>1, <2>2, <2>3, <2>6
    <3>2. Spliced(v, u, k, <<l>>, k + p + 1)
      BY <1>1, <2>1, <2>6, <3>1, EditIsSpliced DEF n
    <3>3. Spliced(With(k + 1, l), u, k, <<l>>, k + 2) /\ k + 1 \in DOMAIN u
      BY <1>2, <3>1
    <3>4. k + 2 \in Nat /\ k + 2 > k /\ k <= Len(u) /\ k + 2 <= Len(u) + 1
      BY <1>1, <3>1 DEF n
    <3>5. v = With(k + 1, l)
      BY <1>1, <3>1, <3>2, <3>3, <3>4, SplicedOnce
    <3> HIDE DEF l
    <3> QED
      BY <1>4, <3>1, <3>3, <3>5
  <2>7. CASE p = 0 /\ q = 1
    <3> DEFINE l == v[k + 1]
    <3>1. k <= n /\ k + p + 1 = k + 1 /\ l \in Letters
      BY <1>1, <2>2, <2>3, <2>7
    <3>2. Spliced(v, u, k, <<l>>, k + p + 1)
      BY <1>1, <2>1, <2>7, <3>1, EditIsSpliced DEF n
    <3>3. Spliced(Adding(k, l), u, k, <<l>>, k + 1) /\ k \in 0..n
      BY <1>3, <3>1
    <3>4. k + 1 \in Nat /\ k + 1 > k /\ k <= Len(u) /\ k + 1 <= Len(u) + 1
      BY <1>1, <3>1 DEF n
    <3>5. v = Adding(k, l)
      BY <1>1, <3>1, <3>2, <3>3, <3>4, SplicedOnce
    <3> HIDE DEF l
    <3> QED
      BY <1>4, <3>1, <3>3, <3>5
  <2> QED
    BY <2>4, <2>5, <2>6, <2>7
<1> QED
  BY <1>6, <1>7

LEMMA CommonEdit ==
  ASSUME NEW a \in Seq(Letters), NEW b \in Seq(Letters)
  PROVE  OneEdit(a) \cap OneEdit(b) # {} <=> MeetUpTo(Letters, a, Len(a), b, Len(b))
<1>1. ASSUME NEW w, w \in OneEdit(a), w \in OneEdit(b)
      PROVE  MeetUpTo(Letters, a, Len(a), b, Len(b))
  <2>1. /\ w \in Seq(Letters) /\ EditedUpTo(a, Len(a), w, Len(w))
        /\ EditedUpTo(b, Len(b), w, Len(w))
    BY <1>1, OneEditMeans
  <2>2. Len(w) \in Nat /\ w \in [1..Len(w) -> Letters]
    BY <2>1
  <2> QED
    BY <2>1, <2>2 DEF MeetUpTo
<1>2. ASSUME MeetUpTo(Letters, a, Len(a), b, Len(b))
      PROVE  \E w : w \in OneEdit(a) /\ w \in OneEdit(b)
  <2>1. PICK l \in Nat : \E w \in [1..l -> Letters] :
                            EditedUpTo(a, Len(a), w, l) /\ EditedUpTo(b, Len(b), w, l)
    BY <1>2 DEF MeetUpTo
  <2>2. PICK w \in [1..l -> Letters] : EditedUpTo(a, Len(a), w, l) /\ EditedUpTo(b, Len(b), w, l)
    BY <2>1
  <2>3. w \in Seq(Letters) /\ Len(w) = l
    OBVIOUS
  <2> QED
    BY <2>2, <2>3, OneEditMeans
<1> QED
  BY <1>1, <1>2

LEMMA SuspectedIsMisspelt ==
  ASSUME NEW value \in Words, NEW reference \in SUBSET Words
  PROVE  SuspectedTypoValue(value, reference) <=> Misspells(value, reference)
<1>1. ASSUME NEW r \in reference
      PROVE  EditDistanceLte(value, r, 2) <=> OneEdit(value) \cap OneEdit(r) # {}
  <2>1. value \in Seq(Letters) /\ r \in Seq(Letters)
    BY DEF Words
  <2> QED
    BY <2>1, CommonEdit, WithinTwoMeets
<1> QED
  BY <1>1 DEF SuspectedTypoValue, Misspells, TwoEditsFrom, Blank

LEMMA PlacesAreWords ==
  ASSUME NEW row \in Row
  PROVE  row.country.word \in Words /\ row.city.word \in Words
<1>1. row.country \in TextCell /\ row.city \in TextCell
  BY DEF Row, TextFields
<1> QED
  BY <1>1 DEF TextCell

\* Whatever the alphabet, the words and the reference lists, a row is suspected of a typo
\* exactly when two edits of a letter make its country or its city a reference word: the
\* rows of the table that are never computed hold no smaller distance.
THEOREM TyposAreTwoEdits == Spec => []TypoMeansTwoEdits
<1>1. BatchInv => TypoMeansTwoEdits
  <2> SUFFICES ASSUME BatchInv, NEW k \in DOMAIN batch
               PROVE  TypoMask(batch)[k] <=> \/ Misspells(batch[k].country.word, CountryReference)
                                             \/ Misspells(batch[k].city.word, CityReference)
    BY DEF TypoMeansTwoEdits
  <2>1. batch[k] \in Row
    BY DEF BatchInv
  <2>2. batch[k].country.word \in Words /\ batch[k].city.word \in Words
    BY <2>1, PlacesAreWords
  <2>3. /\ SuspectedTypoValue(batch[k].country.word, CountryReference)
             <=> Misspells(batch[k].country.word, CountryReference)
        /\ SuspectedTypoValue(batch[k].city.word, CityReference)
             <=> Misspells(batch[k].city.word, CityReference)
    BY <2>2, ReferenceAssumption, SuspectedIsMisspelt
  <2>4. TypoMask(batch)[k] <=> SuspectedTypo(batch[k])
    BY TypoAlike
  <2> QED
    BY <2>3, <2>4 DEF SuspectedTypo, NormalizeValue
<1> QED
  BY <1>1, BatchInvAlways, PTL
=============================================================================
