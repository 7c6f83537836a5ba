SPECIFICATION Spec
CONSTANTS
  Letters <- MCLetters
  Unaccented <- MCUnaccented
  Separators <- MCSeparators
  CountryReference <- MCCountryReference
  CityReference <- MCCityReference
  CountryAliases <- MCCountryAliases
  KnownCountries <- MCKnownCountries
  CityToCountry <- MCCityToCountry
  CountryToRegion <- MCCountryToRegion
  PostalCodeRegex <- MCPostalCodeRegex
  PhonePrefixCountry <- MCPhonePrefixCountry
  AllowedStatuses <- MCAllowedStatuses
  AllowedPaymentMethods <- MCAllowedPaymentMethods
  StatusRequiresPayment <- MCStatusRequiresPayment
  AllowedDepartments <- MCAllowedDepartments
  AllowedCategories <- MCAllowedCategories
  NoNumber = NoNumber
  MinCount = 3
  ShareNum = 3
  ShareDen = 4
  Files <- MCFiles
INVARIANTS TypeOK MasksFollowRules TypoMeansTwoEdits RecordsAlign CityVerdictsAreOutvoted
PROPERTY VerdictsTravel
CHECK_DEADLOCK FALSE
