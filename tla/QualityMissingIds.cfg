SPECIFICATION Spec
CONSTANTS
  a = a
  b = b
  price = price
  rating = rating
  midnight = midnight
  noon = noon
  NoId = NoId
  NoDate = NoDate
  HashId = HashId
  Ids <- MCIds
  Columns <- MCColumns
  Parsed <- MCParsed
  Dates <- MCDates
  Midnight <- MCMidnight
  Lines <- MCLines
  MaxBatch = 3
  MaxRows = 5
  MaxExamples = 2
INVARIANT DuplicatesAreRepeatedIds
CHECK_DEADLOCK FALSE
