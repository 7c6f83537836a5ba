SPECIFICATION Spec
CONSTANTS
  NULL = NULL
  Absent = Absent
  Blank = Blank
  Junk = Junk
  EmptyText = 0
  Stripped <- MCStripped
  Facts <- MCFacts
  Users <- MCUsers
  PageAsks <- MCPageAsks
  StudioAsks <- MCStudioAsks
  BoardAsks <- MCBoardAsks
  Edits <- MCEdits
  Tiles <- MCTiles
  OptionFields = {"id", "category"}
  GuestCap = 1
  StudioCap = 2
  TileLimit = 2
  OptionLimit = 1
  FirstPages = {1, 2}
  MaxInFlight = 2
  MaxOffset = 2
  MaxChanges = 1
INVARIANTS TypeOK AnswersInScope NothingSkipped RepeatsOnlyAtTies PagerFollowsRows GroupsNotSkipped ScreenIsOfOffset TilesBetween OptionsAreLive
