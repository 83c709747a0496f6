SPECIFICATION PageSpec
CONSTANTS
  Writes = {"p", "d", "n"}
  Kind <- OfEachSort
  Passages = {"p", "q"}
  Comments = {"c", "d"}
  MaxTexts = 2
  MaxPosts = 2
  Articles <- MCArticles
  CTX = 1
  Lengths = {2}
  MaxAsks = 2
  MaxToggles = 3
  Cells = {"a", "b"}
  Codes <- Programs
  MaxRuns = 2
  Params = {"short", "long"}
  Length <- Durations
  Keys <- KeysOf
  Opening = {3, 9}
  Q = 2
  MaxSets = 2
  Sections = {"intro", "body"}
  Queries = {"", "x", "y"}
  Hits <- MCHits
  None = None
INVARIANTS
  ReadsYourWrites
  SentAsBegun
  MarksOfLists
  FoundAgain
  WidgetsTrue
  StyledWithFont
  CellShowsItsRun
  NoStaleProgress
  OneLoop
  PictureTold
  OverlaysHold
  ShellFollows
PROPERTIES
  OwnWriteShown
  RunsEnd
CHECK_DEADLOCK FALSE
