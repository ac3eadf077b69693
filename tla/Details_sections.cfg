SPECIFICATION FairSpec
CONSTANTS
  Lists <- MCLists
  Tab = {"info", "comments"}
  MaxAsks = 3
INVARIANTS CutIsSaid WaitsAreTrue
PROPERTIES WaitsEnd
