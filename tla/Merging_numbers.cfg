SPECIFICATION Spec
CONSTANTS
  mine = mine
  twin = twin
  theirs = theirs
  PR = {mine, twin, theirs}
  None = None
  Number <- MCNumber
  Writable = {mine}
  Options <- MCOptions
  Configured = "squash"
  MaxAsks = 2
  MaxCycles = 1
  MaxOut = 1
INVARIANTS FailsClosed
