SPECIFICATION Spec
CONSTANTS
  ra = ra
  rb = rb
  ja = ja
  jb = jb
  ta = ta
  ea = ea
  eb = eb
  None = None
  Failed = Failed
  Run = {ra, rb}
  Waits <- MCWaits
  Attempts <- MCAttempts
  Fork = {}
  Own = {}
  Env = {ea, eb}
  Named = {ea}
  JobId = {ja, jb}
  Target = {ta}
  Exact <- MCExact
  Part <- MCPart
  Answers <- MCAnswers
  MaxOut = 1
  MaxAsks = 4
CHECK_DEADLOCK FALSE
INVARIANTS RowsAreOfTheAttempt NoJobsIsAnAnswer ApprovalsWereAllowed
PROPERTIES CursorFollowsItsJob OpensOnTheJobOfTheCheck
