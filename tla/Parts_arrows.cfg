SPECIFICATION PartsSpec
CONSTANTS
  r1 = r1
  r2 = r2
  r3 = r3
  Id = {r1, r2, r3}
  MaxDepth = 5
  MaxPending = 2
  o1 = o1
  ja = ja
  jb = jb
  Tab = {"workflows", "prs"}
  Owner = {o1}
  Viewer = viewer
  Login = {viewer}
  ReposOf <- MCReposOf
  Anyone = Anyone
  MaxDialogs = 3
  MaxModals = 2
  Tables <- MCTables
  Widths <- MCWidths
  Indent = 2
  Sep = 2
  NoJob = NoJob
  Job = {ja, jb}
  Steps <- MCSteps
  FailedStep <- MCFailedStep
  Over = {jb}
  MaxLines = 5
  Visible = 2
  ScrollStep = 1
  MaxOut = 1
  JobSteps <- MCJobSteps
  Never = Never
  NoTitle = NoTitle
  Time = {0, 1, 3, 5, 7}
  Title = {"run tests", "build all", "post build"}
  StepName = {"checkout", "build", "test", "post build"}
  Cleanup = {"post build"}
  WordsOf <- MCWordsOf
  Post = {"post build"}
  Pre = {}
  Contained <- MCContained
  Tight = {}
  Buried = {}
  Noise = {"run", "all", "post"}
  Length <- MCLength
  Singular <- MCSingular
  MaxRead = 4
  ra = ra
  rb = rb
  rc = rc
  NoRepo = NoRepo
  Rows = 6
  Repository = {ra, rb, rc}
  Targets = {ra, rb}
  RepoOf <- MCRepoOf
  Mine <- MCMine
  PageSize = 2
  IndexCap = 5
  TTL = 1
  RetryAfter = 2
  Queries <- MCQueries
  c1 = c1
  v1 = v1
  draft = draft
  Comment = {c1}
  Review = {v1, draft}
  Remark = {1, 2, 3, 4, 5}
  AnswerTo <- MCAnswerTo
  CarriedBy <- MCCarriedBy
  Pending = {draft}
  WrittenAt <- MCWrittenAt
  RowsOf <- MCRowsOf
  Pages = {{}, {1, 2, 3, 4}, {2, 3, 5}}
  Reported = {{}, {1, 5}, {2}}
  Pane = 4
  DiffStep = 2
  ArgsOf <- MCArgsOf
  CheckLists <- MCCheckLists
  MaxKept = 1
  NoAnswer = NoAnswer
  ia = ia
  ib = ib
  Issue = {ia, ib}
  NoIssue = NoIssue
  Number <- MCNumber
  MaxText = 1
  Stride <- MCStride
  MaxScreens = 1
  MaxAsked = 2
CHECK_DEADLOCK FALSE
PROPERTIES DownScrollsAtTheEnd
