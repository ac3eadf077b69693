SPECIFICATION Spec
CONSTANTS
  me = me
  org = org
  all = all
  TabOrder <- MCTabOrder
  Owner = {me, org}
  Viewer = me
  Filter = {all}
  Unfiltered = all
  Total <- MCTotal
  PageSize = 1
  PollArmed = FALSE
  MaxPage = 1
  MaxRequests = 2
INVARIANTS RowsBelongToTheContext
