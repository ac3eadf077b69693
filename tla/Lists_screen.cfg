SPECIFICATION FairSpec
CONSTANTS
  me = me
  org = org
  all = all
  TabOrder <- MCTabOrder
  Owner = {me, org}
  Viewer = me
  Filter = {all}
  Unfiltered = all
  Total <- MCTotal
  PageSize = 1
  PollArmed = TRUE
  MaxPage = 2
  MaxRequests = 2
INVARIANTS ListsAreSound EmptyMeansEmpty
PROPERTIES PollsOnlyAdd ReopeningKeepsTheList AskedListSettles
