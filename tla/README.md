# ghspector in TLA+

ghspector is a terminal client for GitHub: lists of pull requests, workflow runs
and issues, details of each, job logs, merging and approving. This directory
models what the program does between a key press and the screen that answers it:
the messages of its update loop, the goroutines that fetch, the cache they
share, and the pure parts whose results the screens stand on. Paths below are
relative to `internal/`.

## 1. The system

The program is one Bubble Tea loop. The root `Model` handles one message at a
time; what takes time is a *command*, which runs in a goroutine of its own and
ends in one more message. Commands of a batch run concurrently, so messages come
back in any order, and nothing takes back a command that is out. Commands call
the store, and there the goroutines meet: in the cache, the limiter and the
search breaker.

| Component | State it keeps | Operations | Talks to | Module |
| --- | --- | --- | --- | --- |
| cache (`store/cache.go`) | map of entries, each open or settled; TTL | look up, join, claim, publish, sweep, invalidate | every read of the store | `Cache`, `ReadThrough` |
| writes (`store/rest.go`, `runs.go`) | none | merge, close, approve | GitHub, then the cache | `Cache` |
| reads (`store/rest.go`, `runs.go`, `search.go`, `threads.go`) | none | twenty-two reads, each with a key | cache, transports | `Reads` |
| search store (`store/client.go`, `search.go`) | until when search is down | walk cursors, fall back | cache, GraphQL, fan-out | `Search` |
| fan-out (`store/runs.go`, `pulls.go`, `issues.go`) | none | one request per repository, merge, sort | cache, REST | `Search`, `Lists` |
| transports (`gh`, `gql`) | rate limit, scopes, last cost | request, reserve, record | limiter, GitHub | `Reads`, `Search` |
| root model (`ui/model.go`, `clock.go`) | stage, spinner, status, poll token | startup, retry, timers, key routing | routes, overlays | `Timers`, `Keys` |
| navigation (`ui/route.go`, `switcher.go`, `help.go`) | stack of routes, a session each | push, pop, pop to root, choose context | root model | `Routes` |
| main route (`ui/mainroute.go`, `prs.go`, `runs.go`, `issues.go`) | tab, and per tab rows, page, cursor, filters, flags | switch, move, load more, refresh, filter, poll, reply | store, root | `Lists` |
| filters (`ui/filters.go`, `prompt.go`) | filters of each list | quick keys, menus, prompts, pickers | dialogs, store | `Filters` |
| pull request screen (`ui/prdetails.go`, `prpanes.go`) | sections loaded, failed, cut; gate | switch sub-tab, refresh, poll, reply | store, dialogs | `Details`, `Merging` |
| conversation (`ui/conversation.go`) | pages, folding, rendered rows, focus, scroll | reply, draw, fold, move, scroll | the screen above | `Conversation` |
| jobs (`ui/jobs.go`) | run, attempt, rows, cursor | open at a check, switch attempt, poll, reply | store, gate, log viewer | `Jobs` |
| log viewer (`ui/logs.go`) | step, scroll, follow | choose, scroll, poll, reply | store | `Logs` |
| issue screens (`ui/issuedetails.go`) | text, scroll, focus, flags | open, scroll, refresh, poll, reply | store | `IssueScreens` |
| approval gate (`ui/approval.go`) | none | decide, approve | store | `Approval`, `Jobs` |
| dialogs (`overlay`, `ui/merge.go`) | stack of modals | push, replace, close, confirm | root, routes, store | `Overlay`, `Keys`, `Merging`, `Consent` |
| keymap (`keymap`, `ui/chrome.go`) | none | look a key up, offer it in the footer | root, dialogs | `Keys` |
| layout (`layout`, `ui/table.go`) | none | divide, fit columns, window a list | every view | `Layout`, `Numbers` |
| log segmentation (`logs`) | none | give each line to a step | log viewer | `Segments` |
| configuration (`auth`), sanitizer, rendering, browser, command line | file on disk, or none | | | not modelled |

What is hard here, and what no test of the repository drives: replies that arrive
after the user moved on (another tab, another route, another context); timers
that were replaced but still fire; pushes and pops that are messages, pressed
twice or handled late; loads shared by callers of whom one goes away; failures in
the middle of a paged list; lists whose pages come from two transports; polls that
reorder what a cursor is on. `PROJECT.json` lists each at its line, with the
properties that would catch it going wrong.

What makes each part correct, and what is therefore checked:

- cache: no read is older than the last invalidation before it, no response
  overwrites a newer one, a failed load leaves nothing behind, everybody waiting is
  woken; a key names everything its request says;
- search: a list that ends has shown every match, whichever transport answered;
- lists: the cursor is on a row, an empty table tells the truth unless a reply to another
  question came, a poll only adds, a wait ends while the user stays;
- timers: one live tick at a time, a message is cleared by its own expiry;
- navigation: the main route stays, a session lives exactly as long as its route;
- details: what a sub-tab reads has arrived, failed or is on its way, what is cut is
  said to be but for what a refresh is replacing, and a button is where it is drawn;
- jobs, logs and issues: what is shown is of the attempt or the number that the title
  names (replies say no more of what they are about), and only a key moves what the
  reader looks at;
- dialogs and keys: nothing is written but where the viewer may write or where the number
  is that of a pull request he may write to, every write is what a key of its own asked
  for, what is confirmed was not confirmed by a key held down, and the footer offers only
  keys that work.

## 2. The modules

Every definition that stands for code is in the `map` of `PROJECT.json` with its
lines. Operators commented "Mutant" are the bugs that the runs are tried against;
no specification uses them.

### Cache, ReadThrough

`Cache` is `getOrLoad` statement by statement where the lock allows another
goroutine in. A caller is `idle`, `waiting` on an entry (`Join`), `loading` as its
owner (`Claim`), or `loaded`, its load back but not yet published. `heap` is what
the entry objects hold and `entries` the map that points at them, so an entry can
leave the map and still be waited on, which is what `invalidate` relies on. An
object that nobody points at may be allocated again. The clock is read twice in a
lookup and may advance in between, hence the `t` of `Lookup`.

Values are versions: GitHub holds `version[k]`, every write (`WriteCommits`) or
change by others raises it, and a load reads it at one moment and publishes it
later. `floor`, `newest`, `asked` and `begun` are history: they record what the
properties compare and decide nothing.

`ReadThrough` is what `store.go` promises, without cache or lock: a read may be
answered out of date, but never older than the last invalidation before it.
`Cache` implements it under the mapping `call <- ...` at its end.

### Reads, Search

`Reads` is the other half of the cache: what the key of each read names, beside
what its request says (`KeyedBy`, `Says`). An answer is what the request said, so
one entry shared by two questions shows. It has the REST budget and its wait, and
the reduction of a commit's checks. `MaxKept` bounds the answers kept at once.

`Search` is a list read page by page over two transports. The search walks cursors
through the cache, a step for each page, so the cache expires and the breaker trips
within a walk; the fan-out asks one request per repository, of which some fail. A
row is its place in the order; `lost` are the rows of repositories that failed, and
`mixed` says that the fan-out went on with a list the search began.

### Lists, Filters

`Lists` is the main route with its tabs (`TabOrder`). A request in flight is
`[tab, page, query]` in a bag; page 0 is how a poll asks for the first page.
`Answer`, `Failure` and `Missed` are the three fates of a reply: applied by its tab
if that is on screen, with rows or with an error, or handed to a tab or route that
ignores it. A row is known by the query that lists it and its place there, and every query
has its own number of rows (`Total`), so a reply may be empty for the query it was sent
with and not for the one in force. `astray` is history: the tabs that were given a reply to
another question (`Astray`) since they were cleared. The three tabs differ in what a failed poll leaves behind (`Failed`), and in whether they poll
before their first page is in (`Poll`). `PollArmed` says whether ticks reach the
route: as main starts it, none do (see Timers); the tests and the documents want them.

`Filters` is how a filter gets there: the quick keys, and the dialogs whose messages
reach whatever list is on screen when they arrive.

### Timers, Routes

`Timers` has the root model's timers. A timer out is a member of `ticks` or `clears`
or one of `spinners`; firing is the action that removes it. `StartedBy` is `"main"`
for the program, whose `Init` arms the clock on a copy of the model, and `"test"` for
the way `poll_test.go` arms the model it drives. Go leaves open whether
`return m, m.armPoll()` copies `m` before or after the call; the tests show that
this build calls first (`model_test.go:855-860`), and the model follows it.

`Routes` is the stack and the sessions. Opening a route builds it, session and all,
and sends a push; Esc sends a pop; choosing a context sends a choice; each arrives in
its own time. Help and the switcher are pushed at once. A route that closed can be
opened again, which is a new instance under the same `Id`.

### Merging, Consent, Overlay, Keys

`Merging` goes from the gate of a pull request to the write. The modal stack is
`overlays`; what keys send is counted in `mail`, messages to the root and writes to
GitHub alike, and anything in it may be next. `Ask`, `Choose` and `Yes` are the three
steps of a merge: a chooser is pushed, closes for a confirmation that replaces
whatever is on top by then, and the confirmation closes for the write. A chooser
carries two methods, the one it `shows` and the one it `submits`, because the code's
does (`merge.go:45-62`). Only one details screen is on the stack at a time. The gate's
answer names a number, so `Admitted` are the pull requests it can open for: the writable
ones and those of the same number elsewhere.

`Consent` is what asking first promises (`merge.go:11-15`), with no dialog, stack or
message: a key asks about a pull request that may be asked about (`Askable`, here
`Admitted`), to merge or to close it; a question is
withdrawn or acted on, once. `Merging` implements it under the mapping at its end: the
questions open about a pull request are the dialogs about it on the stack, those on
their way and the writes on their way (`Unanswered`; `Leading` has the messages). A chooser and the confirmations it
leads to are one question; a dialog that takes the place of another withdraws that one.

`Overlay` is what a message makes of the stack of dialogs. `Keys` is the keyboard:
the table of bindings of every scope, what the root, a dialog and a route do with
each (`Dispatch`), and what the footer offers (`Hints`). They are four places in the
code, which the properties compare.

### Details, Conversation

`Details` is the pull request screen and its nine sections: what each sub-tab asks
for, what a refresh drops, which answers count. `loaded` and `failed` are the two maps
of the code, `out` the requests, `hasMore` the flag that says the discussion was cut
and `full` what it stands for. A refresh takes the flag back and leaves the pages on screen
until new ones come (`Refetching`). An answer under another route is lost (`Misses`), and
`missed` remembers that one was.

`Conversation` is the pane of the Comments sub-tab: threads put together from pages,
resolved ones folded, lines rendered and kept, and buttons recorded as they are drawn.
The order of drawing and dropping what was drawn is the code's, since a key acts on
what was drawn last.

### Jobs, Approval, Logs, IssueScreens

`Jobs` is a run's screen: `attempt` and `rows`, requests counted by run, attempt and
whether a tick asked, and the log viewer above. `target` is the check the
screen was opened from. `rowsOf` (whose run and attempt the rows are), `answered`, `astray`
and `allowed` are history. `Approval` has
the decisions, which `Jobs` takes when answers come. `Logs` is the viewer; a reply
names no job. `IssueScreens` is both screens of an issue on a stack with whatever
covers them; replies name a number only.

### Layout, Segments, Numbers

`Layout` has the three loops that fit the columns of a table as a machine, one turn an
action, and regions, splits and windows as operators, which are proved rather than
run. `Segments` reads a log line by line. Its texts are values: which words are in
which title are constants.

### Parts, MC modules

`MCCache`, `MCLists`, `MCTimers`, `MCMerging`, `MCDetails` and `MCJobs` instantiate one
module each, and `MCParts` instantiates `Parts`: ten small machines, one of which runs in
each behaviour while the others stay where they start. They share no variable, so their
state spaces add up rather than multiply.

The modules are not composed into one: `Lists` takes "covered" from the stack of
`Routes` and `PollArmed` from `Timers`, `Jobs` is opened by what `Details` shows, and
the replies of all of them stand for what `Cache` returns. Where the code shares state
across components, one module has it: the stack of dialogs and its writes in
`Merging`, the gate in `Jobs`, the breaker and the cached pages in `Search`.

## 3. The runs

| Run | What it asks | Bounds |
| --- | --- | --- |
| `cache_concurrent` | freshness, ownership, expiry, failures, the refinement, and that every read returns | 1 key, 2 callers, 1 writer, 2 entries, 1 change, TTL 1, clock to 2 |
| `lists_screen` | types, the cursor's row, a truthful empty table, polls only add, tabs kept, an asked list settles | 2 tabs, 2 contexts (2 pages of 1 row, and nothing), 2 requests, ticks |
| `lists_stale` | *fails*: rows of the context on screen only | 2 contexts |
| `timers` | one live tick, splash, startup, status | 5 tokens, 3 messages, 3 spinner ticks |
| `timers_unarmed` | *fails*: the poll clock runs | 2 tokens |
| `details` | a cut is said, waits are true, waits end | 2 lists of the discussion, Info and Comments, 3 keys, ticks or writes |
| `merging` | who may be asked and written to, and the refinement of `Consent` | 3 pull requests: 1 writable, 1 elsewhere with its number, 1 with another; 2 methods, 2 dialogs, 1 change of the default |
| `merging_numbers` | *fails*: a write is offered only where the viewer may write | as above |
| `jobs_screen` | rows of the attempt shown, "No jobs", approvals, the cursor's job, the check's job | 2 runs, 2 attempts, 2 jobs, a check that names one and is part of the other, 2 environments, 4 requests |
| `parts` | the ten machines of `Parts` | see below |
| `conversation_arrows` | *fails*: Down scrolls past the last button | as in `parts` |
| `search_loadmore` | *fails*: Load More is offered while matches remain | as in `parts` |

Why the bounds are enough. The cache is per key: no action reads or writes two keys
but the sweep and the invalidation, which treat each alike, so one key is checked
and the proofs cover any number of keys, callers and entries. Two callers and a
writer give an owner, its successor or a waiter, and an invalidation at any point
between them. In the lists two requests are enough for any pair of replies to cross;
two pages have a first, a last and a Load More between them; a context with rows and one
without are what an empty reply can be mistaken between; of the three tabs, Issues does what
Pull Requests does with what arrives. The routes need two above
the root to tell "the top one" from "all of them" and a third that is still on its
way. Two dialogs put a chooser under a confirmation, and a confirmation that is late in
the place of either; one change of the default makes a chooser show what Enter does not
take, the third method being like the second; a pull request that may be written, one that
may not and one that may not but has the number of the first are what a late answer can
confuse. On the pull request screen three keys switch to a tab, refresh it while the
first pages are out, and leave it again; the third list behaves as the second.
Two runs, one of them with two attempts, are what a reply to the jobs screen can be
mistaken among; two jobs whose order differs from one poll to the next are what a
cursor can lose. Tokens, messages and pending pops are counters that only need to go
past the one that is live.

In `parts`:

- routes: three routes, a stack of 5, two pops and two choices of a context on their way;
- filters: two lists, three dialogs or messages, and a login typed over the viewer's;
- keys: every scope with every key of the table, two dialogs open or on their way,
  every subset of refusals for the footer;
- layout: tables of four columns, wider and narrower than their minimums, at widths
  from below nothing to more than enough;
- logs: a job with a failed step and one without steps, texts up to 5 lines under a
  viewport of 2, a poll and a load out at once;
- segments: four jobs (skipped steps, a step of the same name twice, post steps), any
  four lines of a few times, titles and banners;
- search: six rows in three repositories of which the fan-out reaches two, pages of 2,
  an index of 5, three queries, and a clock that outlives the cache and the breaker;
- conversation: five remarks with answers to answers, to a remark of another page and
  of a draft, in three pages, with three reports of what is resolved;
- reads: each read with nothing set, and with each parameter set alone; one answer is kept,
  which is what the next call can be answered with;
- issues: two issues, a stack of two, texts up to 2 lines, two requests of each kind.

Runs that fail show what the program does that its own text denies:

- `lists_stale`: the reply to the previous context's request is applied to the new
  context's list (`mainroute.go:88`).
- `merging_numbers`: the gate is asked under the program's context and its answer matched
  by number (`ui/prdetails.go:396`, `:430-433`), so the answer about a screen that was closed
  offers a merge on a pull request of another repository with that number, until its own
  answer comes (`prdetails.go:116-117`).
- `timers_unarmed`: `Init` has a value receiver, so the running program does not
  poll.
- `conversation_arrows`: an arrow at the end of the list of buttons pulls the pane
  back to the button in place of scrolling on (`prdetails.go:627-629`).
- `search_loadmore`: the search is down, so the fan-out gives the first page, which is a
  page of each repository; the search is tried again for the second page and counts one
  page of its own before it, so Load More is offered when every match is on screen
  (`store/rest.go:135-138`, against `store/search.go:21-23`). It came out of the proof of
  `LoadMoreIsHonest`, which has to say that the search alone gave the pages.

Fairness. `Cache!FairSpec` is weak fairness of each caller's own progress: both
transports bound a request by 15 seconds (`gh/client.go:73`, `gql/gql.go:93`), and a
goroutine that can run is run. Nothing is assumed of users, writers or the clock.
`Lists!FairSpec` assumes that each tab's requests end, for the same reason.
`Details!FairSpec` the same of each section, and `WaitsEnd` speaks of a screen that
stays on top, since nothing brings back an answer lost under another.
`Timers!FairSpec` assumes that the identity request ends (its own timeout,
`ui/model.go:152`) and that timers fire. The other specifications state no fairness
and no liveness.

Deadlock is checked in every run but four. Where keys are bounded, `Details` has an
`Idle` for the program that waits for one more. `jobs_screen` and the three runs of
`MCParts` do not check it: the fitting of columns and the reading of a log end, and the
requests of the jobs screen are bounded.

## 4. The proofs

All theorems hold for every value of the constants that satisfies the module's
assumptions; the bounds stay in the statements as constants. Every safety invariant and
every action property that a passing run checks, and both refinements, are stated by
theorems; what is left to the runs is at the end of this section.

| Module | About |
| --- | --- |
| `SetTheorems` | induction, least and greatest numbers, sums over finite sets |
| `CacheProofs` | `Cache` and its refinement of `ReadThrough` |
| `MergingProofs` | `Merging` and its refinement of `Consent` |
| `ListsProofs`, `DetailsProofs`, `JobsProofs`, `TimersProofs` | the module of that name |
| `PartsProofs` | the ten machines of `Parts`, one after the other, and all of them together |

**Sets and sums.** The models add up, number and collect by the folds of the community
modules, so what they compute has to be proved by induction, and the induction theorems
of the library take a predicate as an operator, which the provers cannot be given.
`SetTheorems` states induction with a set in its place: a set of numbers that has 0 and
each successor has them all (`EveryNumber`), a family that has each set all of whose
smaller subsets it has, has every subset (`EverySubset`); both follow from the least
element of what is missing. A fold is a `CHOOSE` of a function that satisfies a recursion
on subsets. That there is one is shown by building it up, and then that a sum is the
number taken out plus the sum of the rest, whichever number that is (`SumWithout`). Ranks
(`PartsProofs!Ranks`) number the members of a finite set from 1 on.

**Cache.** The inductive invariant is `TypeOK /\ Wiring /\ Freshness`. `Wiring`
relates callers, objects and map: a caller holds an entry exactly while it is
busy, all holders of an entry want the same key, the map's entry for a key is of
that key, an owner's entry is open, an open entry in the map or under a waiter has
an owner. It is what makes "waiters have an owner" inductive: without "open
entries in the map have an owner", a lookup could join an orphan. `Freshness` says
of every value on its way (loaded, settled, stored) that it is at least the floor of
whoever holds the entry or can still join it. From it follow `ReadsSeeInvalidations`
and the refinement; the refinement's proof maps lookups to `Begin`, returns to
`Answer` or `Fail`, and everything else to a change, an invalidation or nothing.
`NotServedPastExpiry` needs an invariant of its own, `InTime`: whoever waits looked the
key up before what it waits on expires, if that is settled, and no later than now if it is
not, so that a load which settles under it gives it a time to come.

**Reads.** A key names all that its request says: that is a comparison of two tables
(`NothingUnkeyed`), and with it two calls that share a key ask the same. The invariant
says of every entry that some call with its key said what it holds. That the checks shown
are the latest of each name is an induction over the fold that takes them in one by one
(`LatestOfEach`, `OneMoreCheck`): the latest is kept because "later" is a linear order,
and the places because a name is appended only when nothing shown has it.

**Timers.** `OneLiveTick` needs to know that tokens are fresh: every tick out
carries a token that was issued, so none is out yet for the one issued next.
`StatusOutlivesOlderExpiries` needs that what is shown is the last message and that
its expiry is out.

**Routes.** Sessions and stack are tied both ways: a live session has a route on
the stack or on its way, such a route has a live session, and it is there once;
each needs the others, since a pop stops one route and must not stop a second
occurrence.

**Merging.** That nothing is written but where it may be offered needs the invariant along
the whole way: the gate of the screen on the stack is open only where a writable pull
request has the number of the one shown (`AdmittedByNumber`), so a dialog asked for is for
such a one, so is the message that carries it, the dialog it opens, and the write it ends
in. That is all the code gives: an answer is matched with the screen by number, so the
stronger `FailsClosed` is a run that fails. Nothing is assumed of the numbers.
`OneWritePerAsk` is a sum over a bag of messages: each step takes a message out and puts at
most one in, or opens one dialog for the one it took, so what can still lead to a write
never outgrows the keys that asked. The sum needs the messages to be finitely many
(`FinitePRs`).

The refinement of `Consent` counts the same dialogs and messages by what they are about.
`DialogsCount` says what each change of the stack does to the count of a question, and
`MessagesCount` what a message does; `QuestionStep` puts them together: a key or a message
adds one to the question about the pull request on screen, and then the gate had said yes,
or takes one from some question, or moves one from a place to another and changes no count.
From it come two theorems. `WritesAnswerQuestions` needs the types alone and holds for any
pull request asked about; `MergingAsksFirst` adds that no question is about a pull request
outside `Admitted`, for which it takes the invariant above.

**Details.** `NothingIsForgotten` is inductive with the types, because switching and
refreshing ask for `Missing`, and what a tab reads is missing or there. That a
message "Loading..." is a wait needs one thing more, `FlagIsAWait`: the flag is
raised with a request and the first answer takes it down, so while it is up one is
out. `CutIsSaid` is inductive with the types: what a refresh drops is asked for in the same
step, and stays asked for, failed or lost until a page comes.

**Jobs.** Three threads. The rows are of the attempt shown because a reply is taken
only when it names it, and every step that changes the attempt drops the rows; of the run
because one of another run makes the screen `astray`. "No
jobs" needs `AskedFor`: an attempt without an answer, a failure or a stray reply is
asked for by a request that is not a poll's, whose failure would say so. An approval
needs `Gated`, which follows it through each stage, as in Merging: allowed, pushed,
open, sent. That the cursor follows its job is a property of steps: lemmas on what a
search of the rows returns (`FirstOfFacts`, `LandsIs`) carry it through `Lands`.

**Lists.** The invariant has the types of tabs and requests, the cursor's rest, and what an
empty table rests on: the tab on screen was asked for (`AskedFor`), and a list that was
given no reply to another question has rows once it has paged, and where it is loaded and
neither waits nor failed, is empty only if its query is (`Told`). Replies that would break it are those
that `Astray` names, and the first page asked for ends their effect. Requests are a bag,
with lemmas for its growing and shrinking.

**Layout.** The fitting of columns is a machine of three loops, and its invariant
(`LayoutInv`) says what each leaves for the next. A row is `Roomy`, it fits and gives
nothing up, or `Squeezed`: what was dropped is the rightmost of what may be, the row with the
last of it back is too wide, and the columns that are left are as they were asked for until
all that may go are gone. `ColumnsGiveWayInOrder` follows at the end of the loops. The
lemmas on sums carry it, since a step changes one column and a guard asks for the width of
all. The loops end (`LoopsEnd`): each turn leaves a loop for the next, or the row takes less
room than before and still no less than nothing, and that order has no endless descent.
The window of a list, the frame and the splits are arithmetic on all integers.

**Filters, Logs, IssueScreens.** What travels in messages and dialogs is a login or a
repository (`OnTheirWay`), and every step that filters by one login drops the others. The
types of `Logs` are inductive and bound the viewport; a step of a reply that moves the
view must be the first log or a follower's. `IssuesInv` ties each screen on the stack to a
request that is out or to the reply it missed, and counts requests through the replies.

**Keys.** The tables of bindings are settled first: a key means one thing in each, and
what it means is a fact about a constant. What the footer offers is then compared with what
the root, the dialog and the route do, scope by scope. For `HeldKeyNeverConfirms` the
invariant says of every dialog that is open or on its way that the key which led to it does
not confirm it; so each key that asks, and each key of a chooser that goes on to a
confirmation, is compared with the keys of the dialog it leads to (`AnswersTo`).

**Segments.** `SegmentsInv` says that the cursor is on a step that was not skipped and that
every line so far went to a step up to it. Each way to choose the next step looks at those
from the cursor on, and the chosen one is the cursor's new place, so no earlier step is
given a line again.

**Search.** `SearchInv` says where what is missing may be: after the pages that were
answered, in its own repository as long as the fan-out answers, among all matches once the
search does, whoever answered before; `mixed` is where neither holds. Pages are told by
ranks, so a page that is not full, or a count that is reached, leaves nothing missing. The
other way round, while the search alone gave the pages, what is on screen has the first
ranks of the index, and "more" says that there are further ones. A change of transport turns
on a rank in a repository being no larger than among all matches, and that being the rank
in the index.

**Conversation.** Where a button is drawn is a sum of the rows of the blocks above it. That
every button is that of a resolved thread, whatever number it has among them, needs no two
to share a row: a block starts below each one before it (`StartsBelow`), and of two threads
one is before the other, their times being places in a stable sort (`TimesDiffer`).
The invariant is then short: what is rendered is what would be drawn now unless `stale`
says so, and the buttons are so always. `ExchangesStayTogether` follows the walk of
`threadRoot`. It takes as many steps as there are remarks, and ends where nothing is
above; that this is enough, and that an answer ends where what it answers ends, holds where
a remark was written before its answers (`AnswersComeLater`). Of a cycle the code says that
the API does not produce one, and there the theorem says nothing.

**Parts.** A step of `Parts` is a step of one machine and changes nothing of the others, and
a machine that does not run stays where it started, so a behaviour of `Parts` is one of each
(`PartsKeepToThemselves`). With that, `TypesOK` (`PartTypes`) and all safety properties that
the run `parts` checks (`PartsAreSafe`) are theorems of the specification it checks.

Only model-checked:

- liveness (`EveryReadReturns`, `AskedListSettles`, `StatusExpires`, `StartupEnds`,
  `WaitsEnd`): the provers have no rule for fairness and ENABLED.

What the theorems assume beyond the types of the constants: answers come later (one on `Conversation`),
what is written has different places in time, and sets that are finite in any run of the
program are finite (`FinitePRs`, `FiniteAssumption`). TLC evaluates the named assumptions
on the runs' constants.

## 5. What the code does beside its texts

Met while modelling; the models have these steps, and the properties except them by
name where they must.

- A reply that finds another tab or another screen on top is lost, and its list,
  section or screen goes on waiting until something else refreshes it
  (`mainroute.go:115`, against the request out at `:61`).
- After a failed Load More the next one asks for the page after (`runs.go:283`), and
  the end of the list is then said although a page is missing.
- An empty table may say that nothing was found of a query that was never told so: a reply
  names no query, so an empty one of another context or filter puts "No ... found" in the
  place of "Loading", as does a tick's request that fails after a refresh, and a page past
  the end may fill a list cleared since (`runs.go:135-146`, `prs.go:116-131`).
- A refresh of the Comments sub-tab takes the note that the discussion was cut back at once
  and leaves the old pages on screen, for good if their replacement fails
  (`prdetails.go:897-907`, `:471-475`, against `:209-212`).
- After `d`, the merge chooser shows one method and Enter confirms the one it was
  opened with (`merge.go:62`, `overlay/method.go:139`).
- Replies are told apart by too little: a job's log by nothing (`logs.go`), a run's
  jobs by the attempt, an issue and a pull request's gate by the number. The reply of a
  screen that was closed is then taken by the next one, and the gate's offers a write on it.
- An issue that failed to load says "(No description provided.)".
- A chosen filter, and the picker of repositories, reach whatever list is shown when
  they come.
- `o` on the switcher goes to the root, where `docs/spec.md:66` has it return to the
  previous route; `?` on the help screen is offered as Help and closes it.
- A tick armed for one screen is answered by the one the user moved to
  (`clock.go:32-35` says it is dropped), and the spinner, once nothing waits, is not
  started again by a screen that begins to wait (`model.go:209-210`).
- A reader that joined another route's load in the cache is handed that route's
  cancellation (`store/cache.go:62-67`).
- A search that runs into the client's timeout counts as cancelled
  (`store/client.go:162-166`), so the fan-out does not answer for it.
- The approval lists the deployments again, and where none names the viewer approves
  all of them (`ui/approval.go`).
- The width a dropped column leaves is not given to the flexible one.

## 6. Not modelled

- Rendering, themes, links, markdown, the browser launch and the command line hold no
  state that a step could get wrong. The sanitizer is a scanner over one text.
- Configuration and the token chain run once, in sequence, before anything else.
- The limiter's reservation and the OAuth scopes: the first is a library's arithmetic,
  the second a list in one header. `Reads` lets the budget be spent or not after any
  answer.
- The order of rows: sorting is by a key, and rows are known by their place.
- The panes of commits, files and checks of a pull request, whose cursors and scrolls
  are what `Logs` and `IssueScreens` have, and the commit screen.
- The whole program as one state machine: what each component leaves to another is
  any value the other may give (section 2), which allows more than the composition
  does. Where a module keeps one screen of a kind on the stack (`Merging`, `Details`,
  `Jobs`, `Logs`), two of them above one another are not covered.
