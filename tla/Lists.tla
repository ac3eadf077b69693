------------------------------- MODULE Lists -------------------------------
(***************************************************************************)
(* The main route (internal/ui/mainroute.go) and its three lists           *)
(* (prs.go, runs.go, issues.go): paging, filters, the context in force,    *)
(* polling, and what becomes of a reply when the user has moved on.        *)
(*                                                                         *)
(* A request is a command the runtime runs in a goroutine of its own, so   *)
(* replies come back in any order.  The root hands a reply to the route on *)
(* top and the main route hands it to the tab on screen: every other tab   *)
(* never sees it.  What another route or tab does with the reply does not  *)
(* reach these lists.                                                      *)
(*                                                                         *)
(* Abstractions: a row is known by the query that lists it and its place   *)
(* in that list, so queries have no rows in common; how many rows each     *)
(* query has does not change while the model runs; a filter is one value   *)
(* in place of a state, three logins and a repository; the routes above    *)
(* the main one are "covered", and overlays do not stop replies.           *)
(***************************************************************************)
EXTENDS Integers, Sequences, FiniteSets, Bags

CONSTANTS
  TabOrder,     \* the tabs along the strip, the first one open at the start
  Owner,        \* the contexts the switcher offers
  Viewer,       \* the one the session starts in
  Filter,       \* the settings of a tab's filters
  Unfiltered,   \* the setting a new tab has
  Total,        \* how many rows each query has on GitHub
  PageSize,     \* how many of them a page holds
  PollArmed,    \* whether ticks reach the route (Timers says when they do)
  MaxPage,      \* bound: the highest page a list asks for
  MaxRequests   \* bound: requests in flight at once

\* What a list may ask GitHub for.
Queries == [owner : Owner, filter : Filter]

ASSUME TabAssumption ==
  /\ TabOrder \in Seq({"prs", "runs", "issues"})
  /\ Len(TabOrder) \in 2..3
  /\ \A i, j \in 1..Len(TabOrder) : i # j => TabOrder[i] # TabOrder[j]
ASSUME ContextAssumption == Viewer \in Owner /\ Unfiltered \in Filter
ASSUME PagingAssumption  == Total \in [Queries -> Nat] /\ PageSize \in Nat \ {0}
ASSUME PollAssumption    == PollArmed \in BOOLEAN
ASSUME BoundAssumption   == MaxPage \in Nat \ {0} /\ MaxRequests \in Nat

VARIABLES
  tab,        \* the tab on screen (Main.tab)
  list,       \* the state of each tab
  owner,      \* the context in force (deps.Account.Owner)
  covered,    \* another route is above the main one
  approving,  \* an approval is being confirmed, or on its way to GitHub and back
  requests,   \* the requests in flight, a bag: the same page can be asked twice
  astray      \* history: tabs that were given a reply to another question

vars == <<tab, list, owner, covered, approving, requests, astray>>

----------------------------------------------------------------------------
(* The lists. *)

Tabs == {TabOrder[i] : i \in 1..Len(TabOrder)}

\* The tab `step` places further along the strip, around the end.
Neighbour(t, step) ==
  LET at == CHOOSE i \in 1..Len(TabOrder) : TabOrder[i] = t
  IN TabOrder[((at - 1 + step) % Len(TabOrder)) + 1]

NewTab == [rows |-> {}, loading |-> FALSE, loaded |-> FALSE, failed |-> FALSE,
           page |-> 1, hasMore |-> FALSE, cursor |-> 0, filter |-> Unfiltered]

\* Mutant: a refresh leaves the cursor alone.
StartedInPlace(l) == [l EXCEPT !.rows = {}, !.hasMore = FALSE, !.page = 1,
                               !.loading = TRUE, !.failed = FALSE]

\* start: clear the list and wait for its first page.
Started(l) == [l EXCEPT !.rows = {}, !.hasMore = FALSE, !.cursor = 0,
                        !.page = 1, !.loading = TRUE, !.failed = FALSE]

\* The rows of a page, page 0 being how a poll asks for the first one, and
\* whether GitHub has rows beyond it.
PageRows(q, p) ==
  LET first == IF p = 0 THEN 1 ELSE p
  IN {[query |-> q, n |-> n] :
        n \in {m \in 1..Total[q] : (first - 1) * PageSize < m /\ m <= first * PageSize}}
RowsBeyond(q, p) == p * PageSize < Total[q]

Selectable(l) == Cardinality(l.rows) + IF l.hasMore THEN 1 ELSE 0
OnLoadMore(l) == l.hasMore /\ l.cursor = Cardinality(l.rows)
OnRow(l) == l.cursor < Cardinality(l.rows)

Clamped(l) ==
  LET last == Selectable(l) - 1
  IN [l EXCEPT !.cursor = IF @ <= last THEN @ ELSE IF last < 0 THEN 0 ELSE last]

\* Mutants: a failed fetch that keeps no error, and one that goes on waiting.
FailedSilently(t, l, m) == [l EXCEPT !.loading = FALSE]
FailedStillLoading(t, l, m) == [l EXCEPT !.failed = @ \/ t = "runs" \/ m.page # 0]

\* A failed fetch.  A poll's failure is kept by the Workflows tab alone.
Failed(t, l, m) ==
  [l EXCEPT !.loading = FALSE, !.failed = @ \/ t = "runs" \/ m.page # 0]

\* Mutant: a poll replaces the list, as the first page does.
FilledOver(l, m) ==
  Clamped([l EXCEPT !.loading = FALSE, !.loaded = TRUE, !.failed = FALSE,
                    !.rows = IF m.page \in {0, 1} THEN PageRows(m.query, m.page)
                             ELSE @ \cup PageRows(m.query, m.page),
                    !.hasMore = IF m.page = 0 THEN @ ELSE RowsBeyond(m.query, m.page),
                    !.cursor = IF m.page = 1 THEN 0 ELSE @])

\* A fetched page: page 1 replaces the list, the others are folded into it,
\* and a poll leaves the paging as it is.
Filled(l, m) ==
  LET got == PageRows(m.query, m.page)
  IN Clamped([l EXCEPT !.loading = FALSE, !.loaded = TRUE, !.failed = FALSE,
                       !.rows = IF m.page = 1 THEN got ELSE @ \cup got,
                       !.hasMore = IF m.page = 0 THEN @ ELSE RowsBeyond(m.query, m.page),
                       !.cursor = IF m.page = 1 THEN 0 ELSE @])

----------------------------------------------------------------------------
(* Requests. *)

Query(o, l) == [owner |-> o, filter |-> l.filter]
Request(t, l, o, p) == [tab |-> t, page |-> p, query |-> Query(o, l)]

InFlight == BagToSet(requests)
Room == BagCardinality(requests) < MaxRequests

\* load: the request goes out with the context and the filters of this moment.
Load(t, l, o, p) ==
  /\ Room
  /\ requests' = requests (+) SetToBag({Request(t, l, o, p)})

OnScreen(t) == ~covered /\ tab = t

\* A reply to another question than the list's: it was sent under another
\* context or filter, or is not the page the list waits for.  Where the list
\* waits for none, a poll is no stray.
Astray(o, l, m) ==
  \/ m.query # Query(o, l)
  \/ m.page # l.page /\ (m.page # 0 \/ l.loading)

----------------------------------------------------------------------------
(* What the user does on the main route. *)

Init ==
  /\ tab = TabOrder[1]
  /\ list = [t \in Tabs |-> IF t = tab THEN Started(NewTab) ELSE NewTab]
  /\ owner = Viewer
  /\ covered = FALSE
  /\ approving = FALSE
  /\ requests = SetToBag({Request(tab, NewTab, Viewer, 1)})
  /\ astray = {}

\* Mutant: a tab that is opened always fetches.
SwitchTabAndFetch(step) ==
  LET t == Neighbour(tab, step) IN
  /\ ~covered
  /\ tab' = t
  /\ list' = [list EXCEPT ![t] = Started(@)]
  /\ Load(t, list[t], owner, 1)
  /\ astray' = astray \ {t}
  /\ UNCHANGED <<owner, covered, approving>>

\* A tab that is opened fetches unless it has a list or believes one is coming.
SwitchTab(step) ==
  LET t == Neighbour(tab, step) IN
  /\ ~covered
  /\ tab' = t
  /\ \/ /\ list[t].loaded \/ list[t].loading
        /\ UNCHANGED <<list, requests, astray>>
     \/ /\ ~(list[t].loaded \/ list[t].loading)
        /\ list' = [list EXCEPT ![t] = Started(@)]
        /\ Load(t, list[t], owner, 1)
        /\ astray' = astray \ {t}
  /\ UNCHANGED <<owner, covered, approving>>

Move(d) ==
  /\ ~covered
  /\ list[tab].cursor + d \in 0..Selectable(list[tab]) - 1
  /\ list' = [list EXCEPT ![tab].cursor = @ + d]
  /\ UNCHANGED <<tab, owner, covered, approving, requests, astray>>

\* Enter on the Load More row.
LoadMore ==
  /\ ~covered
  /\ OnLoadMore(list[tab])
  /\ ~list[tab].loading
  /\ list[tab].page < MaxPage
  /\ list' = [list EXCEPT ![tab].page = @ + 1, ![tab].loading = TRUE]
  /\ Load(tab, list[tab], owner, list[tab].page + 1)
  /\ UNCHANGED <<tab, owner, covered, approving, astray>>

Refresh ==
  /\ ~covered
  /\ list' = [list EXCEPT ![tab] = Started(@)]
  /\ Load(tab, list[tab], owner, 1)
  /\ astray' = astray \ {tab}
  /\ UNCHANGED <<tab, owner, covered, approving>>

\* The quick filter keys, the filter overlay and clearing the filters.
SetFilter(f) ==
  LET l == Started([list[tab] EXCEPT !.filter = f]) IN
  /\ ~covered
  /\ list' = [list EXCEPT ![tab] = l]
  /\ Load(tab, l, owner, 1)
  /\ astray' = astray \ {tab}
  /\ UNCHANGED <<tab, owner, covered, approving>>

\* A route is opened above the main one, and the last of them closes.
Cover ==
  /\ ~covered
  /\ covered' = TRUE
  /\ UNCHANGED <<tab, list, owner, approving, requests, astray>>
Uncover ==
  /\ covered
  /\ covered' = FALSE
  /\ UNCHANGED <<tab, list, owner, approving, requests, astray>>

\* applyContext: back to the main route, every tab new, the one on screen
\* fetching.  Requests already out stay out.
SwitchContext(o) ==
  /\ owner' = o
  /\ covered' = FALSE
  /\ list' = [t \in Tabs |-> IF t = tab THEN Started(NewTab) ELSE NewTab]
  /\ Load(tab, NewTab, o, 1)
  /\ astray' = {}
  /\ UNCHANGED <<tab, approving>>

\* The confirmation for the run under the cursor is opened; what follows, up to
\* the outcome, is no affair of the lists.
Approve ==
  /\ OnScreen("runs")
  /\ OnRow(list["runs"])
  /\ ~approving
  /\ approving' = TRUE
  /\ UNCHANGED <<tab, list, owner, covered, requests, astray>>

----------------------------------------------------------------------------
(* What comes back. *)

\* The approval's outcome refetches the first page when it finds the tab on
\* screen, whatever that tab is doing; one that was declined or failed does not.
ApproveDone ==
  /\ approving
  /\ approving' = FALSE
  /\ \/ /\ OnScreen("runs")
        /\ Load("runs", list["runs"], owner, 0)
     \/ UNCHANGED requests
  /\ UNCHANGED <<tab, list, owner, covered, astray>>

\* A poll tick, for the tab on screen.
Poll ==
  /\ PollArmed
  /\ ~covered
  /\ ~list[tab].loading
  /\ tab = "runs" \/ list[tab].loaded
  /\ Load(tab, list[tab], owner, 0)
  /\ UNCHANGED <<tab, list, owner, covered, approving, astray>>

Returned(m) ==
  /\ requests' = requests (-) SetToBag({m})
  /\ UNCHANGED <<tab, owner, covered, approving>>

\* A reply that finds its tab on screen, with a page or with an error.  The
\* first page asked for replaces whatever a stray reply left.
Answer(m) ==
  /\ OnScreen(m.tab)
  /\ list' = [list EXCEPT ![m.tab] = Filled(@, m)]
  /\ astray' = IF Astray(owner, list[m.tab], m) THEN astray \cup {m.tab}
               ELSE IF m.page = 1 THEN astray \ {m.tab} ELSE astray
  /\ Returned(m)
Failure(m) ==
  /\ OnScreen(m.tab)
  /\ list' = [list EXCEPT ![m.tab] = Failed(m.tab, @, m)]
  /\ astray' = IF Astray(owner, list[m.tab], m) THEN astray \cup {m.tab} ELSE astray
  /\ Returned(m)

\* A reply for a tab that is not on screen goes to whoever is, who ignores it.
Missed(m) ==
  /\ ~OnScreen(m.tab)
  /\ UNCHANGED <<list, astray>>
  /\ Returned(m)

Deliver(m) == Answer(m) \/ Failure(m) \/ Missed(m)

----------------------------------------------------------------------------

Next ==
  \/ \E step \in {1, Len(TabOrder) - 1} : SwitchTab(step)
  \/ \E d \in {-1, 1} : Move(d)
  \/ LoadMore \/ Refresh
  \/ \E f \in Filter : SetFilter(f)
  \/ Cover \/ Uncover
  \/ \E o \in Owner : SwitchContext(o)
  \/ Approve \/ ApproveDone \/ Poll
  \/ \E m \in InFlight : Deliver(m)

Spec == Init /\ [][Next]_vars

\* Every request ends: the HTTP client gives each one 15 seconds
\* (gh/client.go:73, gql/gql.go:93).  Nothing is assumed of the user.
DeliverTo(t) == \E m \in InFlight : m.tab = t /\ Deliver(m)
FairSpec == Spec /\ \A t \in Tabs : WF_vars(DeliverTo(t))

----------------------------------------------------------------------------
(* Properties. *)

Row == UNION {[query : {q}, n : 1..Total[q]] : q \in Queries}

\* The types of the main route's state.
TypeOK ==
  /\ tab \in Tabs
  /\ list \in [Tabs -> [rows : SUBSET Row,
                        loading : BOOLEAN, loaded : BOOLEAN, failed : BOOLEAN,
                        page : 1..MaxPage, hasMore : BOOLEAN,
                        cursor : Nat, filter : Filter]]
  /\ owner \in Owner
  /\ covered \in BOOLEAN
  /\ approving \in BOOLEAN
  /\ IsABag(requests)
  /\ InFlight \subseteq [tab : Tabs, page : 0..MaxPage, query : Queries]
  /\ astray \subseteq Tabs

\* The cursor rests on a row or on the Load More row, also after a reply, a
\* poll or a refresh changed the list under it (clampCursor, runs.go:178).
CursorOnARow ==
  \A t \in Tabs :
    \/ list[t].cursor < Selectable(list[t])
    \/ Selectable(list[t]) = 0 /\ list[t].cursor = 0

\* Every list keeps its type, and its cursor a row to rest on, whatever arrives
\* (apply and clampCursor of the three tabs).
ListsAreSound == TypeOK /\ CursorOnARow

\* A table that says it found nothing is "genuinely empty" (runs.go:394-404): the
\* query in force has no rows, and this is no tab that nobody asked for or whose
\* page failed.  Except where a reply to another question came since the list was
\* cleared: the code cannot tell it from the one the list waits for, so one that is
\* empty, or a poll's failure, puts "No ... found" in the place of "Loading"
\* (runs.go:135-146, prs.go:116-131).  The first page asked for ends the exception.
EmptyMeansEmpty ==
  LET l == list[tab]
  IN tab \notin astray /\ l.rows = {} /\ ~l.loading /\ ~l.failed
       => l.loaded /\ Total[Query(owner, l)] = 0

\* Moving along the tab strip changes no list that was already fetched, and
\* asks GitHub nothing again (docs/spec.md:145).
ReopeningKeepsTheList ==
  [][tab' # tab =>
       /\ \A t \in Tabs : list[t].loaded => list'[t] = list[t]
       /\ list[tab'].loaded => requests' = requests]_vars

\* A reply to a poll takes nothing off the screen and moves neither the cursor
\* nor the paging (runs.go:92-97, "A poll never clears what is on screen").
PollsOnlyAdd ==
  [][\A m \in InFlight :
       m.page = 0 /\ Deliver(m) =>
         \A t \in Tabs :
           /\ list[t].rows \subseteq list'[t].rows
           /\ list'[t].cursor = list[t].cursor
           /\ list'[t].page = list[t].page
           /\ list'[t].hasMore = list[t].hasMore]_vars

\* A list on screen whose request is out stops loading, with rows or with an
\* error, unless the user leaves it.
AskedListSettles ==
  \A t \in Tabs :
    (OnScreen(t) /\ list[t].loading /\ \E m \in InFlight : m.tab = t)
      ~> (~OnScreen(t) \/ ~list[t].loading)

\* After a context change the list on screen holds rows of the context in force
\* alone ("Everything on screen belonged to the previous context, so it is
\* dropped", mainroute.go:88).
RowsBelongToTheContext ==
  \A r \in list[tab].rows : r.query.owner = owner
=============================================================================
