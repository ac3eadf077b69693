-------------------------------- MODULE Search --------------------------------
(***************************************************************************)
(* The scope-wide lists of pull requests and issues (internal/store/       *)
(* client.go, search.go, and the fan-out of pulls.go, issues.go, runs.go): *)
(* the search walks cursors through the cache, and what the index will not *)
(* serve is answered by one request per repository.                        *)
(*                                                                         *)
(* One caller reads a list page by page; other callers share the breaker   *)
(* with it.  A walk takes a step for each page, so time passes and the     *)
(* breaker trips within it.                                                *)
(*                                                                         *)
(* Abstractions: a row is its place in the order by update, which does not *)
(* change while the model runs, so a page held in the cache is the page    *)
(* the index has; logins are reduced to "mine"; requests of one fan-out    *)
(* succeed or fail at one moment, which is when wg.Wait returns.           *)
(***************************************************************************)
EXTENDS Numbers, FiniteSets

CONSTANTS
  Rows,        \* how many rows the scope has; row 1 was updated last
  Repository,        \* its repositories
  RepoOf,      \* the repository of each row
  Mine,        \* the rows a login filter keeps
  Targets,     \* the repositories the fan-out covers (maxAggregateRepos)
  PageSize,
  IndexCap,    \* how many matches the index holds for one query
  TTL,         \* of the cache
  RetryAfter,  \* scopeSearchRetryAfter
  NoRepo,
  Queries      \* bound: the filters the user sets

Row == 1..Rows
Query == [repo : Repository \cup {NoRepo}, mine : BOOLEAN]
WholeScope == [repo |-> NoRepo, mine |-> FALSE]

ASSUME RowAssumption  == Rows \in Nat /\ RepoOf \in [Row -> Repository] /\ Mine \subseteq Row
ASSUME RepoAssumption == Targets \subseteq Repository /\ NoRepo \notin Repository
ASSUME QueryAssumption == WholeScope \in Queries /\ Queries \subseteq Query
ASSUME PageSizeAssumption == PageSize \in Nat \ {0} /\ IndexCap \in Nat
ASSUME ClocksAssumption == TTL \in Nat /\ RetryAfter \in Nat

VARIABLES
  down,       \* how long searches are skipped yet (gqlDownUntil)
  held,       \* how long the cache has each page of each search yet
  query,      \* what the list is filtered by
  lastPage,       \* the last page that was answered, 0 before the first
  got,        \* the rows of the pages answered
  hasMore,    \* what the last answer said
  call,       \* the call under way
  sources,    \* history: the transports that answered the pages of the list
  mixed,      \* history: a page came from a transport that pages otherwise
  lost        \* history: rows the answers left out by design

Page == 1..Rows + 1
NoCall == [at |-> "idle"]
Walking(n, p) == [at |-> "search", wanted |-> n, next |-> p]
FanningOut(n) == [at |-> "fanout", wanted |-> n]
Call == [at : {"search"}, wanted : Nat, next : Page]
          \cup [at : {"fanout"}, wanted : Nat] \cup {NoCall}

listed == <<lastPage, got, hasMore, sources, mixed, lost>>
searchVars == <<down, held, query, call, listed>>

----------------------------------------------------------------------------
(* What each transport answers.                                            *)

InRepo(q, r) == q.repo = NoRepo \/ RepoOf[r] = q.repo
ByLogin(q, S) == IF q.mine THEN S \cap Mine ELSE S
Matching(q) == ByLogin(q, {r \in Row : InRepo(q, r)})

\* The rows of S on its nth page of PageSize.
PageOf(S, n) == {r \in S : (n - 1) * PageSize < Rank(r, S) /\ Rank(r, S) <= n * PageSize}

\* The index: exact filters, and no match beyond its cap.
Indexed(q) == {r \in Matching(q) : Rank(r, Matching(q)) <= IndexCap}
HasNext(q, n) == n * PageSize < Cardinality(Indexed(q))

\* Mutant: a full page stands for another one.
FullMeansMore(q, n) == Cardinality(PageOf(Indexed(q), n)) = PageSize

\* listOfTotal: the count the index reports decides, unless the page is empty.
MoreOfTotal(q, n) ==
  LET items == PageOf(Indexed(q), n)
  IN items # {} /\ (n - 1) * PageSize + Cardinality(items) < Cardinality(Indexed(q))

\* repoTargets: an exact name narrows the fan-out to one repository, or to none.
Covered(q) == IF q.repo = NoRepo THEN Targets ELSE Targets \cap {q.repo}
OfRepo(repo) == {r \in Row : RepoOf[r] = repo}

\* ScopePRs, ScopeIssues of the REST store: a page of each repository that
\* answers, filtered afterwards, and more where one of them was full.
FannedOut(q, n, failing) ==
  ByLogin(q, UNION {PageOf(OfRepo(repo), n) : repo \in Covered(q) \ failing})
FanOutHasMore(q, n, failing) ==
  \E repo \in Covered(q) \ failing : Cardinality(PageOf(OfRepo(repo), n)) = PageSize

----------------------------------------------------------------------------
SearchInit ==
  /\ down = 0
  /\ held = [q \in Queries |-> [n \in Page |-> 0]]
  /\ query = WholeScope
  /\ lastPage = 0 /\ got = {} /\ hasMore = FALSE
  /\ call = NoCall
  /\ sources = {} /\ mixed = FALSE /\ lost = {}

SearchUsable == down = 0

\* ScopePRs, ScopeIssues of the client: the search, or the fan-out at once while
\* a recent search failed.
Begin(n) ==
  call' = IF SearchUsable THEN Walking(n, 1) ELSE FanningOut(n)

\* A refresh or a filter: the list starts over.
Open(q) ==
  /\ call = NoCall
  /\ query' = q
  /\ lastPage' = 0 /\ got' = {} /\ hasMore' = FALSE
  /\ sources' = {} /\ mixed' = FALSE /\ lost' = {}
  /\ Begin(1)
  /\ UNCHANGED <<down, held>>

LoadMore ==
  /\ call = NoCall /\ lastPage > 0 /\ hasMore
  /\ Begin(lastPage + 1)
  /\ UNCHANGED <<down, held, query, listed>>

\* Rows for a page, from one transport or the other.
Answer(rows, more, from, missing) ==
  /\ call' = NoCall
  /\ lastPage' = call.wanted
  /\ got' = got \cup rows
  /\ hasMore' = more
  /\ sources' = sources \cup {from}
  /\ mixed' = (mixed \/ (sources \ {from} # {} /\ (from = "fanout" \/ query.mine)))
  /\ lost' = lost \cup missing

Cached(n) == held[query][n] > 0

\* searchScope, one page of the walk: taken from the cache or asked for, and
\* either the next one follows or this is the last.  A page past the last of
\* the index is answered with the last.
StepOver ==
  LET n == call.next
  IN IF n < call.wanted /\ HasNext(query, n)
     THEN /\ call' = Walking(call.wanted, n + 1)
          /\ UNCHANGED listed
     ELSE Answer(PageOf(Indexed(query), n), MoreOfTotal(query, n), "search",
                 Matching(query) \ Indexed(query))

TakeHeld ==
  /\ call.at = "search" /\ Cached(call.next)
  /\ StepOver
  /\ UNCHANGED <<down, held, query>>

SearchAnswers ==
  /\ call.at = "search" /\ ~Cached(call.next)
  /\ held' = [held EXCEPT ![query][call.next] = TTL]
  /\ StepOver
  /\ UNCHANGED <<down, query>>

\* searchFailed.
Trip == down' = RetryAfter

\* The index refuses, or the network fails: the fan-out answers instead.
SearchFails ==
  /\ call.at = "search" /\ ~Cached(call.next)
  /\ Trip
  /\ call' = FanningOut(call.wanted)
  /\ UNCHANGED <<held, query, listed>>

\* The query runs into its fifteen seconds.  net/http reports that as an error
\* that is context.DeadlineExceeded, so it passes for the caller going away:
\* nothing is remembered and the fan-out is not tried.
SearchTimesOut ==
  /\ call.at = "search" /\ ~Cached(call.next)
  /\ call' = NoCall
  /\ UNCHANGED <<down, held, query, listed>>

\* The fan-out answers with what it has, unless every repository failed.
FanOutAnswers(failing) ==
  /\ call.at = "fanout"
  /\ Covered(query) # {} => Covered(query) \ failing # {}
  /\ LET kept == Covered(query) \ failing
     IN Answer(FannedOut(query, call.wanted, failing),
               FanOutHasMore(query, call.wanted, failing), "fanout",
               {r \in Matching(query) : RepoOf[r] \notin kept})
  /\ UNCHANGED <<down, held, query>>

\* Every repository failed, or the list of repositories did.
FanOutFails ==
  /\ call.at = "fanout"
  /\ call' = NoCall
  /\ UNCHANGED <<down, held, query, listed>>

\* Another list's search fails: the client, and its breaker, is shared.
OtherSearchFails ==
  /\ SearchUsable
  /\ Trip
  /\ UNCHANGED <<held, query, call, listed>>

Left(t) == IF t > 0 THEN t - 1 ELSE 0
Tick ==
  /\ down' = Left(down)
  /\ held' = [q \in Queries |-> [n \in Page |-> Left(held[q][n])]]
  /\ UNCHANGED <<query, call, listed>>

SearchNext ==
  \/ \E q \in Queries : Open(q)
  \/ LoadMore \/ TakeHeld \/ SearchAnswers \/ SearchFails \/ SearchTimesOut
  \/ \E failing \in SUBSET Targets : FanOutAnswers(failing)
  \/ FanOutFails \/ OtherSearchFails \/ Tick

SearchSpec == SearchInit /\ [][SearchNext]_searchVars

----------------------------------------------------------------------------

\* Every variable has its type.
SearchTypeOK ==
  /\ down \in Nat
  /\ held \in [Queries -> [Page -> Nat]]
  /\ query \in Queries
  /\ lastPage \in Nat /\ got \subseteq Row /\ hasMore \in BOOLEAN
  /\ call \in Call
  /\ sources \subseteq {"search", "fanout"} /\ mixed \in BOOLEAN
  /\ lost \subseteq Row

\* Load More is honest both ways.  A list that says it has no more has shown every
\* match, but for those the transports leave out by design, although a page may come
\* from the fan-out and later ones from the search again: "the Load More row is
\* offered exactly while matches remain" (search.go:21-23).  That is not so when the
\* fan-out continues a list the search began, since its pages are of other rows.  And
\* a list of the search offers it only while the index has rows that are not on screen,
\* so no key goes round in circles: "Honest Counts" (README.md:42).
LoadMoreIsHonest ==
  /\ lastPage > 0 /\ ~hasMore /\ ~mixed => Matching(query) \subseteq got \cup lost
  /\ hasMore /\ sources = {"search"} => ~(Indexed(query) \subseteq got)

\* "HasMore comes from the count the index reports, so the Load More row is offered
\* exactly while matches remain" (search.go:21-23): when the search gave the last page,
\* Load More is offered only while the index has rows that are not on screen, whoever
\* gave the pages before it.
OfferedWhileMatchesRemain ==
  hasMore /\ "search" \in sources /\ ~mixed => ~(Indexed(query) \subseteq got)
=============================================================================
