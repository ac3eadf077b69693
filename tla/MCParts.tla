------------------------------- MODULE MCParts -------------------------------
(***************************************************************************)
(* The values that the parts are checked with.                             *)
(***************************************************************************)
EXTENDS Parts

CONSTANTS r1, r2, r3, o1, ja, jb, ra, rb, rc, c1, v1, draft, ia, ib

\* Filters
MCReposOf == [o \in Owner |-> {"r1"}]

\* Layout: a name that takes what is left, and columns that may go.
Col(w, m, f) == [width |-> w, min |-> m, flex |-> f]
MCTables ==
  {<<Col(a, 2, TRUE), Col(b, c, FALSE), Col(3, 0, FALSE), Col(2, d, FALSE)>> :
     a \in {2, 4}, b \in {1, 3}, c \in {0, 2}, d \in {0, 2}}
  \cup {<<>>, <<Col(0, 0, TRUE), Col(-1, 3, FALSE)>>}

MCWidths == {-1, 0, 3, 6, 9, 12, 13, 14, 15, 18, 19, 20, 25}

\* Logs: the first of two steps passed; the other job lists no step.
MCSteps == [j \in Job |-> IF j = ja THEN 2 ELSE 0]
MCFailedStep == [j \in Job |-> IF j = ja THEN 1 ELSE -1]

\* Segments
S(name, skipped, from, to) == [name |-> name, skipped |-> skipped, from |-> from, to |-> to]
MCJobSteps ==
  {<<S("checkout", FALSE, 1, 2), S("build", TRUE, 2, 2), S("test", FALSE, 2, 5),
     S("build", FALSE, 5, Never)>>,
   <<S("build", FALSE, 1, 2), S("build", FALSE, 2, 3), S("post build", FALSE, 3, 4),
     S("post build", FALSE, Never, Never)>>,
   <<S("build", TRUE, 1, 1), S("test", TRUE, 1, 1)>>,
   <<>>}
MCWordsOf ==
  [x \in Title \cup StepName |->
    CASE x = "run tests" -> {"run", "tests"}
      [] x = "post build" -> {"post", "build"}
      [] x = "build all" -> {"build", "all"}
      [] OTHER -> {x}]
MCLength ==
  [w \in UNION {MCWordsOf[x] : x \in Title \cup StepName} |->
    CASE w \in {"run", "all"} -> 3
      [] w \in {"test", "post"} -> 4
      [] w = "checkout" -> 8
      [] OTHER -> 5]
MCSingular == [w \in DOMAIN MCLength |-> IF w = "tests" THEN "test" ELSE w]
MCContained ==
  {<<"run tests", "test">>, <<"build all", "build">>, <<"post build", "post build">>}

\* Search: six rows.  A repository with more than a page of them, one with a single
\* row, and one that the fan-out does not reach; the login filter leaves some out of
\* each page.
MCRepoOf == [r \in 1..6 |-> CASE r \in {1, 2, 4, 6} -> ra [] r = 3 -> rb [] r = 5 -> rc]
\* ... and three repositories, each with a page of rows.
MCRepoOfPairs == [r \in 1..6 |-> <<ra, rb, rc>>[(r + 1) \div 2]]
MCMine == {2, 3, 4, 6}
MCQueries ==
  {WholeScope, [repo |-> NoRepo, mine |-> TRUE], [repo |-> ra, mine |-> FALSE]}

\* Conversation: an answer to an answer, one to a remark of another page, and a draft.
MCAnswerTo == [r \in Remark |-> CASE r = 2 -> 1 [] r = 3 -> 2 [] r = 5 -> 9 [] OTHER -> 0]
MCCarriedBy == [r \in Remark |-> IF r = 4 THEN draft ELSE v1]
MCWrittenAt ==
  [x \in Comment \cup Review \cup Remark |->
    CASE x = c1 -> 7 [] x = v1 -> 6 [] x = draft -> 9 [] OTHER -> x]
MCRowsOf == [x \in Comment \cup Review \cup Remark |-> 1]

\* Reads: a call that leaves everything out, and those that differ from it in one
\* parameter; 1 is what the store puts for an argument left out.
MCArgsOf ==
  [r \in DOMAIN KeyedBy |->
    LET none == [p \in Asks(r) |-> 0]
    IN  {none} \cup {[none EXCEPT ![p] = 2] : p \in Asks(r)}
          \cup {[none EXCEPT ![p] = 1] : p \in Asks(r) \cap {"page", "state"}}]
Check(n, t, i) == [name |-> n, at |-> t, id |-> i]
MCCheckLists ==
  {<<Check("a", t, 1), Check("b", 1, 2), Check("a", u, 3)>> : t, u \in {0, 1}}
    \cup {<<Check("b", 1, 3), Check("a", 0, 2), Check("b", 1, 1)>>, <<>>}

\* IssueScreens: two issues, and another one with the number of the first if there is.
MCNumber == [i \in Issue |-> IF i = ib THEN 2 ELSE 1]
MCStride == [kind \in Kind |-> IF kind = "details" THEN {-1, 1} ELSE {-2, 2}]
=============================================================================
