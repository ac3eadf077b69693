----------------------------- MODULE Conversation -----------------------------
(***************************************************************************)
(* The Comments sub-tab of a pull request (internal/ui/conversation.go,    *)
(* prdetails.go, prpanes.go): how the discussion is put together from the  *)
(* pages it arrives in, and its pane, whose resolved threads fold.         *)
(*                                                                         *)
(* The rendered lines are cached, and the buttons of the folding threads   *)
(* are recorded as they are rendered.  Details has the requests; here any  *)
(* page may arrive at any time.                                            *)
(*                                                                         *)
(* Abstractions: of what was written its number, the review that carries   *)
(* it, its time (all different) and its rows.  The pane keeps its size.    *)
(***************************************************************************)
EXTENDS Numbers, SequencesExt

CONSTANTS
  Comment,      \* comments of the conversation
  Review,
  Remark,       \* inline comments, as their numbers
  AnswerTo,     \* the number each remark answers, or 0
  CarriedBy,    \* the review that posted each remark
  Pending,      \* reviews that were not submitted
  WrittenAt,    \* when each of them was written
  RowsOf,       \* the rows of each of them
  Pages,        \* the pages of remarks that may arrive
  Reported,     \* what the remarks of the resolved threads may be
  Pane,         \* commentViewport
  DiffStep

ASSUME RemarkAssumption ==
  /\ Remark \subseteq Nat \ {0} /\ AnswerTo \in [Remark -> Nat]
  /\ CarriedBy \in [Remark -> Review] /\ Pending \subseteq Review
  /\ Pages \subseteq SUBSET Remark /\ Reported \subseteq SUBSET Remark
ASSUME RowsAssumption ==
  /\ \A x \in Comment \cup Review \cup Remark : WrittenAt[x] \in Nat \ {0} /\ RowsOf[x] \in Nat
  /\ Pane \in Nat \ {0} /\ DiffStep \in Nat \ {0}
\* Times are places in a stable sort: what was written in the same second keeps the
\* order of its page.
ASSUME TimesDiffer ==
  \A x, y \in Comment \cup Review \cup Remark : WrittenAt[x] = WrittenAt[y] => x = y
ASSUME FiniteAssumption == IsFiniteSet(Comment) /\ IsFiniteSet(Review) /\ IsFiniteSet(Remark)

SeparatorRows == 3
NoteRows == 2

VARIABLES
  data,       \* what is known of the discussion, and how it is to be shown
  stale,      \* convVersion is ahead of the rendered lines
  rendered,   \* how many rows were rendered, and the buttons among them
  focus,      \* the button with the focus, counted from 1, or 0
  scroll      \* the first row in sight, counted from 0

conversationVars == <<data, stale, rendered, focus, scroll>>

\* comments, reviews, remarks: what the pages hold; partial: one came back full;
\* resolved: the remarks of the threads reported as resolved; expanded: the threads
\* the reader has opened, by their first remarks.
Data ==
  [comments : SUBSET Comment, reviews : SUBSET Review, remarks : SUBSET Remark,
   partial : BOOLEAN, resolved : SUBSET Remark, expanded : SUBSET Remark]

----------------------------------------------------------------------------
(* newConversation, groupThreads: who is under whom.                       *)

\* A draft goes with the review that carries it, where that is on the page.
Submitted(d) == {r \in d.remarks : CarriedBy[r] \notin Pending \cap d.reviews}

\* Mutant: what the remark answers, which may be an answer itself.
ParentOf(r, page) == IF AnswerTo[r] = 0 THEN r ELSE AnswerTo[r]

\* threadRoot walks from an answer to what it answers, and no further than there are
\* remarks; one that is not on the page ends the walk.
Above(r, page) == IF AnswerTo[r] \in page THEN AnswerTo[r] ELSE r
Walked(r, page) ==
  LET walk[k \in 0..Cardinality(page)] == IF k = 0 THEN r ELSE Above(walk[k - 1], page)
  IN walk
RootOf(r, page) ==
  LET end == Walked(r, page)[Cardinality(page)]
  IN IF AnswerTo[end] = 0 \/ AnswerTo[end] \in page THEN end ELSE AnswerTo[end]

\* A thread is the set of its remarks.
Threads(d) ==
  LET page == Submitted(d)
      roots == [r \in page |-> RootOf(r, page)]
  IN {{r \in page : roots[r] = roots[s]} : s \in page}
Earliest(thread) == CHOOSE r \in thread : \A s \in thread : WrittenAt[r] <= WrittenAt[s]
Started(thread) ==
  LET root == RootOf(Earliest(thread), thread)
  IN IF root \in thread THEN root ELSE Earliest(thread)

IsResolved(d, thread) == thread \cap d.resolved # {}
IsFolded(d, thread) == IsResolved(d, thread) /\ Earliest(thread) \notin d.expanded

----------------------------------------------------------------------------
(* conversationLinesOf: the blocks of the pane, and where they land.       *)

\* at: the time of the entry a block belongs to; then: its place in the entry, which
\* is its own time unless it is the heading.
Block(at, then, rows, thread, button) ==
  [at |-> at, then |-> then, rows |-> rows, thread |-> thread, button |-> button]

ThreadRows(d, thread) ==
  IF IsFolded(d, thread) THEN 2 ELSE 3 + SumFunctionOnSet(RowsOf, thread)
ThreadBlock(d, thread) ==
  LET first == Earliest(thread)
      review == CarriedBy[Started(thread)]
  IN IF review \in d.reviews
     THEN Block(WrittenAt[review], WrittenAt[first], ThreadRows(d, thread), first,
                IsResolved(d, thread))
     ELSE Block(WrittenAt[first], 0, ThreadRows(d, thread), first, IsResolved(d, thread))
Blocks(d) ==
  {Block(WrittenAt[x], 0, RowsOf[x], 0, FALSE) : x \in d.comments \cup (d.reviews \ Pending)}
    \cup {ThreadBlock(d, thread) : thread \in Threads(d)}

RowsOfBlocks(blocks) == [b \in blocks |-> b.rows]

\* A rule stands between two entries.
Before(a, b) == a.at < b.at \/ (a.at = b.at /\ a.then < b.then)
StartOf(b, blocks) ==
  LET earlier == {x \in blocks : Before(x, b)}
      entries == {x.at : x \in earlier \cup {b}}
  IN SumFunctionOnSet(RowsOfBlocks(blocks), earlier)
       + SeparatorRows * (Cardinality(entries) - 1)

InOrder(buttons) ==
  [i \in 1..Cardinality(buttons) |->
    CHOOSE b \in buttons : Rank(b.row, {x.row : x \in buttons}) = i]
Button(b, blocks) == [thread |-> b.thread, row |-> StartOf(b, blocks) + 1]
Drawn(d) ==
  LET blocks == Blocks(d)
  IN [rows |-> SumFunctionOnSet(RowsOfBlocks(blocks), blocks)
                 + SeparatorRows * Larger(Cardinality({b.at : b \in blocks}) - 1, 0)
                 + (IF d.partial THEN NoteRows ELSE 0),
      buttons |-> InOrder({Button(b, blocks) : b \in {x \in blocks : x.button}})]

----------------------------------------------------------------------------

\* clampThreadFocus
ClampFocus(button, n) == IF n = 0 THEN 0 ELSE Smaller(Larger(button, 1), n)

\* revealThread: the button with the focus, brought into sight.
Revealed(button, offset, page) ==
  LET row == page.buttons[button].row
  IN IF button = 0 THEN offset
     ELSE ClampOffset(CASE row < offset -> row
                        [] row >= offset + Pane -> row - Pane + 1
                        [] OTHER -> offset,
                      page.rows)

\* commentLines renders what has changed since it last did.
Draws(changed) ==
  /\ rendered' = IF changed \/ stale THEN Drawn(data') ELSE rendered
  /\ stale' = FALSE

\* clamp, and what renders before it does.
Clamps(changed, button, offset) ==
  /\ Draws(changed)
  /\ focus' = ClampFocus(button, Len(rendered'.buttons))
  /\ scroll' = ClampOffset(offset, rendered'.rows)

\* The same, with the button in sight.
Reveals(changed, button, offset) ==
  /\ Draws(changed)
  /\ focus' = ClampFocus(button, Len(rendered'.buttons))
  /\ scroll' = Revealed(focus', ClampOffset(offset, rendered'.rows), rendered')

ConversationInit ==
  /\ data = [comments |-> {}, reviews |-> {}, remarks |-> {}, partial |-> FALSE,
             resolved |-> {}, expanded |-> {}]
  /\ stale = FALSE /\ rendered = [rows |-> 0, buttons |-> <<>>]
  /\ focus = 0 /\ scroll = 0

CommentsArrive(page, more) ==
  /\ data' = [data EXCEPT !.comments = page, !.partial = @ \/ more]
  /\ Clamps(TRUE, focus, scroll)

ReviewsArrive(page, more) ==
  /\ data' = [data EXCEPT !.reviews = page, !.partial = @ \/ more]
  /\ Clamps(TRUE, focus, scroll)

RemarksArrive(page, more) ==
  /\ data' = [data EXCEPT !.remarks = page, !.partial = @ \/ more]
  /\ Clamps(TRUE, focus, scroll)

\* Mutant: the lines are not rendered again.
ThreadsArriveQuietly(ids) ==
  /\ data' = [data EXCEPT !.resolved = ids]
  /\ Clamps(FALSE, focus, scroll)

\* applyThreads: a query that failed resolves nothing.
ThreadsArrive(ids) ==
  /\ data' = [data EXCEPT !.resolved = ids]
  /\ Clamps(TRUE, focus, scroll)

\* refresh: the pages stay until the new ones come.
RefreshConversation ==
  /\ data' = [data EXCEPT !.partial = FALSE] /\ stale' = TRUE
  /\ UNCHANGED <<rendered, focus, scroll>>

\* View.
Draw ==
  /\ stale /\ UNCHANGED <<data, focus, scroll>>
  /\ Draws(FALSE)

\* moveThreadFocus: no button further in that direction.
AtEnd(delta) ==
  LET n == Len(rendered.buttons)
      at == ClampFocus(focus, n)
  IN n = 0 \/ (delta > 0 /\ at >= n) \/ (delta < 0 /\ at <= 1)

Arrow(delta) ==
  /\ UNCHANGED data
  /\ LET at == ClampFocus(focus, Len(rendered.buttons))
     IN IF AtEnd(delta) THEN Reveals(FALSE, at, scroll + delta)
        ELSE Reveals(FALSE, at + delta, scroll)

ToggleThread ==
  /\ focus \in 1..Len(rendered.buttons)
  /\ LET thread == rendered.buttons[focus].thread
     IN data' = [data EXCEPT !.expanded = IF thread \in @ THEN @ \ {thread} ELSE @ \cup {thread}]
  /\ Reveals(TRUE, focus, scroll)

ScrollConversation(delta) ==
  /\ UNCHANGED data
  /\ Clamps(FALSE, focus, scroll + delta * DiffStep)

ConversationNext ==
  \/ \E more \in BOOLEAN :
       \/ \E page \in SUBSET Comment : CommentsArrive(page, more)
       \/ \E page \in SUBSET Review : ReviewsArrive(page, more)
       \/ \E page \in Pages : RemarksArrive(page, more)
  \/ \E ids \in Reported : ThreadsArrive(ids)
  \/ RefreshConversation \/ Draw \/ ToggleThread
  \/ \E delta \in {-1, 1} : Arrow(delta) \/ ScrollConversation(delta)

ConversationSpec == ConversationInit /\ [][ConversationNext]_conversationVars

----------------------------------------------------------------------------

\* Every variable has its type, and the focus is on a button.
ConversationTypeOK ==
  /\ data \in Data /\ stale \in BOOLEAN
  /\ rendered.rows \in Nat /\ focus \in 0..Len(rendered.buttons)
  /\ scroll \in Nat

\* What is on screen is the discussion as it is known, and the button a key acts on
\* is where that thread is drawn, whichever page came last, however it was cut, and
\* whatever was folded since: the lines are rendered again whenever something they
\* are made of has changed.
ButtonsAreWhereTheyAreDrawn ==
  /\ ~stale => rendered = Drawn(data)
  /\ focus # 0 => \E thread \in Threads(data) :
       Earliest(thread) = rendered.buttons[focus].thread /\ IsResolved(data, thread)

\* Remarks that answer one another are one exchange, also through other answers and
\* through one that is not on the page: "an exchange stays together even when what it
\* started from is missing" (conversation.go:256-258).
AnswersStayTogether ==
  \A r, s \in Submitted(data) :
    AnswerTo[s] = r \/ (AnswerTo[r] = AnswerTo[s] /\ AnswerTo[r] # 0)
      => \E thread \in Threads(data) : r \in thread /\ s \in thread

\* "Once the focus has reached an end of the list [...] the arrows scroll the pane"
\* (prdetails.go:627-629): while there are rows below the pane, Down shows more of
\* them.
DownScrollsAtTheEnd ==
  [][Arrow(1) /\ AtEnd(1) /\ ~stale /\ scroll + Pane < rendered.rows
       => scroll' > scroll]_conversationVars
=============================================================================
