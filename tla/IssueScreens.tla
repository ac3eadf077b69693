---------------------------- MODULE IssueScreens ----------------------------
(***************************************************************************)
(* The screens of an issue (internal/ui/issuedetails.go): its description, *)
(* and its comments above it, each with a request of its own.              *)
(*                                                                         *)
(* A screen asks as it comes on the stack, which is a message after the    *)
(* key.  A reply names the number of an issue, and reaches the screen on   *)
(* top alone; closing cancels a request, but not one answered already.     *)
(*                                                                         *)
(* Abstractions: a text is the number of its lines, and what GitHub says   *)
(* of an issue may change from one request to the next, in any way.  The   *)
(* Pop that a key sends is not told from the key (Routes has it).          *)
(***************************************************************************)
EXTENDS Numbers, SequencesExt

CONSTANTS
  Issue,
  NoIssue,
  Number,      \* the number of each issue in its repository
  MaxText,     \* bound: lines of one text
  Stride,      \* what the scroll keys of each kind of screen move by
  MaxScreens,  \* bound: screens above the lists and on their way there
  MaxAsked     \* bound: requests of one kind for one issue at once

Kind == {"details", "comments"}

ASSUME IssueAssumption == NoIssue \notin Issue
ASSUME TextAssumption  == MaxText \in Nat /\ MaxAsked \in Nat /\ MaxScreens \in Nat
ASSUME StrideAssumption == \A kind \in Kind : Stride[kind] \subseteq Int

VARIABLES
  screens,   \* the screens above the lists, the one on top last
  rising,    \* screens whose PushMsg is on its way
  wanted      \* how many requests of each kind are out for each issue

issueVars == <<screens, rising, wanted>>

\* of: the issue whose text is shown, if any was told; missed: a reply it may have
\* waited for went to another screen (history).
IssueScreen ==
  [kind : Kind, issue : Issue, of : Issue \cup {NoIssue}, text : 0..MaxText,
   scroll : 0..MaxText, focused : BOOLEAN, loading : BOOLEAN, failed : BOOLEAN,
   missed : BOOLEAN]
\* Help, or the switcher.
OtherScreen == [kind |-> "other"]
IssueRequest == [kind : Kind, issue : Issue]

\* newIssueDetails, newIssueComments
FreshScreen(kind, i, of, text) ==
  [kind |-> kind, issue |-> i, of |-> of, text |-> text, scroll |-> 0, focused |-> TRUE,
   loading |-> TRUE, failed |-> FALSE, missed |-> FALSE]

OnTop(kinds) == screens # <<>> /\ Last(screens).kind \in kinds
TopBecomes(s) == screens' = [screens EXCEPT ![Len(screens)] = s]
RoomAbove == Len(screens) + Len(rising) < MaxScreens

AskFor(s) ==
  LET q == [kind |-> s.kind, issue |-> s.issue]
  IN wanted[q] < MaxAsked /\ wanted' = [wanted EXCEPT ![q] = @ + 1]

IssuesInit ==
  /\ screens = <<>> /\ rising = <<>>
  /\ wanted = [q \in IssueRequest |-> 0]

----------------------------------------------------------------------------
(* Screens come and go.                                                    *)

\* From the list, whose row may have the description (the REST fallback) or not.
OpenIssue(i, text) ==
  /\ screens = <<>> /\ RoomAbove
  /\ rising' = Append(rising, FreshScreen("details", i, i, text))
  /\ UNCHANGED <<screens, wanted>>

OpenComments ==
  /\ OnTop({"details"}) /\ RoomAbove
  /\ rising' = Append(rising, FreshScreen("comments", Last(screens).issue, NoIssue, 0))
  /\ UNCHANGED <<screens, wanted>>

ScreenArrives(i) ==
  /\ screens' = Append(screens, rising[i])
  /\ rising' = RemoveAt(rising, i)
  /\ AskFor(rising[i])

OpenOther ==
  /\ ~OnTop({"other"}) /\ RoomAbove
  /\ screens' = Append(screens, OtherScreen)
  /\ UNCHANGED <<rising, wanted>>

LeaveScreen ==
  /\ screens # <<>>
  /\ screens' = Front(screens)
  /\ UNCHANGED <<rising, wanted>>

\* What leaves the switcher for the lists.
LeaveAll ==
  /\ OnTop({"other"})
  /\ screens' = <<>>
  /\ UNCHANGED <<rising, wanted>>

----------------------------------------------------------------------------
(* Keys and ticks.                                                         *)

\* The sidebar of the description does not scroll.
ScrollText(delta) ==
  /\ OnTop(Kind) /\ Last(screens).focused
  /\ delta \in Stride[Last(screens).kind]
  /\ TopBecomes([Last(screens) EXCEPT
                   !.scroll = ClampOffset(@ + delta, Last(screens).text)])
  /\ UNCHANGED <<rising, wanted>>

ToggleSidebar ==
  /\ OnTop({"details"})
  /\ TopBecomes([Last(screens) EXCEPT !.focused = ~@])
  /\ UNCHANGED <<rising, wanted>>

LoadScreen ==
  /\ TopBecomes([Last(screens) EXCEPT !.loading = TRUE, !.missed = FALSE])
  /\ AskFor(Last(screens))
  /\ UNCHANGED rising

RefreshIssue == OnTop(Kind) /\ LoadScreen
PollIssue == OnTop({"details"}) /\ ~Last(screens).loading /\ LoadScreen

----------------------------------------------------------------------------
(* Replies.                                                                *)

\* Mutant: whatever the issue.
IsForAny(q, s) == s.kind = q.kind

IsFor(q, s) == s.kind = q.kind /\ Number[s.issue] = Number[q.issue]

\* What a reply leaves of the screens: the one on top takes it, and those below that
\* may have asked for it miss it.
Delivered(q, taken) ==
  [k \in DOMAIN screens |->
     IF ~IsFor(q, screens[k]) THEN screens[k]
     ELSE IF k = Len(screens) THEN taken
     ELSE [screens[k] EXCEPT !.missed = screens[k].loading]]

Settle(q, taken) ==
  /\ wanted[q] > 0 /\ wanted' = [wanted EXCEPT ![q] = @ - 1]
  /\ screens' = Delivered(q, taken)
  /\ UNCHANGED rising

TellScreen(s, q, text) ==
  [s EXCEPT !.loading = FALSE, !.missed = FALSE, !.failed = FALSE, !.of = q.issue,
            !.text = text, !.scroll = ClampOffset(@, text)]

IssueArrives(q, text) ==
  Settle(q, IF OnTop(Kind) THEN TellScreen(Last(screens), q, text) ELSE OtherScreen)

FailScreen(s) == [s EXCEPT !.loading = FALSE, !.missed = FALSE, !.failed = TRUE]

IssueFails(q) ==
  Settle(q, IF OnTop(Kind) THEN FailScreen(Last(screens)) ELSE OtherScreen)

IssuesNext ==
  \/ (\E i \in Issue, text \in 0..MaxText : OpenIssue(i, text)) \/ OpenComments
  \/ (\E i \in DOMAIN rising : ScreenArrives(i)) \/ OpenOther \/ LeaveScreen \/ LeaveAll
  \/ (\E delta \in UNION {Stride[kind] : kind \in Kind} : ScrollText(delta))
  \/ ToggleSidebar \/ RefreshIssue \/ PollIssue
  \/ \E q \in IssueRequest :
       IssueFails(q) \/ \E text \in 0..MaxText : IssueArrives(q, text)

IssuesSpec == IssuesInit /\ [][IssuesNext]_issueVars

----------------------------------------------------------------------------

\* Every variable has its type.
IssuesTypeOK ==
  /\ screens \in Seq(IssueScreen \cup {OtherScreen})
  /\ rising \in Seq(IssueScreen)
  /\ wanted \in [IssueRequest -> 0..MaxAsked]

\* What an issue screen says, in four parts.  The text is of an issue of the number
\* in its title, however late the replies for other screens come ("A reply for an
\* issue the user has already left is dropped").  "No comments" is said only once a
\* reply said so.  "Loading" is said only while a request of the screen is out, or
\* after its reply went to another screen.  And the scroll stays inside the text.
SaysWhatItWasTold(s) ==
  /\ s.of # NoIssue => Number[s.of] = Number[s.issue]
  /\ s.of = NoIssue => s.loading \/ s.failed
  /\ s.loading /\ ~s.missed => \E q \in IssueRequest : IsFor(q, s) /\ wanted[q] > 0
  /\ s.scroll <= Larger(s.text - 1, 0)
IssueScreensAreHonest ==
  \A k \in DOMAIN screens : screens[k].kind \in Kind => SaysWhatItWasTold(screens[k])
=============================================================================
