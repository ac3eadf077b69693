------------------------------- MODULE Details -------------------------------
(***************************************************************************)
(* The pull request screen (internal/ui/prdetails.go, prpanes.go): the     *)
(* sections its sub-tabs read, the requests that load them, and what the   *)
(* Comments sub-tab says while it has nothing to show.                     *)
(*                                                                         *)
(* Sections are requested one by one and answered in any order; an answer  *)
(* that comes while another route is on top goes to that route, which      *)
(* knows nothing of it.  There is one loading flag for all of them.        *)
(*                                                                         *)
(* Abstractions: of a list only whether the page it came in was full;      *)
(* cursors, scrolling and folded threads are left out, and so is p.err,    *)
(* which repeats the newest of `failed` for the checks pane.               *)
(* The screen stays on the stack: Routes closes screens, and Merging has   *)
(* the gate and the dialogs.                                               *)
(***************************************************************************)
EXTENDS Integers, Sequences, FiniteSets

CONSTANTS
  Lists,   \* the lists a discussion is put together from, in order
  Tab,     \* bound: the sub-tabs the user goes to
  MaxAsks  \* bound: keys, ticks and writes that move the screen

Conversation == {Lists[i] : i \in 1..Len(Lists)}
Section == {"detail", "runs", "checks", "commits", "files", "threads"} \cup Conversation
AllTabs == {"info", "commits", "files", "checks", "comments"}

ASSUME ListsAssumption ==
  /\ Lists \in Seq({"comments", "reviews", "reviewComments"})
  /\ Len(Lists) \in 1..3
ASSUME BoundAssumption == "info" \in Tab /\ Tab \subseteq AllTabs /\ MaxAsks \in Nat

VARIABLES
  tab,      \* the sub-tab on screen
  loaded,   \* sections that arrived since they were last dropped
  failed,   \* sections whose last answer was an error
  full,     \* lists of the discussion whose page on screen was full
  hasMore,  \* conversationHasMore: the pane says that it shows a part
  loading,  \* the screen waits
  covered,  \* another route is on top
  out,      \* requests out for each section
  missed,   \* history: another route was given an answer for this one
  asks      \* keys, ticks and writes so far

discussion == <<full, hasMore>>
requests == <<out, loading, missed, asks>>
vars == <<tab, loaded, failed, discussion, covered, requests>>

----------------------------------------------------------------------------

\* The sections a refresh drops.
ActiveSections(t) ==
  CASE t \in {"info", "checks"} -> {"detail", "checks"}
    [] t = "commits"  -> {"commits"}
    [] t = "files"    -> {"files"}
    [] t = "comments" -> Conversation \cup {"threads"}

\* loadTab, loadInfo: the sections a sub-tab asks for, given those that are in.
Missing(t, have) ==
  IF t \in {"info", "checks"}
  THEN {"detail"} \cup ({"checks", "runs"} \ have)
  ELSE ActiveSections(t) \ have

\* One request for each section; an empty batch leaves the flag alone.
Load(sections) ==
  /\ asks < MaxAsks /\ asks' = asks + 1
  /\ out' = [s \in Section |-> IF s \in sections THEN out[s] + 1 ELSE out[s]]
  /\ loading' = (loading \/ sections # {})
  /\ UNCHANGED missed

Init ==
  /\ tab = "info"
  /\ loaded = {} /\ failed = {}
  /\ full = {} /\ hasMore = FALSE
  /\ loading = TRUE /\ covered = FALSE
  /\ out = [s \in Section |-> IF s \in Missing("info", {}) THEN 1 ELSE 0]
  /\ missed = FALSE /\ asks = 0

----------------------------------------------------------------------------
(* Keys and ticks.                                                         *)

SwitchTab(t) ==
  /\ ~covered /\ t # tab
  /\ tab' = t
  /\ Load(Missing(t, loaded))
  /\ UNCHANGED <<loaded, failed, discussion, covered>>

\* Mutant: the sections are asked for before they are dropped.
RefreshLate ==
  /\ ~covered
  /\ loaded' = loaded \ ActiveSections(tab)
  /\ failed' = failed \ ActiveSections(tab)
  /\ hasMore' = (hasMore /\ tab # "comments")
  /\ Load(Missing(tab, loaded))
  /\ UNCHANGED <<tab, full, covered>>

\* The lists stay on screen until their new pages are in.
Refresh ==
  /\ ~covered
  /\ loaded' = loaded \ ActiveSections(tab)
  /\ failed' = failed \ ActiveSections(tab)
  /\ hasMore' = (hasMore /\ tab # "comments")
  /\ Load(Missing(tab, loaded'))
  /\ UNCHANGED <<tab, full, covered>>

Poll ==
  /\ ~covered /\ ~loading
  /\ Load({"checks"})
  /\ UNCHANGED <<tab, loaded, failed, discussion, covered>>

\* A merge or a close went through.
Written ==
  /\ ~covered
  /\ Load({"detail"})
  /\ UNCHANGED <<tab, loaded, failed, discussion, covered>>

\* A commit, a run, help or the switcher over the screen, and back.
Cover ==
  /\ ~covered /\ covered' = TRUE
  /\ asks < MaxAsks /\ asks' = asks + 1
  /\ UNCHANGED <<tab, loaded, failed, discussion, out, loading, missed>>
Uncover ==
  /\ covered /\ covered' = FALSE
  /\ UNCHANGED <<tab, loaded, failed, discussion, requests>>

----------------------------------------------------------------------------
(* Answers.                                                                *)

Answered(s) == out[s] > 0 /\ out' = [out EXCEPT ![s] = @ - 1]

\* Mutants: the last page decides whether the discussion was cut, and a wait
\* that the section for the threads does not end.
CutByLast(s, more) == IF s \in Conversation THEN more ELSE hasMore
WaitsOn(s) == loading /\ s = "threads"

Fuller(s, more) == IF more THEN full \cup ({s} \cap Conversation) ELSE full \ {s}
Cut(s, more) == hasMore \/ (s \in Conversation /\ more)
StillLoading(s) == FALSE

\* The section, and whether there is more of it than its page.
Arrives(s, more) ==
  /\ ~covered /\ Answered(s)
  /\ loading' = StillLoading(s)
  /\ loaded' = loaded \cup {s}
  /\ failed' = failed \ {s}
  /\ full' = Fuller(s, more)
  /\ hasMore' = Cut(s, more)
  /\ UNCHANGED <<tab, covered, missed, asks>>

\* A query for the threads that fails is one that found none.
Fails(s) ==
  /\ ~covered /\ s # "threads" /\ Answered(s)
  /\ loading' = StillLoading(s)
  /\ failed' = failed \cup {s}
  /\ UNCHANGED <<tab, loaded, discussion, covered, missed, asks>>

Misses(s) ==
  /\ covered /\ Answered(s)
  /\ missed' = TRUE
  /\ UNCHANGED <<tab, loaded, failed, discussion, loading, covered, asks>>

Answer(s) == Fails(s) \/ Misses(s) \/ \E more \in BOOLEAN : Arrives(s, more)

\* Nothing is out and the bound is used up: the program waits for a key.
Idle == asks = MaxAsks /\ ~covered /\ (\A s \in Section : out[s] = 0) /\ UNCHANGED vars

Next ==
  \/ \E t \in Tab : SwitchTab(t)
  \/ Refresh \/ Poll \/ Written \/ Cover \/ Uncover
  \/ \E s \in Section : Answer(s)
  \/ Idle

Spec == Init /\ [][Next]_vars

\* Requests end: the transports bound each by a timeout.
FairSpec == Spec /\ \A s \in Section : WF_vars(Answer(s))

----------------------------------------------------------------------------
(* What the Comments sub-tab says.                                         *)

LoadMessage(s, empty) ==
  IF loading /\ s \notin loaded THEN "loading"
  ELSE IF s \notin loaded /\ s \in failed THEN "failed"
  ELSE empty

FirstMissing ==
  CHOOSE i \in 1..Len(Lists) : /\ Lists[i] \notin loaded
                               /\ \A j \in 1..i - 1 : Lists[j] \in loaded

ConversationMessage ==
  IF Conversation \subseteq loaded THEN "none" ELSE LoadMessage(Lists[FirstMissing], "loading")

----------------------------------------------------------------------------

\* Every variable has its type.
TypeOK ==
  /\ tab \in AllTabs
  /\ loaded \subseteq Section /\ failed \subseteq Section
  /\ full \subseteq Conversation
  /\ hasMore \in BOOLEAN /\ loading \in BOOLEAN /\ covered \in BOOLEAN /\ missed \in BOOLEAN
  /\ out \in [Section -> Nat] /\ asks \in 0..MaxAsks

\* A list that a refresh of the sub-tab dropped and that is not back: its new page is
\* on its way, has failed, or went to another route.
Refetching(s) == s \notin loaded /\ (out[s] > 0 \/ s \in failed \/ missed)

\* If a page of the discussion that is on screen was full, the pane says that it shows
\* a part (prdetails.go:209-212, spec.md:291), in whatever order pages come.  It does
\* not while the only full pages are old ones that a refresh is to replace: refresh
\* takes the note back at once and leaves the lists (prdetails.go:897-907), so the
\* note is missing until their new pages come, and for good if these fail (471-475).
CutIsSaid == hasMore \/ \A s \in full : Refetching(s)

\* Unless another route was given an answer, whatever the sub-tab on screen reads
\* has arrived, has failed or is on its way: no order of switching, refreshing,
\* polling and answers leaves a section that nobody asked for.
NothingIsForgotten ==
  ~missed => \A s \in ActiveSections(tab) \cup Missing(tab, loaded) :
               s \in loaded \cup failed \/ out[s] > 0

\* The Comments sub-tab says "Loading..." only while something is on its way, and
\* nothing of a list that failed is taken for a wait that never ends
\* (prpanes.go:396-399).
LoadingIsAWait ==
  tab = "comments" /\ ~missed /\ ConversationMessage = "loading"
    => \E s \in Section : out[s] > 0

\* What is on screen has been asked for, and what looks like a wait is one.
WaitsAreTrue == TypeOK /\ NothingIsForgotten /\ LoadingIsAWait

\* A screen that stays on top does not wait for ever (prdetails.go:465-467).
WaitsEnd == []~covered => (loading ~> ~loading)
=============================================================================
