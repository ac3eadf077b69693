-------------------------------- MODULE Keys --------------------------------
(***************************************************************************)
(* The keyboard: the table of bindings (internal/keymap), what the root    *)
(* model does with a key (Update, handleKey, applyAction), what an open    *)
(* dialog does with it (internal/overlay), and the keys the footer offers. *)
(*                                                                         *)
(* Dialogs open and close by messages, which arrive in any order.  A       *)
(* binding is its action and its keys; its wording is left out.  Which     *)
(* route is on top is Routes' business: here it may change at any time.    *)
(***************************************************************************)
EXTENDS Naturals, Overlay

CONSTANT MaxModals   \* bound: open dialogs and messages to them at once

B(action, keys) == [action |-> action, keys |-> keys]

----------------------------------------------------------------------------
(* The table.                                                              *)

GlobalKeys == {B("help", {"?"}), B("switch-context", {"o"}), B("quit", {"q", "ctrl+c"})}

Cursor == {B("down", {"j", "down"}), B("up", {"k", "up"})}
Lists == Cursor \cup
  {B("open", {"enter"}), B("refresh", {"r", "ctrl+r"}), B("filter-type", {"f"}),
   B("clear-filters", {"x"}), B("open-browser", {"w"}),
   B("next-tab", {"tab"}), B("prev-tab", {"shift+tab"})}

\* MainWorkflows, MainPRs and MainIssues.
MainKeys ==
  [workflows |-> Lists \cup {B("approve", {"a"}), B("filter-mine", {"m"})},
   prs |-> Lists \cup {B("cycle-state", {"s"}), B("filter-author", {"a"}),
                       B("filter-assignee", {"i"}), B("filter-reviewer", {"v"})},
   issues |-> Lists \cup {B("cycle-state", {"s"}), B("filter-author", {"a"}),
                          B("filter-assignee", {"i"})}]

Back == {B("back", {"esc", "backspace"})}
RefreshKeys == {B("refresh", {"r", "ctrl+r"})}
Scroll == {B("scroll-up", {"u"}), B("scroll-down", {"d"})}
ScrollPages == {B("scroll-up", {"u", "pgup"}), B("scroll-down", {"d", "pgdown"})}
Browser == {B("open-browser", {"w"})}

\* Jobs and Logs.
RunKeys ==
  [jobs |-> Cursor \cup Back \cup RefreshKeys \cup
     {B("open", {"enter"}), B("approve", {"a"}), B("open-browser", {"w", "W"}),
      B("open-run-browser", {"v", "V"}), B("prev-attempt", {"["}), B("next-attempt", {"]"})},
   logs |-> Back \cup RefreshKeys \cup ScrollPages \cup
     {B("next-step", {"j", "down"}), B("prev-step", {"k", "up"}), B("open-browser", {"w", "W"})}]

\* The tabs of a pull request, less the one that is shown.
Tabs(shown) == {b \in {B("tab-info", {"1"}), B("commits", {"2"}), B("diff", {"3"}),
                       B("tab-checks", {"4"}), B("comments", {"5"})} : b.action # shown}

\* PRDetails, PRCommits, CommitDetails, PRDiff and PRComments.
PRKeys ==
  [details |-> Back \cup Cursor \cup Scroll \cup Browser \cup RefreshKeys \cup
     {B("tab-info", {"1"}), B("toggle-focus", {"tab", "shift+tab"}), B("open", {"enter"}),
      B("merge", {"m"}), B("comments", {"5", "c"}), B("close-pr", {"C"}),
      B("commits", {"2", "v"}), B("diff", {"3", "D"}), B("tab-checks", {"4"})},
   commits |-> Back \cup Tabs("commits") \cup Cursor \cup {B("open", {"enter"})},
   commit |-> Back \cup Cursor \cup Scroll \cup Browser,
   diff |-> Back \cup Tabs("diff") \cup Cursor \cup Scroll \cup Browser,
   comments |-> Back \cup Tabs("comments") \cup Cursor \cup RefreshKeys \cup ScrollPages \cup
     {B("open", {"enter"})}]

\* IssueDetails and IssueComments.
IssueKeys ==
  [details |-> Back \cup Cursor \cup Scroll \cup Browser \cup RefreshKeys \cup
     {B("toggle-focus", {"tab", "shift+tab"}), B("comments", {"c"})},
   comments |-> Back \cup Cursor \cup RefreshKeys \cup ScrollPages]

Esc == {B("back", {"esc"})}
EscOrCancel == {B("back", {"esc", "c", "C"})}
Author == {B("filter-author", {"a", "A"}), B("filter-assignee", {"i", "I"})}
\* Mutant: Enter says yes too.
YesNoEnter == {B("confirm", {"y", "Y", "enter"}), B("back", {"n", "N", "esc"})}
YesNo == {B("confirm", {"y", "Y"}), B("back", {"n", "N", "esc"})}

\* Switcher and Help, which are routes.
PanelKeys ==
  [switcher |-> Cursor \cup Esc \cup {B("select", {"enter"})},
   help |-> Cursor \cup {B("back", {"esc", "?"})}]

\* The dialogs.
ModalKeys ==
  [filterType |-> Esc \cup {B("filter-by-user", {"u", "U"}), B("filter-by-repo", {"r", "R"})},
   repoSelect |-> Esc \cup Cursor \cup {B("select", {"enter"})},
   userInput |-> Esc \cup {B("submit", {"enter"})},
   prFilterType |-> EscOrCancel \cup Author \cup {B("filter-reviewer", {"r", "R"})},
   issueFilterType |-> EscOrCancel \cup Author,
   mergeMethod |-> EscOrCancel \cup
     {B("merge-squash", {"s", "S"}), B("merge-merge", {"m", "M"}), B("merge-rebase", {"r", "R"}),
      B("merge-cycle-default", {"d", "D"}), B("submit", {"enter"})},
   mergeConfirm |-> YesNo, closeConfirm |-> YesNo,
   approveRun |-> {B("confirm", {"y", "Y", "enter"}), B("open-browser", {"w", "W"}),
                   B("back", {"n", "N", "esc"})}]

Modal == DOMAIN ModalKeys
RouteKeys ==
  [s \in {"workflows", "prs", "issues", "jobs", "logs", "pr", "pr.commits", "pr.commit",
          "pr.diff", "pr.comments", "issue", "issue.comments", "switcher", "help"} |->
    CASE s \in DOMAIN MainKeys -> MainKeys[s]
      [] s \in DOMAIN RunKeys -> RunKeys[s]
      [] s \in DOMAIN PanelKeys -> PanelKeys[s]
      [] s = "pr" -> PRKeys.details
      [] s = "pr.commits" -> PRKeys.commits
      [] s = "pr.commit" -> PRKeys.commit
      [] s = "pr.diff" -> PRKeys.diff
      [] s = "pr.comments" -> PRKeys.comments
      [] s = "issue" -> IssueKeys.details
      [] s = "issue.comments" -> IssueKeys.comments]
RouteScope == DOMAIN RouteKeys

KeysOf(bindings) == UNION {b.keys : b \in bindings}
CtrlKeys == {"ctrl+c", "ctrl+r"}
Unbound == "z"
Key == {Unbound} \cup KeysOf(GlobalKeys)
         \cup UNION {KeysOf(RouteKeys[s]) : s \in RouteScope}
         \cup UNION {KeysOf(ModalKeys[s]) : s \in Modal}

\* Lookup: the action of a key in a scope, or "none".
Lookup(bindings, key) ==
  IF key \in KeysOf(bindings) THEN (CHOOSE b \in bindings : key \in b.keys).action ELSE "none"

----------------------------------------------------------------------------
(* What a route does with an action: the cases of its Act.                 *)

ListActions == {"down", "up", "open", "refresh", "filter-type", "clear-filters", "open-browser",
                "next-tab", "prev-tab"}
RunsActs == ListActions \cup {"filter-mine", "approve"}
PRsActs == ListActions \cup {"cycle-state", "filter-author", "filter-assignee", "filter-reviewer"}
IssuesActs == ListActions \cup {"cycle-state", "filter-author", "filter-assignee"}
JobsActs == {"down", "up", "open", "refresh", "back", "approve", "open-browser",
             "open-run-browser", "next-attempt", "prev-attempt"}
LogsActs == {"back", "refresh", "next-step", "prev-step", "scroll-up", "scroll-down",
             "open-browser"}
PRActs == {"back", "tab-info", "commits", "diff", "tab-checks", "comments", "toggle-focus",
           "down", "up", "scroll-up", "scroll-down", "open", "open-browser", "merge", "close-pr",
           "refresh"}
CommitActs == {"back", "down", "up", "scroll-up", "scroll-down", "open-browser"}
IssueActs == {"back", "toggle-focus", "down", "up", "scroll-up", "scroll-down", "open-browser",
              "comments", "refresh"}
ThreadActs == {"back", "refresh", "down", "up", "scroll-up", "scroll-down"}
SwitcherActs == {"down", "up", "select", "back"}
HelpActs == {"down", "up"}

Acts(s) ==
  CASE s = "workflows" -> RunsActs
    [] s = "prs" -> PRsActs
    [] s = "issues" -> IssuesActs
    [] s = "jobs" -> JobsActs
    [] s = "logs" -> LogsActs
    [] s \in {"pr", "pr.commits", "pr.diff", "pr.comments"} -> PRActs
    [] s = "pr.commit" -> CommitActs
    [] s = "issue" -> IssueActs
    [] s = "issue.comments" -> ThreadActs
    [] s = "switcher" -> SwitcherActs
    [] s = "help" -> HelpActs

\* The actions a route's Available may keep out of the footer.
Gated(s) ==
  CASE s \in {"workflows", "jobs"} -> {"approve"}
    [] s \in {"pr", "pr.commits", "pr.diff", "pr.comments"} -> {"merge", "close-pr"}
    [] OTHER -> {}

----------------------------------------------------------------------------

VARIABLES
  stage,      \* "loading", "error" or "ready"
  top,        \* the scope of the route on screen
  modals,     \* the open dialogs, the top one last
  sent,       \* messages to the dialogs
  confirmed   \* history: what the last key has confirmed, and how

keyVars == <<stage, top, modals, sent, confirmed>>

\* A dialog, the key that led to it and the list it was opened over.
Opened(scope, key, from) == [scope |-> scope, key |-> key, from |-> from]

Does(by, action) == [by |-> by, action |-> action]
Nothing == [key |-> Unbound]

TopModal == Last(modals)
TakesText == modals # <<>> /\ TopModal.scope = "userInput"

KeysInit ==
  /\ stage = "loading" /\ top = "workflows"
  /\ modals = <<>> /\ sent = <<>> /\ confirmed = Nothing

----------------------------------------------------------------------------
(* Dispatch.                                                               *)

\* Quit works from every screen and behind every dialog, but a letter typed into a
\* text box is a letter.
Quits(key) == Lookup(GlobalKeys, key) = "quit" /\ (~TakesText \/ key \in CtrlKeys)

\* resolve: the route comes before the global keys.
Resolve(key) ==
  IF key \in KeysOf(RouteKeys[top]) THEN Lookup(RouteKeys[top], key) ELSE Lookup(GlobalKeys, key)

\* applyAction: back is the root's where the route does not handle it.
Taker(action) ==
  IF action \in {"help", "switch-context"} THEN "root"
  ELSE IF action \in Acts(top) THEN "route"
  ELSE IF action = "back" THEN "root"
  ELSE "nobody"

\* Update, as far as who takes the key and for what.  On the error screen "r"
\* stands for itself.
Dispatch(key) ==
  IF Quits(key) THEN Does("root", "quit")
  ELSE IF modals # <<>> THEN Does("modal", Lookup(ModalKeys[TopModal.scope], key))
  ELSE IF stage = "error" /\ key = "r" THEN Does("root", "retry")
  ELSE IF stage # "ready" THEN Does("nobody", "none")
  ELSE Does(Taker(Resolve(key)), Resolve(key))

\* Menus do not close themselves; the other dialogs close on what they are for.
Pops(scope, action) ==
  \/ action = "back"
  \/ action \in {"select", "submit", "confirm", "open-browser",
                 "merge-squash", "merge-merge", "merge-rebase"}

\* Where a login leads depends on the list the menu was opened over.
LoginLeadsTo(key, from) ==
  CASE from = "prs" -> Replace(Opened("prFilterType", key, from))
    [] from = "issues" -> Replace(Opened("issueFilterType", key, from))
    [] OTHER -> CloseAll

\* The messages a dialog sends.
Sends(modal, action, key) ==
  CASE action = "filter-by-user" -> <<Push(Opened("userInput", key, modal.from))>>
    [] action = "filter-by-repo" -> <<Push(Opened("repoSelect", key, modal.from))>>
    [] modal.scope = "userInput" /\ action = "submit" -> <<LoginLeadsTo(key, modal.from)>>
    [] modal.scope = "mergeMethod" /\ Pops(modal.scope, action) /\ action # "back" ->
         <<Replace(Opened("mergeConfirm", key, modal.from))>>
    [] modal.scope = "repoSelect" /\ action = "select" -> <<CloseAll>>
    [] modal.scope = "userInput" /\ action = "back" -> <<CloseAll>>
    [] modal.scope \in {"prFilterType", "issueFilterType"} /\ action # "none" -> <<CloseAll>>
    [] OTHER -> <<>>

\* The dialog an action of the route opens, unless the route refuses it.
Opens(action) ==
  CASE action = "filter-type" -> {"filterType"}
    [] action = "approve" -> {"approveRun"}
    [] action = "merge" -> {"mergeMethod"}
    [] action = "close-pr" -> {"closeConfirm"}
    [] OTHER -> {}

KeysRoom(n) == n <= MaxModals

PressModal(key) ==
  LET d == Dispatch(key)
  IN /\ d.by = "modal"
     /\ modals' = IF Pops(TopModal.scope, d.action) THEN Front(modals) ELSE modals
     /\ sent' = sent \o Sends(TopModal, d.action, key)
     /\ KeysRoom(Len(modals') + Len(sent'))
     /\ confirmed' = IF d.action = "confirm"
                     THEN [key |-> key, opener |-> TopModal.key] ELSE Nothing
     /\ UNCHANGED <<stage, top>>

PressRoute(key) ==
  /\ Dispatch(key).by = "route"
  /\ \E scope \in Opens(Dispatch(key).action) :
       sent' = Append(sent, Push(Opened(scope, key, top)))
  /\ KeysRoom(Len(modals) + Len(sent'))
  /\ confirmed' = Nothing
  /\ UNCHANGED <<stage, top, modals>>

Retry ==
  /\ \E key \in Key : Dispatch(key) = Does("root", "retry")
  /\ stage' = "loading" /\ confirmed' = Nothing
  /\ UNCHANGED <<top, modals, sent>>

\* overlay.Stack.Update: control messages reach the stack whatever is on it, and
\* commands are answered in any order.
Deliver(i) ==
  /\ sent' = RemoveAt(sent, i)
  /\ modals' = Received(modals, sent[i])
  /\ confirmed' = Nothing
  /\ UNCHANGED <<stage, top>>

IdentityArrives ==
  /\ stage = "loading"
  /\ stage' \in {"ready", "error"}
  /\ confirmed' = Nothing
  /\ UNCHANGED <<top, modals, sent>>

RouteChanges(s) ==
  /\ stage = "ready"
  /\ top' = s /\ confirmed' = Nothing
  /\ UNCHANGED <<stage, modals, sent>>

KeysNext ==
  \/ \E key \in Key : PressModal(key) \/ PressRoute(key)
  \/ Retry
  \/ \E i \in DOMAIN sent : Deliver(i)
  \/ IdentityArrives
  \/ \E s \in RouteScope : RouteChanges(s)

KeysSpec == KeysInit /\ [][KeysNext]_keyVars

----------------------------------------------------------------------------
(* The footer.                                                             *)

\* Mutant: whatever is open.
PinnedAlways == GlobalKeys

\* pinnedGlobals: the global keys a surface leaves usable.
Pinned ==
  IF modals = <<>> THEN GlobalKeys
  ELSE IF TakesText THEN {B("quit", {"ctrl+c"})}
  ELSE {b \in GlobalKeys : b.action = "quit"}

\* footerBindings, of the dialog or of the route, less the actions it refuses.
FooterBindings(refused) ==
  IF modals # <<>> THEN ModalKeys[TopModal.scope]
  ELSE {b \in RouteKeys[top] : b.action \notin refused}

\* renderHints does not say the same action twice.
Hints(refused) ==
  Pinned \cup {b \in FooterBindings(refused) : \A p \in Pinned : p.action # b.action}

----------------------------------------------------------------------------

\* Every variable has its type.
KeysTypeOK ==
  /\ stage \in {"loading", "error", "ready"}
  /\ top \in RouteScope
  /\ \A i \in DOMAIN modals :
       modals[i].scope \in Modal /\ modals[i].key \in Key /\ modals[i].from \in RouteScope

\* The footer "advertises the keys that work where they are written"
\* (chrome.go:110-111): each key it offers does what it says, for somebody who
\* handles it, whatever dialog has just opened and whatever the route refuses.
\* The one exception is "?" on the help screen, which is offered as Help and
\* closes it.
HintsAreTrue ==
  stage = "ready" =>
    \A refused \in SUBSET Gated(top) : \A b \in Hints(refused) : \A key \in b.keys :
      \/ Dispatch(key).action = b.action /\ Dispatch(key).by # "nobody"
      \/ key = "?" /\ top = "help" /\ Dispatch(key).action = "back"

\* A key that is held, or pressed again before its dialog has come, confirms
\* nothing: whatever dialogs open late, what is confirmed was confirmed with
\* another key than the one that led to the question.
HeldKeyNeverConfirms == confirmed # Nothing => confirmed.key # confirmed.opener
=============================================================================
