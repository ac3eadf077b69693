------------------------------- MODULE Filters -------------------------------
(***************************************************************************)
(* The filters of the three lists (filters.go, and the acts of runs.go,    *)
(* prs.go and issues.go that set them), and the dialogs that choose them.  *)
(*                                                                         *)
(* A dialog reaches its list by messages, to whatever list is on screen    *)
(* when they arrive; commands are answered in any order.  The repositories *)
(* are fetched when the picker is asked for, and it opens when they come.  *)
(*                                                                         *)
(* Abstractions: the text box is filled in in one step; the fetch that     *)
(* follows a change of filter is Lists'.                                   *)
(***************************************************************************)
EXTENDS Naturals, Overlay

CONSTANTS
  Tab,         \* the lists there are, of those below
  Owner,       \* accounts and organizations the viewer may switch to
  Viewer,      \* the viewer's login
  Login,       \* logins that may be typed, the viewer's among them
  ReposOf,     \* the repositories of each owner
  Anyone,        \* no filter, and what an empty text box holds
  MaxDialogs   \* bound: dialogs open, messages and fetches out, together

ASSUME LoginAssumption == Viewer \in Login /\ Anyone \notin Login
ASSUME TabAssumption == Tab \subseteq {"workflows", "prs", "issues"}

Roles ==
  [l \in Tab |-> CASE l = "workflows" -> {"actor"}
                    [] l = "prs" -> {"author", "assignee", "reviewer"}
                    [] l = "issues" -> {"author", "assignee"}]
Role == UNION {Roles[l] : l \in Tab}
State == <<"open", "closed", "all">>
Repo == UNION {ReposOf[o] : o \in Owner}

VARIABLES
  owner,     \* the context
  shown,     \* the list on screen
  by,        \* the login each list is filtered by, in each role
  inRepo,    \* the repository each list is filtered by
  state,     \* the state each list is filtered by; workflow runs have none
  dialogs,   \* the open dialogs, the top one last
  coming,    \* messages on their way
  fetching   \* the owners whose repositories are being fetched for a picker

filterVars == <<owner, shown, by, inRepo, state, dialogs, coming, fetching>>

Menu(l) == [kind |-> "menu", list |-> l]
Prompt(l) == [kind |-> "prompt", list |-> l]
RoleMenu(l, login) == [kind |-> "roles", list |-> l, login |-> login]
Picker(o) == [kind |-> "picker", owner |-> o]
Chosen(role, value) == [kind |-> "filter", role |-> role, value |-> value]

TopDialog == Last(dialogs)
On(kind) == dialogs # <<>> /\ TopDialog.kind = kind
Room(n) == n <= MaxDialogs

NoLogin == [r \in Role |-> Anyone]
Unfiltered ==
  /\ by' = [l \in Tab |-> NoLogin]
  /\ inRepo' = [l \in Tab |-> Anyone]
  /\ state' = [l \in Tab |-> 1]

FiltersInit ==
  /\ owner \in Owner /\ shown \in Tab
  /\ by = [l \in Tab |-> NoLogin]
  /\ inRepo = [l \in Tab |-> Anyone]
  /\ state = [l \in Tab |-> 1]
  /\ dialogs = <<>> /\ coming = <<>> /\ fetching = <<>>

Send(messages) ==
  /\ coming' = coming \o messages
  /\ Room(Len(dialogs') + Len(coming') + Len(fetching'))

\* applyFilter: two commands of one batch.
ApplyFilter(role, value) == <<CloseAll, Chosen(role, value)>>

----------------------------------------------------------------------------
(* Keys of the list.                                                       *)

Idle == dialogs = <<>>

\* Mutant: one more condition.
AlsoBy(role, login) == [by EXCEPT ![shown][role] = login]

\* filterByMine, filterBy, acceptFilter: the roles are views of one question.
OnlyBy(role, login) == [by EXCEPT ![shown] = [NoLogin EXCEPT ![role] = login]]

\* The quick keys: mine, or no longer mine.
FilterMine(role) ==
  /\ Idle /\ role \in Roles[shown]
  /\ by' = OnlyBy(role, IF by[shown][role] = Viewer THEN Anyone ELSE Viewer)
  /\ UNCHANGED <<owner, shown, inRepo, state, dialogs, coming, fetching>>

CycleState ==
  /\ Idle /\ shown # "workflows"
  /\ state' = [state EXCEPT ![shown] = (@ % Len(State)) + 1]
  /\ UNCHANGED <<owner, shown, by, inRepo, dialogs, coming, fetching>>

ClearFilters ==
  /\ Idle
  /\ by' = [by EXCEPT ![shown] = NoLogin]
  /\ inRepo' = [inRepo EXCEPT ![shown] = Anyone]
  /\ state' = [state EXCEPT ![shown] = 1]
  /\ UNCHANGED <<owner, shown, dialogs, coming, fetching>>

SwitchTab(l) ==
  /\ Idle
  /\ shown' = l
  /\ UNCHANGED <<owner, by, inRepo, state, dialogs, coming, fetching>>

OpenMenu ==
  /\ Idle
  /\ UNCHANGED <<owner, shown, by, inRepo, state, dialogs, fetching>>
  /\ Send(<<Push(Menu(shown))>>)

\* AccountChangedMsg: every list starts afresh, and no dialog is closed.
SwitchContext(o) ==
  /\ Idle
  /\ owner' = o
  /\ Unfiltered
  /\ UNCHANGED <<shown, dialogs, coming, fetching>>

----------------------------------------------------------------------------
(* Keys of the dialogs.                                                    *)

\* filterMenu, prFilterMenu, issueFilterMenu: the menu stays.
PickUser ==
  /\ On("menu")
  /\ UNCHANGED <<owner, shown, by, inRepo, state, dialogs, fetching>>
  /\ Send(<<Push(Prompt(TopDialog.list))>>)

PickRepo ==
  /\ On("menu")
  /\ fetching' = Append(fetching, owner)
  /\ UNCHANGED <<owner, shown, by, inRepo, state, dialogs>>
  /\ Send(<<>>)

\* The login of a pull request or an issue still needs its role.
Submit(login) ==
  /\ On("prompt")
  /\ dialogs' = Front(dialogs)
  /\ UNCHANGED <<owner, shown, by, inRepo, state, fetching>>
  /\ Send(IF TopDialog.list = "workflows" THEN ApplyFilter("actor", login)
          ELSE <<Replace(RoleMenu(TopDialog.list, login))>>)

PickRole(role) ==
  /\ On("roles") /\ role \in Roles[TopDialog.list]
  /\ UNCHANGED <<owner, shown, by, inRepo, state, dialogs, fetching>>
  /\ Send(ApplyFilter(role, TopDialog.login))

PickRepository(r) ==
  /\ On("picker") /\ r \in ReposOf[TopDialog.owner]
  /\ dialogs' = Front(dialogs)
  /\ UNCHANGED <<owner, shown, by, inRepo, state, fetching>>
  /\ Send(ApplyFilter("repo", r))

\* Esc leaves the whole flow, but for the picker, which it steps back from, and the
\* menu, which is the first of it.
Cancel ==
  /\ ~Idle
  /\ dialogs' = Front(dialogs)
  /\ UNCHANGED <<owner, shown, by, inRepo, state, fetching>>
  /\ Send(IF TopDialog.kind \in {"prompt", "roles"} THEN <<CloseAll>> ELSE <<>>)

----------------------------------------------------------------------------
(* Messages.                                                               *)

\* loadRepos
ReposArrive(i) ==
  /\ fetching' = RemoveAt(fetching, i)
  /\ coming' = Append(coming, Push(Picker(fetching[i])))
  /\ UNCHANGED <<owner, shown, by, inRepo, state, dialogs>>

ReposFail(i) ==
  /\ fetching' = RemoveAt(fetching, i)
  /\ UNCHANGED <<owner, shown, by, inRepo, state, dialogs, coming>>

ToDialogs(i) ==
  LET m == coming[i]
  IN /\ m.kind # "filter"
     /\ coming' = RemoveAt(coming, i)
     /\ dialogs' = Received(dialogs, m)
     /\ UNCHANGED <<owner, shown, by, inRepo, state, fetching>>

\* acceptFilter: a list ignores a role it does not have.
ToTheList(i) ==
  LET m == coming[i]
  IN /\ m.kind = "filter"
     /\ coming' = RemoveAt(coming, i)
     /\ by' = IF m.role \in Roles[shown] THEN OnlyBy(m.role, m.value) ELSE by
     /\ inRepo' = IF m.role = "repo" THEN [inRepo EXCEPT ![shown] = m.value] ELSE inRepo
     /\ UNCHANGED <<owner, shown, state, dialogs, fetching>>

FiltersNext ==
  \/ (\E role \in Role : FilterMine(role) \/ PickRole(role))
  \/ CycleState \/ ClearFilters \/ OpenMenu \/ PickUser \/ PickRepo \/ Cancel
  \/ (\E l \in Tab : SwitchTab(l)) \/ (\E o \in Owner : SwitchContext(o))
  \/ (\E login \in Login \cup {Anyone} : Submit(login)) \/ (\E r \in Repo : PickRepository(r))
  \/ (\E i \in DOMAIN fetching : ReposArrive(i) \/ ReposFail(i))
  \/ (\E i \in DOMAIN coming : ToDialogs(i) \/ ToTheList(i))

FiltersSpec == FiltersInit /\ [][FiltersNext]_filterVars

----------------------------------------------------------------------------

\* Every variable has its type, and a list is filtered by the roles it has.
FiltersTypeOK ==
  /\ owner \in Owner /\ shown \in Tab
  /\ \A l \in Tab, r \in Role :
       by[l][r] \in Login \cup {Anyone} /\ (by[l][r] # Anyone => r \in Roles[l])
  /\ inRepo \in [Tab -> Repo \cup {Anyone}]
  /\ state \in [Tab -> DOMAIN State]

\* A list is filtered by one login in one role, whichever of the quick keys and the
\* dialogs set it, in whatever order their messages come: "setting one clears the
\* other two [...] The free-text path follows the same rule" (docs/spec.md:161).
OneLoginAtATime ==
  \A l \in Tab : \A r, s \in Role : by[l][r] # Anyone /\ by[l][s] # Anyone => r = s
=============================================================================
