------------------------------- MODULE Routes -------------------------------
(***************************************************************************)
(* The navigation stack of the root model (internal/ui/model.go, route.go, *)
(* switcher.go, help.go) and the sessions of the routes on it.             *)
(*                                                                         *)
(* A key that opens or closes a route changes nothing by itself: the route *)
(* returns a command, the runtime runs it in a goroutine of its own, and   *)
(* the message it produces is handled later, in any order with the keys    *)
(* and with other messages.  Help and the switcher are opened at once.     *)
(*                                                                         *)
(* A route that fetches owns a session from the moment it is built, before *)
(* it is on the stack; the root stops the session as the route leaves.     *)
(* ReplaceMsg and PopToRootMsg are handled by the root and sent by nobody, *)
(* so they are left out, as is the branch that toggles help on the help    *)
(* screen: its key is bound to Back there (keymap.go:308-312).             *)
(***************************************************************************)
EXTENDS Integers, Sequences, FiniteSets

CONSTANTS
  Id,          \* routes with a session; an Id is used again once it is closed
  MaxDepth,    \* bound: routes on the stack
  MaxPending   \* bound: pops, and choices of a context, on their way at once

Plain == {"main", "help", "switcher"}

ASSUME IdAssumption    == Id \cap Plain = {}
ASSUME DepthAssumption == MaxDepth \in Nat \ {0} /\ MaxPending \in Nat

VARIABLES
  routes,    \* the routes, the last one on screen
  session,   \* the request scope of each route that has one
  pushes,    \* routes whose PushMsg is on its way
  pops,      \* PopMsgs on their way
  choices    \* ContextSelectedMsgs on their way

routeVars == <<routes, session, pushes, pops, choices>>

----------------------------------------------------------------------------
(* RouteStack. *)

Top == routes[Len(routes)]
OnStack == {routes[i] : i \in 1..Len(routes)}
AboveRoot == {routes[i] : i \in 2..Len(routes)}

PushRoute(r) == Len(routes) < MaxDepth /\ routes' = Append(routes, r)

\* stopRoute, for each route of a set that has something to stop.
Stop(gone) ==
  session' = [i \in Id |-> IF i \in gone THEN "stopped" ELSE session[i]]

\* Mutant: leaving for the root stops nothing.
PopToRootUnstopped ==
  /\ routes' = <<routes[1]>>
  /\ UNCHANGED session

\* popRoute and popToRoot.  The root route stays.
Pop ==
  IF Len(routes) > 1
  THEN /\ routes' = SubSeq(routes, 1, Len(routes) - 1)
       /\ Stop({Top})
  ELSE UNCHANGED <<routes, session>>
PopToRoot ==
  /\ routes' = <<routes[1]>>
  /\ Stop(AboveRoot)

----------------------------------------------------------------------------
(* Keys. *)

RoutesInit ==
  /\ routes = <<"main">>
  /\ session = [i \in Id |-> "none"]
  /\ pushes = {}
  /\ pops = 0
  /\ choices = 0

\* Enter on a list, or on a route that leads to another: the new route is
\* built, session and all, and asks to be pushed.
OpenRoute(i) ==
  /\ Top = "main" \/ Top \in Id
  /\ i \notin OnStack \cup pushes
  /\ session[i] # "live"
  /\ session' = [session EXCEPT ![i] = "live"]
  /\ pushes' = pushes \cup {i}
  /\ UNCHANGED <<routes, pops, choices>>

OpenHelp ==
  /\ Top # "help"
  /\ PushRoute("help")
  /\ UNCHANGED <<session, pushes, pops, choices>>

\* o, on any route: it opens the switcher, or closes it.
ToggleSwitcher ==
  /\ IF Top = "switcher" THEN PopToRoot ELSE PushRoute("switcher") /\ UNCHANGED session
  /\ UNCHANGED <<pushes, pops, choices>>

\* Esc.  Help leaves it to the root; the others ask to be popped.  On the main
\* route it does nothing.
CloseHelp ==
  /\ Top = "help"
  /\ Pop
  /\ UNCHANGED <<pushes, pops, choices>>
AskBack ==
  /\ Top \in Id \cup {"switcher"}
  /\ pops < MaxPending
  /\ pops' = pops + 1
  /\ UNCHANGED <<routes, session, pushes, choices>>

\* Enter on the switcher.
Select ==
  /\ Top = "switcher"
  /\ choices < MaxPending
  /\ choices' = choices + 1
  /\ UNCHANGED <<routes, session, pushes, pops>>

----------------------------------------------------------------------------
(* Messages. *)

\* Mutant: the push is delivered again.
PushArrivesTwice(i) ==
  /\ i \in pushes
  /\ PushRoute(i)
  /\ UNCHANGED <<session, pushes, pops, choices>>

PushArrives(i) ==
  /\ i \in pushes
  /\ PushRoute(i)
  /\ pushes' = pushes \ {i}
  /\ UNCHANGED <<session, pops, choices>>

PopArrives ==
  /\ pops > 0
  /\ pops' = pops - 1
  /\ Pop
  /\ UNCHANGED <<pushes, choices>>

\* applyContext.
ChoiceArrives ==
  /\ choices > 0
  /\ choices' = choices - 1
  /\ PopToRoot
  /\ UNCHANGED <<pushes, pops>>

----------------------------------------------------------------------------

RoutesNext ==
  \/ \E i \in Id : OpenRoute(i) \/ PushArrives(i)
  \/ OpenHelp \/ ToggleSwitcher \/ CloseHelp \/ AskBack \/ Select
  \/ PopArrives \/ ChoiceArrives

RoutesSpec == RoutesInit /\ [][RoutesNext]_routeVars

----------------------------------------------------------------------------
(* Properties. *)

\* The types of the stack and of what is on its way to it.
RoutesTypeOK ==
  /\ routes \in Seq(Plain \cup Id)
  /\ Len(routes) \in 1..MaxDepth
  /\ session \in [Id -> {"none", "live", "stopped"}]
  /\ pushes \subseteq Id
  /\ pops \in 0..MaxPending
  /\ choices \in 0..MaxPending

\* The main route is at the bottom of the stack and nowhere else, whatever was
\* popped twice or popped late ("a stack containing root, which is never popped",
\* route.go:183).
MainStays ==
  /\ routes[1] = "main"
  /\ \A i \in 2..Len(routes) : routes[i] # "main"

\* No session outlives its route: one that is live is on the stack or about to
\* be ("a fetch for a screen nobody is looking at is abandoned", route.go:102-103).
SessionsHaveARoute ==
  \A i \in Id : session[i] = "live" => i \in OnStack \cup pushes

\* No route loses its session while it is on the stack or about to be: nothing
\* is stopped but what leaves.
RoutesKeepTheirSession ==
  \A i \in Id : i \in OnStack \cup pushes => session[i] = "live"

\* A route is on the stack once: popping it is the end of it.
OnStackOnce ==
  /\ \A i, j \in 1..Len(routes) : routes[i] = routes[j] /\ routes[i] \in Id => i = j
  /\ pushes \cap OnStack = {}

\* The stack is sound, whatever was pushed, popped or chosen twice before the first
\* of it arrived (RouteStack, route.go:183-232).
StackIsSound == RoutesTypeOK /\ MainStays /\ OnStackOnce

\* A session lives as long as its route is on the stack or on its way there, and no
\* longer: "a fetch for a screen nobody is looking at is abandoned" (route.go:102-103).
SessionsFollowRoutes == SessionsHaveARoute /\ RoutesKeepTheirSession
=============================================================================
