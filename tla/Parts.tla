-------------------------------- MODULE Parts --------------------------------
(***************************************************************************)
(* The parts that are machines of their own and small, put together: one   *)
(* of them runs, and the others stay where they start.  They share no      *)
(* variable, so that what one of them does in company is what it does      *)
(* alone.                                                                  *)
(***************************************************************************)
EXTENDS
  Routes, Filters, Keys, Layout, Logs, Segments, Search, Conversation, Reads, IssueScreens

VARIABLE part    \* the one that runs

Parts ==
  {"routes", "filters", "keys", "layout", "logs", "segments", "search", "conversation",
   "reads", "issues"}

PartsInit ==
  /\ part \in Parts
  /\ RoutesInit
  /\ FiltersInit /\ (part = "filters" \/ shown = "workflows")
  /\ KeysInit
  /\ LayoutInit /\ (part = "layout" \/ (asked = <<>> /\ rowWidth = 0))
  /\ LogsInit
  /\ SegmentsInit /\ (part = "segments" \/ steps = <<>>)
  /\ SearchInit
  /\ ConversationInit
  /\ ReadsInit
  /\ IssuesInit

PartsNext ==
  \/ /\ part = "routes" /\ RoutesNext
     /\ UNCHANGED <<part, filterVars, keyVars, layoutVars, logsVars, segmentVars,
                    searchVars, conversationVars, readVars, issueVars>>
  \/ /\ part = "filters" /\ FiltersNext
     /\ UNCHANGED <<part, routeVars, keyVars, layoutVars, logsVars, segmentVars,
                    searchVars, conversationVars, readVars, issueVars>>
  \/ /\ part = "keys" /\ KeysNext
     /\ UNCHANGED <<part, routeVars, filterVars, layoutVars, logsVars, segmentVars,
                    searchVars, conversationVars, readVars, issueVars>>
  \/ /\ part = "layout" /\ LayoutNext
     /\ UNCHANGED <<part, routeVars, filterVars, keyVars, logsVars, segmentVars,
                    searchVars, conversationVars, readVars, issueVars>>
  \/ /\ part = "logs" /\ LogsNext
     /\ UNCHANGED <<part, routeVars, filterVars, keyVars, layoutVars, segmentVars,
                    searchVars, conversationVars, readVars, issueVars>>
  \/ /\ part = "segments" /\ SegmentsNext
     /\ UNCHANGED <<part, routeVars, filterVars, keyVars, layoutVars, logsVars,
                    searchVars, conversationVars, readVars, issueVars>>
  \/ /\ part = "search" /\ SearchNext
     /\ UNCHANGED <<part, routeVars, filterVars, keyVars, layoutVars, logsVars,
                    segmentVars, conversationVars, readVars, issueVars>>
  \/ /\ part = "conversation" /\ ConversationNext
     /\ UNCHANGED <<part, routeVars, filterVars, keyVars, layoutVars, logsVars,
                    segmentVars, searchVars, readVars, issueVars>>
  \/ /\ part = "reads" /\ ReadsNext
     /\ UNCHANGED <<part, routeVars, filterVars, keyVars, layoutVars, logsVars,
                    segmentVars, searchVars, conversationVars, issueVars>>
  \/ /\ part = "issues" /\ IssuesNext
     /\ UNCHANGED <<part, routeVars, filterVars, keyVars, layoutVars, logsVars,
                    segmentVars, searchVars, conversationVars, readVars>>

partsVars ==
  <<part, routeVars, filterVars, keyVars, layoutVars, logsVars, segmentVars,
    searchVars, conversationVars, readVars, issueVars>>
PartsSpec == PartsInit /\ [][PartsNext]_partsVars

----------------------------------------------------------------------------

\* Every part keeps its types.
TypesOK ==
  /\ RoutesTypeOK /\ FiltersTypeOK /\ KeysTypeOK /\ LayoutTypeOK /\ LogsTypeOK
  /\ SegmentsTypeOK /\ SearchTypeOK /\ ConversationTypeOK /\ ReadsTypeOK /\ IssuesTypeOK
=============================================================================
