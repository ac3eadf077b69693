------------------------------ MODULE Approval ------------------------------
(***************************************************************************)
(* The approval gate of workflow runs (internal/ui/approval.go): which     *)
(* runs wait for a person, whether the viewer is offered to approve one,   *)
(* and what an approval asks of GitHub.  Jobs decides when each of these   *)
(* happens.                                                                *)
(***************************************************************************)
EXTENDS FiniteSets

CONSTANTS
  Run,       \* workflow runs
  Waits,     \* what each waits for: "nothing", "deployment" or "action"
  Fork,      \* the runs that come from a fork
  Own,       \* those of a repository of the viewer's account
  Env,       \* environments
  Named,     \* the environments that name the viewer as a reviewer
  Failed     \* the answer to a request that failed

ASSUME RunAssumption ==
  /\ Waits \in [Run -> {"nothing", "deployment", "action"}]
  /\ Fork \subseteq Run /\ Own \subseteq Run
ASSUME EnvAssumption == Named \subseteq Env

\* What the permission endpoint and the deployments endpoint may say.
Permission == {"admin", "write", "maintain", "triage", "read", "none"} \cup {Failed}
Pending == SUBSET Env \cup {Failed}

NeedsApproval(r) == Waits[r] # "nothing"
ApiCanApprove(r) == Waits[r] = "action" => r \in Fork
CanWrite(permission) == permission \in {"admin", "write", "maintain"}

\* decideApproval: yes for a run the API cannot approve, since the dialog leads to
\* the browser, and otherwise only for an answer that says so.  The scopes are
\* missing when the last response listed some and not all that are required.
DecideApproval(r, missing, permission, pending) ==
  \/ ~ApiCanApprove(r)
  \/ ~missing /\ Waits[r] = "action" /\ (r \in Own \/ CanWrite(permission))
  \/ ~missing /\ Waits[r] = "deployment" /\ pending = Failed /\ CanWrite(permission)
  \/ ~missing /\ Waits[r] = "deployment" /\ pending # Failed /\ pending \cap Named # {}

\* environmentIDs: those that name the viewer, or all of them when none does.
EnvironmentIDs(pending) ==
  IF pending \cap Named = {} THEN pending ELSE pending \cap Named

\* approveCmd: what is sent to approve r, given the deployments the run waits on
\* by then, or Failed where nothing is sent.  A run itself is approved by {}.
Approves(r, pending) ==
  IF Waits[r] # "deployment" THEN {}
  ELSE IF pending \in {Failed, {}} THEN Failed
  ELSE EnvironmentIDs(pending)
=============================================================================
