-------------------------------- MODULE Jobs --------------------------------
(***************************************************************************)
(* The jobs of a workflow run (internal/ui/jobs.go): attempts, polls, the  *)
(* job a check came from, and the approval of a run that waits for one.    *)
(*                                                                         *)
(* Replies go to the route on top.  A reply names its attempt and not its  *)
(* run, and the answer about the run names nothing at all, so what a       *)
(* screen that was closed had asked for may reach the next one; closing    *)
(* cancels a request, but not one that was answered already.               *)
(*                                                                         *)
(* Abstractions: one jobs screen is on the stack at a time, and closing it *)
(* or the log viewer takes one step (Routes has the pushes and the pops    *)
(* pressed twice); an approval reads the deployments, writes and reports   *)
(* in one step, since nothing the screen does in between is seen by it.    *)
(***************************************************************************)
EXTENDS Approval, Integers, SequencesExt

CONSTANTS
  None,
  Attempts,   \* how many attempts each run reports, 0 where it reports none
  JobId,      \* the jobs there are
  Answers,    \* the lists of jobs GitHub may give for a run and an attempt
  Target,     \* names of checks
  Exact, Part,\* the jobs a check's name matches, exactly or in part
  MaxOut,     \* bound: replies of one kind out at once
  MaxAsks     \* bound: requests the screen makes

ASSUME AttemptsAssumption == Attempts \in [Run -> Nat]
ASSUME NoneAssumption == None \notin Run \cup Target \cup JobId
ASSUME MatchAssumption == Exact \cup Part \subseteq JobId \X Target
ASSUME BoundAssumption == MaxOut \in Nat /\ MaxAsks \in Nat

Top(r) == IF Attempts[r] < 1 THEN 1 ELSE Attempts[r]
Attempt == {0} \cup UNION {1..Top(r) : r \in Run}
Job == [id : JobId, active : BOOLEAN]

ASSUME AnswersAssumption == \A r \in Run, a \in Attempt : Answers[r][a] \subseteq Seq(Job)

JobRequest == [run : Run, attempt : Attempt, poll : BOOLEAN]
Request(r, a, poll) == [run |-> r, attempt |-> a, poll |-> poll]

VARIABLES
  shown,      \* the run whose jobs are on the stack, or None
  known,      \* the run itself is in hand, not only its number
  attempt, rows, cursor, target, loading, failed,
  gate,       \* perms: "yes" or "no" for the runs asked about, or "unknown"
  covered,    \* the log viewer is on top
  opening,    \* the push of a log viewer is on its way
  dialogs,    \* the approvals that are being confirmed, the top one last
  jobsOut,    \* how many requests for jobs of each kind are out
  runsOut, gatesOut, pushesOut, writesOut,   \* and of the other kinds
  asks,       \* requests made so far
  answered,   \* history: the attempt on screen was answered with its jobs
  astray,     \* history: the log viewer was given a reply of this screen, or this
              \* screen one of a screen that is closed
  rowsOf,     \* history: the run and the attempt the rows were asked for
  allowed,    \* history: the runs the gate said yes of
  approved    \* history: what was sent to approve a run

list == <<attempt, rows, cursor, target, loading, failed, answered, rowsOf>>
screen == <<shown, known, covered, opening>>
others == <<runsOut, gatesOut, pushesOut, writesOut>>
history == <<astray, allowed, approved>>
vars == <<screen, list, gate, dialogs, jobsOut, others, asks, history>>

----------------------------------------------------------------------------

OnTop == shown # None /\ ~covered
HasKeys == OnTop /\ dialogs = <<>>

\* selected, and the job it is; the cursor counts from 0.
Selected == cursor < Len(rows)
SelectedId == IF Selected THEN rows[cursor + 1].id ELSE None

\* clampCursor
Clamp(c, s) == IF c > Len(s) - 1 THEN (IF s = <<>> THEN 0 ELSE Len(s) - 1) ELSE c

FirstAt(i) == IF i = 0 THEN 0 ELSE i - 1

\* Mutant: the first match of either kind.
IndexOfPart(s, t) == FirstAt(SelectInSeq(s, LAMBDA job : <<job.id, t>> \in Exact \cup Part))

\* indexOfJob, from 0: an exact match of the check's name comes before a match in
\* part, and the first row serves where nothing matches.
IndexOfJob(s, t) ==
  LET exact == SelectInSeq(s, LAMBDA job : <<job.id, t>> \in Exact)
  IN IF exact # 0 THEN FirstAt(exact)
     ELSE FirstAt(SelectInSeq(s, LAMBDA job : <<job.id, t>> \in Part))

\* Mutant: the cursor keeps its row.
LandsOnRow(s) == Clamp(cursor, s)

\* Where the cursor comes to rest in the list that arrived: on the job it was on,
\* wherever that is now, or on the job the check named when nothing was selected.
Lands(s) ==
  IF target # None /\ SelectedId = None
  THEN IndexOfJob(s, target)
  ELSE FirstAt(SelectInSeq(s, LAMBDA job : job.id = SelectedId))

\* The attempt the run reports, as far as the screen knows it.
MaxAttempt == IF known THEN Top(shown) ELSE 1
HasActive == \E i \in 1..Len(rows) : rows[i].active
Waiting == known /\ NeedsApproval(shown)
CanApprove == Waiting /\ gate[shown] = "yes"

Ask(q) ==
  /\ asks < MaxAsks /\ jobsOut[q] < MaxOut
  /\ asks' = asks + 1
  /\ jobsOut' = [jobsOut EXCEPT ![q] = @ + 1]

Load(poll) == Ask(Request(shown, attempt, poll))

\* checkApproval asks nothing about a run that waits for nobody.
CheckApproval(r) ==
  IF NeedsApproval(r) THEN [gatesOut EXCEPT ![r] = @ + 1] ELSE gatesOut

Init ==
  /\ shown = None /\ known = FALSE /\ covered = FALSE /\ opening = FALSE
  /\ attempt = 0 /\ rows = <<>> /\ cursor = 0 /\ target = None
  /\ loading = FALSE /\ failed = FALSE
  /\ gate = [r \in Run |-> "unknown"]
  /\ dialogs = <<>>
  /\ jobsOut = [q \in JobRequest |-> 0]
  /\ runsOut = [r \in Run |-> 0] /\ gatesOut = [r \in Run |-> 0]
  /\ pushesOut = [r \in Run |-> 0] /\ writesOut = [r \in Run |-> 0]
  /\ asks = 0
  /\ answered = FALSE /\ astray = FALSE /\ rowsOf = None
  /\ allowed = {} /\ approved = {}

----------------------------------------------------------------------------
(* The screen opens and closes.                                            *)

EmptyList ==
  /\ rows' = <<>> /\ cursor' = 0 /\ rowsOf' = None
  /\ loading' = (shown' # None) /\ failed' = FALSE
  /\ answered' = FALSE /\ astray' = FALSE
  /\ gate' = [r \in Run |-> "unknown"]

Fresh(r, a, t) ==
  /\ shown = None
  /\ shown' = r /\ attempt' = a /\ target' = t
  /\ EmptyList
  /\ Ask(Request(r, a, FALSE))
  /\ UNCHANGED <<covered, opening, dialogs, pushesOut, writesOut, allowed, approved>>

\* From the list of runs, or from a check whose run is in hand.
Open(r, t) ==
  /\ gatesOut[r] < MaxOut
  /\ Fresh(r, Attempts[r], t)
  /\ known' = TRUE
  /\ gatesOut' = CheckApproval(r)
  /\ UNCHANGED runsOut

\* From a check that names a run nobody has: the run is fetched beside its jobs.
OpenAt(r, t) ==
  /\ runsOut[r] < MaxOut
  /\ Fresh(r, 0, t)
  /\ known' = FALSE
  /\ runsOut' = [runsOut EXCEPT ![r] = @ + 1]
  /\ UNCHANGED gatesOut

\* What is not on the stack has no state.  A push that is still on its way opens
\* the viewer over the list below.
Close ==
  /\ HasKeys
  /\ shown' = None /\ known' = FALSE /\ opening' = FALSE /\ target' = None /\ attempt' = 0
  /\ EmptyList
  /\ UNCHANGED <<covered, dialogs, jobsOut, others, asks, allowed, approved>>

----------------------------------------------------------------------------
(* Keys and ticks.                                                         *)

Move(delta) ==
  /\ HasKeys
  /\ cursor + delta \in 0..Len(rows) - 1
  /\ cursor' = cursor + delta
  /\ UNCHANGED <<screen, attempt, rows, target, loading, failed, answered, rowsOf,
                 gate, dialogs, jobsOut, others, asks, history>>

Refresh ==
  /\ HasKeys
  /\ loading' = TRUE
  /\ Load(FALSE)
  /\ UNCHANGED <<screen, attempt, rows, cursor, target, failed, answered, rowsOf,
                 gate, dialogs, others, history>>

\* Another attempt is another set of jobs.
SwitchAttempt(delta) ==
  /\ HasKeys
  /\ attempt + delta \in 1..MaxAttempt
  /\ attempt' = attempt + delta
  /\ rows' = <<>> /\ cursor' = 0 /\ rowsOf' = None
  /\ loading' = TRUE /\ answered' = FALSE
  /\ Ask(Request(shown, attempt', FALSE))
  /\ UNCHANGED <<screen, target, failed, gate, dialogs, others, history>>

\* A tick, while no answer is awaited and some job may still change.
Poll ==
  /\ OnTop /\ ~loading /\ HasActive
  /\ Load(TRUE)
  /\ UNCHANGED <<screen, list, gate, dialogs, others, history>>

\* openLogs: only for a job that is over; the viewer comes with a message.
OpenLogs ==
  /\ HasKeys /\ Selected /\ ~rows[cursor + 1].active
  /\ opening' = TRUE
  /\ UNCHANGED <<shown, known, covered, list, gate, dialogs, jobsOut, others, asks, history>>

LogsOpen ==
  /\ opening
  /\ opening' = FALSE /\ covered' = TRUE
  /\ UNCHANGED <<shown, known, list, gate, dialogs, jobsOut, others, asks, history>>

LogsClose ==
  /\ covered /\ dialogs = <<>>
  /\ covered' = FALSE
  /\ UNCHANGED <<shown, known, opening, list, gate, dialogs, jobsOut, others, asks, history>>

----------------------------------------------------------------------------
(* Approving the run.                                                      *)

AskApprove ==
  /\ HasKeys /\ CanApprove /\ pushesOut[shown] < MaxOut
  /\ pushesOut' = [pushesOut EXCEPT ![shown] = @ + 1]
  /\ UNCHANGED <<screen, list, gate, dialogs, jobsOut, runsOut, gatesOut, writesOut, asks,
                 history>>

DialogOpens(r) ==
  /\ pushesOut[r] > 0
  /\ pushesOut' = [pushesOut EXCEPT ![r] = @ - 1]
  /\ dialogs' = Append(dialogs, r)
  /\ UNCHANGED <<screen, list, gate, jobsOut, runsOut, gatesOut, writesOut, asks, history>>

\* y, of a run the API cannot approve, leads to the browser.
ConfirmApprove ==
  /\ dialogs # <<>>
  /\ LET r == Last(dialogs)
     IN IF ApiCanApprove(r)
        THEN writesOut[r] < MaxOut /\ writesOut' = [writesOut EXCEPT ![r] = @ + 1]
        ELSE UNCHANGED writesOut
  /\ dialogs' = Front(dialogs)
  /\ UNCHANGED <<screen, list, gate, jobsOut, runsOut, gatesOut, pushesOut, asks, history>>

\* n and w.
DismissApprove ==
  /\ dialogs # <<>>
  /\ dialogs' = Front(dialogs)
  /\ UNCHANGED <<screen, list, gate, jobsOut, others, asks, history>>

----------------------------------------------------------------------------
(* Replies, to the route on top.                                           *)

JobsAnswered(q) ==
  /\ jobsOut[q] > 0
  /\ jobsOut' = [jobsOut EXCEPT ![q] = @ - 1]

\* Mutant: any attempt's jobs will do.
TakesAny(q) == OnTop

\* apply: a reply for an attempt the user has left is dropped.
Takes(q) == OnTop /\ q.attempt = attempt

JobsArrive(q, s) ==
  /\ Takes(q) /\ JobsAnswered(q)
  /\ rows' = s /\ rowsOf' = <<q.run, q.attempt>> /\ answered' = TRUE
  /\ cursor' = Clamp(Lands(s), s)
  /\ loading' = FALSE /\ failed' = FALSE
  /\ astray' = (astray \/ q.run # shown)
  /\ UNCHANGED <<screen, attempt, target, gate, dialogs, others, asks, allowed, approved>>

\* Mutant: no failure is news.
NotSaid(q) == failed

\* A poll that fails is not news.
Said(q) == failed \/ ~q.poll

JobsFail(q) ==
  /\ Takes(q) /\ JobsAnswered(q)
  /\ loading' = FALSE
  /\ failed' = Said(q)
  /\ astray' = (astray \/ q.run # shown)
  /\ UNCHANGED <<screen, attempt, rows, cursor, target, answered, rowsOf, gate, dialogs,
                 others, asks, allowed, approved>>

JobsAreMissed(q) ==
  /\ ~Takes(q) /\ JobsAnswered(q)
  /\ astray' = (astray \/ covered)
  /\ UNCHANGED <<screen, list, gate, dialogs, others, asks, allowed, approved>>

RunAnswered(r) ==
  /\ runsOut[r] > 0
  /\ runsOut' = [runsOut EXCEPT ![r] = @ - 1]

\* The run the screen was opened for by number alone, or that of another screen.
RunArrives(r) ==
  /\ OnTop /\ RunAnswered(r)
  /\ gatesOut[r] < MaxOut
  /\ shown' = r /\ known' = TRUE
  /\ gatesOut' = CheckApproval(r)
  /\ astray' = (astray \/ r # shown)
  /\ UNCHANGED <<covered, opening, list, gate, dialogs, jobsOut, pushesOut, writesOut, asks,
                 allowed, approved>>

RunIsLost(r) ==
  /\ RunAnswered(r)
  /\ UNCHANGED <<screen, list, gate, dialogs, jobsOut, gatesOut, pushesOut, writesOut, asks,
                 history>>

\* Mutant: the answer is taken for one about the run on screen.
RecordedForShown(r, yes) == [gate EXCEPT ![shown] = IF yes THEN "yes" ELSE "no"]

\* withAnswer
Recorded(r, yes) == [gate EXCEPT ![r] = IF yes THEN "yes" ELSE "no"]

\* What the gate may decide, whatever the token, the permission endpoint and the
\* deployments endpoint say.
Decisions ==
  [r \in Run |-> {DecideApproval(r, missing, permission, pending) :
                    missing \in BOOLEAN, permission \in Permission, pending \in Pending}]

GateAnswers(r, yes) ==
  /\ gatesOut[r] > 0
  /\ gatesOut' = [gatesOut EXCEPT ![r] = @ - 1]
  /\ allowed' = IF yes THEN allowed \cup {r} ELSE allowed
  /\ gate' = IF OnTop THEN Recorded(r, yes) ELSE gate
  /\ UNCHANGED <<screen, list, dialogs, jobsOut, runsOut, pushesOut, writesOut, asks, astray,
                 approved>>

\* What approveCmd may send, whatever is pending by then.
Sendings == [r \in Run |-> {Approves(r, pending) : pending \in Pending}]

\* Its report: the jobs are asked for again after a success.
ApproveAnswers(r, sent, accepted) ==
  /\ writesOut[r] > 0
  /\ sent = Failed => ~accepted
  /\ writesOut' = [writesOut EXCEPT ![r] = @ - 1]
  /\ approved' = IF sent = Failed THEN approved ELSE approved \cup {r}
  /\ IF accepted /\ OnTop
     THEN loading' = TRUE /\ Load(FALSE)
     ELSE UNCHANGED <<loading, jobsOut, asks>>
  /\ UNCHANGED <<screen, attempt, rows, cursor, target, failed, answered, rowsOf, gate,
                 dialogs, runsOut, gatesOut, pushesOut, astray, allowed>>

Reply ==
  \/ \E q \in JobRequest :
       JobsFail(q) \/ JobsAreMissed(q) \/ \E s \in Answers[q.run][q.attempt] : JobsArrive(q, s)
  \/ \E r \in Run : RunArrives(r) \/ RunIsLost(r)
  \/ \E r \in Run : \E yes \in Decisions[r] : GateAnswers(r, yes)
  \/ \E r \in Run : \E sent \in Sendings[r], accepted \in BOOLEAN :
       ApproveAnswers(r, sent, accepted)

Next ==
  \/ \E r \in Run : Open(r, None) \/ \E t \in Target : Open(r, t) \/ OpenAt(r, t)
  \/ Close
  \/ \E delta \in {-1, 1} : Move(delta) \/ SwitchAttempt(delta)
  \/ Refresh \/ Poll \/ OpenLogs \/ LogsOpen \/ LogsClose
  \/ AskApprove \/ ConfirmApprove \/ DismissApprove \/ (\E r \in Run : DialogOpens(r))
  \/ Reply

Spec == Init /\ [][Next]_vars

----------------------------------------------------------------------------

\* Every variable has its type.
TypeOK ==
  /\ shown \in Run \cup {None} /\ known \in BOOLEAN
  /\ covered \in BOOLEAN /\ opening \in BOOLEAN
  /\ attempt \in Attempt /\ target \in Target \cup {None}
  /\ rows \in Seq(Job)
  /\ cursor \in Nat /\ (cursor = 0 \/ cursor < Len(rows))
  /\ loading \in BOOLEAN /\ failed \in BOOLEAN
  /\ gate \in [Run -> {"unknown", "yes", "no"}]
  /\ dialogs \in Seq(Run)
  /\ jobsOut \in [JobRequest -> Nat]
  /\ runsOut \in [Run -> Nat] /\ gatesOut \in [Run -> Nat]
  /\ pushesOut \in [Run -> Nat] /\ writesOut \in [Run -> Nat]

\* The jobs on screen are of the attempt its heading names: "the list on screen
\* belongs to the attempt that was asked for last" (jobs.go:186-187), whatever
\* replies are still out when the attempt is switched.  They are of its run too,
\* unless the screen was given a reply of a closed one: a reply names its attempt
\* alone, so that of another run is taken if the attempt agrees (188-190).
RowsAreOfTheAttempt ==
  rows # <<>> => \E r \in Run : rowsOf = <<r, attempt>> /\ (r = shown \/ astray)

\* The cursor follows the job it was on through every reply, wherever the reply
\* has it: "the cursor follows the job it was on rather than the row number"
\* (jobs.go:213-214), so that Enter and w act on the job the user chose.
CursorFollowsItsJob ==
  [][\A i \in 1..Len(rows') : rows # rows' /\ Selected /\ rows'[i].id = SelectedId
                                => SelectedId' = SelectedId]_vars

\* A check's job is the one the screen opens on, when the first list has a job of
\* exactly its name, and even where others match it in part (jobs.go:205-210).
OpensOnTheJobOfTheCheck ==
  [][\A i \in 1..Len(rows') : ~answered /\ answered' /\ rows = <<>>
       /\ <<rows'[i].id, target>> \in Exact => <<SelectedId', target>> \in Exact]_vars

\* "No jobs found" is said of an attempt that was answered so, and otherwise only
\* for as long as its jobs are on their way: a poll that was sent before the
\* attempts were switched takes the "Loading" away (jobs.go:191-195).  Nothing is said
\* of a screen once a reply of its own went to the log viewer over it, or it was given
\* one of a closed screen.
NoJobsIsAnAnswer ==
  OnTop /\ rows = <<>> /\ ~loading /\ ~failed /\ ~astray
    => answered \/ \E poll \in BOOLEAN : jobsOut[Request(shown, attempt, poll)] > 0

\* Whatever dialogs open late, over whatever screen, only a run that the gate
\* said yes of, that waits and that the API can approve is sent an approval:
\* "a permission that cannot be established is not offered" (approval.go:18-19).
ApprovalsWereAllowed ==
  \A r \in approved : r \in allowed /\ NeedsApproval(r) /\ ApiCanApprove(r)
=============================================================================
