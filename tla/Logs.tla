-------------------------------- MODULE Logs --------------------------------
(***************************************************************************)
(* The log viewer of a job (internal/ui/logs.go): the step it shows, where *)
(* its viewport is, and whether it follows new output.                     *)
(*                                                                         *)
(* A reply names no job, so one that a viewer was closed on may reach the  *)
(* next viewer; closing cancels a request, but not one answered already.   *)
(*                                                                         *)
(* Abstractions: a segment is the number of its lines, and the terminal    *)
(* keeps its size (the viewport is Visible lines high).  What GitHub gives *)
(* for a job may change from one request to the next, in any way.          *)
(***************************************************************************)
EXTENDS Numbers

CONSTANTS
  Job,
  NoJob,
  Steps,       \* how many steps each job lists
  FailedStep,  \* the first that failed, counted from 0, or -1
  Over,        \* the jobs whose status is "completed"
  MaxLines,    \* bound: lines of one segment
  Visible,     \* visibleLines
  ScrollStep,  \* logScrollStep
  MaxOut       \* bound: requests of one kind out at once

ASSUME JobAssumption ==
  /\ NoJob \notin Job /\ Over \subseteq Job
  /\ Steps \in [Job -> Nat]
  /\ \A j \in Job : FailedStep[j] \in -1..Steps[j] - 1
ASSUME SizeAssumption ==
  /\ MaxLines \in Nat /\ MaxOut \in Nat
  /\ Visible \in Nat \ {0} /\ ScrollStep \in Nat \ {0}

VARIABLES
  job,       \* the job whose viewer is on top, or NoJob
  lines,     \* how many lines each step has; nothing before the first log
  step,      \* the selected step
  offset,    \* the first visible line, where the end is not followed
  follow, loading, loaded, failed,
  logsOut    \* how many requests of each kind are out

viewport == <<step, offset, follow>>
logsVars == <<job, lines, viewport, loading, loaded, failed, logsOut>>

LogRequest == [job : Job, poll : BOOLEAN]
Request(j, poll) == [job |-> j, poll |-> poll]

\* The steps that can be selected: a job that lists none has a single segment.
StepsOf(j) == 0..Larger(Steps[j] - 1, 0)
Step == UNION {StepsOf(j) : j \in Job}
Text == [Step -> 0..MaxLines]
NoText == [i \in Step |-> 0]

FirstFailure(j) == Larger(FailedStep[j], 0)

\* scrollLimit and top, of a viewport over n lines.
ScrollLimit(n) == Larger(n - Visible, 0)
TopOf(n) == IF follow THEN ScrollLimit(n) ELSE Smaller(offset, ScrollLimit(n))
TopLine == TopOf(lines[step])

Ask(poll) ==
  LET q == Request(job, poll)
  IN logsOut[q] < MaxOut /\ logsOut' = [logsOut EXCEPT ![q] = @ + 1]

LogsInit ==
  /\ job = NoJob /\ lines = NoText
  /\ step = 0 /\ offset = 0 /\ follow = TRUE
  /\ loading = FALSE /\ loaded = FALSE /\ failed = FALSE
  /\ logsOut = [q \in LogRequest |-> 0]

----------------------------------------------------------------------------
(* Keys and ticks.                                                         *)

OpenLog(j) ==
  /\ job = NoJob /\ job' = j
  /\ loading' = TRUE
  /\ LET q == Request(j, FALSE)
     IN logsOut[q] < MaxOut /\ logsOut' = [logsOut EXCEPT ![q] = @ + 1]
  /\ UNCHANGED <<lines, viewport, loaded, failed>>

\* The next viewer starts afresh.
CloseLog ==
  /\ job # NoJob /\ job' = NoJob
  /\ lines' = NoText /\ step' = 0 /\ offset' = 0 /\ follow' = TRUE
  /\ loading' = FALSE /\ loaded' = FALSE /\ failed' = FALSE
  /\ UNCHANGED logsOut

RefreshLog ==
  /\ job # NoJob
  /\ loading' = TRUE
  /\ Ask(FALSE)
  /\ UNCHANGED <<job, lines, viewport, loaded, failed>>

\* A tick, unless the job is over: its log cannot change.
PollLog ==
  /\ job # NoJob /\ ~loading /\ job \notin Over
  /\ Ask(TRUE)
  /\ UNCHANGED <<job, lines, viewport, loading, loaded, failed>>

\* Mutant: nothing stops it at the last step.
SelectStepUnbounded(delta) ==
  /\ job # NoJob
  /\ step' = Larger(0, step + delta)
  /\ UNCHANGED <<job, lines, offset, follow, loading, loaded, failed, logsOut>>

\* selectStep: another step starts at its top, or at its end where that is followed,
\* which both keys see to.
SelectStep(delta) ==
  /\ job # NoJob
  /\ step' = Larger(0, Smaller(step + delta, Steps[job] - 1))
  /\ offset' = IF step' # step /\ ~follow THEN 0 ELSE offset
  /\ follow' = TRUE
  /\ UNCHANGED <<job, lines, loading, loaded, failed, logsOut>>

ScrollUp ==
  /\ job # NoJob
  /\ follow' = FALSE
  /\ offset' = Larger(TopLine - ScrollStep, 0)
  /\ UNCHANGED <<job, lines, step, loading, loaded, failed, logsOut>>

\* Reaching the end follows it again.
ScrollDown ==
  /\ job # NoJob
  /\ offset' = Smaller(TopLine + ScrollStep, ScrollLimit(lines[step]))
  /\ follow' = (offset' >= ScrollLimit(lines[step]))
  /\ UNCHANGED <<job, lines, step, loading, loaded, failed, logsOut>>

----------------------------------------------------------------------------
(* Replies.                                                                *)

Answered(q) == logsOut[q] > 0 /\ logsOut' = [logsOut EXCEPT ![q] = @ - 1]

\* Mutant: every log is treated as the first.
Always == TRUE

IsFirst == ~loaded

\* The first log lands on the step that failed and follows its end.
LogArrives(q, text) ==
  /\ job # NoJob /\ Answered(q)
  /\ lines' = text
  /\ loading' = FALSE /\ loaded' = TRUE /\ failed' = FALSE
  /\ IF IsFirst
     THEN step' = FirstFailure(job) /\ follow' = TRUE
     ELSE UNCHANGED <<step, follow>>
  /\ UNCHANGED <<job, offset>>

LogFails(q) ==
  /\ job # NoJob /\ Answered(q)
  /\ loading' = FALSE
  /\ failed' = (failed \/ ~q.poll)
  /\ UNCHANGED <<job, lines, viewport, loaded>>

\* To the screen below.
LogIsDropped(q) ==
  /\ job = NoJob /\ Answered(q)
  /\ UNCHANGED <<job, lines, viewport, loading, loaded, failed>>

LogsNext ==
  \/ (\E j \in Job : OpenLog(j)) \/ CloseLog \/ RefreshLog \/ PollLog
  \/ (\E delta \in {-1, 1} : SelectStep(delta)) \/ ScrollUp \/ ScrollDown
  \/ \E q \in LogRequest :
       LogFails(q) \/ LogIsDropped(q) \/ \E text \in Text : LogArrives(q, text)

LogsSpec == LogsInit /\ [][LogsNext]_logsVars

----------------------------------------------------------------------------

\* Every variable has its type, and the selected step is one of the job's.
LogsTypeOK ==
  /\ job \in Job \cup {NoJob}
  /\ lines \in Text
  /\ IF job = NoJob THEN step = 0 ELSE step \in StepsOf(job)
  /\ offset \in 0..MaxLines /\ follow \in BOOLEAN
  /\ loading \in BOOLEAN /\ loaded \in BOOLEAN /\ failed \in BOOLEAN
  /\ logsOut \in [LogRequest -> 0..MaxOut]

\* Once a log is there, a reply moves nothing under the eyes of a reader who has
\* scrolled away from its end: the same step stays selected and the same line is
\* on top, unless the log has become shorter.  "Following" is what a scroll key
\* ends and what only reaching the end or choosing a step brings back.
OnlyKeysMoveTheView ==
  [][loaded /\ job' = job /\ logsOut' # logsOut /\ ~follow /\ TopLine = offset
       /\ lines'[step] >= lines[step]
     => step' = step /\ TopLine' = TopLine]_logsVars
=============================================================================
