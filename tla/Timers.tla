------------------------------- MODULE Timers -------------------------------
(***************************************************************************)
(* What the root model does with time (internal/ui/model.go, clock.go):    *)
(* startup and its retry, the spinner, the status line and its expiry, and *)
(* the poll clock.  Every timer is a command that delivers one message     *)
(* when it fires; a timer is never taken back, it is only told apart from  *)
(* the one that replaced it.                                               *)
(*                                                                         *)
(* The screens are seen from outside: what matters here is whether the one *)
(* on top is waiting for data, which decides the spinner.  Which one it is *)
(* decides the poll interval, and every configured interval is positive    *)
(* (auth.go:40-66), so that a tick's delay is all it changes.              *)
(*                                                                         *)
(* StartedBy says who arms the poll clock.  main.go runs the Model it      *)
(* built, and Init has a value receiver: the armPoll in it sets the token  *)
(* on a copy, and the tick it returns carries a token the running model    *)
(* does not hold.  The tests (poll_test.go) call armPoll on the model they *)
(* go on to drive.                                                         *)
(***************************************************************************)
EXTENDS Integers

CONSTANTS
  StartedBy,      \* "main" or "test"
  MaxToken,       \* bound: poll sessions
  MaxStatus,      \* bound: status messages
  MaxSpinners     \* bound: spinner ticks out at once

ASSUME StarterAssumption == StartedBy \in {"main", "test"}
ASSUME BoundAssumption   ==
  /\ MaxToken \in Nat \ {0}
  /\ MaxStatus \in Nat
  /\ MaxSpinners \in Nat \ {0}

VARIABLES
  stage,       \* loading, error or ready
  identity,    \* identity requests out
  spinners,    \* spinner ticks out
  waiting,     \* whether the screen on top is waiting for data (routeLoading)
  pollToken,   \* the live poll session, 0 for none
  tokens,      \* poll tokens issued so far (the counter in clock.go)
  ticks,       \* how many poll ticks are out for each token
  status,      \* the message shown, by its generation; 0 for none
  generation,  \* statusGeneration
  clears       \* generations whose expiry is out

startVars  == <<stage, identity>>
pollVars   == <<pollToken, tokens, ticks>>
statusVars == <<status, generation, clears>>
vars == <<startVars, spinners, waiting, pollVars, statusVars>>

----------------------------------------------------------------------------

Token == 1..MaxToken

\* Init's commands: one spinner tick, the identity, and a poll tick armed on a
\* copy of the model.
Init ==
  /\ stage = "loading" /\ identity = 1
  /\ spinners = 1
  /\ waiting = FALSE
  /\ pollToken = 0 /\ tokens = 1
  /\ ticks = [k \in Token |-> IF k = 1 THEN 1 ELSE 0]
  /\ status = 0 /\ generation = 0 /\ clears = {}

----------------------------------------------------------------------------
(* Startup. *)

\* applyIdentity tells the routes the account: the first screen starts loading.
IdentityKnown ==
  /\ identity > 0
  /\ identity' = identity - 1
  /\ stage' = "ready"
  /\ waiting' = TRUE
  /\ UNCHANGED <<spinners, pollVars, statusVars>>

IdentityFails ==
  /\ identity > 0
  /\ identity' = identity - 1
  /\ stage' = "error"
  /\ UNCHANGED <<spinners, waiting, pollVars, statusVars>>

\* Mutant: a retry that forgets to ask who the user is.
RetryWithoutIdentity ==
  /\ stage = "error"
  /\ spinners < MaxSpinners
  /\ stage' = "loading"
  /\ spinners' = spinners + 1
  /\ UNCHANGED <<identity, waiting, pollVars, statusVars>>

\* r on the error screen.
Retry ==
  /\ stage = "error"
  /\ spinners < MaxSpinners
  /\ stage' = "loading"
  /\ identity' = identity + 1
  /\ spinners' = spinners + 1
  /\ UNCHANGED <<waiting, pollVars, statusVars>>

\* The animation goes on while there is something to animate.
SpinnerTick ==
  /\ spinners > 0
  /\ spinners' = IF stage = "loading" \/ waiting THEN spinners ELSE spinners - 1
  /\ UNCHANGED <<startVars, waiting, pollVars, statusVars>>

----------------------------------------------------------------------------
(* The screens: the user moves between them, and their data is asked for and *)
(* arrives.  Keys and data reach a screen only once startup is over.         *)

ShowScreen(w) ==
  /\ stage = "ready"
  /\ waiting' = w
  /\ UNCHANGED <<startVars, spinners, pollVars, statusVars>>

----------------------------------------------------------------------------
(* The status line. *)

\* Mutant: a message shown over another leaves its expiry to the older one.
ShowStatusOnTimer ==
  /\ generation < MaxStatus
  /\ generation' = generation + 1
  /\ status' = generation + 1
  /\ clears' = IF clears = {} THEN {generation + 1} ELSE clears
  /\ UNCHANGED <<startVars, spinners, waiting, pollVars>>

ShowStatus ==
  /\ generation < MaxStatus
  /\ generation' = generation + 1
  /\ status' = generation + 1
  /\ clears' = clears \cup {generation + 1}
  /\ UNCHANGED <<startVars, spinners, waiting, pollVars>>

\* Mutant: an expiry clears whatever is shown.
ClearAnyStatus(g) ==
  /\ g \in clears
  /\ clears' = clears \ {g}
  /\ status' = 0
  /\ UNCHANGED <<startVars, spinners, waiting, pollVars, generation>>

\* An expiry clears the line if no other message was shown since.
ClearStatus(g) ==
  /\ g \in clears
  /\ clears' = clears \ {g}
  /\ status' = IF g = generation THEN 0 ELSE status
  /\ UNCHANGED <<startVars, spinners, waiting, pollVars, generation>>

----------------------------------------------------------------------------
(* The poll clock. *)

\* Mutant: arming the clock again keeps the session's token.
ArmPollAgain(out) ==
  /\ tokens' = tokens
  /\ pollToken' = tokens
  /\ ticks' = [out EXCEPT ![tokens] = @ + 1]

\* armPoll: a new session, with a tick of its own beside those that are out.
ArmPoll(out) ==
  /\ tokens < MaxToken
  /\ tokens' = tokens + 1
  /\ pollToken' = tokens + 1
  /\ ticks' = [out EXCEPT ![tokens + 1] = @ + 1]

\* A test arms the model it drives, at any time once startup is over.
TestArms ==
  /\ StartedBy = "test"
  /\ stage = "ready"
  /\ ArmPoll(ticks)
  /\ UNCHANGED <<startVars, spinners, waiting, statusVars>>

Fired(k) == [ticks EXCEPT ![k] = @ - 1]

\* handlePoll drops a tick of another session, and any tick before startup is
\* over; a live one is answered and the next one armed.  The model it returns is
\* the one armPoll changed: the call comes before the copy, as model_test.go:859
\* shows for the same form of return.
DropTick(k) ==
  /\ ticks[k] > 0
  /\ k # pollToken \/ stage # "ready"
  /\ ticks' = Fired(k)
  /\ UNCHANGED <<startVars, spinners, waiting, pollToken, tokens, statusVars>>
AnswerTick(k) ==
  /\ ticks[k] > 0
  /\ k = pollToken /\ stage = "ready"
  /\ ArmPoll(Fired(k))
  /\ UNCHANGED <<startVars, spinners, waiting, statusVars>>

----------------------------------------------------------------------------

Next ==
  \/ IdentityKnown \/ IdentityFails \/ Retry \/ SpinnerTick
  \/ \E w \in BOOLEAN : ShowScreen(w)
  \/ ShowStatus
  \/ \E g \in clears : ClearStatus(g)
  \/ TestArms
  \/ \E k \in Token : DropTick(k) \/ AnswerTick(k)

Spec == Init /\ [][Next]_vars

\* The identity request has 20 seconds (identityTimeout) and a timer fires.
FairSpec ==
  /\ Spec
  /\ WF_vars(IdentityKnown \/ IdentityFails)
  /\ \A g \in 1..MaxStatus : WF_vars(ClearStatus(g))

----------------------------------------------------------------------------
(* Properties. *)

\* The types of the root's timers.
TypeOK ==
  /\ stage \in {"loading", "error", "ready"}
  /\ identity \in Nat
  /\ spinners \in 0..MaxSpinners
  /\ waiting \in BOOLEAN
  /\ pollToken \in 0..MaxToken
  /\ tokens \in Token
  /\ ticks \in [Token -> Nat]
  /\ status \in 0..MaxStatus
  /\ generation \in 0..MaxStatus
  /\ clears \subseteq 1..MaxStatus

\* A live poll session has exactly one tick out: polling neither dies between
\* two ticks nor doubles its cadence when the clock is armed again
\* (handlePoll and armPoll, model.go:411-433).
OneLiveTick == pollToken # 0 => ticks[pollToken] = 1

\* The splash keeps moving until startup is over, also after a retry
\* (model.go:207-214, 279-282).
SplashAnimates == stage = "loading" => spinners > 0

\* Every clock that should tick has its ticks out.
ClocksTick == TypeOK /\ OneLiveTick /\ SplashAnimates

\* A status message is taken away by its own expiry and by no earlier one's
\* (statusClearMsg, model.go:219-224).
StatusOutlivesOlderExpiries ==
  [][status # 0 /\ status' = 0 => status \in clears /\ status \notin clears']_vars

\* Every status message goes away, by its expiry or for the next message.
StatusExpires == \A g \in 1..MaxStatus : status = g ~> status # g

\* Startup ends, in the main screen or on the error screen, after every retry.
StartupEnds == stage = "loading" ~> stage # "loading"

\* "Init starts the splash animation, the identity request, the poll clock"
\* (model.go:121): once startup is over a tick the model answers is out.
PollClockRuns == stage = "ready" => \E k \in Token : k = pollToken /\ ticks[k] > 0

=============================================================================
