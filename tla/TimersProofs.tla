----------------------------- MODULE TimersProofs ----------------------------
(***************************************************************************)
(* Theorems about Timers: the clocks of the root model.                    *)
(***************************************************************************)
EXTENDS Timers, TLAPS

----------------------------------------------------------------------------
(* The clocks: one poll tick per session, a splash that moves, and a       *)
(* status line that no older expiry clears.                                *)

\* A token is issued once, and only the last one issued can be live: every tick
\* out carries a token that was issued, and the clock is armed after startup.
TokensAreFresh ==
  /\ \A k \in Token : k > tokens => ticks[k] = 0
  /\ pollToken <= tokens
  /\ pollToken # 0 => stage = "ready" /\ OneLiveTick

\* Only the last message can be on the line, with its expiry out.
StatusIsTheLast ==
  /\ clears \subseteq 1..generation
  /\ status # 0 => status = generation /\ generation \in clears

\* An identity request is out while the splash is shown, and then only.
StartupAsks == identity = IF stage = "loading" THEN 1 ELSE 0

TimersInv ==
  /\ TypeOK
  /\ TokensAreFresh
  /\ StatusIsTheLast
  /\ StartupAsks
  /\ SplashAnimates

----------------------------------------------------------------------------
(* The parts of the invariant each group of actions can disturb. *)

\* The initial tick is of a session that is not live.
LEMMA TimersInitInv == Init => TimersInv
<1> SUFFICES ASSUME Init PROVE TimersInv
  OBVIOUS
<1>1. TypeOK
  <2>1. 1 \in Token /\ 0 \in 0..MaxToken /\ 1 \in 0..MaxSpinners /\ 0 \in 0..MaxStatus
    BY BoundAssumption DEF Token
  <2>2. ticks \in [Token -> Nat]
    BY DEF Init
  <2> QED
    BY <2>1, <2>2 DEF Init, TypeOK
<1>2. TokensAreFresh
  BY DEF Init, TokensAreFresh, Token
<1>3. StatusIsTheLast /\ StartupAsks /\ SplashAnimates
  BY DEF Init, StatusIsTheLast, StartupAsks, SplashAnimates
<1> QED
  BY <1>1, <1>2, <1>3 DEF TimersInv

\* What leaves the poll clock alone, and never goes back into startup from
\* ready, leaves its tokens alone.
LEMMA SameTokens ==
  ASSUME TokensAreFresh, UNCHANGED pollVars, stage = "ready" => stage' = "ready"
  PROVE  TokensAreFresh'
<1>1. OneLiveTick' <=> OneLiveTick
  BY DEF pollVars, OneLiveTick
<1> QED
  BY <1>1 DEF TokensAreFresh, pollVars

\* What leaves the status line alone leaves its expiries alone.
LEMMA SameStatus ==
  ASSUME StatusIsTheLast, UNCHANGED statusVars
  PROVE  StatusIsTheLast'
  BY DEF StatusIsTheLast, statusVars

\* Arming the clock, whatever ticks of issued tokens are out: the new session's
\* token had none, so the tick added is the only one that carries it.
LEMMA ArmStep ==
  ASSUME TypeOK, stage' = "ready",
         NEW out \in [Token -> Nat], \A k \in Token : k > tokens => out[k] = 0,
         ArmPoll(out)
  PROVE  /\ TokensAreFresh'
         /\ pollToken' \in 0..MaxToken
         /\ tokens' \in Token
         /\ ticks' \in [Token -> Nat]
<1>1. /\ tokens < MaxToken /\ tokens' = tokens + 1 /\ pollToken' = tokens + 1
      /\ ticks' = [out EXCEPT ![tokens + 1] = @ + 1]
  BY DEF ArmPoll
<1>2. tokens \in Nat /\ tokens + 1 \in Token /\ tokens + 1 \in 0..MaxToken
  BY <1>1, BoundAssumption DEF TypeOK, Token
<1>3. ticks' \in [Token -> Nat]
  BY <1>1, <1>2
<1>4. \A k \in Token : k > tokens' => ticks'[k] = 0
  BY <1>1, <1>2 DEF Token
<1>5. OneLiveTick'
  BY <1>1, <1>2 DEF OneLiveTick
<1> QED
  BY <1>1, <1>2, <1>3, <1>4, <1>5 DEF TokensAreFresh

\* Every step preserves the invariant.
LEMMA TimersNextInv == TimersInv /\ [Next]_vars => TimersInv'
<1> SUFFICES ASSUME TimersInv, [Next]_vars PROVE TimersInv'
  OBVIOUS
<1>a. /\ TypeOK /\ TokensAreFresh /\ StatusIsTheLast /\ StartupAsks /\ SplashAnimates
      /\ MaxToken \in Nat /\ MaxStatus \in Nat /\ MaxSpinners \in Nat
  BY BoundAssumption DEF TimersInv
<1>1. CASE IdentityKnown \/ IdentityFails
  <2>1. /\ UNCHANGED pollVars /\ UNCHANGED statusVars /\ spinners' = spinners
        /\ stage' \in {"ready", "error"} /\ stage = "loading"
        /\ identity' = 0 /\ waiting' \in BOOLEAN
    <3>1. identity > 0 /\ identity' = identity - 1
      BY <1>1 DEF IdentityKnown, IdentityFails
    <3>2. stage = "loading" /\ identity' = 0
      BY <3>1, <1>a DEF StartupAsks
    <3>3. CASE IdentityKnown
      BY <3>2, <3>3 DEF IdentityKnown
    <3>4. CASE IdentityFails
      BY <3>2, <3>4, <1>a DEF IdentityFails, TypeOK
    <3> QED
      BY <1>1, <3>3, <3>4
  <2>2. TokensAreFresh' /\ StatusIsTheLast'
    BY <2>1, <1>a, SameTokens, SameStatus
  <2>3. TypeOK' /\ StartupAsks' /\ SplashAnimates'
    BY <2>1, <1>a DEF TypeOK, StartupAsks, SplashAnimates, pollVars, statusVars
  <2> QED
    BY <2>2, <2>3 DEF TimersInv
<1>2. CASE Retry
  <2>1. TokensAreFresh' /\ StatusIsTheLast'
    BY <1>2, <1>a, SameTokens, SameStatus DEF Retry
  <2>2. TypeOK' /\ StartupAsks' /\ SplashAnimates'
    BY <1>2, <1>a DEF Retry, TypeOK, StartupAsks, SplashAnimates,
      pollVars, statusVars
  <2> QED
    BY <2>1, <2>2 DEF TimersInv
<1>3. CASE SpinnerTick
  <2>1. TokensAreFresh' /\ StatusIsTheLast'
    BY <1>3, <1>a, SameTokens, SameStatus DEF SpinnerTick, startVars
  <2>2. TypeOK' /\ StartupAsks' /\ SplashAnimates'
    BY <1>3, <1>a DEF SpinnerTick, TypeOK, StartupAsks, SplashAnimates,
      startVars, pollVars, statusVars
  <2> QED
    BY <2>1, <2>2 DEF TimersInv
<1>4. ASSUME NEW w \in BOOLEAN, ShowScreen(w) PROVE TimersInv'
  <2>1. TokensAreFresh' /\ StatusIsTheLast'
    BY <1>4, <1>a, SameTokens, SameStatus DEF ShowScreen, startVars
  <2>2. TypeOK' /\ StartupAsks' /\ SplashAnimates'
    BY <1>4, <1>a DEF ShowScreen, TypeOK, StartupAsks, SplashAnimates,
      startVars, pollVars, statusVars
  <2> QED
    BY <2>1, <2>2 DEF TimersInv
<1>5. CASE ShowStatus
  <2>1. TokensAreFresh'
    BY <1>5, <1>a, SameTokens DEF ShowStatus, startVars
  <2>2. StatusIsTheLast'
    BY <1>5, <1>a DEF ShowStatus, StatusIsTheLast, TypeOK
  <2>3. TypeOK' /\ StartupAsks' /\ SplashAnimates'
    BY <1>5, <1>a DEF ShowStatus, TypeOK, StartupAsks, SplashAnimates,
      startVars, pollVars
  <2> QED
    BY <2>1, <2>2, <2>3 DEF TimersInv
<1>6. ASSUME NEW g \in clears, ClearStatus(g) PROVE TimersInv'
  <2>1. TokensAreFresh'
    BY <1>6, <1>a, SameTokens DEF ClearStatus, startVars
  <2>2. StatusIsTheLast'
    BY <1>6, <1>a DEF ClearStatus, StatusIsTheLast, TypeOK
  <2>3. TypeOK' /\ StartupAsks' /\ SplashAnimates'
    BY <1>6, <1>a DEF ClearStatus, TypeOK, StartupAsks, SplashAnimates,
      startVars, pollVars
  <2> QED
    BY <2>1, <2>2, <2>3 DEF TimersInv
<1>7. ASSUME NEW out \in [Token -> Nat], \A k \in Token : k > tokens => out[k] = 0,
             stage = "ready", ArmPoll(out),
             UNCHANGED <<startVars, spinners, waiting, statusVars>>
      PROVE  TimersInv'
  <2>1. stage' = "ready"
    BY <1>7 DEF startVars
  <2>2. /\ TokensAreFresh'
        /\ pollToken' \in 0..MaxToken
        /\ tokens' \in Token
        /\ ticks' \in [Token -> Nat]
    BY <1>7, <1>a, <2>1, ArmStep
  <2>3. StatusIsTheLast'
    BY <1>7, <1>a, SameStatus
  <2>4. TypeOK' /\ StartupAsks' /\ SplashAnimates'
    BY <1>7, <1>a, <2>2 DEF TypeOK, StartupAsks, SplashAnimates, startVars, statusVars
  <2> QED
    BY <2>2, <2>3, <2>4 DEF TimersInv
<1>8. CASE TestArms
  <2>1. ticks \in [Token -> Nat] /\ \A k \in Token : k > tokens => ticks[k] = 0
    BY <1>a DEF TypeOK, TokensAreFresh
  <2> QED
    BY <1>7, <1>8, <2>1 DEF TestArms
<1>b. ASSUME NEW k \in Token, ticks[k] > 0
      PROVE  /\ Fired(k) \in [Token -> Nat]
             /\ \A j \in Token : j > tokens => Fired(k)[j] = 0
  BY <1>a, <1>b DEF Fired, TypeOK, TokensAreFresh, Token
<1>9. ASSUME NEW k \in Token, AnswerTick(k) PROVE TimersInv'
  <2>1. ticks[k] > 0
    BY <1>9 DEF AnswerTick
  <2> QED
    BY <1>7, <1>9, <1>b, <2>1 DEF AnswerTick
<1>10. ASSUME NEW k \in Token, DropTick(k) PROVE TimersInv'
  <2>1. /\ ticks[k] > 0 /\ ticks' = Fired(k)
        /\ UNCHANGED <<startVars, spinners, waiting, pollToken, tokens, statusVars>>
    BY <1>10 DEF DropTick
  <2>2. pollToken # 0 => k # pollToken
    BY <1>10, <1>a DEF DropTick, TokensAreFresh
  <2>3. pollToken' # 0 => OneLiveTick'
    BY <2>1, <2>2, <1>a DEF OneLiveTick, TokensAreFresh, Fired, TypeOK, Token
  <2>4. TokensAreFresh'
    BY <2>1, <2>3, <1>a, <1>b DEF TokensAreFresh, startVars
  <2>5. StatusIsTheLast'
    BY <2>1, <1>a, SameStatus
  <2>6. TypeOK' /\ StartupAsks' /\ SplashAnimates'
    BY <2>1, <1>a, <1>b DEF TypeOK, StartupAsks, SplashAnimates, startVars, statusVars
  <2> QED
    BY <2>4, <2>5, <2>6 DEF TimersInv
<1>11. CASE UNCHANGED vars
  <2>1. TokensAreFresh' /\ StatusIsTheLast'
    BY <1>11, <1>a, SameTokens, SameStatus DEF vars, startVars
  <2>2. TypeOK' /\ StartupAsks' /\ SplashAnimates'
    BY <1>11, <1>a DEF vars, TypeOK, StartupAsks, SplashAnimates,
      startVars, pollVars, statusVars
  <2> QED
    BY <2>1, <2>2 DEF TimersInv
<1> QED
  BY <1>1, <1>2, <1>3, <1>4, <1>5, <1>6, <1>8, <1>9, <1>10, <1>11 DEF Next

\* The inductive argument, once for the theorems.
LEMMA TimersInvariance == Spec => []TimersInv
<1>1. Init => TimersInv
  BY TimersInitInv
<1>2. TimersInv /\ [Next]_vars => TimersInv'
  BY TimersNextInv
<1> QED
  BY <1>1, <1>2, PTL DEF Spec

----------------------------------------------------------------------------
(* The theorems. *)

\* Every timer variable keeps its type.
THEOREM TimerTypes == Spec => []TypeOK
<1>1. TimersInv => TypeOK
  BY DEF TimersInv
<1> QED
  BY <1>1, TimersInvariance, PTL

\* A poll session that is live has one tick out, however often the clock is
\* armed and whatever becomes of the ticks of earlier sessions.
THEOREM OneTickPerSession == Spec => []OneLiveTick
<1>1. TimersInv => OneLiveTick
  BY DEF TimersInv, TokensAreFresh, OneLiveTick
<1> QED
  BY <1>1, TimersInvariance, PTL

\* The splash has a spinner tick out for as long as it is shown.
THEOREM SplashMoves == Spec => []SplashAnimates
<1>1. TimersInv => SplashAnimates
  BY DEF TimersInv
<1> QED
  BY <1>1, TimersInvariance, PTL

\* Whatever ticks come late, every clock that should tick has its ticks out
\* (handlePoll, armPoll and Retry of model.go).
THEOREM ClocksKeepTicking == Spec => []ClocksTick
  BY TimerTypes, OneTickPerSession, SplashMoves, PTL DEF ClocksTick

\* A message leaves the status line with its own expiry.
THEOREM StatusKeepsItsTime == Spec => StatusOutlivesOlderExpiries
<1>1. TimersInv /\ [Next]_vars =>
        [status # 0 /\ status' = 0 => status \in clears /\ status \notin clears']_vars
  <2> SUFFICES ASSUME TimersInv, Next, status # 0, status' = 0
               PROVE  status \in clears /\ status \notin clears'
    OBVIOUS
  <2>1. status = generation /\ generation \in clears /\ generation \in Nat
    BY DEF TimersInv, StatusIsTheLast, TypeOK
  <2>2. ASSUME NEW g \in clears, ClearStatus(g)
        PROVE  status \notin clears'
    BY <2>1, <2>2 DEF ClearStatus
  <2>3. ~ShowStatus
    BY <2>1 DEF ShowStatus
  <2>4. \E g \in clears : ClearStatus(g)
    BY <2>3 DEF Next, IdentityKnown, IdentityFails, Retry, SpinnerTick, ShowScreen,
      TestArms, DropTick, AnswerTick, statusVars
  <2> QED
    BY <2>1, <2>2, <2>4
<1> QED
  BY <1>1, TimersInvariance, PTL DEF Spec, StatusOutlivesOlderExpiries
=============================================================================
