----------------------------- MODULE JobsProofs -----------------------------
(***************************************************************************)
(* Theorems about Jobs.  The invariant Inv is the type invariant and three *)
(* facts that the properties rest on: the rows are of the attempt on       *)
(* screen, an attempt that was neither answered nor said to have failed is *)
(* still being asked for, and what is on its way to an approval was        *)
(* allowed when its key was pressed.                                       *)
(***************************************************************************)
EXTENDS Jobs, SequenceTheorems, SetTheorems, TLAPS

\* An attempt that has no answer is still asked for by a request that says so if
\* it fails.
AskedFor ==
  shown # None /\ ~answered /\ ~failed /\ ~astray
    => jobsOut[Request(shown, attempt, FALSE)] > 0

MayBeAsked(r) == r \in allowed /\ NeedsApproval(r)

\* Each stage of an approval was reached through the one before it.
Gated ==
  /\ \A r \in Run : gate[r] = "yes" => r \in allowed
  /\ \A r \in Run : pushesOut[r] > 0 => MayBeAsked(r)
  /\ \A i \in 1..Len(dialogs) : MayBeAsked(dialogs[i])
  /\ \A r \in Run : writesOut[r] > 0 => MayBeAsked(r) /\ ApiCanApprove(r)
  /\ ApprovalsWereAllowed

Inv == TypeOK /\ RowsAreOfTheAttempt /\ AskedFor /\ Gated

----------------------------------------------------------------------------
(* Numbers and sequences.                                                  *)

\* The rows a search finds, and the first of them, or 0.
WithId(s, a) == {i \in 1..Len(s) : s[i].id = a}
Matching(s, t, M) == {i \in 1..Len(s) : <<s[i].id, t>> \in M}
FirstOf(I) == IF I # {} THEN Min(I) ELSE 0

LEMMA FirstOfFacts ==
  ASSUME NEW s \in Seq(Job), NEW I, I \subseteq 1..Len(s)
  PROVE  /\ FirstOf(I) \in 0..Len(s)
         /\ I # {} => FirstOf(I) \in I
<1>1. Len(s) \in Nat
  BY LenProperties
<1>2. CASE I = {}
  BY <1>1, <1>2 DEF FirstOf
<1>3. CASE I # {}
  <2>1. I \subseteq Nat
    BY <1>1
  <2>2. FirstOf(I) \in I
    BY <1>3, <2>1, MinIsLeast DEF FirstOf
  <2>3. FirstOf(I) \in 1..Len(s)
    BY <2>2
  <2> QED
    BY <1>1, <2>2, <2>3
<1> QED
  BY <1>2, <1>3

\* Where the cursor lands.
LEMMA LandsIs ==
  ASSUME NEW s \in Seq(Job)
  PROVE  Lands(s) =
    IF target # None /\ SelectedId = None
    THEN IF Matching(s, target, Exact) # {}
         THEN FirstAt(FirstOf(Matching(s, target, Exact)))
         ELSE FirstAt(FirstOf(Matching(s, target, Part)))
    ELSE FirstAt(FirstOf(WithId(s, SelectedId)))
<1>1. IndexOfJob(s, target) =
        IF FirstOf(Matching(s, target, Exact)) # 0
        THEN FirstAt(FirstOf(Matching(s, target, Exact)))
        ELSE FirstAt(FirstOf(Matching(s, target, Part)))
  BY DEF IndexOfJob, SelectInSeq, FirstOf, Matching
<1>2. FirstOf(Matching(s, target, Exact)) # 0 <=> Matching(s, target, Exact) # {}
  <2>1. Matching(s, target, Exact) \subseteq 1..Len(s)
    BY DEF Matching
  <2>2. Matching(s, target, Exact) # {} => FirstOf(Matching(s, target, Exact)) \in 1..Len(s)
    BY <2>1, FirstOfFacts
  <2> QED
    BY <2>2, LenProperties DEF FirstOf
<1>3. FirstAt(SelectInSeq(s, LAMBDA job : job.id = SelectedId))
        = FirstAt(FirstOf(WithId(s, SelectedId)))
  BY DEF SelectInSeq, FirstOf, WithId
<1> QED
  BY <1>1, <1>2, <1>3 DEF Lands

\* A dialog leaves the top of the stack, and those below it stay.
LEMMA FrontKeeps ==
  ASSUME NEW S, NEW s \in Seq(S), s # <<>>
  PROVE  /\ Front(s) \in Seq(S) /\ Last(s) \in S /\ Last(s) = s[Len(s)]
         /\ Len(s) \in 1..Len(s)
         /\ \A i \in 1..Len(Front(s)) : i \in 1..Len(s) /\ Front(s)[i] = s[i]
<1>1. Len(s) \in Nat /\ Len(s) >= 1 /\ \A i \in 1..Len(s) - 1 : s[i] \in S
  <2>1. Len(s) \in Nat \ {0}
    BY EmptySeq
  <2> QED
    BY <2>1, ElementOfSeq
<1>2. Front(s) \in Seq(S) /\ Len(Front(s)) = Len(s) - 1
        /\ \A i \in 1..Len(s) - 1 : Front(s)[i] = s[i]
  <2> DEFINE n == Len(s) - 1
  <2>1. n \in Int /\ \A i \in 1..n : s[i] \in S
    BY <1>1
  <2>2. n \in Nat
    BY <1>1
  <2> HIDE DEF n
  <2>3. /\ SubSeq(s, 1, n) \in Seq(S)
        /\ Len(SubSeq(s, 1, n)) = IF 1 <= n THEN n - 1 + 1 ELSE 0
        /\ \A i \in 1..n - 1 + 1 : SubSeq(s, 1, n)[i] = s[1 + i - 1]
    BY <2>1, SubSeqProperties
  <2>4. Len(SubSeq(s, 1, n)) = n /\ \A i \in 1..n : SubSeq(s, 1, n)[i] = s[i]
    BY <2>2, <2>3
  <2>5. Front(s) = SubSeq(s, 1, n)
    BY DEF Front, n
  <2> QED
    BY <2>3, <2>4, <2>5 DEF n
<1> QED
  BY <1>1, <1>2, ElementOfSeq DEF Last
\* The attempts and the requests that the actions name are ones there are.
LEMMA AttemptFacts ==
  /\ 0 \in Attempt
  /\ \A r \in Run : Attempts[r] \in Attempt /\ 1..Top(r) \subseteq Attempt /\ Top(r) \in Nat
  /\ \A r \in Run, a \in Attempt, poll \in BOOLEAN : Request(r, a, poll) \in JobRequest
  /\ Run # {} => 1 \in Attempt
<1>1. \A r \in Run : Attempts[r] \in Nat /\ Top(r) \in Nat \ {0} /\ Attempts[r] <= Top(r)
  BY AttemptsAssumption DEF Top
<1>2. \A r \in Run : 1..Top(r) \subseteq Attempt /\ Attempts[r] \in {0} \cup 1..Top(r)
  BY <1>1 DEF Attempt
<1>3. \A r \in Run : 1 \in 1..Top(r)
  BY <1>1
<1> QED
  BY <1>1, <1>2, <1>3 DEF Attempt, Request, JobRequest

LEMMA LimitFact ==
  TypeOK /\ shown \in Run => MaxAttempt \in Nat /\ 1..MaxAttempt \subseteq Attempt
BY AttemptFacts DEF MaxAttempt, TypeOK

LEMMA AskKeeps ==
  ASSUME jobsOut \in [JobRequest -> Nat], NEW q \in JobRequest, Ask(q)
  PROVE  /\ jobsOut' \in [JobRequest -> Nat]
         /\ jobsOut'[q] > 0
         /\ \A p \in JobRequest : jobsOut[p] > 0 => jobsOut'[p] > 0
BY DEF Ask

LEMMA AnswerKeeps ==
  ASSUME jobsOut \in [JobRequest -> Nat], NEW q \in JobRequest, JobsAnswered(q)
  PROVE  /\ jobsOut' \in [JobRequest -> Nat]
         /\ \A p \in JobRequest \ {q} : jobsOut'[p] = jobsOut[p]
BY DEF JobsAnswered


\* Where the cursor lands is a row, or the first where there is none.
LEMMA LandsFacts ==
  ASSUME NEW s \in Seq(Job)
  PROVE  Lands(s) \in Nat /\ (Lands(s) = 0 \/ Lands(s) < Len(s))
<1>1. \A k \in 0..Len(s) : FirstAt(k) \in Nat /\ (FirstAt(k) = 0 \/ FirstAt(k) < Len(s))
  BY LenProperties DEF FirstAt
<1>2. \A I \in SUBSET (1..Len(s)) : FirstOf(I) \in 0..Len(s)
  BY FirstOfFacts
<1>3. /\ Matching(s, target, Exact) \in SUBSET (1..Len(s))
      /\ Matching(s, target, Part) \in SUBSET (1..Len(s))
      /\ WithId(s, SelectedId) \in SUBSET (1..Len(s))
  BY DEF Matching, WithId
<1> QED
  BY <1>1, <1>2, <1>3, LandsIs

LEMMA ClampFacts ==
  ASSUME NEW s \in Seq(Job), NEW c \in Nat
  PROVE  /\ Clamp(c, s) \in Nat /\ (Clamp(c, s) = 0 \/ Clamp(c, s) < Len(s))
         /\ c < Len(s) => Clamp(c, s) = c
<1>1. Len(s) \in Nat /\ (s # <<>> => Len(s) > 0)
  BY LenProperties, EmptySeq
<1> QED
  BY <1>1 DEF Clamp

\* Every step keeps the types.
LEMMA TypeIsKept ==
  TypeOK /\ [Next]_vars => TypeOK'
<1> SUFFICES ASSUME TypeOK, [Next]_vars PROVE TypeOK'
  OBVIOUS
<1>1. ASSUME NEW r \in Run, NEW t \in Target \cup {None}, Open(r, t) PROVE TypeOK'
  <2>1. jobsOut' \in [JobRequest -> Nat]
    <3>1. Request(r, Attempts[r], FALSE) \in JobRequest
      BY AttemptFacts
    <3> QED
      BY <1>1, <3>1, AskKeeps DEF Open, Fresh, TypeOK
  <2>2. loading' \in BOOLEAN /\ failed' \in BOOLEAN
    BY <1>1 DEF Open, Fresh, EmptyList
  <2>3. rows' \in Seq(Job) /\ cursor' \in Nat /\ (cursor' = 0 \/ cursor' < Len(rows'))
    BY <1>1, EmptySeq DEF Open, Fresh, EmptyList
  <2>4. gate' \in [Run -> {"unknown", "yes", "no"}]
    BY <1>1 DEF Open, Fresh, EmptyList
  <2>5. attempt' \in Attempt /\ target' \in Target \cup {None} /\ shown' \in Run
    BY <1>1, AttemptFacts DEF Open, Fresh
  <2>6. runsOut' \in [Run -> Nat] /\ gatesOut' \in [Run -> Nat]
    BY <1>1 DEF Open, CheckApproval, TypeOK
  <2> QED
    BY <1>1, <2>1, <2>2, <2>3, <2>4, <2>5, <2>6 DEF Open, Fresh, TypeOK
<1>2. ASSUME NEW r \in Run, NEW t \in Target, OpenAt(r, t) PROVE TypeOK'
  <2>1. jobsOut' \in [JobRequest -> Nat]
    <3>1. Request(r, 0, FALSE) \in JobRequest
      BY AttemptFacts
    <3> QED
      BY <1>2, <3>1, AskKeeps DEF OpenAt, Fresh, TypeOK
  <2>2. loading' \in BOOLEAN /\ failed' \in BOOLEAN
    BY <1>2 DEF OpenAt, Fresh, EmptyList
  <2>3. rows' \in Seq(Job) /\ cursor' \in Nat /\ (cursor' = 0 \/ cursor' < Len(rows'))
    BY <1>2, EmptySeq DEF OpenAt, Fresh, EmptyList
  <2>4. gate' \in [Run -> {"unknown", "yes", "no"}]
    BY <1>2 DEF OpenAt, Fresh, EmptyList
  <2>5. attempt' \in Attempt /\ target' \in Target \cup {None} /\ shown' \in Run
    BY <1>2, AttemptFacts DEF OpenAt, Fresh
  <2>6. runsOut' \in [Run -> Nat] /\ gatesOut' \in [Run -> Nat]
    BY <1>2 DEF OpenAt, CheckApproval, TypeOK
  <2> QED
    BY <1>2, <2>1, <2>2, <2>3, <2>4, <2>5, <2>6 DEF OpenAt, Fresh, TypeOK
<1>3. CASE Close
  BY <1>3, AttemptFacts, NoneAssumption, EmptySeq DEF Close, EmptyList, HasKeys,
     OnTop, TypeOK, CheckApproval, list, screen, others, history
<1>4. ASSUME NEW delta \in {-1, 1}, Move(delta) PROVE TypeOK'
  BY <1>4 DEF Move, TypeOK, CheckApproval, list, screen, others, history
<1>5. ASSUME NEW delta \in {-1, 1}, SwitchAttempt(delta) PROVE TypeOK'
  <2>1. jobsOut' \in [JobRequest -> Nat]
    <3>1. Request(shown, attempt', FALSE) \in JobRequest
      BY <1>5, AttemptFacts, LimitFact, NoneAssumption DEF SwitchAttempt, HasKeys,
         OnTop, TypeOK
    <3> QED
      BY <1>5, <3>1, AskKeeps DEF SwitchAttempt, HasKeys, OnTop, TypeOK
  <2> QED
    BY <1>5, <2>1, AttemptFacts, NoneAssumption, EmptySeq, LimitFact, NoneAssumption
       DEF SwitchAttempt, HasKeys, OnTop, TypeOK, list, screen, others, history
<1>6. CASE Refresh
  <2>1. jobsOut' \in [JobRequest -> Nat]
    <3>1. Request(shown, attempt, FALSE) \in JobRequest
      BY <1>6, AttemptFacts, NoneAssumption DEF Refresh, Load, HasKeys, OnTop,
         TypeOK
    <3> QED
      BY <1>6, <3>1, AskKeeps DEF Refresh, Load, HasKeys, OnTop, TypeOK
  <2> QED
    BY <1>6, <2>1, AttemptFacts, NoneAssumption, EmptySeq, NoneAssumption
       DEF Refresh, Load, HasKeys, OnTop, TypeOK, list, screen, others, history
<1>7. CASE Poll
  <2>1. jobsOut' \in [JobRequest -> Nat]
    <3>1. Request(shown, attempt, TRUE) \in JobRequest
      BY <1>7, AttemptFacts, NoneAssumption DEF Poll, Load, OnTop, TypeOK
    <3> QED
      BY <1>7, <3>1, AskKeeps DEF Poll, Load, OnTop, TypeOK
  <2> QED
    BY <1>7, <2>1, AttemptFacts, NoneAssumption, EmptySeq, NoneAssumption DEF Poll,
       Load, OnTop, TypeOK, list, screen, others, history
<1>8. CASE OpenLogs \/ LogsOpen \/ LogsClose
  BY <1>8 DEF OpenLogs, LogsOpen, LogsClose, TypeOK, CheckApproval, list, screen,
     others, history
<1>9. CASE AskApprove
  BY <1>9 DEF AskApprove, TypeOK, CheckApproval, list, screen, others, history,
     HasKeys, OnTop
<1>10. CASE ConfirmApprove
  <2>1. Last(dialogs) \in Run /\ Front(dialogs) \in Seq(Run)
    BY <1>10, FrontKeeps DEF ConfirmApprove, TypeOK
  <2>2. writesOut' \in [Run -> Nat]
    <3>1. CASE ApiCanApprove(Last(dialogs))
      <4>1. writesOut' = [writesOut EXCEPT ![Last(dialogs)] = @ + 1]
        BY <1>10, <3>1 DEF ConfirmApprove
      <4> QED
        BY <2>1, <4>1 DEF TypeOK
    <3>2. CASE ~ApiCanApprove(Last(dialogs))
      BY <1>10, <3>2 DEF ConfirmApprove, TypeOK
    <3> QED
      BY <3>1, <3>2
  <2> QED
    BY <1>10, <2>1, <2>2 DEF ConfirmApprove, TypeOK, list, screen
<1>11. CASE DismissApprove
  BY <1>11, FrontKeeps DEF DismissApprove, TypeOK, CheckApproval, list, screen,
     others, history
<1>12. ASSUME NEW r \in Run, DialogOpens(r) PROVE TypeOK'
  BY <1>12, AppendProperties DEF DialogOpens, TypeOK, CheckApproval, list, screen,
     others, history
<1>13. ASSUME NEW q \in JobRequest, JobsFail(q) PROVE TypeOK'
  BY <1>13, AnswerKeeps DEF JobsFail, JobsAnswered, TypeOK, CheckApproval, list,
     screen, others, history, Said
<1>14. ASSUME NEW q \in JobRequest, JobsAreMissed(q) PROVE TypeOK'
  BY <1>14, AnswerKeeps DEF JobsAreMissed, JobsAnswered, TypeOK, CheckApproval,
     list, screen, others, history
<1>15. ASSUME NEW q \in JobRequest, NEW s \in Answers[q.run][q.attempt], JobsArrive(q, s)
       PROVE  TypeOK'
  <2>1. s \in Seq(Job)
    BY AnswersAssumption DEF JobRequest
  <2>2. Lands(s) \in Nat
    BY <2>1, LandsFacts
  <2>3. cursor' \in Nat /\ (cursor' = 0 \/ cursor' < Len(rows'))
    BY <1>15, <2>1, <2>2, ClampFacts DEF JobsArrive
  <2>4. jobsOut' \in [JobRequest -> Nat]
    BY <1>15, AnswerKeeps DEF JobsArrive, TypeOK
  <2> QED
    BY <1>15, <2>1, <2>3, <2>4 DEF JobsArrive, TypeOK, screen, others
<1>16. ASSUME NEW r \in Run, RunArrives(r) PROVE TypeOK'
  BY <1>16 DEF RunArrives, RunAnswered, TypeOK, CheckApproval, list, screen, others,
     history
<1>17. ASSUME NEW r \in Run, RunIsLost(r) PROVE TypeOK'
  BY <1>17 DEF RunIsLost, RunAnswered, TypeOK, CheckApproval, list, screen, others,
     history
<1>18. ASSUME NEW r \in Run, NEW yes \in Decisions[r], GateAnswers(r, yes)
       PROVE  TypeOK'
  BY <1>18 DEF GateAnswers, TypeOK, CheckApproval, list, screen, others, history,
     Recorded
<1>19. ASSUME NEW r \in Run, NEW sent \in Sendings[r], NEW accepted \in BOOLEAN,
              ApproveAnswers(r, sent, accepted)
       PROVE  TypeOK'
  <2>1. jobsOut' \in [JobRequest -> Nat]
    <3>1. CASE accepted /\ OnTop
      <4>1. Request(shown, attempt, FALSE) \in JobRequest
        BY <3>1, AttemptFacts, NoneAssumption DEF OnTop, TypeOK
      <4> QED
        BY <1>19, <3>1, <4>1, AskKeeps DEF ApproveAnswers, Load, TypeOK
    <3>2. CASE ~(accepted /\ OnTop)
      BY <1>19, <3>2 DEF ApproveAnswers, TypeOK
    <3> QED
      BY <3>1, <3>2
  <2>2. writesOut' \in [Run -> Nat]
    BY <1>19 DEF ApproveAnswers, TypeOK
  <2>3. loading' \in BOOLEAN
    BY <1>19 DEF ApproveAnswers, TypeOK
  <2> QED
    BY <1>19, <2>1, <2>2, <2>3 DEF ApproveAnswers, TypeOK, screen
<1>20. CASE UNCHANGED vars
  BY <1>20 DEF vars, TypeOK, CheckApproval, list, screen, others, history
<1> QED
  BY <1>1, <1>2, <1>3, <1>4, <1>5, <1>6, <1>7, <1>8, <1>9, <1>10, <1>11, <1>12,
     <1>13, <1>14, <1>15, <1>16, <1>17, <1>18, <1>19, <1>20 DEF Next, Reply

\* The rows and the attempt change together.
LEMMA RowsAreKept ==
  RowsAreOfTheAttempt /\ [Next]_vars => RowsAreOfTheAttempt'
<1> SUFFICES ASSUME RowsAreOfTheAttempt, [Next]_vars PROVE RowsAreOfTheAttempt'
  OBVIOUS
<1>1. ASSUME NEW r \in Run, NEW t \in Target \cup {None}, Open(r, t)
      PROVE  RowsAreOfTheAttempt'
  BY <1>1 DEF Open, Fresh, EmptyList, RowsAreOfTheAttempt
<1>2. ASSUME NEW r \in Run, NEW t \in Target, OpenAt(r, t)
      PROVE  RowsAreOfTheAttempt'
  BY <1>2 DEF OpenAt, Fresh, EmptyList, RowsAreOfTheAttempt
<1>3. CASE Close
  BY <1>3 DEF Close, EmptyList, HasKeys, OnTop, RowsAreOfTheAttempt
<1>4. ASSUME NEW delta \in {-1, 1}, Move(delta) PROVE RowsAreOfTheAttempt'
  BY <1>4 DEF Move, RowsAreOfTheAttempt, list, screen, history
<1>5. ASSUME NEW delta \in {-1, 1}, SwitchAttempt(delta) PROVE RowsAreOfTheAttempt'
  BY <1>5 DEF SwitchAttempt, RowsAreOfTheAttempt
<1>6. CASE Refresh
  BY <1>6 DEF Refresh, Load, RowsAreOfTheAttempt, screen, history
<1>7. CASE Poll
  BY <1>7 DEF Poll, Load, RowsAreOfTheAttempt, list, screen, history
<1>8. CASE OpenLogs \/ LogsOpen \/ LogsClose
  BY <1>8 DEF OpenLogs, LogsOpen, LogsClose, RowsAreOfTheAttempt, list, screen, history
<1>9. CASE AskApprove
  BY <1>9 DEF AskApprove, RowsAreOfTheAttempt, list, screen, history
<1>10. CASE ConfirmApprove
  BY <1>10 DEF ConfirmApprove, RowsAreOfTheAttempt, list, screen, history
<1>11. CASE DismissApprove
  BY <1>11 DEF DismissApprove, RowsAreOfTheAttempt, list, screen, history
<1>12. ASSUME NEW r \in Run, DialogOpens(r) PROVE RowsAreOfTheAttempt'
  BY <1>12 DEF DialogOpens, RowsAreOfTheAttempt, list, screen, history
<1>13. ASSUME NEW q \in JobRequest, JobsFail(q) PROVE RowsAreOfTheAttempt'
  BY <1>13 DEF JobsFail, JobsAnswered, RowsAreOfTheAttempt, screen, JobRequest
<1>14. ASSUME NEW q \in JobRequest, JobsAreMissed(q) PROVE RowsAreOfTheAttempt'
  BY <1>14 DEF JobsAreMissed, JobsAnswered, RowsAreOfTheAttempt, list, screen, history
<1>15. ASSUME NEW q \in JobRequest, NEW s \in Answers[q.run][q.attempt], JobsArrive(q, s)
       PROVE  RowsAreOfTheAttempt'
  <2>1. /\ q.run \in Run /\ q.attempt = attempt
        /\ rowsOf' = <<q.run, q.attempt>> /\ UNCHANGED <<shown, attempt>>
        /\ astray' = (astray \/ q.run # shown)
    BY <1>15 DEF JobsArrive, Takes, JobRequest, screen
  <2>2. q.run = shown' \/ astray'
    BY <2>1, Zenon
  <2>3. rowsOf' = <<q.run, attempt'>>
    BY <2>1
  <2> QED
    BY <2>1, <2>2, <2>3, Zenon DEF RowsAreOfTheAttempt
<1>16. ASSUME NEW r \in Run, RunArrives(r) PROVE RowsAreOfTheAttempt'
  BY <1>16 DEF RunArrives, RunAnswered, RowsAreOfTheAttempt, list
<1>17. ASSUME NEW r \in Run, RunIsLost(r) PROVE RowsAreOfTheAttempt'
  BY <1>17 DEF RunIsLost, RunAnswered, RowsAreOfTheAttempt, list, screen, history
<1>18. ASSUME NEW r \in Run, NEW yes \in Decisions[r], GateAnswers(r, yes)
       PROVE  RowsAreOfTheAttempt'
  BY <1>18 DEF GateAnswers, RowsAreOfTheAttempt, list, screen
<1>19. ASSUME NEW r \in Run, NEW sent \in Sendings[r], NEW accepted \in BOOLEAN,
              ApproveAnswers(r, sent, accepted)
       PROVE  RowsAreOfTheAttempt'
  BY <1>19 DEF ApproveAnswers, RowsAreOfTheAttempt, screen, history
<1>20. CASE UNCHANGED vars
  BY <1>20 DEF vars, RowsAreOfTheAttempt, list, screen, history
<1> QED
  BY <1>1, <1>2, <1>3, <1>4, <1>5, <1>6, <1>7, <1>8, <1>9, <1>10, <1>11, <1>12,
     <1>13, <1>14, <1>15, <1>16, <1>17, <1>18, <1>19, <1>20 DEF Next, Reply

\* No request for the attempt on screen is lost unseen.
LEMMA AskedForIsKept ==
  TypeOK /\ AskedFor /\ [Next]_vars => AskedFor'
<1> SUFFICES ASSUME TypeOK /\ AskedFor, [Next]_vars PROVE AskedFor'
  OBVIOUS
<1>1. ASSUME NEW r \in Run, NEW t \in Target \cup {None}, Open(r, t) PROVE AskedFor'
  <2>1. Request(r, Attempts[r], FALSE) \in JobRequest
    BY <1>1, AttemptFacts, LimitFact, NoneAssumption DEF Open, Fresh, HasKeys,
       OnTop, TypeOK
  <2>2. jobsOut'[Request(r, Attempts[r], FALSE)] > 0
    BY <1>1, <2>1, AskKeeps DEF Open, Fresh, TypeOK
  <2> QED
    BY <1>1, <2>2 DEF Open, Fresh, AskedFor, screen, history
<1>2. ASSUME NEW r \in Run, NEW t \in Target, OpenAt(r, t) PROVE AskedFor'
  <2>1. Request(r, 0, FALSE) \in JobRequest
    BY <1>2, AttemptFacts, LimitFact, NoneAssumption DEF OpenAt, Fresh, HasKeys,
       OnTop, TypeOK
  <2>2. jobsOut'[Request(r, 0, FALSE)] > 0
    BY <1>2, <2>1, AskKeeps DEF OpenAt, Fresh, TypeOK
  <2> QED
    BY <1>2, <2>2 DEF OpenAt, Fresh, AskedFor, screen, history
<1>3. CASE Close
  BY <1>3 DEF Close, EmptyList, HasKeys, OnTop, AskedFor
<1>4. ASSUME NEW delta \in {-1, 1}, Move(delta) PROVE AskedFor'
  BY <1>4 DEF Move, AskedFor, list, screen, history
<1>5. ASSUME NEW delta \in {-1, 1}, SwitchAttempt(delta) PROVE AskedFor'
  <2>1. Request(shown, attempt', FALSE) \in JobRequest
    BY <1>5, AttemptFacts, LimitFact, NoneAssumption DEF SwitchAttempt, HasKeys,
       OnTop, TypeOK
  <2>2. jobsOut'[Request(shown, attempt', FALSE)] > 0
    BY <1>5, <2>1, AskKeeps DEF SwitchAttempt, TypeOK
  <2> QED
    BY <1>5, <2>2 DEF SwitchAttempt, AskedFor, screen, history
<1>6. CASE Refresh
  <2>1. Request(shown, attempt, FALSE) \in JobRequest
    BY <1>6, AttemptFacts, LimitFact, NoneAssumption DEF Refresh, Load, HasKeys,
       OnTop, TypeOK
  <2>2. jobsOut'[Request(shown, attempt, FALSE)] > 0
    BY <1>6, <2>1, AskKeeps DEF Refresh, Load, TypeOK
  <2> QED
    BY <1>6, <2>2 DEF Refresh, Load, AskedFor, screen, history
<1>7. CASE Poll
  <2>1. /\ Request(shown, attempt, TRUE) \in JobRequest
        /\ Request(shown, attempt, FALSE) \in JobRequest
    BY <1>7, AttemptFacts, NoneAssumption DEF Poll, OnTop, TypeOK
  <2>2. jobsOut[Request(shown, attempt, FALSE)] > 0
          => jobsOut'[Request(shown, attempt, FALSE)] > 0
    BY <1>7, <2>1, AskKeeps DEF Poll, Load, TypeOK
  <2> QED
    BY <1>7, <2>2 DEF Poll, AskedFor, screen, history, list
<1>8. CASE OpenLogs \/ LogsOpen \/ LogsClose
  BY <1>8 DEF OpenLogs, LogsOpen, LogsClose, AskedFor, list, screen, history
<1>9. CASE AskApprove
  BY <1>9 DEF AskApprove, AskedFor, list, screen, history
<1>10. CASE ConfirmApprove
  BY <1>10 DEF ConfirmApprove, AskedFor, list, screen, history
<1>11. CASE DismissApprove
  BY <1>11 DEF DismissApprove, AskedFor, list, screen, history
<1>12. ASSUME NEW r \in Run, DialogOpens(r) PROVE AskedFor'
  BY <1>12 DEF DialogOpens, AskedFor, list, screen, history
<1>13. ASSUME NEW q \in JobRequest, JobsFail(q) PROVE AskedFor'
  <2>1. shown # None => Request(shown, attempt, FALSE) \in JobRequest
    BY AttemptFacts DEF TypeOK
  <2>2. \A p \in JobRequest \ {q} : jobsOut'[p] = jobsOut[p]
    BY <1>13, AnswerKeeps DEF JobsFail, TypeOK
  <2>3. CASE q.poll
    <3>1. q # Request(shown, attempt, FALSE)
      BY <2>3 DEF Request
    <3> QED
      BY <1>13, <2>1, <2>2, <3>1 DEF JobsFail, AskedFor, screen, Said
  <2>4. CASE ~q.poll
    BY <1>13, <2>4 DEF JobsFail, AskedFor, screen, Said
  <2> QED
    BY <2>3, <2>4
<1>14. ASSUME NEW q \in JobRequest, JobsAreMissed(q) PROVE AskedFor'
  <2>1. shown # None => Request(shown, attempt, FALSE) \in JobRequest
    BY AttemptFacts DEF TypeOK
  <2>2. \A p \in JobRequest \ {q} : jobsOut'[p] = jobsOut[p]
    BY <1>14, AnswerKeeps DEF JobsAreMissed, TypeOK
  <2>3. CASE q.attempt # attempt
    <3>1. q # Request(shown, attempt, FALSE)
      BY <2>3 DEF Request
    <3> QED
      BY <1>14, <2>1, <2>2, <3>1 DEF JobsAreMissed, AskedFor, screen, list
  <2>4. CASE q.attempt = attempt
    BY <1>14, <2>4 DEF JobsAreMissed, AskedFor, screen, Takes, OnTop
  <2> QED
    BY <2>3, <2>4
<1>15. ASSUME NEW q \in JobRequest, NEW s \in Answers[q.run][q.attempt], JobsArrive(q, s)
       PROVE  AskedFor'
  BY <1>15 DEF JobsArrive, JobsAnswered, AskedFor
<1>16. ASSUME NEW r \in Run, RunArrives(r) PROVE AskedFor'
  BY <1>16 DEF RunArrives, RunAnswered, AskedFor, list, screen, history
<1>17. ASSUME NEW r \in Run, RunIsLost(r) PROVE AskedFor'
  BY <1>17 DEF RunIsLost, RunAnswered, AskedFor, list, screen, history
<1>18. ASSUME NEW r \in Run, NEW yes \in Decisions[r], GateAnswers(r, yes)
       PROVE  AskedFor'
  BY <1>18 DEF GateAnswers, AskedFor, list, screen, history
<1>19. ASSUME NEW r \in Run, NEW sent \in Sendings[r], NEW accepted \in BOOLEAN,
              ApproveAnswers(r, sent, accepted)
       PROVE  AskedFor'
  <2>1. CASE accepted /\ OnTop
    <3>1. Request(shown, attempt, FALSE) \in JobRequest
      BY <2>1, AttemptFacts, NoneAssumption DEF OnTop, TypeOK
    <3>2. jobsOut'[Request(shown, attempt, FALSE)] > 0
      BY <1>19, <2>1, <3>1, AskKeeps DEF ApproveAnswers, Load, TypeOK
    <3> QED
      BY <1>19, <3>2 DEF ApproveAnswers, AskedFor, screen
  <2>2. CASE ~(accepted /\ OnTop)
    BY <1>19, <2>2 DEF ApproveAnswers, AskedFor, screen
  <2> QED
    BY <2>1, <2>2
<1>20. CASE UNCHANGED vars
  BY <1>20 DEF vars, AskedFor, list, screen, history
<1> QED
  BY <1>1, <1>2, <1>3, <1>4, <1>5, <1>6, <1>7, <1>8, <1>9, <1>10, <1>11, <1>12,
     <1>13, <1>14, <1>15, <1>16, <1>17, <1>18, <1>19, <1>20 DEF Next, Reply

\* Only the gate's yes lets an approval go on, and it stays said.
LEMMA GatedIsKept ==
  TypeOK /\ Gated /\ [Next]_vars => Gated'
<1> SUFFICES ASSUME TypeOK /\ Gated, [Next]_vars PROVE Gated'
  OBVIOUS
<1>1. ASSUME NEW r \in Run, NEW t \in Target \cup {None}, Open(r, t) PROVE Gated'
  BY <1>1 DEF Open, Fresh, EmptyList, Gated, ApprovalsWereAllowed, MayBeAsked,
     history, others
<1>2. ASSUME NEW r \in Run, NEW t \in Target, OpenAt(r, t) PROVE Gated'
  BY <1>2 DEF OpenAt, Fresh, EmptyList, Gated, ApprovalsWereAllowed, MayBeAsked,
     history, others
<1>3. CASE Close
  BY <1>3 DEF Close, EmptyList, HasKeys, OnTop, Gated, ApprovalsWereAllowed,
     MayBeAsked, history, others
<1>4. ASSUME NEW delta \in {-1, 1}, Move(delta) PROVE Gated'
  BY <1>4 DEF Move, Gated, ApprovalsWereAllowed, MayBeAsked, history, others
<1>5. ASSUME NEW delta \in {-1, 1}, SwitchAttempt(delta) PROVE Gated'
  BY <1>5 DEF SwitchAttempt, Gated, ApprovalsWereAllowed, MayBeAsked, history,
     others
<1>6. CASE Refresh
  BY <1>6 DEF Refresh, Load, Gated, ApprovalsWereAllowed, MayBeAsked, history,
     others
<1>7. CASE Poll
  BY <1>7 DEF Poll, Load, Gated, ApprovalsWereAllowed, MayBeAsked, history, others
<1>8. CASE OpenLogs \/ LogsOpen \/ LogsClose
  BY <1>8 DEF OpenLogs, LogsOpen, LogsClose, Gated, ApprovalsWereAllowed,
     MayBeAsked, history, others
<1>9. CASE AskApprove
  <2>1. shown \in Run /\ MayBeAsked(shown)
    BY <1>9, NoneAssumption DEF AskApprove, HasKeys, OnTop, CanApprove, Waiting,
       TypeOK, Gated, MayBeAsked
  <2> QED
    BY <1>9, <2>1 DEF AskApprove, Gated, ApprovalsWereAllowed, MayBeAsked, history,
       TypeOK
<1>10. CASE ConfirmApprove
  <2>1. /\ Last(dialogs) \in Run /\ MayBeAsked(Last(dialogs))
        /\ \A i \in 1..Len(Front(dialogs)) : MayBeAsked(Front(dialogs)[i])
    BY <1>10, FrontKeeps DEF ConfirmApprove, TypeOK, Gated
  <2>2. \A r \in Run : writesOut'[r] > 0 => MayBeAsked(r) /\ ApiCanApprove(r)
    <3>1. CASE ApiCanApprove(Last(dialogs))
      <4>1. writesOut' = [writesOut EXCEPT ![Last(dialogs)] = @ + 1]
        BY <1>10, <3>1 DEF ConfirmApprove
      <4> QED
        BY <2>1, <3>1, <4>1 DEF TypeOK, Gated
    <3>2. CASE ~ApiCanApprove(Last(dialogs))
      BY <1>10, <3>2 DEF ConfirmApprove, Gated
    <3> QED
      BY <3>1, <3>2
  <2> QED
    BY <1>10, <2>1, <2>2 DEF ConfirmApprove, Gated, ApprovalsWereAllowed,
       MayBeAsked, history
<1>11. CASE DismissApprove
  <2>1. /\ Last(dialogs) \in Run /\ MayBeAsked(Last(dialogs))
        /\ \A i \in 1..Len(Front(dialogs)) : MayBeAsked(Front(dialogs)[i])
    BY <1>11, FrontKeeps DEF DismissApprove, TypeOK, Gated
  <2> QED
    BY <1>11, <2>1 DEF DismissApprove, Gated, ApprovalsWereAllowed, MayBeAsked,
       history, others
<1>12. ASSUME NEW r \in Run, DialogOpens(r) PROVE Gated'
  <2>1. MayBeAsked(r)
    BY <1>12 DEF DialogOpens, Gated
  <2>2. \A i \in 1..Len(dialogs') :
          dialogs'[i] \in {dialogs[j] : j \in 1..Len(dialogs)} \cup {r}
    BY <1>12, AppendProperties DEF DialogOpens, TypeOK
  <2>3. \A i \in 1..Len(dialogs') : MayBeAsked(dialogs'[i])
    BY <2>1, <2>2 DEF Gated
  <2>4. \A p \in Run : pushesOut'[p] > 0 => MayBeAsked(p)
    BY <1>12, <2>1 DEF DialogOpens, Gated, TypeOK
  <2> QED
    BY <1>12, <2>3, <2>4 DEF DialogOpens, Gated, ApprovalsWereAllowed, MayBeAsked,
       history
<1>13. ASSUME NEW q \in JobRequest, JobsFail(q) PROVE Gated'
  BY <1>13 DEF JobsFail, JobsAnswered, Gated, ApprovalsWereAllowed, MayBeAsked,
     history, others
<1>14. ASSUME NEW q \in JobRequest, JobsAreMissed(q) PROVE Gated'
  BY <1>14 DEF JobsAreMissed, JobsAnswered, Gated, ApprovalsWereAllowed, MayBeAsked,
     history, others
<1>15. ASSUME NEW q \in JobRequest, NEW s \in Answers[q.run][q.attempt], JobsArrive(q, s)
       PROVE  Gated'
  BY <1>15 DEF JobsArrive, JobsAnswered, Gated, ApprovalsWereAllowed, MayBeAsked,
     history, others
<1>16. ASSUME NEW r \in Run, RunArrives(r) PROVE Gated'
  BY <1>16 DEF RunArrives, RunAnswered, Gated, ApprovalsWereAllowed, MayBeAsked,
     history, others
<1>17. ASSUME NEW r \in Run, RunIsLost(r) PROVE Gated'
  BY <1>17 DEF RunIsLost, RunAnswered, Gated, ApprovalsWereAllowed, MayBeAsked,
     history, others
<1>18. ASSUME NEW r \in Run, NEW yes \in Decisions[r], GateAnswers(r, yes)
       PROVE  Gated'
  BY <1>18 DEF GateAnswers, Gated, ApprovalsWereAllowed, MayBeAsked, Recorded,
     TypeOK
<1>19. ASSUME NEW r \in Run, NEW sent \in Sendings[r], NEW accepted \in BOOLEAN,
              ApproveAnswers(r, sent, accepted)
       PROVE  Gated'
  BY <1>19 DEF ApproveAnswers, Gated, ApprovalsWereAllowed, MayBeAsked, TypeOK
<1>20. CASE UNCHANGED vars
  BY <1>20 DEF vars, Gated, ApprovalsWereAllowed, MayBeAsked, history, others
<1> QED
  BY <1>1, <1>2, <1>3, <1>4, <1>5, <1>6, <1>7, <1>8, <1>9, <1>10, <1>11, <1>12,
     <1>13, <1>14, <1>15, <1>16, <1>17, <1>18, <1>19, <1>20 DEF Next, Reply

----------------------------------------------------------------------------

LEMMA InvInit == Init => Inv
<1> SUFFICES ASSUME Init PROVE Inv
  OBVIOUS
<1>1. TypeOK
  BY AttemptFacts, EmptySeq DEF Init, TypeOK
<1> QED
  BY <1>1 DEF Init, Inv, RowsAreOfTheAttempt, AskedFor, Gated, ApprovalsWereAllowed

\* The invariant holds whatever the user does and in whatever order the replies come.
THEOREM InvHolds == Spec => []Inv
<1>1. Inv /\ [Next]_vars => Inv'
  BY TypeIsKept, RowsAreKept, AskedForIsKept, GatedIsKept DEF Inv
<1> QED
  BY InvInit, <1>1, PTL DEF Spec

THEOREM Types == Spec => []TypeOK
<1>1. Inv => TypeOK
  BY DEF Inv
<1> QED
  BY InvHolds, <1>1, PTL

\* The jobs on screen are of the attempt the heading names (jobs.go:186-187), and of
\* its run unless the screen was given a reply of a closed one, whose run no reply
\* names (188-190).
THEOREM JobsOnScreen == Spec => []RowsAreOfTheAttempt
<1>1. Inv => RowsAreOfTheAttempt
  BY DEF Inv
<1> QED
  BY InvHolds, <1>1, PTL

\* "No jobs found" is an answer, or a request for the jobs of the attempt is still out,
\* as long as no reply went to the log viewer or came from a closed screen
\* (jobs.go:191-195).
THEOREM EmptinessIsAnAnswer == Spec => []NoJobsIsAnAnswer
<1>1. Inv => NoJobsIsAnAnswer
  <2> SUFFICES ASSUME Inv, OnTop, ~failed, ~astray, ~answered
               PROVE  jobsOut[Request(shown, attempt, FALSE)] > 0
    BY DEF NoJobsIsAnAnswer
  <2> QED
    BY DEF Inv, AskedFor, OnTop
<1> QED
  BY InvHolds, <1>1, PTL

\* No approval is sent that the gate did not allow (approval.go:18-19).
THEOREM Approvals == Spec => []ApprovalsWereAllowed
<1>1. Inv => ApprovalsWereAllowed
  BY DEF Inv, Gated
<1> QED
  BY InvHolds, <1>1, PTL

----------------------------------------------------------------------------
(* Where the cursor is after a reply.                                      *)

\* The rows change when the jobs arrive, and otherwise to none; an attempt is
\* answered when its jobs arrive.
LEMMA RowsChange ==
  [Next]_vars =>
    \/ UNCHANGED rows /\ (answered' => answered)
    \/ rows' = <<>> /\ ~answered'
    \/ \E q \in JobRequest : \E s \in Answers[q.run][q.attempt] : JobsArrive(q, s)
<1> SUFFICES ASSUME [Next]_vars,
                    ~\E q \in JobRequest : \E s \in Answers[q.run][q.attempt] : JobsArrive(q, s)
             PROVE  (rows' = <<>> /\ ~answered') \/ (UNCHANGED rows /\ (answered' => answered))
  OBVIOUS
<1>1. CASE (\E r \in Run : Open(r, None) \/ \E t \in Target : Open(r, t) \/ OpenAt(r, t)) \/ Close
  BY <1>1 DEF Open, OpenAt, Fresh, EmptyList, Close
<1>2. CASE \E delta \in {-1, 1} : Move(delta) \/ SwitchAttempt(delta)
  BY <1>2 DEF Move, SwitchAttempt
<1>3. CASE Refresh \/ Poll \/ OpenLogs \/ LogsOpen \/ LogsClose
  BY <1>3 DEF Refresh, Poll, OpenLogs, LogsOpen, LogsClose, list
<1>4. CASE AskApprove \/ ConfirmApprove \/ DismissApprove \/ \E r \in Run : DialogOpens(r)
  BY <1>4 DEF AskApprove, ConfirmApprove, DismissApprove, DialogOpens, list
<1>5. CASE Reply
  BY <1>5 DEF Reply, JobsFail, JobsAreMissed, RunArrives, RunIsLost, GateAnswers,
              ApproveAnswers, list
<1>6. CASE UNCHANGED vars
  BY <1>6 DEF vars, list
<1> QED
  BY <1>1, <1>2, <1>3, <1>4, <1>5, <1>6 DEF Next

\* A cursor that lands on a row is on it.
LEMMA LandsOn ==
  ASSUME NEW q \in JobRequest, NEW s \in Seq(Job), JobsArrive(q, s),
         NEW k \in 1..Len(s), Lands(s) = FirstAt(k)
  PROVE  SelectedId' = s[k].id
<1>1. Len(s) \in Nat
  BY LenProperties
<1>2. Lands(s) = k - 1 /\ Lands(s) \in Nat /\ Lands(s) < Len(s)
  BY <1>1 DEF FirstAt
<1>3. cursor' = k - 1 /\ rows' = s
  BY <1>2, ClampFacts DEF JobsArrive
<1>4. cursor' < Len(rows') /\ cursor' + 1 = k
  BY <1>1, <1>3
<1> QED
  BY <1>3, <1>4 DEF SelectedId, Selected

LEMMA SelectedFacts ==
  TypeOK => (Selected => SelectedId \in JobId) /\ (rows = <<>> => SelectedId = None)
<1> SUFFICES ASSUME TypeOK
             PROVE  (Selected => SelectedId \in JobId) /\ (rows = <<>> => SelectedId = None)
  OBVIOUS
<1>1. Len(rows) \in Nat /\ (rows = <<>> => Len(rows) = 0)
  BY LenProperties, EmptySeq DEF TypeOK
<1>2. Selected => cursor + 1 \in 1..Len(rows)
  BY <1>1 DEF Selected, TypeOK
<1>3. Selected => rows[cursor + 1] \in Job
  BY <1>2, ElementOfSeq DEF TypeOK
<1> QED
  BY <1>1, <1>3 DEF SelectedId, Selected, TypeOK, Job

\* The cursor follows the job it was on through every reply (jobs.go:213-214).
THEOREM CursorFollows == Spec => CursorFollowsItsJob
<1> DEFINE Follows ==
      \A i \in 1..Len(rows') : rows # rows' /\ Selected /\ rows'[i].id = SelectedId
                                 => SelectedId' = SelectedId
<1>1. TypeOK /\ [Next]_vars => [Follows]_vars
  <2> SUFFICES ASSUME TypeOK, [Next]_vars, NEW i \in 1..Len(rows'),
                      rows # rows', Selected, rows'[i].id = SelectedId
               PROVE  SelectedId' = SelectedId
    OBVIOUS
  <2>1. rows' # <<>>
    BY EmptySeq
  <2>2. PICK q \in JobRequest : \E s \in Answers[q.run][q.attempt] : JobsArrive(q, s)
    BY <2>1, RowsChange
  <2>3. PICK s \in Answers[q.run][q.attempt] : JobsArrive(q, s)
    BY <2>2
  <2>4. s \in Seq(Job) /\ rows' = s
    BY <2>3, AnswersAssumption DEF JobRequest, JobsArrive
  <2>5. SelectedId # None
    BY SelectedFacts, NoneAssumption
  <2>6. i \in WithId(s, SelectedId) /\ WithId(s, SelectedId) \subseteq 1..Len(s)
    BY <2>4 DEF WithId
  <2>7. FirstOf(WithId(s, SelectedId)) \in WithId(s, SelectedId)
    BY <2>4, <2>6, FirstOfFacts
  <2>8. Lands(s) = FirstAt(FirstOf(WithId(s, SelectedId)))
    BY <2>4, <2>5, LandsIs
  <2>9. SelectedId' = s[FirstOf(WithId(s, SelectedId))].id
    BY <2>3, <2>4, <2>6, <2>7, <2>8, LandsOn
  <2> QED
    BY <2>7, <2>9 DEF WithId
<1> QED
  BY Types, <1>1, PTL DEF Spec, CursorFollowsItsJob

\* The screen opens on the job of the check it was opened from, where the first
\* list has it by name (jobs.go:205-210).
THEOREM OpensOnTheCheck == Spec => OpensOnTheJobOfTheCheck
<1> DEFINE Lands1 ==
      \A i \in 1..Len(rows') : ~answered /\ answered' /\ rows = <<>>
        /\ <<rows'[i].id, target>> \in Exact => <<SelectedId', target>> \in Exact
<1>1. TypeOK /\ [Next]_vars => [Lands1]_vars
  <2> SUFFICES ASSUME TypeOK, [Next]_vars, NEW i \in 1..Len(rows'), ~answered, answered',
                      rows = <<>>, <<rows'[i].id, target>> \in Exact
               PROVE  <<SelectedId', target>> \in Exact
    OBVIOUS
  <2>1. PICK q \in JobRequest : \E s \in Answers[q.run][q.attempt] : JobsArrive(q, s)
    BY RowsChange
  <2>2. PICK s \in Answers[q.run][q.attempt] : JobsArrive(q, s)
    BY <2>1
  <2>3. s \in Seq(Job) /\ rows' = s
    BY <2>2, AnswersAssumption DEF JobRequest, JobsArrive
  <2>4. SelectedId = None /\ target # None
    BY SelectedFacts, MatchAssumption, NoneAssumption
  <2>5. i \in Matching(s, target, Exact) /\ Matching(s, target, Exact) \subseteq 1..Len(s)
    BY <2>3 DEF Matching
  <2>6. FirstOf(Matching(s, target, Exact)) \in Matching(s, target, Exact)
    BY <2>3, <2>5, FirstOfFacts
  <2>7. Lands(s) = FirstAt(FirstOf(Matching(s, target, Exact)))
    BY <2>3, <2>4, <2>5, LandsIs
  <2>8. SelectedId' = s[FirstOf(Matching(s, target, Exact))].id
    BY <2>2, <2>3, <2>5, <2>6, <2>7, LandsOn
  <2> QED
    BY <2>6, <2>8 DEF Matching
<1> QED
  BY Types, <1>1, PTL DEF Spec, OpensOnTheJobOfTheCheck

=============================================================================
