---------------------------- MODULE DetailsProofs ----------------------------
(***************************************************************************)
(* Proofs about Details: no order of keys, ticks and answers leaves a      *)
(* section of the sub-tab on screen unasked, a cut discussion unsaid past  *)
(* the refresh that took its note, or a wait that nothing will end, unless *)
(* another screen was given an answer.                                     *)
(*                                                                         *)
(* Every step asks for sections or takes one answer.  Two lemmas say what  *)
(* each does to the requests that are out; the actions add which sections. *)
(***************************************************************************)
EXTENDS Details, TLAPS

\* The flag is up only while a request is out: it is raised with one, and the
\* first answer takes it down.
FlagIsAWait == loading /\ ~missed => \E s \in Section : out[s] > 0

IInv == TypeOK /\ CutIsSaid /\ NothingIsForgotten /\ FlagIsAWait

----------------------------------------------------------------------------

\* What a sub-tab reads or asks for are sections, and it asks for whatever it
\* reads and does not have.
LEMMA Sections ==
  ASSUME NEW t \in AllTabs, NEW have
  PROVE  /\ ActiveSections(t) \subseteq Section
         /\ Missing(t, have) \subseteq Section
         /\ ActiveSections(t) \subseteq Missing(t, have) \cup have
         /\ Conversation \subseteq Section
         /\ Conversation \cap {"detail", "runs", "checks", "commits", "files", "threads"} = {}
<1>1. \A i \in 1..Len(Lists) : Lists[i] \in {"comments", "reviews", "reviewComments"}
  BY ListsAssumption
<1>2. Conversation \subseteq {"comments", "reviews", "reviewComments"}
  BY <1>1 DEF Conversation
<1>3. /\ Conversation \subseteq Section
      /\ Conversation \cap {"detail", "runs", "checks", "commits", "files", "threads"} = {}
  BY <1>2 DEF Section
<1>4. CASE t \in {"info", "checks"}
  BY <1>3, <1>4 DEF ActiveSections, Missing, Section
<1>5. CASE t \in {"commits", "files", "comments"}
  <2>1. ActiveSections(t) \subseteq Section
    BY <1>3, <1>5 DEF ActiveSections, Section
  <2>2. Missing(t, have) = ActiveSections(t) \ have
    BY <1>5 DEF Missing
  <2> QED
    BY <1>3, <2>1, <2>2
<1> QED
  BY <1>4, <1>5 DEF AllTabs

\* What is asked for is out, and what was out still is.
LEMMA Loading ==
  ASSUME TypeOK, FlagIsAWait, NEW sections \in SUBSET Section, Load(sections)
  PROVE  /\ out' \in [Section -> Nat] /\ asks' \in 0..MaxAsks /\ loading' \in BOOLEAN
         /\ missed' = missed
         /\ \A s \in Section : out'[s] > 0 <=> s \in sections \/ out[s] > 0
         /\ FlagIsAWait'
<1>1. out' = [s \in Section |-> IF s \in sections THEN out[s] + 1 ELSE out[s]]
  BY DEF Load
<1>2. out \in [Section -> Nat]
  BY DEF TypeOK
<1>3. /\ out' \in [Section -> Nat]
      /\ \A s \in Section : out'[s] > 0 <=> s \in sections \/ out[s] > 0
  BY <1>1, <1>2
<1>4. asks' \in 0..MaxAsks
  BY BoundAssumption DEF Load, TypeOK
<1>5. loading' \in BOOLEAN /\ missed' = missed
  BY Zenon DEF Load
<1>6. FlagIsAWait'
  BY <1>3 DEF Load, FlagIsAWait
<1> QED
  BY <1>3, <1>4, <1>5, <1>6

\* An answer takes one request away and no other.
LEMMA Answering ==
  ASSUME TypeOK, NEW s \in Section, Answered(s)
  PROVE  /\ out' \in [Section -> Nat]
         /\ \A r \in Section : r # s => out'[r] = out[r]
  BY DEF TypeOK, Answered

\* Every section the sub-tab on screen asks for, in the state named: what
\* NothingIsForgotten says of it.
LEMMA Asked ==
  ASSUME TypeOK, TypeOK', missed' = missed,
         \A s \in Missing(tab', loaded') : s \in failed' \/ out'[s] > 0
  PROVE  NothingIsForgotten'
<1>1. tab' \in AllTabs
  BY DEF TypeOK
<1>2. ActiveSections(tab') \subseteq Missing(tab', loaded') \cup loaded'
  BY <1>1, Sections
<1> QED
  BY <1>2 DEF NothingIsForgotten

LEMMA InitInv == Init => IInv
<1> SUFFICES ASSUME Init PROVE IInv
  OBVIOUS
<1>1. out \in [Section -> Nat] /\ \A s \in Missing("info", {}) : s \in Section => out[s] = 1
  BY DEF Init
<1>2. /\ Missing("info", {}) = {"detail", "checks", "runs"}
      /\ Missing("info", {}) \subseteq Section
  BY DEF Missing, Section
<1>3. TypeOK
  <2>1. tab \in AllTabs /\ asks \in 0..MaxAsks
    BY BoundAssumption DEF Init, AllTabs
  <2>2. /\ loaded \subseteq Section /\ failed \subseteq Section /\ full \subseteq Conversation
        /\ hasMore \in BOOLEAN /\ loading \in BOOLEAN /\ covered \in BOOLEAN /\ missed \in BOOLEAN
    BY DEF Init
  <2> QED
    BY <1>1, <2>1, <2>2 DEF TypeOK
<1>4. CutIsSaid
  BY DEF Init, CutIsSaid, Refetching
<1>5. NothingIsForgotten
  BY <1>1, <1>2 DEF Init, NothingIsForgotten, ActiveSections
<1>6. FlagIsAWait
  BY <1>1, <1>2 DEF FlagIsAWait
<1> QED
  BY <1>3, <1>4, <1>5, <1>6 DEF IInv

----------------------------------------------------------------------------
(* The steps. *)

LEMMA SwitchInv ==
  ASSUME IInv, NEW t \in Tab, SwitchTab(t)
  PROVE  IInv'
<1>1. t \in AllTabs /\ Missing(t, loaded) \in SUBSET Section
  BY BoundAssumption, Sections
<1>2. /\ out' \in [Section -> Nat] /\ asks' \in 0..MaxAsks /\ loading' \in BOOLEAN
      /\ missed' = missed /\ FlagIsAWait'
      /\ \A s \in Section : out'[s] > 0 <=> s \in Missing(t, loaded) \/ out[s] > 0
  BY <1>1, Loading DEF SwitchTab, IInv
<1>3. tab' = t /\ UNCHANGED <<loaded, failed, full, hasMore, covered>>
  BY DEF SwitchTab, discussion
<1>4. TypeOK'
  BY <1>1, <1>2, <1>3 DEF IInv, TypeOK
<1>5. CutIsSaid'
  BY <1>2, <1>3, Sections DEF IInv, TypeOK, CutIsSaid, Refetching
<1>6. NothingIsForgotten'
  BY <1>1, <1>2, <1>3, <1>4, Asked DEF IInv
<1> QED
  BY <1>2, <1>4, <1>5, <1>6 DEF IInv

LEMMA RefreshInv ==
  ASSUME IInv, Refresh
  PROVE  IInv'
<1>1. tab \in AllTabs /\ Missing(tab, loaded') \in SUBSET Section
  BY Sections DEF IInv, TypeOK
<1>2. /\ out' \in [Section -> Nat] /\ asks' \in 0..MaxAsks /\ loading' \in BOOLEAN
      /\ missed' = missed /\ FlagIsAWait'
      /\ \A s \in Section : out'[s] > 0 <=> s \in Missing(tab, loaded') \/ out[s] > 0
  BY <1>1, Loading DEF Refresh, IInv
<1>3. /\ UNCHANGED <<tab, full, covered>>
      /\ loaded' = loaded \ ActiveSections(tab) /\ failed' = failed \ ActiveSections(tab)
      /\ hasMore' = (hasMore /\ tab # "comments")
  BY DEF Refresh
<1>4. hasMore' \in BOOLEAN
  BY <1>3, Zenon
<1>5. TypeOK'
  BY <1>2, <1>3, <1>4 DEF IInv, TypeOK
<1>6. CutIsSaid'
  <2>1. CASE tab = "comments"
    <3>1. Conversation \subseteq ActiveSections(tab) /\ Conversation \subseteq Section
      BY <2>1, Sections DEF ActiveSections, AllTabs
    <3>2. \A s \in Conversation : s \notin loaded' /\ s \in Missing(tab, loaded')
      BY <1>3, <2>1, <3>1 DEF Missing
    <3>3. \A s \in Conversation : Refetching(s)'
      BY <1>2, <3>1, <3>2 DEF Refetching
    <3> QED
      BY <1>3, <3>3 DEF IInv, TypeOK, CutIsSaid
  <2>2. CASE tab # "comments"
    <3>1. ActiveSections(tab) \cap Conversation = {} /\ Conversation \subseteq Section
      BY <1>1, <2>2, Sections DEF ActiveSections, AllTabs
    <3>2. \A s \in Conversation : Refetching(s) => Refetching(s)'
      BY <1>2, <1>3, <3>1 DEF Refetching
    <3> QED
      BY <1>3, <2>2, <3>2 DEF IInv, TypeOK, CutIsSaid
  <2> QED
    BY <2>1, <2>2
<1>7. NothingIsForgotten'
  BY <1>1, <1>2, <1>3, <1>5, Asked DEF IInv
<1> QED
  BY <1>2, <1>5, <1>6, <1>7 DEF IInv

LEMMA ReloadInv ==
  ASSUME IInv, Poll \/ Written
  PROVE  IInv'
<1>1. PICK sections \in {{"checks"}, {"detail"}} : Load(sections)
  BY DEF Poll, Written
<1>2. sections \in SUBSET Section
  BY DEF Section
<1>3. /\ out' \in [Section -> Nat] /\ asks' \in 0..MaxAsks /\ loading' \in BOOLEAN
      /\ missed' = missed /\ FlagIsAWait'
      /\ \A s \in Section : out[s] > 0 => out'[s] > 0
  BY <1>1, <1>2, Loading DEF IInv
<1>4. UNCHANGED <<tab, loaded, failed, full, hasMore, covered>>
  BY DEF Poll, Written, discussion
<1>5. TypeOK' /\ CutIsSaid'
  BY <1>3, <1>4, Sections DEF IInv, TypeOK, CutIsSaid, Refetching
<1>6. NothingIsForgotten'
  <2>1. ActiveSections(tab) \cup Missing(tab, loaded) \subseteq Section
    BY Sections DEF IInv, TypeOK
  <2> QED
    BY <1>3, <1>4, <2>1 DEF IInv, NothingIsForgotten
<1> QED
  BY <1>3, <1>5, <1>6 DEF IInv

LEMMA CoverInv ==
  ASSUME IInv, Cover \/ Uncover \/ UNCHANGED vars
  PROVE  IInv'
<1>1. /\ UNCHANGED <<tab, loaded, failed, full, hasMore, out, loading, missed>>
      /\ covered' \in BOOLEAN
  BY DEF Cover, Uncover, vars, discussion, requests, IInv, TypeOK
<1>2. asks' \in 0..MaxAsks
  BY BoundAssumption DEF Cover, Uncover, vars, requests, IInv, TypeOK
<1> QED
  BY <1>1, <1>2 DEF IInv, TypeOK, CutIsSaid, Refetching, NothingIsForgotten, FlagIsAWait

LEMMA ArrivesInv ==
  ASSUME IInv, NEW s \in Section, NEW more \in BOOLEAN, Arrives(s, more)
  PROVE  IInv'
<1>1. /\ out' \in [Section -> Nat]
      /\ \A r \in Section : r # s => out'[r] = out[r]
  BY Answering DEF Arrives, IInv
<1>2. /\ UNCHANGED <<tab, covered, missed, asks>>
      /\ loading' = FALSE /\ loaded' = loaded \cup {s} /\ failed' = failed \ {s}
      /\ full' = IF more THEN full \cup ({s} \cap Conversation) ELSE full \ {s}
      /\ hasMore' = (hasMore \/ (s \in Conversation /\ more))
  BY DEF Arrives, StillLoading, Fuller, Cut
<1>3. hasMore' \in BOOLEAN
  BY <1>2, Zenon
<1>4. TypeOK'
  BY <1>1, <1>2, <1>3 DEF IInv, TypeOK
<1>5. CutIsSaid'
  <2>1. Conversation \subseteq Section
    BY Sections DEF IInv, TypeOK
  <2>2. \A r \in Conversation : r # s => (Refetching(r) => Refetching(r)')
    BY <1>1, <1>2, <2>1 DEF Refetching
  <2>3. s \in full' => hasMore'
    BY <1>2 DEF IInv, TypeOK
  <2> QED
    BY <1>2, <2>2, <2>3 DEF IInv, TypeOK, CutIsSaid
<1>6. NothingIsForgotten'
  <2>1. ActiveSections(tab) \cup Missing(tab, loaded') \subseteq
          ActiveSections(tab) \cup Missing(tab, loaded)
    BY <1>2 DEF Missing
  <2>2. ActiveSections(tab) \cup Missing(tab, loaded) \subseteq Section
    BY Sections DEF IInv, TypeOK
  <2> QED
    BY <1>1, <1>2, <2>1, <2>2 DEF IInv, NothingIsForgotten
<1>7. FlagIsAWait'
  BY <1>2 DEF FlagIsAWait
<1> QED
  BY <1>4, <1>5, <1>6, <1>7 DEF IInv

LEMMA FailsInv ==
  ASSUME IInv, NEW s \in Section, Fails(s)
  PROVE  IInv'
<1>1. /\ out' \in [Section -> Nat]
      /\ \A r \in Section : r # s => out'[r] = out[r]
  BY Answering DEF Fails, IInv
<1>2. /\ UNCHANGED <<tab, loaded, full, hasMore, covered, missed, asks>>
      /\ loading' = FALSE /\ failed' = failed \cup {s}
  BY DEF Fails, StillLoading, discussion
<1>3. TypeOK'
  BY <1>1, <1>2 DEF IInv, TypeOK
<1>6. CutIsSaid'
  <2>1. Conversation \subseteq Section
    BY Sections DEF IInv, TypeOK
  <2>2. \A r \in Conversation : Refetching(r) => Refetching(r)'
    BY <1>1, <1>2, <2>1 DEF Refetching
  <2> QED
    BY <1>2, <2>2 DEF IInv, TypeOK, CutIsSaid
<1>4. NothingIsForgotten'
  <2>1. ActiveSections(tab) \cup Missing(tab, loaded) \subseteq Section
    BY Sections DEF IInv, TypeOK
  <2> QED
    BY <1>1, <1>2, <2>1 DEF IInv, NothingIsForgotten
<1>5. FlagIsAWait'
  BY <1>2 DEF FlagIsAWait
<1> QED
  BY <1>3, <1>4, <1>5, <1>6 DEF IInv

LEMMA MissesInv ==
  ASSUME IInv, NEW s \in Section, Misses(s)
  PROVE  IInv'
<1>1. out' \in [Section -> Nat]
  BY Answering DEF Misses, IInv
<1>2. UNCHANGED <<tab, loaded, failed, full, hasMore, loading, covered, asks>> /\ missed' = TRUE
  BY DEF Misses, discussion
<1> QED
  BY <1>1, <1>2 DEF IInv, TypeOK, CutIsSaid, Refetching, NothingIsForgotten, FlagIsAWait

LEMMA NextInv == IInv /\ [Next]_vars => IInv'
<1> SUFFICES ASSUME IInv, [Next]_vars PROVE IInv'
  OBVIOUS
<1>1. ASSUME NEW t \in Tab, SwitchTab(t) PROVE IInv'
  BY <1>1, SwitchInv
<1>2. CASE Refresh
  BY <1>2, RefreshInv
<1>3. CASE Poll \/ Written
  BY <1>3, ReloadInv
<1>4. CASE Cover \/ Uncover \/ Idle \/ UNCHANGED vars
  BY <1>4, CoverInv DEF Idle
<1>5. ASSUME NEW s \in Section, Answer(s) PROVE IInv'
  BY <1>5, ArrivesInv, FailsInv, MissesInv DEF Answer
<1> QED
  BY <1>1, <1>2, <1>3, <1>4, <1>5 DEF Next

----------------------------------------------------------------------------
(* The theorems. *)

\* The invariant holds.
THEOREM Invariance == Spec => []IInv
  BY InitInv, NextInv, PTL DEF Spec

\* The screen's variables keep their types.
THEOREM TypeCorrect == Spec => []TypeOK
<1>1. IInv => TypeOK
  BY DEF IInv
<1> QED
  BY <1>1, Invariance, PTL

\* While a full page is on screen the note that more was written is missing only when
\* every such page is one that a refresh dropped and whose replacement is on its way,
\* has failed or went to another screen (prdetails.go:498-503, 897-907): whatever pages
\* of before and after a refresh come in which order.
THEOREM CutsAreSaid == Spec => []CutIsSaid
<1>1. IInv => CutIsSaid
  BY DEF IInv
<1> QED
  BY <1>1, Invariance, PTL

\* What the sub-tab on screen reads has arrived, failed or is on its way
\* (loadTab and refresh, prdetails.go:363-391, 896-909).
THEOREM NothingForgotten == Spec => []NothingIsForgotten
<1>1. IInv => NothingIsForgotten
  BY DEF IInv
<1> QED
  BY <1>1, Invariance, PTL

\* A list that is missing has a first one that is.
LEMMA FirstMissingIsMissing ==
  ASSUME ~(Conversation \subseteq loaded)
  PROVE  Lists[FirstMissing] \in Conversation \ loaded
<1> DEFINE Missed(i) == /\ Lists[i] \notin loaded
                        /\ \A j \in 1..i - 1 : Lists[j] \in loaded
<1>1. \E i \in 1..Len(Lists) : Lists[i] \notin loaded
  BY DEF Conversation
<1>2. Len(Lists) \in 1..3
  BY ListsAssumption
<1>3. \E i \in 1..Len(Lists) : Missed(i)
  <2>1. CASE Lists[1] \notin loaded
    <3>1. 1 \in 1..Len(Lists) /\ 1..1 - 1 = {}
      BY <1>2
    <3> QED
      BY <2>1, <3>1
  <2>2. CASE Lists[1] \in loaded /\ Len(Lists) >= 2 /\ Lists[2] \notin loaded
    <3>1. 2 \in 1..Len(Lists) /\ 1..2 - 1 = {1}
      BY <1>2, <2>2
    <3> QED
      BY <2>2, <3>1
  <2>3. CASE Lists[1] \in loaded /\ (Len(Lists) < 2 \/ Lists[2] \in loaded)
    <3>1. 3 \in 1..Len(Lists) /\ Lists[3] \notin loaded /\ Len(Lists) = 3
      BY <1>1, <1>2, <2>3
    <3>2. 1..3 - 1 = {1, 2}
      OBVIOUS
    <3> QED
      BY <2>3, <3>1, <3>2
  <2> QED
    BY <1>2, <2>1, <2>2, <2>3
<1>4. FirstMissing \in 1..Len(Lists) /\ Lists[FirstMissing] \notin loaded
  BY <1>3 DEF FirstMissing
<1> QED
  BY <1>4 DEF Conversation

\* The Comments sub-tab says "Loading..." only of something on its way
\* (prpanes.go:396-407).
THEOREM LoadingIsHonest == Spec => []LoadingIsAWait
<1>1. ASSUME IInv PROVE LoadingIsAWait
  <2> SUFFICES ASSUME tab = "comments", ~missed, ConversationMessage = "loading"
               PROVE  \E s \in Section : out[s] > 0
    BY DEF LoadingIsAWait
  <2>1. CASE loading
    BY <1>1, <2>1 DEF IInv, FlagIsAWait
  <2>2. CASE ~loading
    <3>1. ~(Conversation \subseteq loaded)
      BY DEF ConversationMessage
    <3> DEFINE s == Lists[FirstMissing]
    <3>2. s \in Conversation \ loaded
      BY <3>1, FirstMissingIsMissing
    <3> HIDE DEF s
    <3>3. LoadMessage(s, "loading") = "loading"
      BY <3>1 DEF ConversationMessage, s
    <3>4. s \notin failed
      BY <2>2, <3>2, <3>3 DEF LoadMessage
    <3>5. s \in ActiveSections(tab) /\ s \in Section
      BY <3>2 DEF ActiveSections, Section
    <3> QED
      BY <1>1, <3>2, <3>4, <3>5 DEF IInv, NothingIsForgotten
  <2> QED
    BY <2>1, <2>2
<1> QED
  BY <1>1, Invariance, PTL

\* What is on screen has been asked for and what looks like a wait is one
\* (loadTab and refresh of prdetails.go, prpanes.go:396-407).
THEOREM WaitsAreHonest == Spec => []WaitsAreTrue
  BY TypeCorrect, NothingForgotten, LoadingIsHonest, PTL DEF WaitsAreTrue
=============================================================================
