----------------------------- MODULE PartsProofs -----------------------------
(***************************************************************************)
(* Theorems about the parts that are machines of their own, and about all  *)
(* of them together: the filters of the lists, the keymap, the log viewer  *)
(* and the steps its lines belong to, the screens of an issue, the lists   *)
(* of the search store, the conversation of a pull request, the navigation *)
(* stack, the division of the terminal, and the reads of the store.        *)
(***************************************************************************)
EXTENDS Parts, SequenceTheorems, SetTheorems, TLAPS

----------------------------------------------------------------------------
(* Sequences.                                                              *)

LEMMA FrontIsASeq ==
  ASSUME NEW S, NEW s \in Seq(S), s # <<>>
  PROVE  Front(s) \in Seq(S) /\ Last(s) \in S
<1>1. Len(s) \in Nat \ {0} /\ \A i \in 1..Len(s) : s[i] \in S
  BY EmptySeq, ElementOfSeq
<1> DEFINE n == Len(s) - 1
<1>2. n \in Int /\ \A i \in 1..n : s[i] \in S
  BY <1>1
<1> HIDE DEF n
<1>3. SubSeq(s, 1, n) \in Seq(S)
  BY <1>2, SubSeqProperties
<1>4. Front(s) \in Seq(S)
  BY <1>3 DEF Front, n
<1>5. Last(s) \in S
  BY <1>1 DEF Last
<1> QED
  BY <1>4, <1>5

LEMMA RemoveIsASeq ==
  ASSUME NEW S, NEW s \in Seq(S), NEW i \in DOMAIN s
  PROVE  RemoveAt(s, i) \in Seq(S) /\ s[i] \in S
<1>1. Len(s) \in Nat /\ i \in 1..Len(s) /\ \A k \in 1..Len(s) : s[k] \in S
  BY ElementOfSeq, LenProperties
<1> DEFINE a == i - 1
<1> DEFINE b == i + 1
<1>2. a \in Int /\ b \in Int /\ Len(s) \in Int
  BY <1>1
<1>3. (\A k \in 1..a : s[k] \in S) /\ (\A k \in b..Len(s) : s[k] \in S)
  BY <1>1
<1> HIDE DEF a, b
<1>4. SubSeq(s, 1, a) \in Seq(S)
  BY <1>2, <1>3, SubSeqProperties
<1>5. SubSeq(s, b, Len(s)) \in Seq(S)
  BY <1>2, <1>3, SubSeqProperties
<1>6. RemoveAt(s, i) \in Seq(S)
  BY <1>4, <1>5, ConcatProperties DEF RemoveAt, a, b
<1> QED
  BY <1>1, <1>6

\* Every message leaves a stack of dialogs one (overlayStack, ui/overlay.go).
LEMMA ReceivedIsASeq ==
  ASSUME NEW D, NEW stack \in Seq(D), NEW m, m.kind = "close-all" \/ m.dialog \in D
  PROVE  Received(stack, m) \in Seq(D)
<1>2. stack # <<>> => Front(stack) \in Seq(D)
  BY FrontIsASeq
<1>3. CASE m.kind = "close-all"
  <2>1. Received(stack, m) = <<>>
    BY <1>3 DEF Received
  <2> QED
    BY <2>1, EmptySeq
<1>4. CASE m.kind # "close-all" /\ (m.kind = "push" \/ stack = <<>>)
  <2>1. Received(stack, m) = Append(stack, m.dialog)
    BY <1>4 DEF Received
  <2> QED
    BY <1>4, <2>1, AppendProperties
<1>5. CASE m.kind # "close-all" /\ ~(m.kind = "push" \/ stack = <<>>)
  <2>1. Received(stack, m) = Append(Front(stack), m.dialog)
    BY <1>5 DEF Received
  <2> QED
    BY <1>2, <1>5, <2>1, AppendProperties
<1> QED
  BY <1>3, <1>4, <1>5

\* Ranks number the members of a set of numbers from 1 on.
LEMMA Ranks ==
  ASSUME NEW S, S \subseteq Nat, IsFiniteSet(S)
  PROVE  /\ Cardinality(S) \in Nat
         /\ \A r \in Nat : Rank(r, S) \in 0..Cardinality(S)
         /\ \A r \in S : Rank(r, S) \in 1..Cardinality(S)
         /\ \A r, s \in S : r < s => Rank(r, S) < Rank(s, S)
         /\ \A n \in 1..Cardinality(S) : \E r \in S : Rank(r, S) = n
<1> DEFINE upTo(r) == {s \in S : s <= r}
<1>1. /\ IsFiniteSet(S) /\ Cardinality(S) \in Nat /\ S \subseteq Nat
      /\ \A r \in Nat : IsFiniteSet(upTo(r)) /\ Cardinality(upTo(r)) \in 0..Cardinality(S)
  <2>1. \A r \in Nat : IsFiniteSet(upTo(r)) /\ Cardinality(upTo(r)) <= Cardinality(S)
    BY FS_Subset
  <2> QED
    BY <2>1, FS_CardinalityType
<1>2. \A r \in S : Cardinality(upTo(r)) # 0
  <2>1. \A r \in S : upTo(r) # {}
    BY <1>1
  <2> QED
    BY <1>1, <2>1, FS_EmptySet
<1>3. ASSUME NEW r \in S, NEW s \in S, r < s
      PROVE  Cardinality(upTo(r)) < Cardinality(upTo(s))
  <2>1. upTo(r) \subseteq upTo(s) /\ s \in upTo(s) /\ s \notin upTo(r)
    <3>1. \A x \in S : x \in Nat
      OBVIOUS
    <3>2. \A x \in S : x <= r => x <= s
      BY <1>3, <3>1
    <3>3. s <= s /\ ~(s <= r)
      BY <1>3, <3>1
    <3> QED
      BY <3>2, <3>3
  <2>2. Cardinality(upTo(r)) <= Cardinality(upTo(s))
    BY <1>1, <2>1, FS_Subset
  <2>3. Cardinality(upTo(r)) # Cardinality(upTo(s))
    BY <1>1, <2>1, FS_Subset
  <2> QED
    BY <1>1, <2>2, <2>3
<1> HIDE DEF upTo
<1>4. \A n \in 1..Cardinality(S) : \E r \in S : Cardinality(upTo(r)) = n
  <2> DEFINE rank == [r \in S |-> Cardinality(upTo(r))]
             ranks == {rank[r] : r \in S}
  <2>1. ranks \subseteq 1..Cardinality(S)
    BY <1>1, <1>2
  <2>2. IsFiniteSet(1..Cardinality(S)) /\ Cardinality(1..Cardinality(S)) = Cardinality(S)
    BY <1>1, FS_Interval
  <2>3. \A r, s \in S : r # s => rank[r] # rank[s]
    <3>1. \A r, s \in S : r # s => r < s \/ s < r
      BY <1>1
    <3>2. \A r \in S : Cardinality(upTo(r)) \in Nat
      BY <1>1
    <3> QED
      BY <1>3, <3>1, <3>2
  <2>4. Cardinality(ranks) = Cardinality(S)
    <3>1. rank \in [S -> ranks] /\ \A n \in ranks : \E r \in S : rank[r] = n
      OBVIOUS
    <3> HIDE DEF rank, ranks
    <3> QED
      BY <1>1, <2>3, <3>1, SameCount
  <2> HIDE DEF ranks
  <2>5. ranks = 1..Cardinality(S)
    BY <2>1, <2>2, <2>4, FS_Subset
  <2> QED
    BY <2>5 DEF ranks
<1> QED
  BY <1>1, <1>2, <1>3, <1>4 DEF Rank, upTo

----------------------------------------------------------------------------
(* Filters.  A message on its way to the dialogs carries one of the dialogs *)
(* below, and one on its way to a list a login for a role or a repository.  *)

Value == Login \cup {Anyone}
Dialog ==
  {Menu(l) : l \in Tab} \cup {Prompt(l) : l \in Tab}
    \cup {RoleMenu(l, v) : l \in Tab, v \in Value} \cup {Picker(o) : o \in Owner}
Message ==
  {Push(d) : d \in Dialog} \cup {Replace(d) : d \in Dialog} \cup {CloseAll}
    \cup {Chosen(r, v) : r \in Role, v \in Value} \cup {Chosen("repo", x) : x \in Repo}

\* What a list is filtered by: one login at most, in a role the list has.
ByOne(l, f) ==
  /\ f = [r \in Role |-> f[r]]
  /\ \A r \in Role : f[r] \in Value /\ (f[r] # Anyone => r \in Roles[l])
  /\ \A r, s \in Role : f[r] # Anyone /\ f[s] # Anyone => r = s

OneFilter ==
  /\ by = [l \in Tab |-> by[l]]
  /\ \A l \in Tab : ByOne(l, by[l])

OnTheirWay ==
  /\ dialogs \in Seq(Dialog)
  /\ coming \in Seq(Message)
  /\ fetching \in Seq(Owner)

FiltersInv == FiltersTypeOK /\ OneFilter /\ OnTheirWay

LEMMA RoleFacts ==
  /\ \A l \in Tab : Roles[l] \subseteq Role
  /\ "repo" \notin Role
  /\ "workflows" \in Tab => "actor" \in Role
<1>1. \A l \in Tab : Roles[l] = CASE l = "workflows" -> {"actor"}
                                  [] l = "prs" -> {"author", "assignee", "reviewer"}
                                  [] l = "issues" -> {"author", "assignee"}
  BY DEF Roles
<1>2. \A l \in Tab : l = "workflows" \/ l = "prs" \/ l = "issues"
  BY TabAssumption
<1>3. \A l \in Tab : Roles[l] \subseteq Role
  BY DEF Role
<1>4. \A l \in Tab : "repo" \notin Roles[l]
  BY <1>1, <1>2
<1> QED
  BY <1>1, <1>3, <1>4 DEF Role

\* The login of the viewer, or any other, asked for in a role of the list on screen.
LEMMA OnlyByIsOne ==
  ASSUME FiltersInv, NEW role \in Roles[shown], NEW v \in Value
  PROVE  LET new == OnlyBy(role, v)
         IN /\ new = [l \in Tab |-> new[l]]
            /\ \A l \in Tab : ByOne(l, new[l])
<1> DEFINE one == [NoLogin EXCEPT ![role] = v]
<1>1. ByOne(shown, one)
  <2>1. one = [r \in Role |-> IF r = role THEN v ELSE Anyone]
    BY DEF NoLogin
  <2> QED
    BY <2>1 DEF ByOne, Value
<1>2. \A l \in Tab : OnlyBy(role, v)[l] = IF l = shown THEN one ELSE by[l]
  BY DEF OnlyBy, FiltersInv, OneFilter
<1>3. OnlyBy(role, v) = [l \in Tab |-> OnlyBy(role, v)[l]]
  BY DEF OnlyBy, FiltersInv, OneFilter
<1> HIDE DEF one
<1> QED
  BY <1>1, <1>2, <1>3 DEF FiltersInv, OneFilter

LEMMA NoLoginIsOne == \A l \in Tab : ByOne(l, NoLogin)
  BY DEF ByOne, NoLogin, Value

LEMMA OneFilterTypes ==
  OneFilter => \A l \in Tab, r \in Role :
    by[l][r] \in Login \cup {Anyone} /\ (by[l][r] # Anyone => r \in Roles[l])
  BY DEF OneFilter, ByOne, Value

LEMMA FiltersInitInv == FiltersInit => FiltersInv
<1> SUFFICES ASSUME FiltersInit PROVE FiltersInv
  OBVIOUS
<1>1. OneFilter
  BY NoLoginIsOne DEF FiltersInit, OneFilter
<1>2. OnTheirWay
  BY EmptySeq DEF FiltersInit, OnTheirWay
<1>3. inRepo \in [Tab -> Repo \cup {Anyone}] /\ state \in [Tab -> DOMAIN State]
  BY DEF FiltersInit, State
<1> QED
  BY <1>1, <1>2, <1>3, OneFilterTypes DEF FiltersInit, FiltersInv, FiltersTypeOK

\* The filters change by one key, and the mail and the dialogs with it.
LEMMA SendIsASeq ==
  ASSUME FiltersInv, NEW ms \in Seq(Message), Send(ms)
  PROVE  coming' \in Seq(Message)
  BY ConcatProperties DEF FiltersInv, OnTheirWay, Send

LEMMA Sequences ==
  /\ <<>> \in Seq(Message)
  /\ \A d \in Dialog : <<Push(d)>> \in Seq(Message) /\ <<Replace(d)>> \in Seq(Message)
  /\ <<CloseAll>> \in Seq(Message)
  /\ \A r \in Role, v \in Value : ApplyFilter(r, v) \in Seq(Message)
  /\ \A x \in Repo : ApplyFilter("repo", x) \in Seq(Message)
<1>1. /\ \A d \in Dialog : Push(d) \in Message /\ Replace(d) \in Message
      /\ CloseAll \in Message
      /\ \A r \in Role, v \in Value : Chosen(r, v) \in Message
      /\ \A x \in Repo : Chosen("repo", x) \in Message
  BY DEF Message
<1>2. \A m, n \in Message : <<m>> \in Seq(Message) /\ <<m, n>> \in Seq(Message)
  OBVIOUS
<1> HIDE DEF Message
<1> QED
  BY <1>1, <1>2, EmptySeq DEF ApplyFilter

LEMMA FiltersNextInv == FiltersInv /\ [FiltersNext]_filterVars => FiltersInv'
<1> SUFFICES ASSUME FiltersInv, [FiltersNext]_filterVars PROVE FiltersInv'
  OBVIOUS
<1> DEFINE Kept == UNCHANGED <<by, inRepo, state>>
<1>a. FiltersTypeOK /\ OneFilter /\ OnTheirWay
  BY DEF FiltersInv
<1>b. /\ Viewer \in Value /\ Anyone \in Value
      /\ \A l \in Tab : Roles[l] \subseteq Role
  BY LoginAssumption, RoleFacts DEF Value
<1>c. ASSUME owner' \in Owner, shown' \in Tab, OneFilter', OnTheirWay',
             inRepo' \in [Tab -> Repo \cup {Anyone}], state' \in [Tab -> DOMAIN State]
      PROVE  FiltersInv'
  <2>1. \A l \in Tab, r \in Role :
          by'[l][r] \in Login \cup {Anyone} /\ (by'[l][r] # Anyone => r \in Roles[l])
    BY <1>c DEF OneFilter, ByOne, Value
  <2> QED
    BY <2>1, <1>c DEF FiltersInv, FiltersTypeOK
<1>d. Kept => /\ OneFilter'
              /\ inRepo' \in [Tab -> Repo \cup {Anyone}]
              /\ state' \in [Tab -> DOMAIN State]
  BY <1>a DEF FiltersTypeOK, OneFilter
<1>e. /\ owner \in Owner /\ shown \in Tab
      /\ inRepo \in [Tab -> Repo \cup {Anyone}] /\ state \in [Tab -> DOMAIN State]
      /\ dialogs \in Seq(Dialog) /\ coming \in Seq(Message) /\ fetching \in Seq(Owner)
  BY <1>a DEF FiltersTypeOK, OnTheirWay
<1>1. ASSUME NEW role \in Role, FilterMine(role) PROVE FiltersInv'
  <2>1. OneFilter'
    BY <1>1, <1>b, OnlyByIsOne DEF FilterMine, OneFilter
  <2> QED
    BY <1>1, <2>1, <1>c, <1>e DEF FilterMine, OnTheirWay
<1>2. ASSUME NEW role \in Role, PickRole(role) PROVE FiltersInv'
  <2>1. Last(dialogs) \in Dialog /\ Last(dialogs).kind = "roles"
    BY <1>2, <1>e, FrontIsASeq DEF PickRole, On, TopDialog
  <2>2. Last(dialogs).login \in Value
    BY <2>1 DEF Dialog, Menu, Prompt, RoleMenu, Picker
  <2>3. coming' \in Seq(Message)
    BY <1>2, <2>2, Sequences, SendIsASeq DEF PickRole, TopDialog
  <2> QED
    BY <1>2, <2>3, <1>c, <1>d, <1>e DEF PickRole, OnTheirWay
<1>3. CASE CycleState
  <2>1. state' \in [Tab -> DOMAIN State]
    <3>1. DOMAIN State = 1..3 /\ Len(State) = 3
      BY DEF State
    <3>2. \A n \in 1..3 : (n % 3) + 1 \in 1..3
      OBVIOUS
    <3> QED
      BY <1>3, <1>e, <3>1, <3>2 DEF CycleState
  <2>2. OneFilter'
    BY <1>3, <1>a DEF CycleState, OneFilter
  <2> QED
    BY <1>3, <2>1, <2>2, <1>c, <1>e DEF CycleState, OnTheirWay
<1>4. CASE ClearFilters
  <2>1. OneFilter'
    BY <1>4, <1>a, NoLoginIsOne DEF ClearFilters, OneFilter
  <2>2. state' \in [Tab -> DOMAIN State]
    BY <1>4, <1>e DEF ClearFilters, State
  <2> QED
    BY <1>4, <2>1, <2>2, <1>c, <1>e DEF ClearFilters, OnTheirWay
<1>5. CASE OpenMenu
  <2>1. Menu(shown) \in Dialog
    BY <1>e DEF Dialog
  <2>2. coming' \in Seq(Message)
    BY <1>5, <2>1, Sequences, SendIsASeq DEF OpenMenu
  <2> QED
    BY <1>5, <2>2, <1>c, <1>d, <1>e DEF OpenMenu, OnTheirWay
<1>6. CASE PickUser
  <2>1. Last(dialogs) \in Dialog /\ Last(dialogs).kind = "menu"
    BY <1>6, <1>e, FrontIsASeq DEF PickUser, On, TopDialog
  <2>2. Prompt(Last(dialogs).list) \in Dialog
    BY <2>1 DEF Dialog, Menu, Prompt, RoleMenu, Picker
  <2>3. coming' \in Seq(Message)
    BY <1>6, <2>2, Sequences, SendIsASeq DEF PickUser, TopDialog
  <2> QED
    BY <1>6, <2>3, <1>c, <1>d, <1>e DEF PickUser, OnTheirWay
<1>7. CASE PickRepo
  <2>1. coming' \in Seq(Message)
    BY <1>7, Sequences, SendIsASeq DEF PickRepo
  <2>2. fetching' \in Seq(Owner)
    BY <1>7, <1>e, AppendProperties DEF PickRepo
  <2> QED
    BY <1>7, <2>1, <2>2, <1>c, <1>d, <1>e DEF PickRepo, OnTheirWay
<1>8. ASSUME NEW login \in Login \cup {Anyone}, Submit(login) PROVE FiltersInv'
  <2>1. /\ Last(dialogs) \in Dialog /\ Last(dialogs).kind = "prompt"
        /\ dialogs' \in Seq(Dialog)
    BY <1>8, <1>e, FrontIsASeq DEF Submit, On, TopDialog
  <2>2. Last(dialogs).list \in Tab
    BY <2>1 DEF Dialog, Menu, Prompt, RoleMenu, Picker
  <2>3. RoleMenu(Last(dialogs).list, login) \in Dialog /\ login \in Value
    BY <2>2 DEF Dialog, Value
  <2>4. Last(dialogs).list = "workflows" => "actor" \in Role
    BY <2>2, RoleFacts
  <2>5. coming' \in Seq(Message)
    BY <1>8, <2>3, <2>4, Sequences, SendIsASeq DEF Submit, TopDialog
  <2> QED
    BY <1>8, <2>1, <2>5, <1>c, <1>d, <1>e DEF Submit, OnTheirWay
<1>9. ASSUME NEW x \in Repo, PickRepository(x) PROVE FiltersInv'
  <2>1. dialogs' \in Seq(Dialog)
    BY <1>9, <1>e, FrontIsASeq DEF PickRepository, On
  <2>2. coming' \in Seq(Message)
    BY <1>9, Sequences, SendIsASeq DEF PickRepository
  <2> QED
    BY <1>9, <2>1, <2>2, <1>c, <1>d, <1>e DEF PickRepository, OnTheirWay
<1>10. CASE Cancel
  <2>1. dialogs' \in Seq(Dialog)
    BY <1>10, <1>e, FrontIsASeq DEF Cancel, Idle
  <2>2. coming' \in Seq(Message)
    BY <1>10, Sequences, SendIsASeq DEF Cancel
  <2> QED
    BY <1>10, <2>1, <2>2, <1>c, <1>d, <1>e DEF Cancel, OnTheirWay
<1>11. ASSUME NEW l \in Tab, SwitchTab(l) PROVE FiltersInv'
  <2>1. OneFilter'
    BY <1>11, <1>a DEF SwitchTab, OneFilter
  <2> QED
    BY <1>11, <2>1, <1>c, <1>e DEF SwitchTab, OnTheirWay
<1>12. ASSUME NEW o \in Owner, SwitchContext(o) PROVE FiltersInv'
  <2>1. OneFilter'
    BY <1>12, NoLoginIsOne DEF SwitchContext, Unfiltered, OneFilter
  <2>2. inRepo' \in [Tab -> Repo \cup {Anyone}] /\ state' \in [Tab -> DOMAIN State]
    BY <1>12 DEF SwitchContext, Unfiltered, State
  <2> QED
    BY <1>12, <2>1, <2>2, <1>c, <1>e DEF SwitchContext, OnTheirWay
<1>13. ASSUME NEW i \in DOMAIN fetching, ReposArrive(i) \/ ReposFail(i) PROVE FiltersInv'
  <2>1. fetching' \in Seq(Owner) /\ fetching[i] \in Owner
    BY <1>13, <1>e, RemoveIsASeq DEF ReposArrive, ReposFail
  <2>2. Push(Picker(fetching[i])) \in Message
    BY <2>1 DEF Message, Dialog
  <2>3. coming' \in Seq(Message)
    <3>1. \A m \in Message : Append(coming, m) \in Seq(Message)
      BY <1>e, AppendProperties
    <3>2. coming' = Append(coming, Push(Picker(fetching[i]))) \/ coming' = coming
      BY <1>13 DEF ReposArrive, ReposFail
    <3> QED
      BY <1>e, <2>2, <3>1, <3>2
  <2> QED
    BY <1>13, <2>1, <2>3, <1>c, <1>d, <1>e DEF ReposArrive, ReposFail, OnTheirWay
<1>14. ASSUME NEW i \in DOMAIN coming, ToDialogs(i) PROVE FiltersInv'
  <2>1. coming' \in Seq(Message) /\ coming[i] \in Message
    BY <1>14, <1>e, RemoveIsASeq DEF ToDialogs
  <2>2. coming[i].kind = "close-all" \/ coming[i].dialog \in Dialog
    BY <1>14, <2>1 DEF ToDialogs, Message, Push, Replace, CloseAll, Chosen
  <2>3. dialogs' \in Seq(Dialog)
    BY <1>14, <1>e, <2>2, ReceivedIsASeq DEF ToDialogs
  <2> QED
    BY <1>14, <2>1, <2>3, <1>c, <1>d, <1>e DEF ToDialogs, OnTheirWay
<1>15. ASSUME NEW i \in DOMAIN coming, ToTheList(i) PROVE FiltersInv'
  <2>1. coming' \in Seq(Message) /\ coming[i] \in Message
    BY <1>15, <1>e, RemoveIsASeq DEF ToTheList
  <2> DEFINE m == coming[i]
  <2>2. \/ m.role \in Role /\ m.role # "repo" /\ m.value \in Value
        \/ m.role = "repo" /\ m.value \in Repo
    <3>1. m.kind = "filter"
      BY <1>15 DEF ToTheList
    <3>2. "repo" \notin Role
      BY RoleFacts
    <3> QED
      BY <2>1, <3>1, <3>2 DEF Message, Push, Replace, CloseAll, Chosen
  <2>3. OneFilter'
    <3>1. CASE m.role \in Roles[shown]
      <4>1. m.value \in Value
        BY <3>1, <2>2, <1>b, <1>e, RoleFacts
      <4>2. by' = OnlyBy(m.role, m.value)
        BY <1>15, <3>1 DEF ToTheList
      <4> HIDE DEF m
      <4> QED
        BY <3>1, <4>1, <4>2, OnlyByIsOne DEF OneFilter
    <3>2. CASE m.role \notin Roles[shown]
      BY <1>15, <3>2, <1>a DEF ToTheList, OneFilter
    <3> QED
      BY <3>1, <3>2
  <2>4. inRepo' \in [Tab -> Repo \cup {Anyone}]
    BY <1>15, <2>2, <1>e DEF ToTheList
  <2> QED
    BY <1>15, <2>1, <2>3, <2>4, <1>c, <1>e DEF ToTheList, OnTheirWay
<1>16. CASE UNCHANGED filterVars
  BY <1>16, <1>a, <1>c, <1>d, <1>e DEF filterVars, OnTheirWay
<1> QED
  BY <1>1, <1>2, <1>3, <1>4, <1>5, <1>6, <1>7, <1>8, <1>9, <1>10, <1>11, <1>12, <1>13,
     <1>14, <1>15, <1>16 DEF FiltersNext

\* Every variable of the filters has its type, and a list is filtered by the roles
\* it has: a filter for another list is ignored (acceptFilter, runs.go, prs.go and
\* issues.go).
THEOREM FilterTypes == FiltersSpec => []FiltersTypeOK
<1>1. FiltersInv => FiltersTypeOK
  BY DEF FiltersInv
<1> QED
  BY FiltersInitInv, FiltersNextInv, <1>1, PTL DEF FiltersSpec

\* A list is filtered by one login in one role, whatever dialogs are open and in
\* whatever order their messages come (filters.go, docs/spec.md:161).
THEOREM OneLogin == FiltersSpec => []OneLoginAtATime
<1>1. FiltersInv => OneLoginAtATime
  BY DEF FiltersInv, OneFilter, ByOne, OneLoginAtATime
<1> QED
  BY FiltersInitInv, FiltersNextInv, <1>1, PTL DEF FiltersSpec
----------------------------------------------------------------------------
(* Keys.  The tables of the routes and of the dialogs are constants: what   *)
(* each key means in each of them is settled first, and the keys pressed,   *)
(* held and sent follow.                                                    *)

\* A key means one thing in a table.
Unambiguous(table) ==
  \A a, b \in table : \A key \in a.keys : key \in b.keys => a.action = b.action

LEMMA Meaning ==
  ASSUME NEW table, Unambiguous(table), NEW b \in table, NEW key \in b.keys
  PROVE  key \in KeysOf(table) /\ Lookup(table, key) = b.action
<1>1. key \in KeysOf(table)
  BY DEF KeysOf
<1> DEFINE c == CHOOSE x \in table : key \in x.keys
<1>2. c \in table /\ key \in c.keys
  OBVIOUS
<1> HIDE DEF c
<1>3. c.action = b.action
  BY <1>2 DEF Unambiguous
<1> QED
  BY <1>1, <1>3 DEF Lookup, c

LEMMA MeansSomething ==
  ASSUME NEW table, NEW key
  PROVE  \/ Lookup(table, key) = "none" /\ \A b \in table : key \notin b.keys
         \/ \E b \in table : key \in b.keys /\ Lookup(table, key) = b.action
<1> DEFINE c == CHOOSE x \in table : key \in x.keys
<1>1. key \in KeysOf(table) <=> \E b \in table : key \in b.keys
  BY DEF KeysOf
<1>2. (\E b \in table : key \in b.keys) => c \in table /\ key \in c.keys
  OBVIOUS
<1>3. Lookup(table, key) = IF key \in KeysOf(table) THEN c.action ELSE "none"
  BY DEF Lookup
<1> HIDE DEF c
<1> QED
  BY <1>1, <1>2, <1>3

\* What a route may bind: no key of the root but "?" on the help screen, nothing it
\* does not handle, and the two questions that confirm on a letter to another one.
WellBound(s, table) ==
  /\ Unambiguous(table)
  /\ \A b \in table :
       /\ "q" \notin b.keys /\ "ctrl+c" \notin b.keys /\ "o" \notin b.keys
       /\ "?" \in b.keys => s = "help" /\ b.action = "back"
       /\ b.action \in Acts(s) \cup {"back"}
       /\ b.action = "approve" => b.keys = {"a"}
       /\ b.action = "close-pr" => b.keys = {"C"}

LEMMA RouteTables == \A s \in RouteScope : WellBound(s, RouteKeys[s])
<1>0. RouteScope = {"workflows", "prs", "issues", "jobs", "logs", "pr", "pr.commits",
                    "pr.commit", "pr.diff", "pr.comments", "issue", "issue.comments",
                    "switcher", "help"}
  BY DEF RouteScope, RouteKeys
<1>1. WellBound("workflows", RouteKeys["workflows"])
  BY <1>0, SMTT(30) DEF RouteKeys, RouteScope, WellBound, Unambiguous, B, Acts,
     MainKeys, RunKeys, PanelKeys, Lists, Cursor,
     RunsActs, PRsActs, IssuesActs, ListActions
<1>2. WellBound("prs", RouteKeys["prs"])
  BY <1>0, SMTT(30) DEF RouteKeys, RouteScope, WellBound, Unambiguous, B, Acts,
     MainKeys, RunKeys, PanelKeys, Lists, Cursor,
     RunsActs, PRsActs, IssuesActs, ListActions
<1>3. WellBound("issues", RouteKeys["issues"])
  BY <1>0, SMTT(30) DEF RouteKeys, RouteScope, WellBound, Unambiguous, B, Acts,
     MainKeys, RunKeys, PanelKeys, Lists, Cursor,
     RunsActs, PRsActs, IssuesActs, ListActions
<1>4. WellBound("jobs", RouteKeys["jobs"])
  BY <1>0, SMTT(30) DEF RouteKeys, RouteScope, WellBound, Unambiguous, B, Acts,
     MainKeys, RunKeys, PanelKeys, Cursor, Back, RefreshKeys, ScrollPages,
     JobsActs, LogsActs
<1>5. WellBound("logs", RouteKeys["logs"])
  BY <1>0, SMTT(30) DEF RouteKeys, RouteScope, WellBound, Unambiguous, B, Acts,
     MainKeys, RunKeys, PanelKeys, Cursor, Back, RefreshKeys, ScrollPages,
     JobsActs, LogsActs
<1>6. WellBound("pr", RouteKeys["pr"])
  BY <1>0, SMTT(30) DEF RouteKeys, RouteScope, WellBound, Unambiguous, B, Acts,
     MainKeys, RunKeys, PanelKeys, PRKeys, Back, Cursor, Scroll, ScrollPages, Browser,
      RefreshKeys, Tabs,
     PRActs, CommitActs
<1>7. WellBound("pr.commits", RouteKeys["pr.commits"])
  BY <1>0, SMTT(30) DEF RouteKeys, RouteScope, WellBound, Unambiguous, B, Acts,
     MainKeys, RunKeys, PanelKeys, PRKeys, Back, Cursor, Scroll, ScrollPages, Browser,
      RefreshKeys, Tabs,
     PRActs, CommitActs
<1>8. WellBound("pr.commit", RouteKeys["pr.commit"])
  BY <1>0, SMTT(30) DEF RouteKeys, RouteScope, WellBound, Unambiguous, B, Acts,
     MainKeys, RunKeys, PanelKeys, PRKeys, Back, Cursor, Scroll, ScrollPages, Browser,
      RefreshKeys, Tabs,
     PRActs, CommitActs
<1>9. WellBound("pr.diff", RouteKeys["pr.diff"])
  BY <1>0, SMTT(30) DEF RouteKeys, RouteScope, WellBound, Unambiguous, B, Acts,
     MainKeys, RunKeys, PanelKeys, PRKeys, Back, Cursor, Scroll, ScrollPages, Browser,
      RefreshKeys, Tabs,
     PRActs, CommitActs
<1>10. WellBound("pr.comments", RouteKeys["pr.comments"])
  BY <1>0, SMTT(30) DEF RouteKeys, RouteScope, WellBound, Unambiguous, B, Acts,
     MainKeys, RunKeys, PanelKeys, PRKeys, Back, Cursor, Scroll, ScrollPages, Browser,
      RefreshKeys, Tabs,
     PRActs, CommitActs
<1>11. WellBound("issue", RouteKeys["issue"])
  BY <1>0, SMTT(30) DEF RouteKeys, RouteScope, WellBound, Unambiguous, B, Acts,
     MainKeys, RunKeys, PanelKeys, IssueKeys, Back, Cursor, Scroll, ScrollPages, Browser,
      RefreshKeys,
     IssueActs, ThreadActs
<1>12. WellBound("issue.comments", RouteKeys["issue.comments"])
  BY <1>0, SMTT(30) DEF RouteKeys, RouteScope, WellBound, Unambiguous, B, Acts,
     MainKeys, RunKeys, PanelKeys, IssueKeys, Back, Cursor, Scroll, ScrollPages, Browser,
      RefreshKeys,
     IssueActs, ThreadActs
<1>13. WellBound("switcher", RouteKeys["switcher"])
  BY <1>0, SMTT(30) DEF RouteKeys, RouteScope, WellBound, Unambiguous, B, Acts,
     MainKeys, RunKeys, PanelKeys, Cursor, Esc,
     SwitcherActs, HelpActs
<1>14. WellBound("help", RouteKeys["help"])
  BY <1>0, SMTT(30) DEF RouteKeys, RouteScope, WellBound, Unambiguous, B, Acts,
     MainKeys, RunKeys, PanelKeys, Cursor, Esc,
     SwitcherActs, HelpActs
<1> QED
  BY <1>0, <1>1, <1>2, <1>3, <1>4, <1>5, <1>6, <1>7, <1>8, <1>9, <1>10, <1>11, <1>12, <1>13, <1>14

LEMMA ModalTables == 
  /\ Modal = {"filterType", "repoSelect", "userInput", "prFilterType", "issueFilterType",
              "mergeMethod", "mergeConfirm", "closeConfirm", "approveRun"}
  /\ \A s \in Modal : Unambiguous(ModalKeys[s])
<1> QED
  BY SMTT(60) DEF Modal, ModalKeys, Unambiguous, Esc, EscOrCancel, Author, Cursor, YesNo, B

\* A dialog, and the key that led to it, which is not one that says yes to it.
Question ==
  {o \in [scope : Modal, key : Key, from : RouteScope] :
     Lookup(ModalKeys[o.scope], o.key) # "confirm"}
KeyMail == {Push(o) : o \in Question} \cup {Replace(o) : o \in Question} \cup {CloseAll}

KeysInv ==
  /\ stage \in {"loading", "error", "ready"} /\ top \in RouteScope
  /\ modals \in Seq(Question) /\ sent \in Seq(KeyMail)
  /\ HeldKeyNeverConfirms

LEMMA AnswersTo ==
  /\ \A s \in Modal \ {"mergeConfirm", "closeConfirm", "approveRun"}, k \in Key :
       Lookup(ModalKeys[s], k) # "confirm"
  /\ \A s \in {"mergeConfirm", "closeConfirm"}, k \in Key :
       Lookup(ModalKeys[s], k) = "confirm" => k \in {"y", "Y"}
  /\ \A k \in Key : Lookup(ModalKeys["approveRun"], k) = "confirm" => k \in {"y", "Y", "enter"}
  /\ \A s \in Modal, k \in {"y", "Y"} :
       s \notin {"mergeConfirm", "closeConfirm", "approveRun"}
         => Lookup(ModalKeys[s], k) = "none"
<1>1. \A s, k : \/ /\ Lookup(ModalKeys[s], k) = "none"
                  /\ \A b \in ModalKeys[s] : k \notin b.keys
               \/ \E b \in ModalKeys[s] : k \in b.keys /\ Lookup(ModalKeys[s], k) = b.action
  BY MeansSomething
<1>2. \A s \in Modal \ {"mergeConfirm", "closeConfirm", "approveRun"} : \A b \in ModalKeys[s] :
        b.action \notin {"confirm", "none"} /\ "y" \notin b.keys /\ "Y" \notin b.keys
  BY ModalTables, SMTT(30) DEF ModalKeys, Esc, EscOrCancel, Author, Cursor, B
<1>3. \A s \in {"mergeConfirm", "closeConfirm"} : \A b \in ModalKeys[s] :
        b.action = "confirm" => b.keys = {"y", "Y"}
  BY SMTT(30) DEF ModalKeys, YesNo, B
<1>4. \A b \in ModalKeys["approveRun"] : b.action = "confirm" => b.keys = {"y", "Y", "enter"}
  BY SMTT(30) DEF ModalKeys, B
<1> DEFINE Confirming == {"mergeConfirm", "closeConfirm", "approveRun"}
<1>5. \A s \in Modal \ Confirming : \A k : Lookup(ModalKeys[s], k) # "confirm"
  BY <1>1, <1>2
<1>6. \A s \in Modal \ Confirming, k \in {"y", "Y"} : Lookup(ModalKeys[s], k) = "none"
  BY <1>1, <1>2
<1>7. \A s \in {"mergeConfirm", "closeConfirm"} : \A k :
        Lookup(ModalKeys[s], k) = "confirm" => k \in {"y", "Y"}
  <2> TAKE s \in {"mergeConfirm", "closeConfirm"}
  <2> TAKE k
  <2> SUFFICES ASSUME Lookup(ModalKeys[s], k) = "confirm" PROVE k \in {"y", "Y"}
    OBVIOUS
  <2>1. PICK b \in ModalKeys[s] : k \in b.keys /\ b.action = "confirm"
    BY <1>1
  <2> QED
    BY <2>1, <1>3
<1>8. \A k : Lookup(ModalKeys["approveRun"], k) = "confirm" => k \in {"y", "Y", "enter"}
  <2> TAKE k
  <2> SUFFICES ASSUME Lookup(ModalKeys["approveRun"], k) = "confirm"
               PROVE  k \in {"y", "Y", "enter"}
    OBVIOUS
  <2>1. PICK b \in ModalKeys["approveRun"] : k \in b.keys /\ b.action = "confirm"
    BY <1>1
  <2> QED
    BY <2>1, <1>4
<1> QED
  BY <1>5, <1>6, <1>7, <1>8

LEMMA KeysInitInv == KeysInit => KeysInv
  BY EmptySeq, RouteTables DEF KeysInit, KeysInv, HeldKeyNeverConfirms, RouteScope, RouteKeys

\* Only the keys of a dialog confirm.
LEMMA OnlyModalsSend ==
  ASSUME KeysInv, NEW key \in Key, PressModal(key)
  PROVE  KeysInv'
<1> DEFINE a == Lookup(ModalKeys[TopModal.scope], key)
<1>1. modals # <<>> /\ Dispatch(key).action = a
  BY DEF PressModal, Dispatch, Does, Taker
<1>2. TopModal \in Question /\ Front(modals) \in Seq(Question)
  BY <1>1, FrontIsASeq DEF KeysInv, TopModal
<1>3. modals' \in Seq(Question)
  BY <1>2 DEF PressModal, KeysInv
<1>4. Sends(TopModal, a, key) \in Seq(KeyMail)
  <2>0. /\ TopModal.scope \in Modal /\ TopModal.from \in RouteScope
        /\ \A s \in {"userInput", "repoSelect", "prFilterType", "issueFilterType"} : s \in Modal
        /\ "mergeConfirm" \in Modal
    BY <1>2, ModalTables DEF Question
  <2>1. \A s \in {"userInput", "repoSelect", "prFilterType", "issueFilterType"} :
          Opened(s, key, TopModal.from) \in Question
    BY <2>0, AnswersTo DEF Opened, Question
  <2>2. ASSUME TopModal.scope = "mergeMethod", Pops(TopModal.scope, a), a # "back"
        PROVE  Opened("mergeConfirm", key, TopModal.from) \in Question
    <3>1. a # "none"
      BY <2>2 DEF Pops
    <3>2. key \notin {"y", "Y"}
      BY <2>0, <2>2, <3>1, AnswersTo
    <3> QED
      BY <2>0, <3>2, AnswersTo DEF Opened, Question
  <2>3. <<CloseAll>> \in Seq(KeyMail) /\ <<>> \in Seq(KeyMail)
    BY EmptySeq DEF KeyMail
  <2>4. \A q \in Question : <<Push(q)>> \in Seq(KeyMail) /\ <<Replace(q)>> \in Seq(KeyMail)
    BY DEF KeyMail
  <2> HIDE DEF a
  <2>5. LoginLeadsTo(key, TopModal.from) \in KeyMail
    BY <2>1, <2>4 DEF LoginLeadsTo, KeyMail
  <2>6. <<LoginLeadsTo(key, TopModal.from)>> \in Seq(KeyMail)
    BY <2>5
  <2> QED
    BY <2>1, <2>2, <2>3, <2>4, <2>6 DEF Sends
<1>5. sent' \in Seq(KeyMail)
  BY <1>1, <1>4, ConcatProperties DEF PressModal, KeysInv
<1>6. HeldKeyNeverConfirms'
  <2>1. a = "confirm" => key # TopModal.key
    BY <1>2 DEF Question
  <2> QED
    BY <1>1, <2>1 DEF PressModal, HeldKeyNeverConfirms
<1> QED
  BY <1>3, <1>5, <1>6 DEF KeysInv, PressModal

LEMMA GlobalTable ==
  /\ Unambiguous(GlobalKeys)
  /\ \A b \in GlobalKeys : b.action \in {"help", "switch-context", "quit"}
  /\ KeysOf(GlobalKeys) = {"?", "o", "q", "ctrl+c"}
  /\ Lookup(GlobalKeys, "?") = "help" /\ Lookup(GlobalKeys, "o") = "switch-context"
  /\ Lookup(GlobalKeys, "q") = "quit" /\ Lookup(GlobalKeys, "ctrl+c") = "quit"
  /\ \A k : k \notin {"?", "o", "q", "ctrl+c"} => Lookup(GlobalKeys, k) = "none"
<1>1. Unambiguous(GlobalKeys)
  BY DEF GlobalKeys, Unambiguous, B
<1>2. \A b \in GlobalKeys : b.action \in {"help", "switch-context", "quit"}
  BY DEF GlobalKeys, B
<1>3. KeysOf(GlobalKeys) = {"?", "o", "q", "ctrl+c"}
  BY SMTT(30) DEF GlobalKeys, KeysOf, B
<1>4. \E b \in GlobalKeys : "?" \in b.keys /\ b.action = "help"
  BY DEF GlobalKeys, B
<1>5. \E b \in GlobalKeys : "o" \in b.keys /\ b.action = "switch-context"
  BY DEF GlobalKeys, B
<1>6. \E b \in GlobalKeys : "q" \in b.keys /\ "ctrl+c" \in b.keys /\ b.action = "quit"
  BY DEF GlobalKeys, B
<1>7. \A k : k \notin {"?", "o", "q", "ctrl+c"} => Lookup(GlobalKeys, k) = "none"
  BY <1>3 DEF Lookup
<1> QED
  BY <1>1, <1>2, <1>3, <1>4, <1>5, <1>6, <1>7, Meaning

LEMMA KeysNextInv == KeysInv /\ [KeysNext]_keyVars => KeysInv'
<1> SUFFICES ASSUME KeysInv, [KeysNext]_keyVars PROVE KeysInv'
  OBVIOUS
<1>1. ASSUME NEW key \in Key, PressModal(key)
      PROVE  KeysInv'
  BY <1>1, OnlyModalsSend
<1>2. ASSUME NEW key \in Key, PressRoute(key)
      PROVE  KeysInv'
  <2> DEFINE a == Resolve(key)
  <2>1. Dispatch(key).action = a
    BY <1>2 DEF PressRoute, Dispatch, Does
  <2>2. a = "approve" => key = "a"
    <3>1. \A b \in RouteKeys[top] : b.action = "approve" => b.keys = {"a"}
      BY RouteTables DEF KeysInv, WellBound
    <3>2. Lookup(GlobalKeys, key) # "approve"
      BY GlobalTable
    <3>3. Lookup(RouteKeys[top], key) = "approve" => key = "a"
      <4> DEFINE T == RouteKeys[top]
      <4> HIDE DEF T
      <4>1. \A b \in T : b.action = "approve" => b.keys = {"a"}
        BY <3>1 DEF T
      <4>2. Lookup(T, key) = "approve" => key = "a"
        BY <4>1, MeansSomething
      <4> QED
        BY <4>2 DEF T
    <3> QED
      BY <3>2, <3>3 DEF Resolve
  <2>3. a = "close-pr" => key = "C"
    <3>1. \A b \in RouteKeys[top] : b.action = "close-pr" => b.keys = {"C"}
      BY RouteTables DEF KeysInv, WellBound
    <3>2. Lookup(GlobalKeys, key) # "close-pr"
      BY GlobalTable
    <3>3. Lookup(RouteKeys[top], key) = "close-pr" => key = "C"
      <4> DEFINE T == RouteKeys[top]
      <4> HIDE DEF T
      <4>1. \A b \in T : b.action = "close-pr" => b.keys = {"C"}
        BY <3>1 DEF T
      <4>2. Lookup(T, key) = "close-pr" => key = "C"
        BY <4>1, MeansSomething
      <4> QED
        BY <4>2 DEF T
    <3> QED
      BY <3>2, <3>3 DEF Resolve
  <2> HIDE DEF a
  <2>4. ASSUME NEW scope \in Opens(a)
        PROVE  Opened(scope, key, top) \in Question
    <3>1. scope \in {"filterType", "mergeMethod"} \/ (scope = "approveRun" /\ key = "a")
            \/ (scope = "closeConfirm" /\ key = "C")
      BY <2>2, <2>3 DEF Opens
    <3>2. scope \in Modal /\ Lookup(ModalKeys[scope], key) # "confirm"
      BY <3>1, ModalTables, AnswersTo
    <3> QED
      BY <3>2 DEF Opened, Question, KeysInv
  <2>5. sent' \in Seq(KeyMail)
    BY <1>2, <2>1, <2>4, AppendProperties DEF PressRoute, KeyMail, KeysInv
  <2>6. HeldKeyNeverConfirms'
    BY <1>2 DEF PressRoute, HeldKeyNeverConfirms
  <2> QED
    BY <1>2, <2>5, <2>6 DEF KeysInv, PressRoute
<1>3. CASE Retry
  BY <1>3 DEF Retry, KeysInv, HeldKeyNeverConfirms
<1>4. ASSUME NEW i \in DOMAIN sent, Deliver(i)
      PROVE  KeysInv'
  <2>1. sent' \in Seq(KeyMail) /\ sent[i] \in KeyMail
    BY <1>4, RemoveIsASeq DEF Deliver, KeysInv
  <2>2. sent[i].kind = "close-all" \/ sent[i].dialog \in Question
    BY <2>1 DEF KeyMail, Push, Replace, CloseAll
  <2>3. modals' \in Seq(Question)
    BY <1>4, <2>2, ReceivedIsASeq DEF Deliver, KeysInv
  <2>4. HeldKeyNeverConfirms'
    BY <1>4 DEF Deliver, HeldKeyNeverConfirms
  <2> QED
    BY <1>4, <2>1, <2>3, <2>4 DEF Deliver, KeysInv
<1>5. CASE IdentityArrives
  BY <1>5 DEF IdentityArrives, KeysInv, HeldKeyNeverConfirms
<1>6. ASSUME NEW s \in RouteScope, RouteChanges(s)
      PROVE  KeysInv'
  BY <1>6 DEF RouteChanges, KeysInv, HeldKeyNeverConfirms
<1>7. CASE UNCHANGED keyVars
  BY <1>7 DEF keyVars, KeysInv, HeldKeyNeverConfirms
<1> QED
  BY <1>1, <1>2, <1>3, <1>4, <1>5, <1>6, <1>7 DEF KeysNext

\* A key that is held down confirms nothing in a dialog it has just opened (a key that
\* is repeated before its dialog is on screen, ui/keymap.go, ui/overlay.go).
THEOREM HeldKeys == KeysSpec => []HeldKeyNeverConfirms
<1>1. KeysInv => HeldKeyNeverConfirms
  BY DEF KeysInv
<1> QED
  BY KeysInitInv, KeysNextInv, <1>1, PTL DEF KeysSpec

\* The dialogs open are those the keys can open, and every variable has its type.
THEOREM KeyTypes == KeysSpec => []KeysTypeOK
<1>1. KeysInv => KeysTypeOK
  <2> SUFFICES ASSUME KeysInv PROVE KeysTypeOK
    OBVIOUS
  <2>1. \A i \in DOMAIN modals : modals[i] \in Question
    BY ElementOfSeq, LenProperties DEF KeysInv
  <2> QED
    BY <2>1 DEF KeysInv, KeysTypeOK, Question
<1> QED
  BY KeysInitInv, KeysNextInv, <1>1, PTL DEF KeysSpec

\* No dialog takes the keys that quit.
LEMMA ModalsLeaveQuit ==
  \A s \in Modal : \A b \in ModalKeys[s] : "q" \notin b.keys /\ "ctrl+c" \notin b.keys
  BY ModalTables, SMTT(60) DEF ModalKeys, Esc, EscOrCancel, Author, Cursor, YesNo, B

LEMMA ModalHints ==
  ASSUME KeysInv, modals # <<>>, NEW refused, NEW b \in Hints(refused), NEW key \in b.keys
  PROVE  Dispatch(key).action = b.action /\ Dispatch(key).by # "nobody"
<1> DEFINE table == ModalKeys[TopModal.scope]
<1>1. TopModal.scope \in Modal
  <2>1. TopModal \in Question
    BY FrontIsASeq DEF KeysInv, TopModal
  <2> QED
    BY <2>1 DEF Question
<1>2. b \in Pinned \/ b \in table
  BY DEF Hints, FooterBindings
<1>3. CASE b \in Pinned
  <2>1. b.action = "quit" /\ key \in {"q", "ctrl+c"} /\ (TakesText => key = "ctrl+c")
    BY <1>3 DEF Pinned, GlobalKeys, B
  <2>2. Quits(key)
    BY <2>1, GlobalTable DEF Quits, CtrlKeys
  <2> QED
    BY <2>1, <2>2 DEF Dispatch, Does
<1>4. CASE b \in table
  <2>1. Lookup(table, key) = b.action
    BY <1>1, <1>4, Meaning, ModalTables
  <2>2. key \notin {"q", "ctrl+c"}
    BY <1>1, <1>4, ModalsLeaveQuit
  <2>3. Lookup(GlobalKeys, key) # "quit"
    BY <2>2, GlobalTable
  <2> QED
    BY <2>1, <2>3 DEF Dispatch, Does, Quits
<1> QED
  BY <1>2, <1>3, <1>4

LEMMA RouteHints ==
  ASSUME KeysInv, modals = <<>>, stage = "ready",
         NEW refused, NEW b \in Hints(refused), NEW key \in b.keys
  PROVE  \/ Dispatch(key).action = b.action /\ Dispatch(key).by # "nobody"
         \/ key = "?" /\ top = "help" /\ Dispatch(key).action = "back"
<1> DEFINE table == RouteKeys[top]
<1>1. top \in RouteScope /\ WellBound(top, table)
  BY RouteTables DEF KeysInv
<1>2. b \in GlobalKeys \/ b \in table
  BY DEF Hints, FooterBindings, Pinned
<1>3. ~TakesText
  BY DEF TakesText
<1>4. Dispatch(key) = IF Lookup(GlobalKeys, key) = "quit" THEN Does("root", "quit")
                      ELSE Does(Taker(Resolve(key)), Resolve(key))
  BY <1>3 DEF Dispatch, Quits
<1>5. ASSUME Lookup(GlobalKeys, key) # "quit"
      PROVE  /\ Dispatch(key).action = Resolve(key)
             /\ Resolve(key) \in {"help", "switch-context", "back"} \cup Acts(top)
                  => Dispatch(key).by # "nobody"
  BY <1>4, <1>5 DEF Does, Taker
<1> HIDE DEF table
<1>6. CASE b \in table
  <2>1. key \in KeysOf(table) /\ Lookup(table, key) = b.action
    BY <1>1, <1>6, Meaning DEF WellBound
  <2>2. key \notin {"q", "ctrl+c"} /\ b.action \in Acts(top) \cup {"back"}
    BY <1>1, <1>6 DEF WellBound
  <2>3. Lookup(GlobalKeys, key) # "quit"
    BY <2>2, GlobalTable
  <2>4. Resolve(key) = b.action
    BY <2>1 DEF Resolve, table
  <2> QED
    BY <1>5, <2>2, <2>3, <2>4
<1>7. CASE b \in GlobalKeys
  <2>1. key \in {"?", "o", "q", "ctrl+c"} /\ Lookup(GlobalKeys, key) = b.action
    BY <1>7, Meaning, GlobalTable
  <2>2. CASE b.action = "quit"
    BY <1>4, <2>1, <2>2 DEF Does
  <2>3. CASE b.action # "quit"
    <3>1. b.action \in {"help", "switch-context"} /\ (key = "?" \/ key = "o")
      BY <1>7, <2>1, <2>3, GlobalTable
    <3>2. CASE key \notin KeysOf(table)
      <4>1. Resolve(key) = b.action
        BY <2>1, <3>2 DEF Resolve, table
      <4> QED
        BY <1>5, <2>1, <2>3, <3>1, <4>1
    <3>3. CASE key \in KeysOf(table)
      <4>1. PICK c \in table : key \in c.keys
        BY <3>3 DEF KeysOf
      <4>2. key = "?" /\ top = "help" /\ c.action = "back"
        BY <1>1, <3>1, <4>1 DEF WellBound
      <4>3. Lookup(table, key) = c.action
        BY <1>1, <4>1, Meaning DEF WellBound
      <4>4. Resolve(key) = "back"
        BY <3>3, <4>2, <4>3 DEF Resolve, table
      <4> QED
        BY <1>5, <2>1, <2>3, <4>2, <4>4
    <3> QED
      BY <3>2, <3>3
  <2> QED
    BY <2>2, <2>3
<1> QED
  BY <1>2, <1>6, <1>7 DEF table

\* Every key the footer offers does what it says, whatever dialog has just opened and
\* whatever the route refuses (chrome.go:110-111).
THEOREM TrueHints == KeysSpec => []HintsAreTrue
<1>1. KeysInv => HintsAreTrue
  BY ModalHints, RouteHints DEF HintsAreTrue
<1> QED
  BY KeysInitInv, KeysNextInv, <1>1, PTL DEF KeysSpec

----------------------------------------------------------------------------
(* The log viewer. *)

LEMMA NumberFacts ==
  \A a, b \in Int : /\ Larger(a, b) \in {a, b} /\ Larger(a, b) >= a /\ Larger(a, b) >= b
                   /\ Smaller(a, b) \in {a, b} /\ Smaller(a, b) <= a /\ Smaller(a, b) <= b
  BY DEF Larger, Smaller

\* Every step that the viewer of a job may select is one that has text.
LEMMA StepFacts ==
  ASSUME NEW j \in Job
  PROVE  /\ Steps[j] \in Nat /\ FailedStep[j] \in -1..Steps[j] - 1
         /\ StepsOf(j) = {n \in Nat : n = 0 \/ n < Steps[j]}
         /\ StepsOf(j) \subseteq Step
         /\ FirstFailure(j) \in StepsOf(j)
<1>1. Steps[j] \in Nat /\ FailedStep[j] \in -1..Steps[j] - 1
  BY JobAssumption
<1>2. StepsOf(j) = {n \in Nat : n = 0 \/ n < Steps[j]}
  BY <1>1 DEF StepsOf, Larger
<1>3. StepsOf(j) \subseteq Step
  BY DEF Step
<1>4. FirstFailure(j) \in StepsOf(j)
  BY <1>1, <1>2 DEF FirstFailure, Larger
<1> QED
  BY <1>1, <1>2, <1>3, <1>4

\* The top line of a viewport is one of the log's, and the end is where the text ends.
LEMMA LimitFacts ==
  ASSUME NEW n \in 0..MaxLines
  PROVE  /\ ScrollLimit(n) \in 0..MaxLines
         /\ \A o \in 0..MaxLines : Smaller(o, ScrollLimit(n)) \in 0..MaxLines
         /\ \A m \in 0..MaxLines : m >= n => ScrollLimit(m) >= ScrollLimit(n)
<1>1. MaxLines \in Nat /\ Visible \in Nat \ {0}
  BY SizeAssumption
<1> QED
  BY <1>1 DEF ScrollLimit, Larger, Smaller

LEMMA TopLineFacts ==
  ASSUME LogsTypeOK, job # NoJob
  PROVE  /\ step \in Step /\ lines[step] \in 0..MaxLines
         /\ ScrollLimit(lines[step]) \in 0..MaxLines
         /\ TopLine \in 0..MaxLines
<1>1. step \in Step
  BY StepFacts DEF LogsTypeOK
<1>2. lines[step] \in 0..MaxLines
  BY <1>1 DEF LogsTypeOK, Text
<1> QED
  BY <1>1, <1>2, LimitFacts DEF LogsTypeOK, TopLine, TopOf

\* A request that is sent or answered leaves the rest of those out alone.
LEMMA Counting ==
  ASSUME LogsTypeOK, NEW q \in LogRequest
  PROVE  /\ logsOut[q] \in 0..MaxOut
         /\ logsOut[q] < MaxOut =>
              [logsOut EXCEPT ![q] = @ + 1] \in [LogRequest -> 0..MaxOut]
         /\ logsOut[q] > 0 =>
              [logsOut EXCEPT ![q] = @ - 1] \in [LogRequest -> 0..MaxOut]
<1>1. MaxOut \in Nat /\ logsOut \in [LogRequest -> 0..MaxOut] /\ logsOut[q] \in 0..MaxOut
  BY SizeAssumption DEF LogsTypeOK
<1>2. logsOut[q] < MaxOut => logsOut[q] + 1 \in 0..MaxOut
  BY <1>1
<1>3. logsOut[q] > 0 => logsOut[q] - 1 \in 0..MaxOut
  BY <1>1
<1> QED
  BY <1>1, <1>2, <1>3

LEMMA NoTextIsText == NoText \in Text /\ 0 \in 0..MaxLines
<1>1. MaxLines \in Nat
  BY SizeAssumption
<1> QED
  BY <1>1 DEF NoText, Text

LEMMA RequestIsOne == \A j \in Job, poll \in BOOLEAN : Request(j, poll) \in LogRequest
  BY DEF Request, LogRequest

LEMMA LogsInitInv == LogsInit => LogsTypeOK
<1> SUFFICES ASSUME LogsInit PROVE LogsTypeOK
  OBVIOUS
<1>1. MaxOut \in Nat
  BY SizeAssumption
<1>2. logsOut \in [LogRequest -> 0..MaxOut]
  BY <1>1 DEF LogsInit
<1> QED
  BY <1>2, NoTextIsText DEF LogsInit, LogsTypeOK

LEMMA LogsNextInv == LogsTypeOK /\ [LogsNext]_logsVars => LogsTypeOK'
<1> SUFFICES ASSUME LogsTypeOK, [LogsNext]_logsVars PROVE LogsTypeOK'
  OBVIOUS
<1>a. MaxLines \in Nat /\ ScrollStep \in Nat /\ NoJob \notin Job
  BY SizeAssumption, JobAssumption
<1>b. ASSUME NEW poll \in BOOLEAN, Ask(poll), job # NoJob
      PROVE  logsOut' \in [LogRequest -> 0..MaxOut]
  BY <1>b, RequestIsOne, Counting DEF Ask, LogsTypeOK
<1>c. ASSUME NEW q \in LogRequest, Answered(q) PROVE logsOut' \in [LogRequest -> 0..MaxOut]
  BY <1>c, Counting DEF Answered
<1>d. job # NoJob => job \in Job /\ step \in StepsOf(job) /\ step \in Nat
  BY StepFacts DEF LogsTypeOK
<1>1. ASSUME NEW j \in Job, OpenLog(j) PROVE LogsTypeOK'
  <2>1. logsOut' \in [LogRequest -> 0..MaxOut]
    BY <1>1, RequestIsOne, Counting DEF OpenLog
  <2>2. step' = 0 /\ 0 \in StepsOf(j)
    BY <1>1, StepFacts DEF OpenLog, LogsTypeOK, viewport
  <2> QED
    BY <1>1, <1>a, <2>1, <2>2 DEF OpenLog, LogsTypeOK, viewport
<1>2. CASE CloseLog
  BY <1>2, NoTextIsText DEF CloseLog, LogsTypeOK
<1>3. CASE RefreshLog
  <2>1. logsOut' \in [LogRequest -> 0..MaxOut]
    BY <1>3, <1>b DEF RefreshLog
  <2> QED
    BY <1>3, <2>1 DEF RefreshLog, LogsTypeOK, viewport
<1>4. CASE PollLog
  <2>1. logsOut' \in [LogRequest -> 0..MaxOut]
    BY <1>4, <1>b DEF PollLog
  <2> QED
    BY <1>4, <2>1 DEF PollLog, LogsTypeOK, viewport
<1>5. ASSUME NEW delta \in {-1, 1}, SelectStep(delta) PROVE LogsTypeOK'
  <2>1. job \in Job /\ Steps[job] \in Nat /\ step \in Nat
    BY <1>5, <1>d, StepFacts DEF SelectStep
  <2>2. step' = 0 \/ (step' \in Nat /\ step' < Steps[job])
    BY <1>5, <2>1 DEF SelectStep, Larger, Smaller
  <2>3. step' \in StepsOf(job)
    BY <2>1, <2>2, StepFacts
  <2>4. offset' \in 0..MaxLines
    BY <1>5, <1>a DEF SelectStep, LogsTypeOK
  <2> QED
    BY <1>5, <1>a, <2>1, <2>3, <2>4 DEF SelectStep, LogsTypeOK
<1>6. CASE ScrollUp
  <2>1. offset' \in 0..MaxLines
    BY <1>6, <1>a, TopLineFacts DEF ScrollUp, Larger
  <2> QED
    BY <1>6, <2>1 DEF ScrollUp, LogsTypeOK
<1>7. CASE ScrollDown
  <2>1. offset' \in 0..MaxLines /\ follow' \in BOOLEAN
    BY <1>7, <1>a, TopLineFacts DEF ScrollDown, Smaller
  <2> QED
    BY <1>7, <2>1 DEF ScrollDown, LogsTypeOK
<1>8. ASSUME NEW q \in LogRequest, NEW text \in Text, LogArrives(q, text) PROVE LogsTypeOK'
  <2>1. logsOut' \in [LogRequest -> 0..MaxOut]
    BY <1>8, <1>c DEF LogArrives
  <2>2. job \in Job /\ step' \in StepsOf(job) /\ follow' \in BOOLEAN
    BY <1>8, <1>d, StepFacts DEF LogArrives, LogsTypeOK
  <2> QED
    BY <1>8, <1>a, <2>1, <2>2 DEF LogArrives, LogsTypeOK
<1>9. ASSUME NEW q \in LogRequest, LogFails(q) PROVE LogsTypeOK'
  <2>1. logsOut' \in [LogRequest -> 0..MaxOut]
    BY <1>9, <1>c DEF LogFails
  <2>2. failed' \in BOOLEAN
    BY <1>9 DEF LogFails
  <2> QED
    BY <1>9, <2>1, <2>2 DEF LogFails, LogsTypeOK, viewport
<1>10. ASSUME NEW q \in LogRequest, LogIsDropped(q) PROVE LogsTypeOK'
  <2>1. logsOut' \in [LogRequest -> 0..MaxOut]
    BY <1>10, <1>c DEF LogIsDropped
  <2> QED
    BY <1>10, <2>1 DEF LogIsDropped, LogsTypeOK, viewport
<1>11. CASE UNCHANGED logsVars
  BY <1>11 DEF logsVars, viewport, LogsTypeOK
<1> QED
  BY <1>1, <1>2, <1>3, <1>4, <1>5, <1>6, <1>7, <1>8, <1>9, <1>10, <1>11 DEF LogsNext

\* Every variable of the viewer has its type, and the selected step is one of the
\* job's, whatever the logs that reach it (logs.go).
THEOREM LogTypes == LogsSpec => []LogsTypeOK
  BY LogsInitInv, LogsNextInv, PTL DEF LogsSpec

\* A reply moves nothing under the eyes of a reader who has scrolled away from the
\* end of a log (logs.go).
THEOREM TheViewStays == LogsSpec => OnlyKeysMoveTheView
<1> DEFINE Stays ==
      loaded /\ job' = job /\ logsOut' # logsOut /\ ~follow /\ TopLine = offset
        /\ lines'[step] >= lines[step]
      => step' = step /\ TopLine' = TopLine
<1>1. LogsTypeOK /\ [LogsNext]_logsVars => [Stays]_logsVars
  <2> SUFFICES ASSUME LogsTypeOK, LogsTypeOK', [LogsNext]_logsVars,
                      loaded, job' = job, logsOut' # logsOut, ~follow, TopLine = offset,
                      lines'[step] >= lines[step]
               PROVE  step' = step /\ TopLine' = TopLine
    BY LogsNextInv
  <2>1. step' = step /\ offset' = offset /\ follow' = follow
    BY JobAssumption DEF LogsNext, OpenLog, CloseLog, RefreshLog, PollLog, SelectStep, ScrollUp,
       ScrollDown, LogArrives, LogFails, LogIsDropped, IsFirst, viewport, logsVars
  <2>0. CASE job = NoJob
    BY <2>0, <2>1, JobAssumption DEF LogsNext, OpenLog, CloseLog, RefreshLog, PollLog,
       SelectStep, ScrollUp, ScrollDown, LogArrives, LogFails, LogIsDropped, logsVars, TopLine,
       TopOf
  <2> SUFFICES ASSUME job # NoJob PROVE TopLine' = TopLine
    BY <2>0, <2>1
  <2> DEFINE n == lines[step]
  <2> DEFINE m == lines'[step]
  <2>2. n \in 0..MaxLines /\ m \in 0..MaxLines
    BY <2>1, TopLineFacts DEF LogsTypeOK, Text
  <2>3. ScrollLimit(m) >= ScrollLimit(n) /\ ScrollLimit(m) \in Int /\ ScrollLimit(n) \in Int
    <3>1. m >= n /\ MaxLines \in Nat
      BY <2>1, SizeAssumption
    <3> HIDE DEF m, n
    <3>2. ScrollLimit(m) \in 0..MaxLines /\ ScrollLimit(n) \in 0..MaxLines
      BY <2>2, LimitFacts
    <3> QED
      BY <2>2, <3>1, <3>2, LimitFacts
  <2>4. offset \in Int /\ Smaller(offset, ScrollLimit(n)) = offset
    BY SizeAssumption DEF TopLine, TopOf, LogsTypeOK
  <2>5. Smaller(offset, ScrollLimit(m)) = offset
    BY <2>3, <2>4 DEF Smaller
  <2>6. TopLine' = Smaller(offset, ScrollLimit(m))
    BY <2>1 DEF TopLine, TopOf
  <2> QED
    BY <2>1, <2>5, <2>6
<1> QED
  BY LogTypes, <1>1, PTL DEF LogsSpec, OnlyKeysMoveTheView

----------------------------------------------------------------------------
(* Segments: which step each line of a log goes to.                        *)

\* The best of some candidates: none has a higher score, or the same and is later.
LEMMA BestOfSome ==
  ASSUME NEW S, IsFiniteSet(S), S \subseteq Nat, S # {}, NEW f \in [S -> Nat]
  PROVE  \E k \in S : \A j \in S : f[j] <= f[k] /\ (f[j] = f[k] => j <= k)
<1> DEFINE best(k, s) == \A j \in s : f[j] <= f[k] /\ (f[j] = f[k] => j <= k)
           P == {s \in SUBSET S : s # {} => \E k \in s : best(k, s)}
<1>1. ASSUME NEW s \in SUBSET S, \A t \in SUBSET s : t # s => t \in P
      PROVE  s \in P
  <2> SUFFICES ASSUME s # {} PROVE \E k \in s : best(k, s)
    OBVIOUS
  <2>1. PICK x \in s : TRUE
    OBVIOUS
  <2>2. \A k \in S : k \in Nat /\ f[k] \in Nat
    OBVIOUS
  <2>3. CASE s \ {x} = {}
    <3>1. \A j \in s : j = x
      BY <2>3
    <3>2. best(x, s)
      BY <2>1, <2>2, <3>1
    <3> QED
      BY <2>1, <3>2
  <2>4. CASE s \ {x} # {}
    <3>1. s \ {x} \in P
      BY <1>1, <2>1
    <3>2. PICK k \in s \ {x} : best(k, s \ {x})
      BY <2>4, <3>1
    <3>3. f[k] \in Nat /\ f[x] \in Nat /\ k \in Nat /\ x \in Nat
      BY <2>1, <2>2, <3>2
    <3>4. CASE f[x] > f[k] \/ (f[x] = f[k] /\ x > k)
      <4>1. \A j \in s : f[j] <= f[x] /\ (f[j] = f[x] => j <= x)
        BY <2>1, <2>2, <3>2, <3>3, <3>4
      <4> QED
        BY <2>1, <4>1
    <3>5. CASE ~(f[x] > f[k] \/ (f[x] = f[k] /\ x > k))
      <4>1. \A j \in s : f[j] <= f[k] /\ (f[j] = f[k] => j <= k)
        BY <2>1, <2>2, <3>2, <3>3, <3>5
      <4> QED
        BY <3>2, <4>1
    <3> QED
      BY <3>4, <3>5
  <2> QED
    BY <2>3, <2>4
<1> HIDE DEF P
<1>2. SUBSET S \subseteq P
  BY <1>1, EverySubset
<1> QED
  BY <1>2 DEF P

\* The steps that were not skipped, in the order of the job.
LEMMA ActiveInOrder ==
  ASSUME NEW s \in JobSteps
  PROVE  /\ Len(ActiveOf(s)) \in Nat /\ DOMAIN ActiveOf(s) = 1..Len(ActiveOf(s))
         /\ ActiveOf(s) = <<>> <=> Len(ActiveOf(s)) = 0
         /\ Len(s) \in Nat /\ DOMAIN s = 1..Len(s) /\ Len(ActiveOf(s)) <= Len(s)
         /\ \A k \in 1..Len(ActiveOf(s)) : ActiveOf(s)[k] \in NotSkipped(s)
            /\ ActiveOf(s)[k] \in Nat
         /\ \A k, l \in 1..Len(ActiveOf(s)) : k <= l => ActiveOf(s)[k] <= ActiveOf(s)[l]
<1> DEFINE A == NotSkipped(s)
           n == Cardinality(A)
           a == ActiveOf(s)
<1>1. /\ A \subseteq Nat /\ IsFiniteSet(A) /\ n \in Nat
      /\ Len(s) \in Nat /\ DOMAIN s = 1..Len(s) /\ n <= Len(s)
  <2>1. Len(s) \in Nat /\ DOMAIN s = 1..Len(s)
    BY StepsAssumption, LenProperties
  <2>2. A \subseteq 1..Len(s)
    BY <2>1 DEF NotSkipped
  <2>3. IsFiniteSet(1..Len(s)) /\ Cardinality(1..Len(s)) = Len(s)
    <3>1. \A m \in Nat : IsFiniteSet(1..m) /\ Cardinality(1..m) = m
      BY FS_Interval
    <3> QED
      BY <2>1, <3>1
  <2>4. IsFiniteSet(A) /\ n <= Len(s)
    BY <2>2, <2>3, FS_Subset
  <2>5. A \subseteq Nat
    BY <2>2
  <2>6. n \in Nat
    BY <2>4, FS_CardinalityType
  <2> HIDE DEF A, n
  <2> QED
    BY <2>1, <2>4, <2>5, <2>6
<1>2. /\ \A r, q \in A : r < q => Rank(r, A) < Rank(q, A)
      /\ \A k \in 1..n : \E r \in A : Rank(r, A) = k
      /\ \A r \in A : Rank(r, A) \in 1..n
  BY <1>1, Ranks
<1>3. a = [k \in 1..n |-> CHOOSE i \in A : Rank(i, A) = k]
  BY DEF ActiveOf
<1> HIDE DEF A, n, a
<1>4. \A k \in 1..n : a[k] \in A /\ Rank(a[k], A) = k
  BY <1>2, <1>3
<1>5. a \in [1..n -> A] /\ a \in Seq(A)
  BY <1>1, <1>3, <1>4, SeqDef
<1>6. Len(a) = n /\ DOMAIN a = 1..n
  BY <1>1, <1>5, LenProperties
<1>7. a = <<>> <=> Len(a) = 0
  BY <1>5, EmptySeq
<1>8. ASSUME NEW k \in 1..n, NEW l \in 1..n, k <= l PROVE a[k] <= a[l]
  <2>1. a[k] \in Nat /\ a[l] \in Nat
    BY <1>1, <1>4
  <2>2. ~(a[l] < a[k])
    <3> SUFFICES ASSUME a[l] < a[k] PROVE FALSE
      OBVIOUS
    <3>1. Rank(a[l], A) < Rank(a[k], A)
      BY <1>2, <1>4
    <3>2. Rank(a[l], A) = l /\ Rank(a[k], A) = k
      BY <1>4
    <3> QED
      BY <1>1, <1>8, <3>1, <3>2
  <2> QED
    BY <2>1, <2>2
<1> QED
  BY <1>1, <1>4, <1>6, <1>7, <1>8 DEF A, a

\* A score is a number.
LEMMA ScoresAreNumbers ==
  ASSUME NEW t \in Title, NEW s \in StepName
  PROVE  MatchScore(t, s) \in Nat
<1> DEFINE f == [w \in WordsOf[s] |-> WordScore(w, t)]
<1>1. \A w \in WordsOf[s] : WordScore(w, t) \in Nat
  BY WordsAssumption DEF WordScore
<1>2. f \in [WordsOf[s] -> Nat] /\ IsFiniteSet(WordsOf[s])
  BY <1>1, WordsAssumption
<1> HIDE DEF f
<1>3. SumFunctionOnSet(f, WordsOf[s]) \in Nat
  BY <1>2, SumIsANatural
<1> QED
  BY <1>3 DEF MatchScore, f

\* A group is matched with a step from the one it starts at on.
LEMMA MatchedGoesOn ==
  ASSUME steps \in JobSteps, NEW line \in Line, NEW from \in 1..Len(Active)
  PROVE  Matched(line, from) \in from..Len(Active)
<1> DEFINE S == Candidates(line, from)
<1>1. Len(Active) \in Nat /\ \A k \in 1..Len(Active) : Active[k] \in NotSkipped(steps)
  BY ActiveInOrder DEF Active
<1>2. S \subseteq from..Len(Active)
  BY DEF Candidates
<1>3. CASE line.title = NoTitle \/ S = {}
  BY <1>1, <1>3 DEF Matched
<1>4. CASE line.title # NoTitle /\ S # {}
  <2> DEFINE f == [k \in S |-> MatchScore(line.title, StepAt(k).name)]
  <2>1. line.title \in Title
    BY <1>4 DEF Line
  <2>2. \A k \in S : StepAt(k).name \in StepName
    <3>1. \A i \in NotSkipped(steps) : steps[i].name \in StepName
      <4> DEFINE OneStep == [name : StepName, skipped : BOOLEAN,
                          from : Nat \cup {Never}, to : Nat \cup {Never}]
      <4>1. \A x \in OneStep : x.name \in StepName
        OBVIOUS
      <4>2. steps \in Seq(OneStep)
        BY StepsAssumption
      <4> HIDE DEF OneStep
      <4>3. \A i \in DOMAIN steps : steps[i] \in OneStep
        BY <4>2, ElementOfSeq, LenProperties
      <4> QED
        BY <4>1, <4>3 DEF NotSkipped
    <3> QED
      BY <1>1, <1>2, <3>1 DEF StepAt
  <2>3. f \in [S -> Nat]
    BY <2>1, <2>2, ScoresAreNumbers
  <2>4. IsFiniteSet(S) /\ S \subseteq Nat
    <3>1. IsFiniteSet(from..Len(Active)) /\ from..Len(Active) \subseteq Nat
      BY <1>1, FS_Interval
    <3> QED
      BY <1>2, <3>1, FS_Subset
  <2>5. \E k \in S : \A j \in S : f[j] <= f[k] /\ (f[j] = f[k] => j <= k)
    <3> HIDE DEF f, S
    <3> QED
      BY <1>4, <2>3, <2>4, BestOfSome
  <2>6. Matched(line, from) \in S
    BY <1>4, <2>5 DEF Matched
  <2> QED
    BY <1>2, <2>6
<1> QED
  BY <1>3, <1>4

\* The cursor is at a step that was not skipped, if there is one, and the lines read
\* so far went to steps it has passed.
SegmentsInv ==
  /\ SegmentsTypeOK
  /\ Active # <<>> => cursor \in 1..Len(Active)
  /\ \A j \in DOMAIN segments : segments[j] > 0 =>
       IF Active = <<>> THEN j = 1 ELSE \E k \in 1..cursor : j = Active[k]

\* The step a line goes to.
LEMMA NextStep ==
  ASSUME SegmentsInv, NEW line \in Line, Active # <<>>
  PROVE  /\ Matched(line, Advanced(line)) \in cursor..Len(Active)
         /\ Len(Active) \in Nat /\ cursor \in 1..Len(Active)
<1>1. cursor \in 1..Len(Active) /\ Len(Active) \in Nat
  BY ActiveInOrder DEF SegmentsInv, SegmentsTypeOK, Active
<1>2. Advanced(line) \in cursor..Len(Active)
  BY <1>1 DEF Advanced
<1>3. Matched(line, Advanced(line)) \in Advanced(line)..Len(Active)
  BY <1>1, <1>2, MatchedGoesOn DEF SegmentsInv, SegmentsTypeOK
<1> QED
  BY <1>1, <1>2, <1>3

LEMMA SegmentsInitInv == SegmentsInit => SegmentsInv
<1> SUFFICES ASSUME SegmentsInit PROVE SegmentsInv
  OBVIOUS
<1>1. Len(steps) \in Nat
  BY StepsAssumption, LenProperties DEF SegmentsInit
<1>2. SegmentsTypeOK
  BY <1>1, ReadAssumption DEF SegmentsInit, SegmentsTypeOK
<1>3. Len(Active) \in Nat /\ (Active = <<>> <=> Len(Active) = 0)
  BY ActiveInOrder DEF SegmentsInit, Active
<1> QED
  BY <1>2, <1>3 DEF SegmentsInit, SegmentsInv

\* A line that shows something changes one segment, at the cursor's new place.
LEMMA OneLine ==
  ASSUME SegmentsInv, NEW line \in Line, ReadLine(line), line.shows
  PROVE  \E i \in DOMAIN segments :
           /\ segments' = [segments EXCEPT ![i] = @ + 1]
           /\ Active = <<>> => i = 1 /\ cursor' = cursor
           /\ Active # <<>> =>
                /\ cursor' \in cursor..Len(Active) /\ i = Active[cursor']
                /\ i \in DOMAIN steps /\ ~steps[i].skipped
<1>1. Len(steps) \in Nat /\ DOMAIN steps = 1..Len(steps) /\ DOMAIN segments = 1..Len(steps) + 1
  BY StepsAssumption, LenProperties DEF SegmentsInv, SegmentsTypeOK
<1>2. CASE Active = <<>>
  <2>1. segments' = [segments EXCEPT ![1] = @ + 1] /\ UNCHANGED cursor
    BY <1>2 DEF ReadLine
  <2>2. 1 \in DOMAIN segments
    BY <1>1
  <2> QED
    BY <1>2, <2>1, <2>2
<1>3. CASE Active # <<>>
  <2> DEFINE next == Matched(line, Advanced(line))
  <2>1. next \in cursor..Len(Active) /\ cursor \in 1..Len(Active) /\ Len(Active) \in Nat
    BY <1>3, NextStep
  <2>2. segments' = [segments EXCEPT ![Active[next]] = @ + 1] /\ cursor' = next
    BY <1>3 DEF ReadLine
  <2> HIDE DEF next
  <2>3. Active[next] \in NotSkipped(steps)
    BY <2>1, ActiveInOrder DEF SegmentsInv, SegmentsTypeOK, Active
  <2>4. Active[next] \in DOMAIN steps /\ ~steps[Active[next]].skipped
    BY <2>3 DEF NotSkipped
  <2>5. Active[next] \in DOMAIN segments
    BY <1>1, <2>4
  <2> QED
    BY <1>3, <2>1, <2>2, <2>4, <2>5
<1> QED
  BY <1>2, <1>3

LEMMA SegmentsNextInv == SegmentsInv /\ [SegmentsNext]_segmentVars => SegmentsInv'
<1> SUFFICES ASSUME SegmentsInv, [SegmentsNext]_segmentVars PROVE SegmentsInv'
  OBVIOUS
<1>1. CASE UNCHANGED segmentVars
  BY <1>1 DEF segmentVars, SegmentsInv, SegmentsTypeOK, Active
<1>2. ASSUME NEW line \in Line, ReadLine(line) PROVE SegmentsInv'
  <2>1. steps' = steps /\ Active' = Active /\ read' \in 0..MaxRead
    BY <1>2, ReadAssumption DEF ReadLine, Active, SegmentsInv, SegmentsTypeOK
  <2>2. Len(steps) \in Nat /\ Len(Active) \in Nat /\ Len(Active) <= Len(steps)
    BY ActiveInOrder DEF Active, SegmentsInv, SegmentsTypeOK
  <2>3. CASE ~line.shows
    BY <1>2, <2>1, <2>3 DEF ReadLine, SegmentsInv, SegmentsTypeOK
  <2>4. CASE line.shows
    <3>1. PICK i \in DOMAIN segments :
            /\ segments' = [segments EXCEPT ![i] = @ + 1]
            /\ Active = <<>> => i = 1 /\ cursor' = cursor
            /\ Active # <<>> => cursor' \in cursor..Len(Active) /\ i = Active[cursor']
      BY <1>2, <2>4, OneLine
    <3>2. segments' \in [1..Len(steps) + 1 -> Nat] /\ cursor \in 1..Len(steps) + 1
      BY <3>1 DEF SegmentsInv, SegmentsTypeOK
    <3>3. \A j \in DOMAIN segments : j # i => segments'[j] = segments[j]
      BY <3>1
    <3>4. DOMAIN segments' = DOMAIN segments
      BY <3>1
    <3>5. CASE Active = <<>>
      <4>1. cursor' \in 1..Len(steps) + 1
        BY <3>1, <3>2, <3>5
      <4> QED
        BY <2>1, <3>1, <3>2, <3>3, <3>4, <3>5, <4>1 DEF SegmentsInv, SegmentsTypeOK
    <3>6. CASE Active # <<>>
      <4>1. cursor' \in 1..Len(Active) /\ cursor' \in 1..Len(steps) + 1
            /\ cursor <= cursor' /\ cursor \in Nat /\ cursor' \in Nat
        BY <2>2, <3>1, <3>2, <3>6
      <4>2. SegmentsTypeOK'
        BY <2>1, <3>2, <4>1 DEF SegmentsInv, SegmentsTypeOK
      <4>3. ASSUME NEW j \in DOMAIN segments, segments'[j] > 0
            PROVE  \E k \in 1..cursor' : j = Active[k]
        <5>1. CASE j = i
          BY <3>1, <3>6, <4>1, <5>1
        <5>2. CASE j # i
          <6>1. \E k \in 1..cursor : j = Active[k]
            BY <3>3, <3>6, <4>3, <5>2 DEF SegmentsInv
          <6> QED
            BY <4>1, <6>1
        <5> QED
          BY <5>1, <5>2
      <4> QED
        BY <2>1, <3>4, <3>6, <4>1, <4>2, <4>3 DEF SegmentsInv
    <3> QED
      BY <3>5, <3>6
  <2> QED
    BY <2>3, <2>4
<1> QED
  BY <1>1, <1>2 DEF SegmentsNext

\* Every variable keeps its type: the cursor stays among the steps.
THEOREM SegmentTypes == SegmentsSpec => []SegmentsTypeOK
<1>1. SegmentsInv => SegmentsTypeOK
  BY DEF SegmentsInv
<1> QED
  BY SegmentsInitInv, SegmentsNextInv, <1>1, PTL DEF SegmentsSpec

\* The segments of a log are in the order of its lines, and none is of a step that was
\* skipped, whatever the titles of the groups look like and whatever the two clocks
\* say (Segment and matchGroup, logs.go:286-287).
THEOREM SegmentsAreInOrder == SegmentsSpec => SegmentsInOrder
<1> DEFINE Ordered ==
      \A i \in DOMAIN segments : segments'[i] # segments[i] =>
        /\ \A j \in DOMAIN segments : j > i => segments[j] = 0
        /\ Active # <<>> => i \in DOMAIN steps /\ ~steps[i].skipped
<1>1. SegmentsInv /\ [SegmentsNext]_segmentVars => [Ordered]_segmentVars
  <2> SUFFICES ASSUME SegmentsInv, NEW line \in Line, ReadLine(line),
                      NEW i \in DOMAIN segments, segments'[i] # segments[i]
               PROVE  /\ \A j \in DOMAIN segments : j > i => segments[j] = 0
                      /\ Active # <<>> => i \in DOMAIN steps /\ ~steps[i].skipped
    BY DEF SegmentsNext
  <2>1. line.shows
    BY DEF ReadLine
  <2>2. PICK n \in DOMAIN segments :
          /\ segments' = [segments EXCEPT ![n] = @ + 1]
          /\ Active = <<>> => n = 1 /\ cursor' = cursor
          /\ Active # <<>> =>
               /\ cursor' \in cursor..Len(Active) /\ n = Active[cursor']
               /\ n \in DOMAIN steps /\ ~steps[n].skipped
    BY <2>1, OneLine
  <2>3. i = n
    BY <2>2
  <2>4. ASSUME NEW j \in DOMAIN segments, j > i PROVE segments[j] = 0
    <3>1. segments[j] \in Nat /\ j \in Nat /\ i \in Nat
      <4>1. Len(steps) \in Nat
        BY ActiveInOrder DEF SegmentsInv, SegmentsTypeOK
      <4> QED
        BY <4>1 DEF SegmentsInv, SegmentsTypeOK
    <3>2. CASE Active = <<>>
      BY <2>2, <2>3, <2>4, <3>1, <3>2 DEF SegmentsInv
    <3>3. CASE Active # <<>>
      <4>1. ASSUME NEW k \in 1..cursor, j = Active[k] PROVE FALSE
        <5>1. Len(Active) \in Nat /\ cursor \in 1..Len(Active)
          BY <3>3, ActiveInOrder DEF SegmentsInv, SegmentsTypeOK, Active
        <5>2. cursor' \in 1..Len(Active) /\ k \in 1..Len(Active) /\ k <= cursor'
          BY <2>2, <3>3, <4>1, <5>1
        <5>3. Active[k] <= Active[cursor']
          BY <5>2, ActiveInOrder DEF SegmentsInv, SegmentsTypeOK, Active
        <5> QED
          BY <2>2, <2>3, <2>4, <3>1, <3>3, <4>1, <5>3
      <4> QED
        BY <3>1, <3>3, <4>1 DEF SegmentsInv
    <3> QED
      BY <3>2, <3>3
  <2> QED
    BY <2>2, <2>3, <2>4
<1> QED
  BY SegmentsInitInv, SegmentsNextInv, <1>1, PTL DEF SegmentsSpec, SegmentsInOrder

----------------------------------------------------------------------------
(* The screens of an issue. *)

\* A screen on its way to the stack waits for a request it has still to send.
Unseen == {s \in IssueScreen : /\ s.loading /\ ~s.missed /\ s.scroll = 0
                               /\ s.of # NoIssue => s.of = s.issue}
\* What a screen says for itself, and what it waits for.
Told ==
  {s \in IssueScreen : /\ s.of # NoIssue => Number[s.of] = Number[s.issue]
                       /\ s.of = NoIssue => s.loading \/ s.failed
                       /\ s.scroll <= Larger(s.text - 1, 0)}
    \cup {OtherScreen}
WaitsFor(s, out) ==
  s.kind \in Kind /\ s.loading /\ ~s.missed
    => \E q \in IssueRequest : IsFor(q, s) /\ out[q] > 0

IssuesInv ==
  /\ screens \in Seq(Told)
  /\ rising \in Seq(Unseen)
  /\ wanted \in [IssueRequest -> 0..MaxAsked]
  /\ \A k \in 1..Len(screens) : WaitsFor(screens[k], wanted)

LEMMA Kinds ==
  /\ OtherScreen.kind \notin Kind
  /\ \A s \in IssueScreen : s.kind \in Kind /\ s # OtherScreen
  /\ \A s \in Told : s.kind \in Kind <=> s \in IssueScreen
  /\ Unseen \subseteq Told
  /\ \A s \in IssueScreen : IsFor([kind |-> s.kind, issue |-> s.issue], s)
                            /\ [kind |-> s.kind, issue |-> s.issue] \in IssueRequest
<1>1. OtherScreen.kind \notin Kind
  BY DEF OtherScreen, Kind
<1>2. \A s \in IssueScreen : s.kind \in Kind /\ s # OtherScreen
  BY <1>1 DEF IssueScreen
<1>3. \A s \in Told : s.kind \in Kind <=> s \in IssueScreen
  BY <1>1, <1>2 DEF Told
<1>4. Unseen \subseteq Told
  <2> SUFFICES ASSUME NEW s \in Unseen PROVE s \in Told
    OBVIOUS
  <2>1. s.scroll <= Larger(s.text - 1, 0)
    BY TextAssumption DEF Unseen, IssueScreen, Larger
  <2> QED
    BY <2>1 DEF Unseen, Told, IssueScreen
<1>5. \A s \in IssueScreen : IsFor([kind |-> s.kind, issue |-> s.issue], s)
                             /\ [kind |-> s.kind, issue |-> s.issue] \in IssueRequest
  BY DEF IsFor, IssueScreen, IssueRequest
<1> QED
  BY <1>1, <1>2, <1>3, <1>4, <1>5

LEMMA InvIsHonest ==
  ASSUME IssuesInv
  PROVE  IssuesTypeOK /\ IssueScreensAreHonest
<1>1. screens \in Seq(IssueScreen \cup {OtherScreen})
  BY SeqMonotonic DEF IssuesInv, Told
<1>2. rising \in Seq(IssueScreen)
  BY SeqMonotonic DEF IssuesInv, Unseen
<1>3. ASSUME NEW k \in DOMAIN screens, screens[k].kind \in Kind
      PROVE  SaysWhatItWasTold(screens[k])
  <2>1. k \in 1..Len(screens) /\ screens[k] \in Told
    BY ElementOfSeq, LenProperties DEF IssuesInv
  <2>2. screens[k] \in IssueScreen
    BY <1>3, <2>1, Kinds
  <2>3. screens[k] # OtherScreen
    BY <2>2, Kinds
  <2> QED
    BY <1>3, <2>1, <2>2, <2>3 DEF SaysWhatItWasTold, Told, WaitsFor, IssuesInv
<1> QED
  BY <1>1, <1>2, <1>3 DEF IssuesTypeOK, IssueScreensAreHonest, IssuesInv

\* The clamp of the panes.
LEMMA ClampFacts ==
  ASSUME NEW o \in Int, NEW n \in 0..MaxText
  PROVE  ClampOffset(o, n) \in 0..MaxText /\ ClampOffset(o, n) <= Larger(n - 1, 0)
<1>1. MaxText \in Nat
  BY TextAssumption
<1> QED
  BY <1>1 DEF ClampOffset, Smaller, Larger

\* What is asked for is waited for.
LEMMA Asking ==
  ASSUME IssuesInv, NEW s \in IssueScreen, AskFor(s)
  PROVE  /\ wanted' \in [IssueRequest -> 0..MaxAsked]
         /\ WaitsFor(s, wanted')
         /\ \A r : WaitsFor(r, wanted) => WaitsFor(r, wanted')
<1> DEFINE q == [kind |-> s.kind, issue |-> s.issue]
<1>1. q \in IssueRequest /\ IsFor(q, s)
  BY Kinds
<1>2. wanted[q] < MaxAsked /\ wanted' = [wanted EXCEPT ![q] = @ + 1]
  BY DEF AskFor
<1>3. MaxAsked \in Nat /\ wanted \in [IssueRequest -> 0..MaxAsked]
  BY TextAssumption DEF IssuesInv
<1> HIDE DEF q
<1>4. wanted' \in [IssueRequest -> 0..MaxAsked] /\ wanted'[q] > 0
  BY <1>1, <1>2, <1>3
<1>5. \A p \in IssueRequest : wanted[p] > 0 => wanted'[p] > 0
  BY <1>1, <1>2, <1>3
<1> QED
  BY <1>1, <1>4, <1>5 DEF WaitsFor

\* The screen on top is one of the screens, and what replaces it has its place.
LEMMA TheTop ==
  ASSUME IssuesInv, screens # <<>>
  PROVE  /\ Len(screens) \in 1..Len(screens) /\ Last(screens) = screens[Len(screens)]
         /\ Last(screens) \in Told
         /\ WaitsFor(Last(screens), wanted)
<1>1. Len(screens) \in Nat /\ Len(screens) # 0
  BY EmptySeq, LenProperties DEF IssuesInv
<1>2. Len(screens) \in 1..Len(screens)
  BY <1>1
<1> QED
  BY <1>2, ElementOfSeq DEF IssuesInv, Last

LEMMA NewTop ==
  ASSUME IssuesInv, screens # <<>>, NEW s \in Told, TopBecomes(s), rising' = rising,
         wanted' \in [IssueRequest -> 0..MaxAsked], WaitsFor(s, wanted'),
         \A r : WaitsFor(r, wanted) => WaitsFor(r, wanted')
  PROVE  IssuesInv'
<1>1. Len(screens) \in 1..Len(screens)
  BY TheTop
<1>2. screens' \in Seq(Told) /\ Len(screens') = Len(screens)
  BY <1>1, ExceptSeq DEF IssuesInv, TopBecomes
<1>3. \A k \in 1..Len(screens) : screens'[k] = IF k = Len(screens) THEN s ELSE screens[k]
  BY <1>1, ExceptSeq DEF IssuesInv, TopBecomes
<1>4. \A k \in 1..Len(screens') : WaitsFor(screens'[k], wanted')
  BY <1>2, <1>3 DEF IssuesInv
<1> QED
  BY <1>2, <1>4 DEF IssuesInv

\* A screen that comes on the stack leaves those below.
LEMMA OneMore ==
  ASSUME IssuesInv, NEW s \in Told, screens' = Append(screens, s), rising' \in Seq(Unseen),
         wanted' \in [IssueRequest -> 0..MaxAsked], WaitsFor(s, wanted'),
         \A r : WaitsFor(r, wanted) => WaitsFor(r, wanted')
  PROVE  IssuesInv'
<1>1. /\ screens' \in Seq(Told) /\ Len(screens') = Len(screens) + 1
      /\ Len(screens) \in Nat
      /\ \A k \in 1..Len(screens) : screens'[k] = screens[k]
      /\ screens'[Len(screens) + 1] = s
  BY AppendProperties, LenProperties DEF IssuesInv
<1>2. \A k \in 1..Len(screens') : WaitsFor(screens'[k], wanted')
  <2> SUFFICES ASSUME NEW k \in 1..Len(screens') PROVE WaitsFor(screens'[k], wanted')
    OBVIOUS
  <2>1. k = Len(screens) + 1 \/ k \in 1..Len(screens)
    BY <1>1
  <2> QED
    BY <1>1, <2>1 DEF IssuesInv
<1> QED
  BY <1>1, <1>2 DEF IssuesInv

\* A reply is taken by the screen on top, and missed by those below that it is for.
LEMMA Settling ==
  ASSUME IssuesInv, NEW q \in IssueRequest, NEW taken, Settle(q, taken),
         screens # <<>> /\ IsFor(q, Last(screens)) => taken \in Told /\ ~taken.loading
  PROVE  IssuesInv'
<1>1. /\ wanted[q] > 0 /\ wanted' = [wanted EXCEPT ![q] = @ - 1]
      /\ screens' = Delivered(q, taken) /\ rising' = rising
  BY DEF Settle
<1>2. MaxAsked \in Nat /\ wanted \in [IssueRequest -> 0..MaxAsked]
  BY TextAssumption DEF IssuesInv
<1>3. wanted' \in [IssueRequest -> 0..MaxAsked]
  BY <1>1, <1>2
<1>4. \A p \in IssueRequest : p # q => wanted'[p] = wanted[p]
  BY <1>1, <1>2
<1>5. Len(screens) \in Nat /\ DOMAIN screens = 1..Len(screens)
  BY LenProperties DEF IssuesInv
<1>6. ASSUME NEW k \in 1..Len(screens)
      PROVE  screens'[k] \in Told /\ WaitsFor(screens'[k], wanted')
  <2>1. screens[k] \in Told /\ WaitsFor(screens[k], wanted)
    BY <1>6, ElementOfSeq DEF IssuesInv
  <2>2. CASE ~IsFor(q, screens[k])
    <3>1. screens'[k] = screens[k]
      BY <1>1, <1>5, <1>6, <2>2 DEF Delivered
    <3>2. WaitsFor(screens[k], wanted')
      BY <1>4, <2>1, <2>2 DEF WaitsFor
    <3> QED
      BY <2>1, <3>1, <3>2
  <2>3. CASE IsFor(q, screens[k]) /\ k = Len(screens)
    <3>1. screens'[k] = taken
      BY <1>1, <1>5, <1>6, <2>3 DEF Delivered
    <3>2. screens # <<>> /\ Last(screens) = screens[k]
      BY <1>6, <2>3, EmptySeq DEF Last
    <3> QED
      BY <2>3, <3>1, <3>2 DEF WaitsFor
  <2>4. CASE IsFor(q, screens[k]) /\ k # Len(screens)
    <3> DEFINE s == screens[k]
    <3> DEFINE r == [s EXCEPT !.missed = s.loading]
    <3>1. screens'[k] = r
      BY <1>1, <1>5, <1>6, <2>4 DEF Delivered
    <3>2. s \in IssueScreen
      BY <2>1, <2>4, Kinds DEF IsFor, IssueRequest
    <3>3. /\ r \in IssueScreen /\ r.missed = s.loading /\ r.loading = s.loading
          /\ r.of = s.of /\ r.issue = s.issue /\ r.failed = s.failed /\ r.scroll = s.scroll
          /\ r.text = s.text
      BY <3>2 DEF IssueScreen
    <3> HIDE DEF r
    <3>4. s # OtherScreen
      BY <3>2, Kinds
    <3>5. r \in Told
      BY <2>1, <3>3, <3>4 DEF Told
    <3> QED
      BY <3>1, <3>3, <3>5 DEF WaitsFor
  <2> QED
    BY <2>2, <2>3, <2>4
<1>7. screens' \in Seq(Told) /\ Len(screens') = Len(screens)
  <2>1. screens' = [k \in 1..Len(screens) |-> screens'[k]]
    BY <1>1, <1>5 DEF Delivered
  <2> QED
    BY <1>5, <1>6, <2>1, IsASeq, LenProperties
<1> QED
  BY <1>1, <1>3, <1>6, <1>7 DEF IssuesInv

LEMMA IssuesInitInv == IssuesInit => IssuesInv
<1> SUFFICES ASSUME IssuesInit PROVE IssuesInv
  OBVIOUS
<1>1. screens = <<>> /\ rising = <<>> /\ wanted = [q \in IssueRequest |-> 0]
  BY DEF IssuesInit
<1>2. wanted \in [IssueRequest -> 0..MaxAsked]
  BY <1>1, TextAssumption
<1>3. screens \in Seq(Told) /\ rising \in Seq(Unseen) /\ Len(screens) = 0
  BY <1>1, EmptySeq
<1> QED
  BY <1>2, <1>3 DEF IssuesInv

LEMMA IssuesNextInv == IssuesInv /\ [IssuesNext]_issueVars => IssuesInv'
<1> SUFFICES ASSUME IssuesInv, [IssuesNext]_issueVars PROVE IssuesInv'
  OBVIOUS
<1>a. /\ screens \in Seq(Told) /\ rising \in Seq(Unseen)
      /\ wanted \in [IssueRequest -> 0..MaxAsked]
      /\ \A k \in 1..Len(screens) : WaitsFor(screens[k], wanted)
  BY DEF IssuesInv
<1>b. OnTop(Kind) => /\ screens # <<>> /\ Last(screens) \in Told
                     /\ Last(screens) \in IssueScreen
  BY TheTop, Kinds DEF OnTop
<1>c. ASSUME NEW kind \in Kind, NEW i \in Issue, NEW of \in {i, NoIssue}, NEW text \in 0..MaxText
      PROVE  FreshScreen(kind, i, of, text) \in Unseen
  BY TextAssumption DEF FreshScreen, Unseen, IssueScreen
<1>1. ASSUME NEW i \in Issue, NEW text \in 0..MaxText, OpenIssue(i, text) PROVE IssuesInv'
  <2>1. FreshScreen("details", i, i, text) \in Unseen
    BY <1>c DEF Kind
  <2>2. rising' \in Seq(Unseen)
    BY <1>1, <1>a, <2>1, AppendProperties DEF OpenIssue
  <2> QED
    BY <1>1, <1>a, <2>2 DEF OpenIssue, IssuesInv
<1>2. CASE OpenComments
  <2>1. Last(screens) \in IssueScreen
    BY <1>2, <1>b DEF OpenComments, OnTop, Kind
  <2>2. FreshScreen("comments", Last(screens).issue, NoIssue, 0) \in Unseen
    BY <1>c, <2>1, TextAssumption DEF Kind, IssueScreen
  <2>3. rising' \in Seq(Unseen)
    BY <1>2, <1>a, <2>2, AppendProperties DEF OpenComments
  <2> QED
    BY <1>2, <1>a, <2>3 DEF OpenComments, IssuesInv
<1>3. ASSUME NEW i \in DOMAIN rising, ScreenArrives(i) PROVE IssuesInv'
  <2>1. rising' \in Seq(Unseen) /\ rising[i] \in Unseen
    BY <1>3, <1>a, RemoveIsASeq DEF ScreenArrives
  <2>2. rising[i] \in Told /\ rising[i] \in IssueScreen
    BY <2>1, Kinds DEF Unseen
  <2>3. AskFor(rising[i]) /\ screens' = Append(screens, rising[i])
    BY <1>3 DEF ScreenArrives
  <2>4. /\ wanted' \in [IssueRequest -> 0..MaxAsked]
        /\ WaitsFor(rising[i], wanted')
        /\ \A r : WaitsFor(r, wanted) => WaitsFor(r, wanted')
    BY <2>2, <2>3, Asking
  <2> QED
    BY <2>1, <2>2, <2>3, <2>4, OneMore
<1>4. CASE OpenOther
  <2>1. OtherScreen \in Told /\ WaitsFor(OtherScreen, wanted)
    BY Kinds DEF Told, WaitsFor
  <2>2. rising' = rising /\ wanted' = wanted /\ screens' = Append(screens, OtherScreen)
    BY <1>4 DEF OpenOther
  <2> QED
    BY <1>a, <2>1, <2>2, OneMore
<1>5. CASE LeaveScreen
  <2>1. Len(screens) \in Nat /\ Len(screens) # 0
    BY <1>5, <1>a, EmptySeq, LenProperties DEF LeaveScreen
  <2> DEFINE n == Len(screens) - 1
  <2>2. n \in Nat /\ \A k \in 1..n : k \in 1..Len(screens)
    BY <2>1
  <2>3. \A k \in 1..n : screens[k] \in Told
    BY <1>a, <2>2, ElementOfSeq
  <2> HIDE DEF n
  <2>4. /\ SubSeq(screens, 1, n) \in Seq(Told)
        /\ Len(SubSeq(screens, 1, n)) = IF 1 <= n THEN n - 1 + 1 ELSE 0
        /\ \A k \in 1..n - 1 + 1 : SubSeq(screens, 1, n)[k] = screens[1 + k - 1]
    BY <2>2, <2>3, SubSeqProperties
  <2>5. Len(SubSeq(screens, 1, n)) = n
        /\ \A k \in 1..n : SubSeq(screens, 1, n)[k] = screens[k]
    BY <2>2, <2>4
  <2>6. screens' = SubSeq(screens, 1, n) /\ rising' = rising /\ wanted' = wanted
    BY <1>5 DEF LeaveScreen, Front, n
  <2> QED
    BY <1>a, <2>2, <2>4, <2>5, <2>6 DEF IssuesInv
<1>6. CASE LeaveAll
  <2>1. screens' = <<>> /\ rising' = rising /\ wanted' = wanted
    BY <1>6 DEF LeaveAll
  <2>2. screens' \in Seq(Told) /\ Len(screens') = 0
    BY <2>1, EmptySeq
  <2> QED
    BY <1>a, <2>1, <2>2 DEF IssuesInv
<1>7. ASSUME NEW kind \in Kind, NEW delta \in Stride[kind], ScrollText(delta) PROVE IssuesInv'
  <2> DEFINE s == Last(screens)
  <2> DEFINE r == [s EXCEPT !.scroll = ClampOffset(@ + delta, s.text)]
  <2>1. s \in IssueScreen /\ s \in Told /\ screens # <<>> /\ WaitsFor(s, wanted)
    BY <1>7, <1>b, TheTop DEF ScrollText
  <2>2. delta \in Int /\ s.scroll \in Int /\ s.text \in 0..MaxText
    BY <1>7, <2>1, StrideAssumption, TextAssumption DEF IssueScreen
  <2>3. ClampOffset(s.scroll + delta, s.text) \in 0..MaxText
        /\ ClampOffset(s.scroll + delta, s.text) <= Larger(s.text - 1, 0)
    <3>1. s.scroll + delta \in Int
      BY <2>2
    <3> QED
      BY <2>2, <3>1, ClampFacts
  <2>4. /\ r \in IssueScreen /\ r.missed = s.missed /\ r.loading = s.loading
        /\ r.of = s.of /\ r.issue = s.issue /\ r.failed = s.failed /\ r.kind = s.kind
        /\ r.scroll = ClampOffset(s.scroll + delta, s.text) /\ r.text = s.text
    BY <2>1, <2>3 DEF IssueScreen
  <2>5. TopBecomes(r) /\ rising' = rising /\ wanted' = wanted
    BY <1>7 DEF ScrollText
  <2>6. s # OtherScreen
    BY <2>1, Kinds
  <2> HIDE DEF r
  <2>7. r \in Told
    BY <2>1, <2>3, <2>4, <2>6 DEF Told
  <2>8. WaitsFor(r, wanted)
    BY <2>1, <2>4 DEF WaitsFor, IsFor
  <2> QED
    BY <1>a, <2>1, <2>5, <2>7, <2>8, NewTop
<1>8. CASE ToggleSidebar
  <2> DEFINE s == Last(screens)
  <2> DEFINE r == [s EXCEPT !.focused = ~@]
  <2>0. OnTop(Kind)
    BY <1>8 DEF ToggleSidebar, OnTop, Kind
  <2>1. s \in IssueScreen /\ s \in Told /\ screens # <<>> /\ WaitsFor(s, wanted)
    BY <2>0, <1>b, TheTop
  <2>2. /\ r \in IssueScreen /\ r.missed = s.missed /\ r.loading = s.loading
        /\ r.of = s.of /\ r.issue = s.issue /\ r.failed = s.failed /\ r.kind = s.kind
        /\ r.scroll = s.scroll /\ r.text = s.text
    BY <2>1 DEF IssueScreen
  <2>3. TopBecomes(r) /\ rising' = rising /\ wanted' = wanted
    BY <1>8 DEF ToggleSidebar
  <2>4. s # OtherScreen
    BY <2>1, Kinds
  <2> HIDE DEF r
  <2>5. r \in Told
    BY <2>1, <2>2, <2>4 DEF Told
  <2>6. WaitsFor(r, wanted)
    BY <2>1, <2>2 DEF WaitsFor, IsFor
  <2> QED
    BY <1>a, <2>1, <2>3, <2>5, <2>6, NewTop
<1>9. CASE OnTop(Kind) /\ LoadScreen
  <2> DEFINE s == Last(screens)
  <2> DEFINE r == [s EXCEPT !.loading = TRUE, !.missed = FALSE]
  <2>1. s \in IssueScreen /\ s \in Told /\ screens # <<>>
    BY <1>9, <1>b
  <2>2. /\ r \in IssueScreen /\ r.loading = TRUE
        /\ r.of = s.of /\ r.issue = s.issue /\ r.failed = s.failed /\ r.kind = s.kind
        /\ r.scroll = s.scroll /\ r.text = s.text
    BY <2>1 DEF IssueScreen
  <2>3. TopBecomes(r) /\ rising' = rising /\ AskFor(s)
    BY <1>9 DEF LoadScreen
  <2>4. s # OtherScreen
    BY <2>1, Kinds
  <2> HIDE DEF r
  <2>5. r \in Told
    BY <2>1, <2>2, <2>4 DEF Told
  <2>6. AskFor(r)
    BY <2>2, <2>3 DEF AskFor
  <2>7. /\ wanted' \in [IssueRequest -> 0..MaxAsked]
        /\ WaitsFor(r, wanted')
        /\ \A t : WaitsFor(t, wanted) => WaitsFor(t, wanted')
    BY <2>2, <2>6, Asking
  <2> QED
    BY <2>1, <2>3, <2>5, <2>7, NewTop
<1>10. ASSUME NEW q \in IssueRequest, NEW text \in 0..MaxText, IssueArrives(q, text)
       PROVE  IssuesInv'
  <2> DEFINE s == Last(screens)
  <2> DEFINE taken == IF OnTop(Kind) THEN TellScreen(s, q, text) ELSE OtherScreen
  <2>1. Settle(q, taken)
    BY <1>10 DEF IssueArrives
  <2>2. ASSUME screens # <<>>, IsFor(q, s) PROVE taken \in Told /\ ~taken.loading
    <3>1. OnTop(Kind)
      BY <2>2 DEF OnTop, IsFor, IssueRequest
    <3>2. s \in IssueScreen /\ s.scroll \in Int
      BY <1>b, <3>1, TextAssumption DEF IssueScreen
    <3>3. ClampOffset(s.scroll, text) \in 0..MaxText
          /\ ClampOffset(s.scroll, text) <= Larger(text - 1, 0)
      BY <3>2, ClampFacts
    <3> DEFINE r == TellScreen(s, q, text)
    <3>4. /\ r \in IssueScreen /\ r.loading = FALSE /\ r.of = q.issue /\ r.issue = s.issue
          /\ r.text = text /\ r.scroll = ClampOffset(s.scroll, text)
      BY <3>2, <3>3 DEF TellScreen, IssueScreen, IssueRequest
    <3>5. q.issue # NoIssue
      BY IssueAssumption DEF IssueRequest
    <3>6. r = taken
      BY <3>1
    <3> HIDE DEF r, taken
    <3>7. r \in Told
      BY <2>2, <3>3, <3>4, <3>5 DEF Told, IsFor
    <3> QED
      BY <3>4, <3>6, <3>7
  <2> HIDE DEF taken
  <2> QED
    BY <2>1, <2>2, Settling
<1>11. ASSUME NEW q \in IssueRequest, IssueFails(q) PROVE IssuesInv'
  <2> DEFINE s == Last(screens)
  <2> DEFINE taken == IF OnTop(Kind) THEN FailScreen(s) ELSE OtherScreen
  <2>1. Settle(q, taken)
    BY <1>11 DEF IssueFails
  <2>2. ASSUME screens # <<>>, IsFor(q, s) PROVE taken \in Told /\ ~taken.loading
    <3>1. OnTop(Kind)
      BY <2>2 DEF OnTop, IsFor, IssueRequest
    <3>2. s \in IssueScreen /\ s \in Told
      BY <1>b, <3>1
    <3> DEFINE r == FailScreen(s)
    <3>3. /\ r \in IssueScreen /\ r.loading = FALSE /\ r.failed = TRUE /\ r.of = s.of
          /\ r.issue = s.issue /\ r.text = s.text /\ r.scroll = s.scroll
      BY <3>2 DEF FailScreen, IssueScreen
    <3>4. s # OtherScreen
      BY <3>2, Kinds
    <3>5. r = taken
      BY <3>1
    <3> HIDE DEF r, taken
    <3>6. r \in Told
      BY <3>2, <3>3, <3>4 DEF Told
    <3> QED
      BY <3>3, <3>5, <3>6
  <2> HIDE DEF taken
  <2> QED
    BY <2>1, <2>2, Settling
<1>12. CASE UNCHANGED issueVars
  BY <1>12, <1>a DEF issueVars, IssuesInv
<1>13. ASSUME NEW delta, ScrollText(delta) PROVE IssuesInv'
  <2>1. Last(screens).kind \in Kind /\ delta \in Stride[Last(screens).kind]
    BY <1>13 DEF ScrollText, OnTop
  <2> QED
    BY <1>7, <1>13, <2>1
<1> QED
  BY <1>1, <1>2, <1>3, <1>4, <1>5, <1>6, <1>8, <1>9, <1>10, <1>11, <1>12, <1>13
     DEF IssuesNext, RefreshIssue, PollIssue, OnTop, Kind

\* An issue screen shows the text of an issue of its number, says that there is
\* nothing only once it was told, and waits only for what was asked or was lost
\* to another screen (issuedetails.go).
THEOREM IssuesAreHonest == IssuesSpec => []IssueScreensAreHonest
<1>1. IssuesInv => IssueScreensAreHonest
  BY InvIsHonest
<1> QED
  BY IssuesInitInv, IssuesNextInv, <1>1, PTL DEF IssuesSpec

\* What is on the stack or on its way there is a screen, with its types, and requests
\* are counted within their bound (issuedetails.go).
THEOREM IssueTypes == IssuesSpec => []IssuesTypeOK
<1>1. IssuesInv => IssuesTypeOK
  BY InvIsHonest
<1> QED
  BY IssuesInitInv, IssuesNextInv, <1>1, PTL DEF IssuesSpec

----------------------------------------------------------------------------
(* Search: pages, cursors and the fan-out.                                 *)

\* The rows of a set, by their ranks.
LEMMA RowRanks ==
  ASSUME NEW S, S \subseteq Row
  PROVE  /\ IsFiniteSet(S) /\ Cardinality(S) \in Nat
         /\ \A r \in Row : Rank(r, S) \in 0..Cardinality(S)
         /\ \A r \in S : Rank(r, S) \in 1..Cardinality(S)
         /\ \A r, s \in S : r < s => Rank(r, S) < Rank(s, S)
         /\ \A n \in 1..Cardinality(S) : \E r \in S : Rank(r, S) = n
<1>1. IsFiniteSet(Row) /\ Row \subseteq Nat
  BY RowAssumption, FS_Interval DEF Row
<1>2. IsFiniteSet(S) /\ S \subseteq Nat
  BY <1>1, FS_Subset
<1> QED
  BY <1>1, <1>2, Ranks

\* How many rows are between two ranks.
LEMMA Slices ==
  ASSUME NEW S, S \subseteq Row, NEW a \in Nat, NEW c \in Nat, a <= c, c <= Cardinality(S)
  PROVE  Cardinality({r \in S : a < Rank(r, S) /\ Rank(r, S) <= c}) = c - a
<1> DEFINE P == {r \in S : a < Rank(r, S) /\ Rank(r, S) <= c}
           rank == [r \in P |-> Rank(r, S)]
<1>1. /\ IsFiniteSet(S) /\ Cardinality(S) \in Nat
      /\ \A r \in S : Rank(r, S) \in 1..Cardinality(S)
      /\ \A r, s \in S : r < s => Rank(r, S) < Rank(s, S)
      /\ \A k \in 1..Cardinality(S) : \E r \in S : Rank(r, S) = k
  BY RowRanks
<1>2. \A r \in S : r \in Nat
  BY DEF Row
<1>3. IsFiniteSet(P)
  BY <1>1, FS_Subset
<1>4. \A r \in P : Rank(r, S) \in a + 1..c
  BY <1>1
<1>5. \A k \in a + 1..c : \E r \in P : Rank(r, S) = k
  BY <1>1
<1>6. \A r, s \in P : r # s => Rank(r, S) # Rank(s, S)
  <2>1. \A r, s \in P : r # s => r < s \/ s < r
    BY <1>2
  <2> QED
    BY <1>1, <2>1
<1> HIDE DEF P
<1>7. Cardinality(a + 1..c) = Cardinality(P)
  <2>1. rank \in [P -> a + 1..c]
    BY <1>4
  <2>2. \A r, s \in P : r # s => rank[r] # rank[s]
    BY <1>6
  <2>3. \A k \in a + 1..c : \E r \in P : rank[r] = k
    BY <1>5
  <2> HIDE DEF rank
  <2> QED
    BY <1>3, <2>1, <2>2, <2>3, SameCount
<1>8. Cardinality(a + 1..c) = c - a
  <2>1. Cardinality(a + 1..c) = IF a + 1 > c THEN 0 ELSE c - (a + 1) + 1
    BY FS_Interval
  <2> QED
    BY <2>1
<1> QED
  BY <1>7, <1>8 DEF P

\* How many rows a page has.
LEMMA PageSizes ==
  ASSUME NEW S, S \subseteq Row, NEW n \in Nat \ {0},
         NEW a, a = (n - 1) * PageSize, NEW b, b = n * PageSize
  PROVE  /\ a \in Nat /\ b \in Nat /\ b = a + PageSize /\ PageSize \in Nat \ {0}
         /\ PageOf(S, n) = {r \in S : a < Rank(r, S) /\ Rank(r, S) <= b}
         /\ Cardinality(S) >= b => Cardinality(PageOf(S, n)) = PageSize
         /\ a <= Cardinality(S) /\ Cardinality(S) <= b
              => Cardinality(PageOf(S, n)) = Cardinality(S) - a
         /\ a >= Cardinality(S) => PageOf(S, n) = {}
         /\ Cardinality(PageOf(S, n)) \in Nat
         /\ PageOf(S, n) # {} => a < Cardinality(S)
<1>1. a \in Nat /\ b \in Nat /\ b = a + PageSize /\ PageSize \in Nat \ {0}
  BY PageSizeAssumption
<1>2. PageOf(S, n) = {r \in S : a < Rank(r, S) /\ Rank(r, S) <= b}
  BY DEF PageOf
<1>3. /\ IsFiniteSet(S) /\ Cardinality(S) \in Nat
      /\ \A r \in S : Rank(r, S) \in 1..Cardinality(S)
  BY RowRanks
<1>4. IsFiniteSet(PageOf(S, n)) /\ Cardinality(PageOf(S, n)) \in Nat
  BY <1>2, <1>3, FS_Subset, FS_CardinalityType
<1>5. Cardinality(S) >= b => Cardinality(PageOf(S, n)) = PageSize
  <2> SUFFICES ASSUME Cardinality(S) >= b PROVE Cardinality(PageOf(S, n)) = b - a
    BY <1>1
  <2>1. a <= b /\ b <= Cardinality(S)
    BY <1>1, <1>3
  <2> QED
    BY <1>1, <1>2, <2>1, Slices
<1>6. a <= Cardinality(S) /\ Cardinality(S) <= b
        => Cardinality(PageOf(S, n)) = Cardinality(S) - a
  <2> SUFFICES ASSUME a <= Cardinality(S), Cardinality(S) <= b
               PROVE  Cardinality(PageOf(S, n)) = Cardinality(S) - a
    OBVIOUS
  <2>1. PageOf(S, n) = {r \in S : a < Rank(r, S) /\ Rank(r, S) <= Cardinality(S)}
    <3>1. \A r \in S : Rank(r, S) <= b <=> Rank(r, S) <= Cardinality(S)
      BY <1>1, <1>3
    <3> QED
      BY <1>2, <3>1
  <2> DEFINE c == Cardinality(S)
  <2>2. c \in Nat /\ a <= c /\ c <= Cardinality(S)
    BY <1>3
  <2>3. PageOf(S, n) = {r \in S : a < Rank(r, S) /\ Rank(r, S) <= c}
    BY <2>1
  <2> HIDE DEF c
  <2>4. Cardinality({r \in S : a < Rank(r, S) /\ Rank(r, S) <= c}) = c - a
    BY <1>1, <2>2, Slices
  <2> QED
    BY <2>3, <2>4 DEF c
<1>7. a >= Cardinality(S) => PageOf(S, n) = {}
  BY <1>1, <1>2, <1>3
<1> QED
  BY <1>1, <1>2, <1>3, <1>4, <1>5, <1>6, <1>7

\* The index is the front of the matches, and what is missing of a repository ranks
\* no higher among the matches than among its own rows.
LEMMA Fronts ==
  ASSUME NEW q \in Query
  PROVE  /\ Matching(q) \subseteq Row /\ Indexed(q) \subseteq Matching(q)
         /\ \A r \in Indexed(q) : Rank(r, Indexed(q)) = Rank(r, Matching(q))
         /\ \A r \in Matching(q) : /\ r \in OfRepo(RepoOf[r]) /\ OfRepo(RepoOf[r]) \subseteq Row
                                   /\ q.mine => r \in Mine
         /\ ~q.mine => \A r \in Matching(q) :
                         Rank(r, OfRepo(RepoOf[r])) <= Rank(r, Matching(q))
<1>1. Matching(q) \subseteq Row /\ Indexed(q) \subseteq Matching(q)
  BY DEF Matching, ByLogin, Indexed
<1>2. ASSUME NEW r \in Indexed(q)
      PROVE  Rank(r, Indexed(q)) = Rank(r, Matching(q))
  <2>1. ASSUME NEW s \in Matching(q), s <= r PROVE s \in Indexed(q)
    <3>1. s \in Nat /\ r \in Nat /\ IndexCap \in Nat
      BY <1>1, RowAssumption, PageSizeAssumption DEF Row
    <3>2. Rank(s, Matching(q)) <= Rank(r, Matching(q))
      BY <1>1, <2>1, <3>1, RowRanks
    <3>3. Rank(r, Matching(q)) <= IndexCap
      BY <1>2 DEF Indexed
    <3>4. Rank(s, Matching(q)) \in Nat /\ Rank(r, Matching(q)) \in Nat
      BY <1>1, RowRanks
    <3>5. Rank(s, Matching(q)) <= IndexCap
      BY <3>1, <3>2, <3>3, <3>4
    <3> QED
      BY <3>5 DEF Indexed
  <2>2. {s \in Indexed(q) : s <= r} = {s \in Matching(q) : s <= r}
    BY <1>1, <2>1
  <2> QED
    BY <2>2 DEF Rank
<1>3. \A r \in Matching(q) : /\ r \in OfRepo(RepoOf[r]) /\ OfRepo(RepoOf[r]) \subseteq Row
                             /\ q.mine => r \in Mine
  BY <1>1 DEF OfRepo, Matching, ByLogin
<1>4. ASSUME ~q.mine, NEW r \in Matching(q)
      PROVE  Rank(r, OfRepo(RepoOf[r])) <= Rank(r, Matching(q))
  <2>1. OfRepo(RepoOf[r]) \subseteq Matching(q)
    BY <1>4 DEF OfRepo, Matching, ByLogin, InRepo
  <2>2. {s \in OfRepo(RepoOf[r]) : s <= r} \subseteq {s \in Matching(q) : s <= r}
    BY <2>1
  <2>3. IsFiniteSet({s \in Matching(q) : s <= r})
    BY <1>1, RowRanks, FS_Subset
  <2> QED
    BY <2>2, <2>3, FS_Subset DEF Rank
<1> QED
  BY <1>1, <1>2, <1>3, <1>4

\* The matches that are neither on screen nor left out, and where a row stands in its
\* repository.
Missed == Matching(query) \ (got \cup lost)
OwnRank(r) == Rank(r, OfRepo(RepoOf[r]))

\* What is missing comes after the pages that were answered: in its repository as long
\* as the fan-out answers, among all matches once the search does.
SearchInv ==
  /\ SearchTypeOK
  /\ call # NoCall => call.wanted = lastPage + 1
  /\ call.at = "search" => call.next <= call.wanted
  /\ sources = {} <=> lastPage = 0
  /\ ~mixed /\ "search" \notin sources => \A r \in Missed : OwnRank(r) > lastPage * PageSize
  /\ ~mixed /\ "search" \in sources =>
       \A r \in Missed : r \in Indexed(query) /\ Rank(r, Matching(query)) > lastPage * PageSize
  /\ ~mixed /\ lastPage > 0 /\ ~hasMore => Missed = {}
  /\ "fanout" \notin sources =>
       \A r \in got : r \in Indexed(query) /\ Rank(r, Indexed(query)) <= lastPage * PageSize
  /\ "fanout" \notin sources /\ hasMore => lastPage * PageSize < Cardinality(Indexed(query))

\* The last page of a walk, or the one that was wanted.
LEMMA LastOfWalk ==
  ASSUME NEW q \in Query, NEW n \in Nat \ {0}, NEW w \in Nat, n <= w,
         n = w \/ ~HasNext(q, n)
  PROVE  /\ MoreOfTotal(q, n) => w * PageSize < Cardinality(Indexed(q))
         /\ n = w /\ ~MoreOfTotal(q, n) => Cardinality(Indexed(q)) <= w * PageSize
         /\ n < w => Cardinality(Indexed(q)) <= (w - 1) * PageSize
<1> DEFINE a == (n - 1) * PageSize
           b == n * PageSize
           c == Cardinality(Indexed(q))
           k == Cardinality(PageOf(Indexed(q), n))
<1>1. Indexed(q) \subseteq Row
  BY Fronts
<1>2. c \in Nat
  BY <1>1, RowRanks
<1>3. /\ a \in Nat /\ b \in Nat /\ b = a + PageSize /\ PageSize \in Nat \ {0}
      /\ c >= b => k = PageSize
      /\ a <= c /\ c <= b => k = c - a
      /\ k \in Nat
      /\ PageOf(Indexed(q), n) # {} => a < c
      /\ a >= c => PageOf(Indexed(q), n) = {}
  BY <1>1, PageSizes
<1>4. PageOf(Indexed(q), n) = {} => k = 0
  BY FS_EmptySet
<1>5. MoreOfTotal(q, n) <=> PageOf(Indexed(q), n) # {} /\ a + k < c
  BY DEF MoreOfTotal
<1>6. ~HasNext(q, n) <=> c <= b
  BY <1>2, <1>3 DEF HasNext
<1> HIDE DEF a, c, k
<1>7. MoreOfTotal(q, n) => b < c
  BY <1>2, <1>3, <1>5
<1>8. ~MoreOfTotal(q, n) => c <= b
  BY <1>2, <1>3, <1>4, <1>5
<1>9. n < w => b <= (w - 1) * PageSize
  <2> SUFFICES ASSUME n < w PROVE n * PageSize <= (w - 1) * PageSize
    OBVIOUS
  <2>1. PICK d \in Nat : w - 1 = n + d
    <3>1. (w - 1) - n \in Nat /\ w - 1 = n + ((w - 1) - n)
      OBVIOUS
    <3> QED
      BY <3>1
  <2>2. (n + d) * PageSize = n * PageSize + d * PageSize /\ d * PageSize \in Nat
    BY <1>3
  <2> QED
    BY <1>3, <2>1, <2>2
<1>10. n < w => c <= (w - 1) * PageSize
  <2>1. (w - 1) * PageSize \in Int
    BY <1>3
  <2> HIDE DEF b
  <2> QED
    BY <1>2, <1>3, <1>6, <1>9, <2>1
<1>11. n = w => b = w * PageSize
  OBVIOUS
<1>12. MoreOfTotal(q, n) => n = w
  <2>1. n < w => ~HasNext(q, n)
    OBVIOUS
  <2> HIDE DEF b
  <2> QED
    BY <1>2, <1>3, <1>6, <1>7, <2>1
<1> QED
  BY <1>7, <1>8, <1>10, <1>11, <1>12 DEF c

LEMMA SearchInitInv == SearchInit => SearchInv
<1> SUFFICES ASSUME SearchInit PROVE SearchInv
  OBVIOUS
<1>1. held \in [Queries -> [Page -> Nat]]
  BY DEF SearchInit
<1>2. NoCall \in Call /\ NoCall.at = "idle"
  BY DEF NoCall, Call
<1>3. WholeScope \in Queries
  BY QueryAssumption
<1>4. SearchTypeOK
  BY <1>1, <1>2, <1>3 DEF SearchInit, SearchTypeOK
<1>5. \A r \in Missed : OwnRank(r) > lastPage * PageSize
  <2>1. ASSUME NEW r \in Missed PROVE OwnRank(r) > 0
    <3>1. r \in Matching(query) /\ query \in Query
      BY <2>1, <1>4, QueryAssumption DEF Missed, SearchTypeOK
    <3>2. r \in OfRepo(RepoOf[r]) /\ OfRepo(RepoOf[r]) \subseteq Row
      BY <3>1, Fronts
    <3>3. OwnRank(r) \in 1..Cardinality(OfRepo(RepoOf[r]))
          /\ Cardinality(OfRepo(RepoOf[r])) \in Nat
      BY <3>2, RowRanks DEF OwnRank
    <3> QED
      BY <3>3
  <2>2. 0 * PageSize = 0
    BY PageSizeAssumption
  <2> QED
    BY <2>1, <2>2 DEF SearchInit
<1> QED
  BY <1>2, <1>4, <1>5 DEF SearchInit, SearchInv

\* The kinds of a call.
LEMMA Calls ==
  ASSUME call \in Call
  PROVE  /\ call.at = "search" => /\ call # NoCall
                                  /\ call.wanted \in Nat /\ call.next \in Page
         /\ call.at = "fanout" => call # NoCall /\ call.wanted \in Nat
         /\ \A n \in Nat : \A p \in Page :
              /\ Walking(n, p) \in Call /\ Walking(n, p) # NoCall
              /\ Walking(n, p).at = "search" /\ Walking(n, p).wanted = n
              /\ Walking(n, p).next = p
         /\ \A n \in Nat : /\ FanningOut(n) \in Call /\ FanningOut(n) # NoCall
                           /\ FanningOut(n).at = "fanout" /\ FanningOut(n).wanted = n
         /\ NoCall \in Call /\ NoCall.at = "idle"
<1>1. /\ call.at = "search" => call # NoCall /\ call.wanted \in Nat /\ call.next \in Page
      /\ call.at = "fanout" => call # NoCall /\ call.wanted \in Nat
  BY DEF Call, NoCall
<1>2. ASSUME NEW n \in Nat, NEW p \in Page
      PROVE  /\ Walking(n, p) \in Call /\ Walking(n, p) # NoCall
             /\ Walking(n, p).at = "search" /\ Walking(n, p).wanted = n
             /\ Walking(n, p).next = p
  BY DEF Call, NoCall, Walking
<1>3. ASSUME NEW n \in Nat
      PROVE  /\ FanningOut(n) \in Call /\ FanningOut(n) # NoCall
             /\ FanningOut(n).at = "fanout" /\ FanningOut(n).wanted = n
  BY DEF Call, NoCall, FanningOut
<1>4. NoCall \in Call /\ NoCall.at = "idle"
  BY DEF Call, NoCall
<1> QED
  BY <1>1, <1>2, <1>3, <1>4

\* A step that leaves the list as it is.
LEMMA SameList ==
  ASSUME SearchInv, UNCHANGED <<query, listed>>, SearchTypeOK',
         call' # NoCall => call'.wanted = lastPage + 1,
         call'.at = "search" => call'.next <= call'.wanted
  PROVE  SearchInv'
<1>1. /\ Missed' = Missed /\ UNCHANGED <<lastPage, got, hasMore, sources, mixed, lost, query>>
  BY DEF Missed, listed
<1>2. \A r : OwnRank(r)' = OwnRank(r)
  BY DEF OwnRank
<1> QED
  BY <1>1, <1>2 DEF SearchInv

\* Where a row stands that is still missing, whichever transport answers next.
LEMMA MissedRanks ==
  ASSUME SearchInv, ~mixed, NEW r \in Missed
  PROVE  /\ query \in Query /\ r \in Matching(query) /\ r \in Row
         /\ OwnRank(r) \in Nat /\ Rank(r, Matching(query)) \in Nat
         /\ lastPage * PageSize \in Nat
         /\ sources \subseteq {"fanout"} => OwnRank(r) > lastPage * PageSize
         /\ sources # {"fanout"} \/ ~query.mine =>
              Rank(r, Matching(query)) > lastPage * PageSize
<1>1. query \in Query /\ r \in Matching(query) /\ r \in Row
  BY QueryAssumption, Fronts DEF SearchInv, SearchTypeOK, Missed
<1>2. OwnRank(r) \in Nat /\ Rank(r, Matching(query)) \in Nat /\ Rank(r, Matching(query)) > 0
  <2>1. /\ r \in OfRepo(RepoOf[r]) /\ OfRepo(RepoOf[r]) \subseteq Row
        /\ Matching(query) \subseteq Row
    BY <1>1, Fronts
  <2>2. /\ OwnRank(r) \in 1..Cardinality(OfRepo(RepoOf[r]))
        /\ Rank(r, Matching(query)) \in 1..Cardinality(Matching(query))
        /\ Cardinality(OfRepo(RepoOf[r])) \in Nat /\ Cardinality(Matching(query)) \in Nat
    BY <1>1, <2>1, RowRanks DEF OwnRank
  <2> QED
    BY <2>2
<1>3. lastPage * PageSize \in Nat /\ (lastPage = 0 => lastPage * PageSize = 0)
  BY PageSizeAssumption DEF SearchInv, SearchTypeOK
<1>4. sources \subseteq {"fanout"} => OwnRank(r) > lastPage * PageSize
  BY DEF SearchInv
<1>5. ~query.mine => OwnRank(r) <= Rank(r, Matching(query))
  BY <1>1, Fronts DEF OwnRank
<1>6. CASE "search" \in sources
  BY <1>1, <1>2, <1>3, <1>4, <1>6 DEF SearchInv
<1>7. CASE sources = {}
  <2>1. lastPage = 0
    BY <1>7 DEF SearchInv
  <2> QED
    BY <1>1, <1>2, <1>3, <1>4, <2>1
<1>8. CASE sources = {"fanout"}
  BY <1>1, <1>2, <1>3, <1>4, <1>5, <1>8
<1> QED
  BY <1>6, <1>7, <1>8 DEF SearchInv, SearchTypeOK

LEMMA FanOutInv ==
  ASSUME SearchInv, NEW failing \in SUBSET Targets, FanOutAnswers(failing)
  PROVE  SearchInv'
<1> DEFINE kept == Covered(query) \ failing
           rows == FannedOut(query, call.wanted, failing)
           more == FanOutHasMore(query, call.wanted, failing)
           missing == {r \in Matching(query) : RepoOf[r] \notin kept}
           n == lastPage + 1
<1>1. call.at = "fanout" /\ call.wanted = n /\ n \in Nat \ {0} /\ query \in Query
  BY Calls, QueryAssumption DEF FanOutAnswers, SearchInv, SearchTypeOK
<1>2. /\ call' = NoCall /\ lastPage' = n /\ got' = got \cup rows /\ hasMore' = more
      /\ sources' = sources \cup {"fanout"} /\ lost' = lost \cup missing
      /\ mixed' = (mixed \/ sources \ {"fanout"} # {})
      /\ UNCHANGED <<down, held, query>>
  BY <1>1 DEF FanOutAnswers, Answer
<1>3. SearchTypeOK'
  <2>1. rows \subseteq Row /\ missing \subseteq Row /\ more \in BOOLEAN
    BY <1>1, Fronts DEF FannedOut, ByLogin, PageOf, OfRepo, FanOutHasMore
  <2>2. mixed' \in BOOLEAN
    BY <1>2
  <2> HIDE DEF rows, missing, more
  <2> QED
    BY <1>1, <1>2, <2>1, <2>2, Calls DEF SearchInv, SearchTypeOK
<1>4. ASSUME ~mixed' PROVE ~mixed /\ sources \subseteq {"fanout"}
  BY <1>2, <1>4
<1>5. ASSUME ~mixed', NEW r \in Missed'
      PROVE  /\ r \in Missed /\ RepoOf[r] \in kept
             /\ OwnRank(r) \in Nat /\ OwnRank(r) > n * PageSize /\ OwnRank(r)' = OwnRank(r)
             /\ Cardinality(OfRepo(RepoOf[r])) > n * PageSize
  <2>1. /\ r \in Missed /\ r \in Matching(query) /\ r \notin rows /\ r \notin missing
    BY <1>2, <1>5 DEF Missed
  <2>2. RepoOf[r] \in kept
    BY <2>1
  <2>3. /\ r \in OfRepo(RepoOf[r]) /\ OfRepo(RepoOf[r]) \subseteq Row
        /\ query.mine => r \in Mine
    BY <1>1, <2>1, Fronts
  <2>4. r \notin PageOf(OfRepo(RepoOf[r]), n)
    BY <1>1, <2>1, <2>2, <2>3 DEF FannedOut, ByLogin
  <2>5. /\ OwnRank(r) \in Nat /\ OwnRank(r) > lastPage * PageSize
        /\ lastPage * PageSize \in Nat
    BY <1>4, <1>5, <2>1, MissedRanks
  <2>6. OwnRank(r) > n * PageSize /\ n * PageSize \in Nat
    <3>1. n - 1 = lastPage
      BY <1>1 DEF SearchInv, SearchTypeOK
    <3>2. n * PageSize \in Nat
      BY <1>1, PageSizeAssumption
    <3> HIDE DEF n
    <3> QED
      BY <2>3, <2>4, <2>5, <3>1, <3>2 DEF PageOf, OwnRank
  <2>7. OwnRank(r)' = OwnRank(r)
    BY DEF OwnRank
  <2>8. Cardinality(OfRepo(RepoOf[r])) > n * PageSize
    <3>1. /\ OwnRank(r) \in 1..Cardinality(OfRepo(RepoOf[r]))
          /\ Cardinality(OfRepo(RepoOf[r])) \in Nat
      BY <2>3, RowRanks DEF OwnRank
    <3> HIDE DEF n
    <3> QED
      BY <2>6, <3>1
  <2> QED
    BY <2>1, <2>2, <2>5, <2>6, <2>7, <2>8
<1>6. ASSUME ~mixed', ~hasMore' PROVE Missed' = {}
  <2> SUFFICES ASSUME NEW r \in Missed' PROVE FALSE
    OBVIOUS
  <2> DEFINE S == OfRepo(RepoOf[r])
  <2>1. /\ RepoOf[r] \in kept /\ Cardinality(S) > n * PageSize
    BY <1>5, <1>6
  <2>2. S \subseteq Row
    BY DEF OfRepo
  <2>3. Cardinality(S) >= n * PageSize
    <3>1. Cardinality(S) \in Nat /\ n * PageSize \in Nat
      BY <1>1, <2>2, RowRanks, PageSizeAssumption
    <3> HIDE DEF S, n
    <3> QED
      BY <2>1, <3>1
  <2>4. Cardinality(PageOf(S, n)) = PageSize
    <3> HIDE DEF S, n
    <3> QED
      BY <1>1, <2>2, <2>3, PageSizes
  <2>5. more
    BY <1>1, <2>1, <2>4 DEF FanOutHasMore
  <2> QED
    BY <1>2, <1>6, <2>5
<1>7. call' = NoCall /\ call'.at # "search" /\ call'.at # "fanout"
  BY <1>2, Calls DEF NoCall
<1>8. sources' # {} /\ lastPage' # 0 /\ "fanout" \in sources'
      /\ (~mixed' => "search" \notin sources')
  BY <1>1, <1>2, <1>4
<1>9. ~mixed' => \A r \in Missed' : OwnRank(r)' > lastPage' * PageSize
  <2> HIDE DEF n
  <2> QED
    BY <1>2, <1>5
<1> QED
  BY <1>3, <1>6, <1>7, <1>8, <1>9 DEF SearchInv

LEMMA StepOverInv ==
  ASSUME SearchInv, call.at = "search", StepOver, UNCHANGED query,
         down' \in Nat, held' \in [Queries -> [Page -> Nat]]
  PROVE  SearchInv'
<1> DEFINE n == call.next
           w == lastPage + 1
           all == Indexed(query)
           rows == PageOf(Indexed(query), n)
           more == MoreOfTotal(query, n)
           missing == Matching(query) \ Indexed(query)
           c == Cardinality(Indexed(query))
<1>1. /\ call.wanted = w /\ n \in Page /\ n <= w /\ w \in Nat /\ query \in Query
      /\ n \in Nat \ {0} /\ call \in Call
  <2>1. call.wanted = w /\ n \in Page /\ n <= w /\ lastPage \in Nat /\ query \in Query
        /\ call \in Call
    BY Calls, QueryAssumption DEF SearchInv, SearchTypeOK
  <2> QED
    BY <2>1, RowAssumption DEF Page
<1>2. all \subseteq Row /\ all \subseteq Matching(query) /\ c \in Nat /\ c <= Rows
      /\ Matching(query) \subseteq Row
  <2>1. all \subseteq Row /\ all \subseteq Matching(query) /\ Matching(query) \subseteq Row
    BY <1>1, Fronts
  <2>2. IsFiniteSet(Row) /\ Cardinality(Row) = Rows
    BY RowAssumption, FS_Interval DEF Row
  <2> QED
    BY <2>1, <2>2, RowRanks, FS_Subset
<1>3. CASE n < w /\ HasNext(query, n)
  <2>1. call' = Walking(w, n + 1) /\ UNCHANGED listed
    BY <1>1, <1>3 DEF StepOver
  <2>2. n + 1 \in Page
    <3>1. n * PageSize < c /\ n <= n * PageSize
      <4>1. PageSize \in Nat \ {0}
        BY PageSizeAssumption
      <4>2. n * PageSize = n + n * (PageSize - 1) /\ n * (PageSize - 1) \in Nat
        BY <1>1, <4>1
      <4> QED
        BY <1>1, <1>3, <4>2 DEF HasNext
    <3>2. n < Rows
      <4> HIDE DEF n, c
      <4>1. n * PageSize \in Int
        BY <1>1, PageSizeAssumption
      <4> QED
        BY <1>1, <1>2, <3>1, <4>1, RowAssumption
    <3> HIDE DEF n
    <3> QED
      BY <1>1, <3>2, RowAssumption DEF Page
  <2>3. call' \in Call /\ call'.wanted = lastPage + 1 /\ call'.next <= call'.wanted
    BY <1>1, <1>3, <2>1, <2>2, Calls
  <2>4. SearchTypeOK'
    BY <2>1, <2>3 DEF SearchInv, SearchTypeOK, listed
  <2> QED
    BY <2>1, <2>3, <2>4, SameList
<1>4. CASE ~(n < w /\ HasNext(query, n))
  <2>1. /\ call' = NoCall /\ lastPage' = w /\ got' = got \cup rows /\ hasMore' = more
        /\ sources' = sources \cup {"search"} /\ lost' = lost \cup missing
        /\ mixed' = (mixed \/ (sources \ {"search"} # {} /\ query.mine))
    BY <1>1, <1>4 DEF StepOver, Answer
  <2>2. SearchTypeOK'
    <3>1. rows \subseteq Row /\ missing \subseteq Row /\ more \in BOOLEAN
      BY <1>2 DEF PageOf, MoreOfTotal
    <3>2. mixed' \in BOOLEAN
      <4>1. mixed \in BOOLEAN
        BY DEF SearchInv, SearchTypeOK
      <4> QED
        BY <2>1, <4>1
    <3> HIDE DEF rows, missing, more
    <3> QED
      BY <1>1, <2>1, <3>1, <3>2, Calls DEF SearchInv, SearchTypeOK
  <2>3. /\ more => w * PageSize < c
        /\ n = w /\ ~more => c <= w * PageSize
        /\ n < w => c <= (w - 1) * PageSize
    <3>1. n = w \/ ~HasNext(query, n)
      BY <1>1, <1>4
    <3> HIDE DEF n, w
    <3> QED
      BY <1>1, <3>1, LastOfWalk
  <2>4. /\ (w - 1) * PageSize = lastPage * PageSize
           /\ w * PageSize = lastPage * PageSize + PageSize
        /\ lastPage * PageSize \in Nat /\ PageSize \in Nat \ {0} /\ w * PageSize \in Nat
        /\ lastPage \in Nat
    BY PageSizeAssumption DEF SearchInv, SearchTypeOK
  <2>5. ASSUME ~mixed', NEW r \in Missed'
        PROVE  /\ r \in Indexed(query) /\ Rank(r, Matching(query)) > w * PageSize
               /\ c > w * PageSize
    <3>1. ~mixed /\ r \in Missed /\ r \in Matching(query) /\ r \in all /\ r \notin rows
      BY <2>1, <2>5 DEF Missed
    <3>2. sources # {"fanout"} \/ ~query.mine
      BY <2>1, <2>5
    <3>3. Rank(r, Matching(query)) > lastPage * PageSize
      BY <3>1, <3>2, MissedRanks
    <3>4. Rank(r, all) = Rank(r, Matching(query)) /\ Rank(r, all) \in 1..c
      BY <1>1, <1>2, <3>1, Fronts, RowRanks
    <3>5. n = w
      <4>1. c > (w - 1) * PageSize
        <5> HIDE DEF c, w
        <5> QED
          BY <1>2, <2>4, <3>3, <3>4
      <4> HIDE DEF c, n, w
      <4> QED
        BY <1>1, <1>2, <2>3, <2>4, <4>1
    <3>6. Rank(r, all) > w * PageSize
      <4>1. r \notin PageOf(all, w)
        BY <3>1, <3>5
      <4>2. ~((w - 1) * PageSize < Rank(r, all) /\ Rank(r, all) <= w * PageSize)
        BY <3>1, <4>1 DEF PageOf
      <4> HIDE DEF c, w, all
      <4> QED
        BY <1>2, <2>4, <3>3, <3>4, <4>2
    <3> HIDE DEF c, w
    <3> QED
      BY <1>2, <2>4, <3>1, <3>4, <3>6
  <2>6. ASSUME ~mixed', ~hasMore' PROVE Missed' = {}
    <3> SUFFICES ASSUME NEW r \in Missed' PROVE FALSE
      OBVIOUS
    <3>1. c > w * PageSize
      BY <2>5, <2>6
    <3>2. c <= w * PageSize
      <4> HIDE DEF c, n, w, more
      <4> QED
        BY <1>1, <1>2, <2>1, <2>3, <2>4, <2>6
    <3> HIDE DEF c, w
    <3> QED
      BY <1>2, <2>4, <3>1, <3>2
  <2>7. ASSUME "fanout" \notin sources', NEW r \in got'
        PROVE  r \in all /\ Rank(r, all) <= w * PageSize
    <3>1. CASE r \in got
      <4>1. r \in all /\ Rank(r, all) <= lastPage * PageSize
        BY <2>1, <2>7, <3>1 DEF SearchInv
      <4>2. Rank(r, all) \in 1..c
        BY <1>2, <4>1, RowRanks
      <4> HIDE DEF c, w, all
      <4> QED
        BY <1>2, <2>4, <4>1, <4>2
    <3>2. CASE r \in rows
      <4>1. r \in all /\ Rank(r, all) <= n * PageSize
        BY <3>2 DEF PageOf
      <4>2. Rank(r, all) \in 1..c
        BY <1>2, <4>1, RowRanks
      <4>3. n * PageSize <= w * PageSize /\ n * PageSize \in Nat
        <5> HIDE DEF n, w
        <5>1. PICK d \in Nat : w = n + d
          <6>1. w - n \in Nat /\ w = n + (w - n)
            BY <1>1
          <6> QED
            BY <6>1
        <5>2. (n + d) * PageSize = n * PageSize + d * PageSize /\ d * PageSize \in Nat
              /\ n * PageSize \in Nat
          BY <1>1, <2>4
        <5> QED
          BY <5>1, <5>2
      <4> HIDE DEF c, n, w, all
      <4> QED
        BY <1>2, <2>4, <4>1, <4>2, <4>3
    <3> QED
      BY <2>1, <3>1, <3>2
  <2>8. call' = NoCall /\ call'.at # "search" /\ call'.at # "fanout"
    BY <2>1, Calls DEF NoCall
  <2>9. sources' # {} /\ lastPage' # 0 /\ "search" \in sources'
    BY <2>1, <2>4
  <2>10. ~mixed' => \A r \in Missed' : /\ r \in Indexed(query')
                                       /\ Rank(r, Matching(query')) > lastPage' * PageSize
    <3> HIDE DEF w
    <3> QED
      BY <2>1, <2>5
  <2>11. "fanout" \notin sources' =>
           \A r \in got' : r \in Indexed(query')
           /\ Rank(r, Indexed(query')) <= lastPage' * PageSize
    <3> HIDE DEF w
    <3> QED
      BY <2>1, <2>7
  <2>12. hasMore' => lastPage' * PageSize < Cardinality(Indexed(query'))
    <3> HIDE DEF w, more
    <3> QED
      BY <2>1, <2>3
  <2> QED
    BY <2>2, <2>6, <2>8, <2>9, <2>10, <2>11, <2>12 DEF SearchInv
<1> QED
  BY <1>3, <1>4

LEMMA SearchNextInv == SearchInv /\ [SearchNext]_searchVars => SearchInv'
<1> SUFFICES ASSUME SearchInv, [SearchNext]_searchVars PROVE SearchInv'
  OBVIOUS
<1>t. /\ SearchTypeOK /\ lastPage \in Nat /\ call \in Call /\ down \in Nat
      /\ held \in [Queries -> [Page -> Nat]] /\ RetryAfter \in Nat /\ TTL \in Nat
  BY ClocksAssumption DEF SearchInv, SearchTypeOK
<1>p. 1 \in Page
  BY RowAssumption DEF Page
<1>1. ASSUME NEW q \in Queries, Open(q) PROVE SearchInv'
  <2>1. /\ query' = q /\ lastPage' = 0 /\ got' = {} /\ hasMore' = FALSE
        /\ sources' = {} /\ mixed' = FALSE /\ lost' = {} /\ UNCHANGED <<down, held>>
        /\ call' \in {Walking(1, 1), FanningOut(1)}
    BY <1>1 DEF Open, Begin
  <2>2. /\ call' \in Call /\ call' # NoCall /\ call'.wanted = 1
        /\ call'.at = "search" => call'.next = 1
    BY <1>t, <1>p, <2>1, Calls
  <2>3. SearchTypeOK'
    BY <1>t, <2>1, <2>2 DEF SearchTypeOK
  <2>4. \A r \in Missed' : OwnRank(r)' > 0
    <3> SUFFICES ASSUME NEW r \in Missed' PROVE OwnRank(r) > 0
      BY DEF OwnRank
    <3>1. r \in Matching(q) /\ q \in Query
      BY <2>1, QueryAssumption DEF Missed
    <3>2. r \in OfRepo(RepoOf[r]) /\ OfRepo(RepoOf[r]) \subseteq Row
      BY <3>1, Fronts
    <3>3. OwnRank(r) \in 1..Cardinality(OfRepo(RepoOf[r]))
          /\ Cardinality(OfRepo(RepoOf[r])) \in Nat
      BY <3>2, RowRanks DEF OwnRank
    <3> QED
      BY <3>3
  <2>5. 0 * PageSize = 0
    BY PageSizeAssumption
  <2> QED
    BY <2>1, <2>2, <2>3, <2>4, <2>5 DEF SearchInv
<1>2. CASE LoadMore
  <2>1. /\ UNCHANGED <<down, held, query, listed>>
        /\ call' \in {Walking(lastPage + 1, 1), FanningOut(lastPage + 1)}
    BY <1>2 DEF LoadMore, Begin
  <2>2. /\ call' \in Call /\ call'.wanted = lastPage + 1
        /\ call'.at = "search" => call'.next = 1
    BY <1>t, <1>p, <2>1, Calls
  <2>3. SearchTypeOK'
    BY <1>t, <2>1, <2>2 DEF SearchTypeOK, listed
  <2> QED
    BY <1>t, <2>1, <2>2, <2>3, SameList
<1>3. CASE TakeHeld
  BY <1>t, <1>3, StepOverInv DEF TakeHeld
<1>4. CASE SearchAnswers
  <2>1. held' \in [Queries -> [Page -> Nat]]
    BY <1>t, <1>4 DEF SearchAnswers
  <2> QED
    BY <1>t, <1>4, <2>1, StepOverInv DEF SearchAnswers
<1>5. CASE SearchFails
  <2>1. call' = FanningOut(lastPage + 1) /\ UNCHANGED <<held, query, listed>> /\ down' \in Nat
    BY <1>t, <1>5, Calls DEF SearchFails, Trip, SearchInv
  <2>2. call' \in Call /\ call'.wanted = lastPage + 1 /\ call'.at = "fanout"
    BY <1>t, <2>1, Calls
  <2>3. SearchTypeOK'
    BY <1>t, <2>1, <2>2 DEF SearchTypeOK, listed
  <2> QED
    BY <2>1, <2>2, <2>3, SameList
<1>6. CASE SearchTimesOut \/ FanOutFails
  <2>1. call' = NoCall /\ UNCHANGED <<down, held, query, listed>>
    BY <1>6 DEF SearchTimesOut, FanOutFails
  <2>2. call' \in Call /\ call'.at = "idle"
    BY <1>t, <2>1, Calls
  <2>3. SearchTypeOK'
    BY <1>t, <2>1, <2>2 DEF SearchTypeOK, listed
  <2> QED
    BY <2>1, <2>2, <2>3, SameList
<1>7. ASSUME NEW failing \in SUBSET Targets, FanOutAnswers(failing) PROVE SearchInv'
  BY <1>7, FanOutInv
<1>8. ASSUME UNCHANGED <<query, call, listed>>, down' \in Nat,
             held' \in [Queries -> [Page -> Nat]]
      PROVE  SearchInv'
  <2>1. SearchTypeOK'
    BY <1>t, <1>8 DEF SearchTypeOK, listed
  <2> QED
    BY <1>8, <2>1, SameList DEF SearchInv
<1>9. CASE OtherSearchFails
  BY <1>t, <1>8, <1>9 DEF OtherSearchFails, Trip
<1>10. CASE Tick
  <2>1. \A t \in Nat : Left(t) \in Nat
    BY DEF Left
  <2>2. down' \in Nat /\ held' \in [Queries -> [Page -> Nat]]
    BY <1>t, <1>10, <2>1 DEF Tick
  <2> QED
    BY <1>8, <1>10, <2>2 DEF Tick
<1>11. CASE UNCHANGED searchVars
  BY <1>t, <1>8, <1>11 DEF searchVars
<1> QED
  BY <1>1, <1>2, <1>3, <1>4, <1>5, <1>6, <1>7, <1>9, <1>10, <1>11 DEF SearchNext

\* The list and the call under way keep their types.
THEOREM SearchTypes == SearchSpec => []SearchTypeOK
<1>1. SearchInv => SearchTypeOK
  BY DEF SearchInv
<1> QED
  BY <1>1, SearchInitInv, SearchNextInv, PTL DEF SearchSpec

\* A list that says it has no more has shown every match its transports could give, and
\* one of the search offers more only while there is more (search.go:21-23).
THEOREM HonestLoadMore == SearchSpec => []LoadMoreIsHonest
<1>1. SearchInv => LoadMoreIsHonest
  <2> SUFFICES ASSUME SearchInv PROVE LoadMoreIsHonest
    OBVIOUS
  <2>1. lastPage > 0 /\ ~hasMore /\ ~mixed => Matching(query) \subseteq got \cup lost
    BY DEF SearchInv, Missed
  <2>2. ASSUME hasMore, sources = {"search"}, Indexed(query) \subseteq got PROVE FALSE
    <3> DEFINE c == Cardinality(Indexed(query))
    <3>1. query \in Query
      BY QueryAssumption DEF SearchInv, SearchTypeOK
    <3>2. Indexed(query) \subseteq Row /\ c \in Nat
      BY <3>1, Fronts, RowRanks
    <3>3. /\ lastPage * PageSize < c /\ lastPage * PageSize \in Nat
          /\ \A r \in Indexed(query) : Rank(r, Indexed(query)) <= lastPage * PageSize
      BY <2>2, PageSizeAssumption DEF SearchInv, SearchTypeOK
    <3>4. PICK r \in Indexed(query) : Rank(r, Indexed(query)) = c
      <4>1. c \in 1..c
        <5> HIDE DEF c
        <5> QED
          BY <3>2, <3>3
      <4> QED
        BY <3>2, <4>1, RowRanks
    <3> HIDE DEF c
    <3> QED
      BY <3>2, <3>3, <3>4
  <2> QED
    BY <2>1, <2>2 DEF LoadMoreIsHonest
<1> QED
  BY <1>1, SearchInitInv, SearchNextInv, PTL DEF SearchSpec

----------------------------------------------------------------------------
(* The conversation: its threads, and where their buttons are drawn.       *)

\* The threads of a page are sets of its remarks, and no remark is in two.
LEMMA ThreadsApart ==
  ASSUME NEW d \in Data
  PROVE  /\ IsFiniteSet(Threads(d)) /\ IsFiniteSet(Submitted(d)) /\ Submitted(d) \subseteq Remark
         /\ \A t \in Threads(d) : t # {} /\ t \subseteq Submitted(d)
         /\ \A t, u \in Threads(d) : \A r : r \in t /\ r \in u => t = u
         /\ \A r, s \in Submitted(d) : RootOf(r, Submitted(d)) = RootOf(s, Submitted(d))
              => \E t \in Threads(d) : r \in t /\ s \in t
<1> DEFINE page == Submitted(d)
           roots == [r \in page |-> RootOf(r, page)]
           under == [s \in page |-> {r \in page : roots[r] = roots[s]}]
<1>1. page \subseteq Remark /\ IsFiniteSet(page)
  <2>1. page \subseteq Remark
    BY DEF Submitted, Data
  <2> QED
    BY <2>1, FiniteAssumption, FS_Subset
<1>2. Threads(d) = {under[s] : s \in page}
  BY DEF Threads
<1>3. \A r \in page : roots[r] = RootOf(r, page)
  OBVIOUS
<1> HIDE DEF page, roots
<1>4. IsFiniteSet({under[s] : s \in page})
  <2> HIDE DEF under
  <2> QED
    BY <1>1, ImageIsFinite
<1>5. \A s \in page : s \in under[s] /\ under[s] \subseteq page
  OBVIOUS
<1>6. \A t \in Threads(d) : t # {} /\ t \subseteq page
  <2> HIDE DEF under
  <2> QED
    BY <1>2, <1>5
<1>7. \A t, u \in Threads(d) : \A r : r \in t /\ r \in u => t = u
  <2>1. ASSUME NEW s \in page, NEW v \in page, NEW r, r \in under[s], r \in under[v]
        PROVE  under[s] = under[v]
    <3>1. roots[r] = roots[s] /\ roots[r] = roots[v]
      BY <2>1
    <3> QED
      BY <3>1
  <2> HIDE DEF under
  <2> QED
    BY <1>2, <2>1
<1>8. ASSUME NEW r \in page, NEW s \in page, RootOf(r, page) = RootOf(s, page)
      PROVE  \E t \in Threads(d) : r \in t /\ s \in t
  <2>1. r \in under[s]
    BY <1>3, <1>8
  <2> HIDE DEF under
  <2> QED
    BY <1>2, <1>5, <2>1
<1>9. IsFiniteSet(Threads(d))
  BY <1>2, <1>4
<1> QED
  BY <1>1, <1>6, <1>7, <1>8, <1>9 DEF page

\* A thread has one earliest remark, which is in no other.
LEMMA TheEarliest ==
  ASSUME NEW d \in Data
  PROVE  /\ \A t \in Threads(d) : Earliest(t) \in t /\ Earliest(t) \in Remark
         /\ \A t, u \in Threads(d) : WrittenAt[Earliest(t)] = WrittenAt[Earliest(u)] => t = u
<1>1. ASSUME NEW t \in Threads(d) PROVE Earliest(t) \in t /\ Earliest(t) \in Remark
  <2> DEFINE times == {WrittenAt[r] : r \in t}
  <2>1. t # {} /\ t \subseteq Remark
    BY ThreadsApart
  <2>2. times \subseteq Nat /\ times # {}
    BY <2>1, RowsAssumption
  <2> HIDE DEF times
  <2>3. Min(times) \in times /\ \A y \in times : Min(times) <= y
    BY <2>2, MinIsLeast
  <2>4. \E r \in t : \A s \in t : WrittenAt[r] <= WrittenAt[s]
    BY <2>3 DEF times
  <2> QED
    BY <2>1, <2>4 DEF Earliest
<1>2. ASSUME NEW t \in Threads(d), NEW u \in Threads(d),
             WrittenAt[Earliest(t)] = WrittenAt[Earliest(u)]
      PROVE  t = u
  <2>1. Earliest(t) = Earliest(u)
    BY <1>1, <1>2, TimesDiffer
  <2> QED
    BY <1>1, <2>1, ThreadsApart
<1> QED
  BY <1>1, <1>2

\* What the pane is made of: finitely many blocks, of which those with a button are
\* the resolved threads, each at a place of its own.
LEMMA BlocksApart ==
  ASSUME NEW d \in Data
  PROVE  /\ IsFiniteSet(Blocks(d))
         /\ \A b \in Blocks(d) : b.at \in Nat /\ b.then \in Nat /\ b.rows \in Nat
         /\ \A b \in Blocks(d) : b.button =>
              /\ b.rows >= 2
              /\ \E t \in Threads(d) : IsResolved(d, t) /\ b = ThreadBlock(d, t)
         /\ \A a, b \in Blocks(d) : a.button /\ b.button /\ a # b => Before(a, b) \/ Before(b, a)
<1> DEFINE entries == d.comments \cup (d.reviews \ Pending)
           entry == [x \in entries |-> Block(WrittenAt[x], 0, RowsOf[x], 0, FALSE)]
           drawn == [t \in Threads(d) |-> ThreadBlock(d, t)]
<1>1. Blocks(d) = {entry[x] : x \in entries} \cup {drawn[t] : t \in Threads(d)}
  BY DEF Blocks
<1>2. entries \subseteq Comment \cup Review /\ IsFiniteSet(entries)
  <2>1. entries \subseteq Comment \cup Review
    BY DEF Data
  <2>2. IsFiniteSet(Comment \cup Review)
    BY FiniteAssumption, FS_Union
  <2> QED
    BY <2>1, <2>2, FS_Subset
<1>3. IsFiniteSet(Blocks(d))
  <2> HIDE DEF entry, drawn, entries
  <2>1. IsFiniteSet({entry[x] : x \in entries}) /\ IsFiniteSet({drawn[t] : t \in Threads(d)})
    BY <1>2, ImageIsFinite, ThreadsApart
  <2> QED
    BY <1>1, <2>1, FS_Union
<1>4. ASSUME NEW t \in Threads(d) PROVE ThreadRows(d, t) \in Nat /\ ThreadRows(d, t) >= 2
  <2>1. t \subseteq Remark /\ IsFiniteSet(t)
    BY ThreadsApart, FS_Subset
  <2>2. SumFunctionOnSet(RowsOf, t) \in Nat
    BY <2>1, RowsAssumption, SumIsANatural
  <2> QED
    BY <2>2 DEF ThreadRows
<1>5. ASSUME NEW t \in Threads(d)
      PROVE  LET first == Earliest(t)
                 review == CarriedBy[Started(t)]
             IN /\ ThreadBlock(d, t).rows = ThreadRows(d, t)
                /\ ThreadBlock(d, t).button = IsResolved(d, t)
                /\ IF review \in d.reviews
                   THEN /\ ThreadBlock(d, t).at = WrittenAt[review]
                        /\ ThreadBlock(d, t).then = WrittenAt[first]
                   ELSE /\ ThreadBlock(d, t).at = WrittenAt[first]
                        /\ ThreadBlock(d, t).then = 0
  BY DEF ThreadBlock, Block
<1>6. \A r \in Review \cup Remark : WrittenAt[r] \in Nat /\ WrittenAt[r] # 0
  BY RowsAssumption
<1>7. ASSUME NEW t \in Threads(d)
      PROVE  ThreadBlock(d, t).at \in Nat /\ ThreadBlock(d, t).then \in Nat
  <2>1. Earliest(t) \in Remark /\ d.reviews \subseteq Review
    BY TheEarliest DEF Data
  <2> QED
    BY <1>5, <1>6, <2>1
<1>8. \A x \in entries : /\ entry[x].at \in Nat /\ entry[x].then \in Nat /\ entry[x].rows \in Nat
                         /\ entry[x].button = FALSE
  BY <1>2, RowsAssumption DEF Block
<1>9. \A t \in Threads(d) : drawn[t] = ThreadBlock(d, t)
  OBVIOUS
<1>10. ASSUME NEW t \in Threads(d), NEW u \in Threads(d), t # u
       PROVE  Before(ThreadBlock(d, t), ThreadBlock(d, u))
                \/ Before(ThreadBlock(d, u), ThreadBlock(d, t))
  <2>1. WrittenAt[Earliest(t)] # WrittenAt[Earliest(u)]
    BY <1>10, TheEarliest
  <2>2. /\ WrittenAt[Earliest(t)] \in Nat /\ WrittenAt[Earliest(t)] # 0
        /\ WrittenAt[Earliest(u)] \in Nat /\ WrittenAt[Earliest(u)] # 0
    BY <1>6, TheEarliest
  <2> QED
    BY <1>5, <1>7, <2>1, <2>2 DEF Before
<1> HIDE DEF entry, drawn, entries
<1>11. \A b \in Blocks(d) : b.button =>
         \E t \in Threads(d) : IsResolved(d, t) /\ b = ThreadBlock(d, t)
  BY <1>1, <1>5, <1>8, <1>9
<1>12. \A b \in Blocks(d) : b.at \in Nat /\ b.then \in Nat /\ b.rows \in Nat
  BY <1>1, <1>4, <1>5, <1>7, <1>8, <1>9
<1>13. \A b \in Blocks(d) : b.button => b.rows >= 2
  BY <1>4, <1>5, <1>11
<1> QED
  BY <1>3, <1>10, <1>11, <1>12, <1>13

\* A block that comes after one with rows starts below it.
LEMMA StartsBelow ==
  ASSUME NEW blocks, IsFiniteSet(blocks),
         \A b \in blocks : b.at \in Nat /\ b.then \in Nat /\ b.rows \in Nat,
         NEW a \in blocks, NEW b \in blocks
  PROVE  /\ StartOf(b, blocks) \in Nat
         /\ Before(a, b) /\ a.rows > 0 => StartOf(a, blocks) < StartOf(b, blocks)
<1> DEFINE earlier(x) == {y \in blocks : Before(y, x)}
           ats(x) == {y.at : y \in earlier(x) \cup {x}}
           f == RowsOfBlocks(blocks)
           sum(x) == SumFunctionOnSet(f, earlier(x))
<1>1. ASSUME NEW x \in blocks
      PROVE  /\ sum(x) \in Nat /\ IsFiniteSet(ats(x))
             /\ Cardinality(ats(x)) \in Nat /\ Cardinality(ats(x)) >= 1
             /\ StartOf(x, blocks) = sum(x) + 3 * (Cardinality(ats(x)) - 1)
  <2>1. IsFiniteSet(earlier(x)) /\ earlier(x) \subseteq blocks
    BY FS_Subset
  <2>2. \A y \in earlier(x) : f[y] \in Nat
    BY DEF RowsOfBlocks
  <2>3. sum(x) \in Nat
    <3> HIDE DEF f, earlier
    <3> QED
      BY <2>1, <2>2, SumIsANatural
  <2>4. IsFiniteSet(ats(x))
    <3> DEFINE at == [y \in earlier(x) \cup {x} |-> y.at]
    <3>1. ats(x) = {at[y] : y \in earlier(x) \cup {x}}
      OBVIOUS
    <3>2. IsFiniteSet(earlier(x) \cup {x})
      <4> HIDE DEF earlier
      <4> QED
        BY <2>1, FS_AddElement
    <3> HIDE DEF at, earlier, ats
    <3>3. IsFiniteSet({at[y] : y \in earlier(x) \cup {x}})
      BY <3>2, ImageIsFinite
    <3> QED
      BY <3>1, <3>3
  <2>5. ats(x) # {}
    OBVIOUS
  <2>6. StartOf(x, blocks) = sum(x) + 3 * (Cardinality(ats(x)) - 1)
    BY DEF StartOf, SeparatorRows
  <2> HIDE DEF ats, sum
  <2>7. Cardinality(ats(x)) \in Nat /\ Cardinality(ats(x)) # 0
    BY <2>4, <2>5, FS_CardinalityType, FS_EmptySet
  <2> QED
    BY <2>3, <2>4, <2>6, <2>7
<1>2. ASSUME Before(a, b), a.rows > 0
      PROVE  sum(a) < sum(b) /\ Cardinality(ats(a)) <= Cardinality(ats(b))
  <2>1. \A y \in earlier(a) : Before(y, b)
    BY <1>2 DEF Before
  <2>2. earlier(a) \cup {a} \subseteq earlier(b)
    BY <1>2, <2>1
  <2>3. a \notin earlier(a)
    BY DEF Before
  <2>4. ats(a) \subseteq ats(b)
    BY <2>2
  <2>5. Cardinality(ats(a)) <= Cardinality(ats(b))
    BY <1>1, <2>4, FS_Subset
  <2>6. /\ IsFiniteSet(earlier(b)) /\ \A y \in earlier(b) : f[y] \in Nat /\ f[y] \in Int
        /\ f[a] = a.rows /\ a.rows \in Nat
    BY FS_Subset DEF RowsOfBlocks
  <2> DEFINE up == earlier(a) \cup {a}
  <2>7. up \ {a} = earlier(a) /\ a \in up
    BY <2>3
  <2>8. IsFiniteSet(up) /\ \A y \in up : f[y] \in Int
    BY <2>2, <2>6, FS_Subset
  <2>9. SumFunctionOnSet(f, up) <= sum(b)
    <3> HIDE DEF f, up, earlier
    <3> QED
      BY <2>2, <2>6, SumOfAPart DEF up
  <2>10. SumFunctionOnSet(f, up) = f[a] + SumFunctionOnSet(f, up \ {a})
    <3> HIDE DEF f, up, earlier
    <3> QED
      BY <2>7, <2>8, SumWithout
  <2>11. SumFunctionOnSet(f, up) = a.rows + sum(a)
    BY <2>6, <2>7, <2>10
  <2>12. sum(a) \in Nat /\ sum(b) \in Nat
    BY <1>1
  <2> HIDE DEF sum, up, ats
  <2> QED
    BY <1>2, <2>5, <2>6, <2>9, <2>11, <2>12
<1> HIDE DEF sum, ats
<1>3. StartOf(b, blocks) \in Nat
  BY <1>1
<1>4. Before(a, b) /\ a.rows > 0 => StartOf(a, blocks) < StartOf(b, blocks)
  <2> SUFFICES ASSUME Before(a, b), a.rows > 0
               PROVE  StartOf(a, blocks) < StartOf(b, blocks)
    OBVIOUS
  <2>1. sum(a) < sum(b) /\ Cardinality(ats(a)) <= Cardinality(ats(b))
    BY <1>2
  <2> QED
    BY <1>1, <2>1
<1> QED
  BY <1>3, <1>4

\* The buttons that are drawn are those of the resolved threads, in rows of their own.
LEMMA WhatIsDrawn ==
  ASSUME NEW d \in Data
  PROVE  /\ Drawn(d).rows \in Nat /\ Len(Drawn(d).buttons) \in Nat
         /\ \A i \in 1..Len(Drawn(d).buttons) :
              /\ Drawn(d).buttons[i].row \in Nat
              /\ \E t \in Threads(d) : /\ Earliest(t) = Drawn(d).buttons[i].thread
                                       /\ IsResolved(d, t)
<1> DEFINE blocks == Blocks(d)
           folding == {x \in blocks : x.button}
           button == [b \in folding |-> Button(b, blocks)]
           buttons == {button[b] : b \in folding}
           rows == {x.row : x \in buttons}
           n == Cardinality(buttons)
<1>1. /\ IsFiniteSet(blocks)
      /\ \A b \in blocks : b.at \in Nat /\ b.then \in Nat /\ b.rows \in Nat
      /\ \A b \in folding : b.rows >= 2 /\ \E t \in Threads(d) : IsResolved(d, t)
         /\ b = ThreadBlock(d, t)
      /\ \A a, b \in folding : a # b => Before(a, b) \/ Before(b, a)
  BY BlocksApart
<1>2. Drawn(d).buttons = InOrder(buttons)
  <2>1. buttons = {Button(b, blocks) : b \in {x \in blocks : x.button}}
    OBVIOUS
  <2> HIDE DEF buttons
  <2> QED
    BY <2>1 DEF Drawn
<1>3. /\ \A b \in folding : StartOf(b, blocks) \in Nat /\ button[b] = Button(b, blocks)
      /\ \A b \in folding : button[b].row = StartOf(b, blocks) + 1 /\ button[b].thread = b.thread
  <2>1. \A b \in folding : StartOf(b, blocks) \in Nat
    <3> HIDE DEF blocks
    <3> QED
      BY <1>1, StartsBelow
  <2> QED
    BY <2>1 DEF Button
<1>4. ASSUME NEW a \in folding, NEW b \in folding, Before(a, b)
      PROVE  StartOf(a, blocks) < StartOf(b, blocks)
  <2>1. a.rows > 0 /\ a \in blocks /\ b \in blocks
    BY <1>1
  <2> HIDE DEF blocks, folding
  <2> QED
    BY <1>1, <1>4, <2>1, StartsBelow
<1>5. ASSUME NEW b \in folding
      PROVE  \E t \in Threads(d) : Earliest(t) = b.thread /\ IsResolved(d, t)
  <2>1. PICK t \in Threads(d) : IsResolved(d, t) /\ b = ThreadBlock(d, t)
    BY <1>1
  <2>2. b.thread = Earliest(t)
    BY <2>1 DEF ThreadBlock, Block
  <2> QED
    BY <2>1, <2>2
<1>6. IsFiniteSet(folding)
  <2> HIDE DEF blocks
  <2> QED
    BY <1>1, FS_Subset
<1>7. \A a, b \in folding : a # b => button[a].row # button[b].row
  <2> HIDE DEF blocks, folding, button
  <2> QED
    BY <1>1, <1>3, <1>4
<1>8. IsFiniteSet(buttons) /\ n \in Nat
  <2>1. IsFiniteSet(buttons)
    <3> HIDE DEF button, folding
    <3> QED
      BY <1>6, ImageIsFinite
  <2> HIDE DEF buttons
  <2> QED
    BY <2>1, FS_CardinalityType
<1>9. \A x \in buttons : /\ x.row \in Nat
                         /\ \E t \in Threads(d) : Earliest(t) = x.thread /\ IsResolved(d, t)
  <2> HIDE DEF blocks, folding, button
  <2>1. \A x \in buttons : \E b \in folding : x = button[b]
    OBVIOUS
  <2> HIDE DEF buttons
  <2> QED
    BY <1>3, <1>5, <2>1
<1>10. \A x, y \in buttons : x # y => x.row # y.row
  <2> HIDE DEF blocks, folding, button
  <2> QED
    BY <1>7
<1>11. IsFiniteSet(rows) /\ Cardinality(rows) = n /\ rows \subseteq Nat
  <2> DEFINE row == [x \in buttons |-> x.row]
  <2>1. row \in [buttons -> rows] /\ \A x \in buttons : row[x] = x.row
    OBVIOUS
  <2>2. \A y \in rows : \E x \in buttons : row[x] = y
    OBVIOUS
  <2>3. rows \subseteq Nat
    BY <1>9
  <2>4. \A x, y \in buttons : x # y => row[x] # row[y]
    BY <1>10
  <2> HIDE DEF row, rows, buttons
  <2>5. IsFiniteSet(rows) /\ Cardinality(rows) = Cardinality(buttons)
    BY <1>8, <2>1, <2>2, <2>4, SameCount
  <2> QED
    BY <2>3, <2>5
<1>12. \A i \in 1..n : \E x \in buttons : Rank(x.row, rows) = i
  <2>1. \A i \in 1..n : \E r \in rows : Rank(r, rows) = i
    <3> HIDE DEF rows, n
    <3> QED
      BY <1>11, Ranks
  <2> HIDE DEF n, buttons
  <2> QED
    BY <2>1
<1>13. /\ Len(InOrder(buttons)) = n
       /\ \A i \in 1..n : InOrder(buttons)[i] \in buttons
  <2>1. InOrder(buttons) = [i \in 1..n |-> CHOOSE b \in buttons : Rank(b.row, rows) = i]
    BY DEF InOrder
  <2> HIDE DEF n, rows, buttons
  <2>2. \A i \in 1..n : InOrder(buttons)[i] \in buttons
    BY <1>12, <2>1
  <2>3. InOrder(buttons) \in [1..n -> buttons]
    BY <2>1, <2>2
  <2>4. Len(InOrder(buttons)) = n
    BY <1>8, <2>3, SeqDef, LenProperties
  <2> QED
    BY <2>2, <2>4
<1>14. Drawn(d).rows \in Nat
  <2> DEFINE ats == {b.at : b \in blocks}
             sum == SumFunctionOnSet(RowsOfBlocks(blocks), blocks)
             rules == Larger(Cardinality(ats) - 1, 0)
  <2>1. sum \in Nat
    <3>1. \A b \in blocks : RowsOfBlocks(blocks)[b] \in Nat
      BY <1>1 DEF RowsOfBlocks
    <3> HIDE DEF blocks
    <3> QED
      BY <1>1, <3>1, SumIsANatural
  <2>2. Cardinality(ats) \in Nat
    <3> DEFINE at == [b \in blocks |-> b.at]
    <3>1. ats = {at[b] : b \in blocks}
      OBVIOUS
    <3> HIDE DEF at, blocks, ats
    <3>2. IsFiniteSet({at[b] : b \in blocks})
      BY <1>1, ImageIsFinite
    <3> QED
      BY <3>1, <3>2, FS_CardinalityType
  <2>3. rules \in Nat
    <3> HIDE DEF ats
    <3> QED
      BY <2>2 DEF Larger
  <2>4. Drawn(d).rows = sum + 3 * rules + (IF d.partial THEN 2 ELSE 0)
    BY DEF Drawn, SeparatorRows, NoteRows
  <2> HIDE DEF sum, rules
  <2> QED
    BY <2>1, <2>3, <2>4
<1> HIDE DEF buttons, n
<1> QED
  BY <1>2, <1>8, <1>9, <1>13, <1>14

\* The note about a page that was cut is below everything else: the buttons do not
\* depend on it.
LEMMA TheNoteIsBelow ==
  ASSUME NEW d \in Data, NEW partial \in BOOLEAN
  PROVE  LET e == [d EXCEPT !.partial = partial]
         IN /\ e \in Data /\ Drawn(e).buttons = Drawn(d).buttons /\ Threads(e) = Threads(d)
            /\ \A t : IsResolved(e, t) = IsResolved(d, t)
<1> DEFINE e == [d EXCEPT !.partial = partial]
<1>1. /\ e \in Data /\ e.comments = d.comments /\ e.reviews = d.reviews
      /\ e.remarks = d.remarks /\ e.resolved = d.resolved /\ e.expanded = d.expanded
  BY DEF Data
<1> HIDE DEF e
<1>2. Submitted(e) = Submitted(d)
  BY <1>1 DEF Submitted
<1>3. Threads(e) = Threads(d)
  BY <1>2 DEF Threads
<1>4. \A t : IsResolved(e, t) = IsResolved(d, t) /\ IsFolded(e, t) = IsFolded(d, t)
  BY <1>1 DEF IsResolved, IsFolded
<1>5. \A t : ThreadBlock(e, t) = ThreadBlock(d, t)
  BY <1>1, <1>4 DEF ThreadBlock, ThreadRows
<1>6. Blocks(e) = Blocks(d)
  BY <1>1, <1>3, <1>5 DEF Blocks
<1>7. Drawn(e).buttons = Drawn(d).buttons
  BY <1>6 DEF Drawn
<1> QED
  BY <1>1, <1>3, <1>4, <1>7 DEF e

\* The buttons on screen are those of the discussion as it is known, also while the
\* lines are stale.
ConversationInv ==
  /\ ConversationTypeOK
  /\ rendered.buttons = Drawn(data).buttons
  /\ ~stale => rendered = Drawn(data)

LEMMA ConversationInitInv == ConversationInit => ConversationInv
<1> SUFFICES ASSUME ConversationInit PROVE ConversationInv
  OBVIOUS
<1>1. data \in Data
  BY DEF ConversationInit, Data
<1>2. Blocks(data) = {}
  <2>1. Submitted(data) = {}
    BY DEF ConversationInit, Submitted
  <2>2. Threads(data) = {}
    BY <2>1 DEF Threads
  <2> QED
    BY <2>2 DEF ConversationInit, Blocks
<1>3. Cardinality({}) = 0 /\ \A f : SumFunctionOnSet(f, {}) = 0
  BY FS_EmptySet, SumOfNone
<1>4. InOrder({}) = <<>>
  BY <1>3 DEF InOrder
<1>5. Drawn(data).buttons = <<>>
  BY <1>2, <1>4 DEF Drawn
<1>6. Drawn(data).rows = 0
  <2>1. {b.at : b \in Blocks(data)} = {} /\ data.partial = FALSE
    BY <1>2 DEF ConversationInit
  <2>2. Larger(Cardinality({}) - 1, 0) = 0
    BY <1>3 DEF Larger
  <2> QED
    BY <1>2, <1>3, <2>1, <2>2 DEF Drawn, SeparatorRows
<1>7. Drawn(data) = [rows |-> Drawn(data).rows, buttons |-> Drawn(data).buttons]
  BY DEF Drawn
<1>8. rendered = Drawn(data) /\ stale = FALSE /\ focus = 0 /\ scroll = 0
  BY <1>5, <1>6, <1>7 DEF ConversationInit
<1>9. rendered.rows \in Nat /\ Len(rendered.buttons) \in Nat
  BY <1>1, <1>8, WhatIsDrawn
<1>10. ConversationTypeOK
  <2>1. 0 \in 0..Len(rendered.buttons)
    BY <1>9
  <2>2. stale \in BOOLEAN /\ scroll \in Nat /\ focus \in 0..Len(rendered.buttons)
    BY <1>8, <2>1
  <2> QED
    BY <1>1, <1>9, <2>2 DEF ConversationTypeOK
<1> QED
  BY <1>8, <1>10 DEF ConversationInv

\* The cursor and the view stay where there is something.
LEMMA FocusAndView ==
  ASSUME NEW n \in Nat, NEW k \in Int, NEW oldTop \in Int, NEW rows \in Nat
  PROVE  /\ ClampFocus(k, n) \in 0..n
         /\ ClampOffset(oldTop, rows) \in Nat
  BY DEF ClampFocus, ClampOffset, Larger, Smaller

LEMMA Revealing ==
  ASSUME NEW d \in Data, NEW button \in 0..Len(Drawn(d).buttons), NEW oldTop \in Nat,
         NEW page, page = Drawn(d)
  PROVE  Revealed(button, oldTop, page) \in Nat
<1>1. page.rows \in Nat /\ \A i \in 1..Len(page.buttons) : page.buttons[i].row \in Nat
  BY WhatIsDrawn
<1>2. CASE button = 0
  BY <1>2 DEF Revealed
<1>3. CASE button # 0
  <2>1. page.buttons[button].row \in Nat
    BY <1>1, <1>3
  <2> DEFINE row == page.buttons[button].row
             at == CASE row < oldTop -> row
                     [] row >= oldTop + Pane -> row - Pane + 1
                     [] OTHER -> oldTop
  <2>2. at \in Int
    BY <2>1, RowsAssumption
  <2>3. Revealed(button, oldTop, page) = ClampOffset(at, page.rows)
    BY <1>3 DEF Revealed
  <2> HIDE DEF at
  <2> QED
    BY <1>1, <2>2, <2>3, FocusAndView
<1> QED
  BY <1>2, <1>3

\* Whatever is rendered is rendered from what is known.
LEMMA Drawing ==
  ASSUME ConversationInv, NEW changed \in BOOLEAN, Draws(changed), data' \in Data,
         changed \/ data' = data
  PROVE  /\ stale' = FALSE /\ rendered' = Drawn(data')
         /\ rendered'.rows \in Nat /\ Len(rendered'.buttons) \in Nat
<1>1. stale' = FALSE /\ rendered' = Drawn(data')
  BY DEF Draws, ConversationInv
<1> QED
  BY <1>1, WhatIsDrawn

LEMMA ClampsInv ==
  ASSUME ConversationInv, NEW changed \in BOOLEAN, NEW k \in Int, NEW oldTop \in Int,
         Clamps(changed, k, oldTop), data' \in Data, changed \/ data' = data
  PROVE  ConversationInv'
<1>1. /\ stale' = FALSE /\ rendered' = Drawn(data')
      /\ rendered'.rows \in Nat /\ Len(rendered'.buttons) \in Nat
  BY Drawing DEF Clamps
<1>2. focus' \in 0..Len(rendered'.buttons) /\ scroll' \in Nat
  BY <1>1, FocusAndView DEF Clamps
<1> QED
  BY <1>1, <1>2 DEF ConversationInv, ConversationTypeOK

LEMMA RevealsInv ==
  ASSUME ConversationInv, NEW changed \in BOOLEAN, NEW k \in Int, NEW oldTop \in Int,
         Reveals(changed, k, oldTop), data' \in Data, changed \/ data' = data
  PROVE  ConversationInv'
<1>1. /\ stale' = FALSE /\ rendered' = Drawn(data')
      /\ rendered'.rows \in Nat /\ Len(rendered'.buttons) \in Nat
  BY Drawing DEF Reveals
<1>2. focus' \in 0..Len(rendered'.buttons) /\ ClampOffset(oldTop, rendered'.rows) \in Nat
  BY <1>1, FocusAndView DEF Reveals
<1>3. scroll' \in Nat
  BY <1>1, <1>2, Revealing DEF Reveals
<1> QED
  BY <1>1, <1>2, <1>3 DEF ConversationInv, ConversationTypeOK

LEMMA ConversationNextInv ==
  ConversationInv /\ [ConversationNext]_conversationVars => ConversationInv'
<1> SUFFICES ASSUME ConversationInv, [ConversationNext]_conversationVars
             PROVE  ConversationInv'
  OBVIOUS
<1>0. /\ data \in Data /\ focus \in Int /\ scroll \in Int /\ Len(rendered.buttons) \in Nat
      /\ DiffStep \in Int
  <2>1. Len(rendered.buttons) \in Nat
    BY WhatIsDrawn DEF ConversationInv, ConversationTypeOK
  <2> QED
    BY <2>1, RowsAssumption DEF ConversationInv, ConversationTypeOK
<1>1. ASSUME NEW more \in BOOLEAN, NEW page \in SUBSET Comment, CommentsArrive(page, more)
      PROVE  ConversationInv'
  <2>1. data' \in Data
    BY <1>0, <1>1 DEF CommentsArrive, Data
  <2> QED
    BY <1>0, <1>1, <2>1, ClampsInv DEF CommentsArrive
<1>2. ASSUME NEW more \in BOOLEAN, NEW page \in SUBSET Review, ReviewsArrive(page, more)
      PROVE  ConversationInv'
  <2>1. data' \in Data
    BY <1>0, <1>2 DEF ReviewsArrive, Data
  <2> QED
    BY <1>0, <1>2, <2>1, ClampsInv DEF ReviewsArrive
<1>3. ASSUME NEW more \in BOOLEAN, NEW page \in Pages, RemarksArrive(page, more)
      PROVE  ConversationInv'
  <2>1. data' \in Data
    BY <1>0, <1>3, RemarkAssumption DEF RemarksArrive, Data
  <2> QED
    BY <1>0, <1>3, <2>1, ClampsInv DEF RemarksArrive
<1>4. ASSUME NEW ids \in Reported, ThreadsArrive(ids) PROVE ConversationInv'
  <2>1. data' \in Data
    BY <1>0, <1>4, RemarkAssumption DEF ThreadsArrive, Data
  <2> QED
    BY <1>0, <1>4, <2>1, ClampsInv DEF ThreadsArrive
<1>5. CASE RefreshConversation
  <2>1. data' \in Data /\ Drawn(data').buttons = Drawn(data).buttons
    BY <1>0, <1>5, TheNoteIsBelow DEF RefreshConversation
  <2> QED
    BY <1>5, <2>1 DEF RefreshConversation, ConversationInv, ConversationTypeOK
<1>6. CASE Draw
  <2>1. /\ stale' = FALSE /\ rendered' = Drawn(data')
        /\ rendered'.rows \in Nat /\ UNCHANGED <<data, focus, scroll>>
    BY <1>0, <1>6, Drawing DEF Draw
  <2> QED
    BY <2>1 DEF ConversationInv, ConversationTypeOK
<1>7. CASE ToggleThread
  <2> DEFINE thread == rendered.buttons[focus].thread
  <2>1. thread \in Remark
    <3>1. focus \in 1..Len(Drawn(data).buttons)
      BY <1>7 DEF ToggleThread, ConversationInv
    <3>2. PICK t \in Threads(data) : Earliest(t) = Drawn(data).buttons[focus].thread
      BY <1>0, <3>1, WhatIsDrawn
    <3> QED
      BY <1>0, <3>2, TheEarliest DEF ConversationInv
  <2>2. data' = [data EXCEPT !.expanded =
                   IF thread \in @ THEN @ \ {thread} ELSE @ \cup {thread}]
    BY <1>7 DEF ToggleThread
  <2> HIDE DEF thread
  <2>3. data' \in Data
    BY <1>0, <2>1, <2>2 DEF Data
  <2>4. Reveals(TRUE, focus, scroll)
    BY <1>7 DEF ToggleThread
  <2> QED
    BY <1>0, <2>3, <2>4, RevealsInv
<1>8. ASSUME NEW delta \in {-1, 1}, Arrow(delta) PROVE ConversationInv'
  <2> DEFINE at == ClampFocus(focus, Len(rendered.buttons))
  <2>1. at \in Int /\ at + delta \in Int /\ scroll + delta \in Int
    <3>1. at \in 0..Len(rendered.buttons)
      BY <1>0, FocusAndView
    <3> HIDE DEF at
    <3> QED
      BY <1>0, <3>1
  <2>2. /\ data' = data
        /\ Reveals(FALSE, at, scroll + delta) \/ Reveals(FALSE, at + delta, scroll)
    BY <1>8 DEF Arrow
  <2> HIDE DEF at
  <2> QED
    BY <1>0, <2>1, <2>2, RevealsInv
<1>9. ASSUME NEW delta \in {-1, 1}, ScrollConversation(delta) PROVE ConversationInv'
  <2>1. scroll + delta * DiffStep \in Int
    BY <1>0
  <2> QED
    BY <1>0, <1>9, <2>1, ClampsInv DEF ScrollConversation
<1>10. CASE UNCHANGED conversationVars
  BY <1>10 DEF conversationVars, ConversationInv, ConversationTypeOK
<1> QED
  BY <1>1, <1>2, <1>3, <1>4, <1>5, <1>6, <1>7, <1>8, <1>9, <1>10 DEF ConversationNext

\* Every variable keeps its type, and the focus stays on a button.
THEOREM ConversationTypes == ConversationSpec => []ConversationTypeOK
<1>1. ConversationInv => ConversationTypeOK
  BY DEF ConversationInv
<1> QED
  BY ConversationInitInv, ConversationNextInv, <1>1, PTL DEF ConversationSpec

\* What is on screen is the discussion as it is known, and the button a key acts on is
\* of a resolved thread of it, whichever page came last and whatever was folded since
\* (conversation.go, prpanes.go: the rendered lines are a cache).
THEOREM ButtonsAreThere == ConversationSpec => []ButtonsAreWhereTheyAreDrawn
<1>1. ConversationInv => ButtonsAreWhereTheyAreDrawn
  <2> SUFFICES ASSUME ConversationInv PROVE ButtonsAreWhereTheyAreDrawn
    OBVIOUS
  <2>1. ASSUME focus # 0
        PROVE  \E t \in Threads(data) :
                 Earliest(t) = rendered.buttons[focus].thread /\ IsResolved(data, t)
    <3>1. data \in Data /\ focus \in 1..Len(Drawn(data).buttons)
      <4>1. Len(Drawn(data).buttons) \in Nat
        BY WhatIsDrawn DEF ConversationInv, ConversationTypeOK
      <4> QED
        BY <2>1, <4>1 DEF ConversationInv, ConversationTypeOK
    <3>2. rendered.buttons = Drawn(data).buttons
      BY DEF ConversationInv
    <3> QED
      BY <3>1, <3>2, WhatIsDrawn
  <2> QED
    BY <2>1 DEF ButtonsAreWhereTheyAreDrawn, ConversationInv
<1> QED
  BY ConversationInitInv, ConversationNextInv, <1>1, PTL DEF ConversationSpec

\* What is answered was written before the answer.
AnswersComeLater ==
  \A r \in Remark : AnswerTo[r] \in Remark => WrittenAt[AnswerTo[r]] < WrittenAt[r]

\* The walk of threadRoot, step by step.
LEMMA TheWalk ==
  ASSUME NEW page, IsFiniteSet(page), NEW r
  PROVE  /\ Cardinality(page) \in Nat
         /\ Walked(r, page)[0] = r
         /\ \A k \in 1..Cardinality(page) :
              Walked(r, page)[k] = Above(Walked(r, page)[k - 1], page)
<1> DEFINE up(w, m) == [k \in 0..m |-> IF k = 0 THEN r ELSE Above(w[k - 1], page)]
           P == {m \in Nat : \E w : w = up(w, m)}
           n == Cardinality(page)
<1>1. n \in Nat
  BY FS_CardinalityType
<1>2. 0 \in P
  <2> DEFINE w == [k \in 0..0 |-> r]
  <2>1. w = up(w, 0)
    OBVIOUS
  <2> QED
    BY <2>1
<1>3. ASSUME NEW m \in Nat, m \in P PROVE m + 1 \in P
  <2>1. PICK w : w = up(w, m)
    BY <1>3
  <2> DEFINE h == up(w, m + 1)
  <2>2. \A k \in 0..m : h[k] = w[k]
    <3>1. \A k \in 0..m : w[k] = IF k = 0 THEN r ELSE Above(w[k - 1], page)
      BY <2>1
    <3> QED
      BY <3>1
  <2>3. \A k \in 0..m + 1 : k # 0 => k - 1 \in 0..m
    OBVIOUS
  <2>4. \A k \in 0..m + 1 : h[k] = IF k = 0 THEN r ELSE Above(h[k - 1], page)
    BY <2>2, <2>3
  <2>5. h = up(h, m + 1)
    BY <2>4
  <2> HIDE DEF h
  <2> QED
    BY <2>5
<1>4. Nat \subseteq P
  <2> HIDE DEF P
  <2> QED
    BY <1>2, <1>3, EveryNumber
<1>5. \E w : w = up(w, n)
  BY <1>1, <1>4
<1>6. Walked(r, page) = CHOOSE w : w = up(w, n)
  BY DEF Walked
<1>7. Walked(r, page) = up(Walked(r, page), n)
  BY <1>5, <1>6
<1> DEFINE w == Walked(r, page)
<1> HIDE DEF w, n
<1>8. \A k \in 0..n : w[k] = IF k = 0 THEN r ELSE Above(w[k - 1], page)
  BY <1>7 DEF w
<1>9. w[0] = r
  BY <1>1, <1>8
<1>10. \A k \in 1..n : w[k] = Above(w[k - 1], page)
  BY <1>1, <1>8
<1> QED
  BY <1>1, <1>9, <1>10 DEF w, n

\* It stays on the page, and comes to rest before it has to stop.
LEMMA TheWalkEnds ==
  ASSUME AnswersComeLater, NEW page \in SUBSET Remark, IsFiniteSet(page), NEW r \in page
  PROVE  LET n == Cardinality(page)
         IN /\ n \in Nat \ {0}
            /\ \A k \in 0..n : Walked(r, page)[k] \in page
            /\ Walked(r, page)[n] = Walked(r, page)[n - 1]
<1> DEFINE n == Cardinality(page)
           w == Walked(r, page)
           times == {WrittenAt[x] : x \in page}
           place(x) == Rank(WrittenAt[x], times)
<1>1. n \in Nat \ {0}
  BY FS_CardinalityType, FS_EmptySet
<1>2. w[0] = r /\ \A k \in 1..n : w[k] = Above(w[k - 1], page)
  BY TheWalk
<1>3. \A x \in page : Above(x, page) \in page
  BY DEF Above
<1>4. IsFiniteSet(times) /\ Cardinality(times) \in Nat /\ Cardinality(times) <= n
  <2>1. IsFiniteSet(times) /\ Cardinality(times) <= n
    BY ImageIsFinite
  <2> HIDE DEF times
  <2> QED
    BY <2>1, FS_CardinalityType
<1>5. times \subseteq Nat
  BY RowsAssumption
<1>6. \A x \in page : place(x) \in Nat /\ place(x) >= 1 /\ place(x) <= n
  <2>1. \A t \in times : Rank(t, times) \in 1..Cardinality(times)
    <3> HIDE DEF times
    <3> QED
      BY <1>4, <1>5, Ranks
  <2>2. \A x \in page : place(x) \in 1..Cardinality(times)
    BY <2>1
  <2> HIDE DEF place, times, n
  <2> QED
    BY <1>1, <1>4, <2>2
<1>7. \A x \in page : Above(x, page) # x => place(Above(x, page)) < place(x)
  <2>1. \A t, u \in times : t < u => Rank(t, times) < Rank(u, times)
    <3> HIDE DEF times
    <3> QED
      BY <1>4, <1>5, Ranks
  <2>2. \A x \in page : Above(x, page) # x => WrittenAt[Above(x, page)] < WrittenAt[x]
    BY DEF Above, AnswersComeLater
  <2> QED
    BY <1>3, <2>1, <2>2
<1> HIDE DEF n, w, times, place
<1> DEFINE P == {k \in Nat : k <= n => w[k] \in page}
           Q == {k \in Nat : k < n => Above(w[k], page) = w[k] \/ place(w[k]) <= n - k}
<1>8. Nat \subseteq P
  <2>1. 0 \in P
    BY <1>2
  <2>2. ASSUME NEW k \in Nat, k \in P PROVE k + 1 \in P
    <3> SUFFICES ASSUME k + 1 <= n PROVE w[k + 1] \in page
      OBVIOUS
    <3>1. w[k + 1] = Above(w[k], page)
      <4>1. k + 1 \in 1..n /\ (k + 1) - 1 = k
        BY <1>1
      <4> QED
        BY <1>2, <4>1
    <3>2. w[k] \in page
      BY <1>1, <2>2
    <3> QED
      BY <1>3, <3>1, <3>2
  <2> HIDE DEF P
  <2> QED
    BY <2>1, <2>2, EveryNumber
<1>9. \A k \in 0..n : w[k] \in page
  BY <1>1, <1>8
<1>10. Nat \subseteq Q
  <2>1. 0 \in Q
    BY <1>1, <1>2, <1>6
  <2>2. ASSUME NEW k \in Nat, k \in Q PROVE k + 1 \in Q
    <3> SUFFICES ASSUME k + 1 < n
                 PROVE  Above(w[k + 1], page) = w[k + 1] \/ place(w[k + 1]) <= n - (k + 1)
      OBVIOUS
    <3>1. w[k + 1] = Above(w[k], page)
      <4>1. k + 1 \in 1..n /\ (k + 1) - 1 = k
        BY <1>1
      <4> QED
        BY <1>2, <4>1
    <3>2. w[k] \in page /\ w[k + 1] \in page
      BY <1>1, <1>9
    <3>3. Above(w[k], page) = w[k] \/ place(w[k]) <= n - k
      BY <1>1, <2>2
    <3>4. CASE Above(w[k], page) = w[k]
      BY <3>1, <3>4
    <3>5. CASE Above(w[k], page) # w[k]
      <4>1. place(w[k + 1]) < place(w[k]) /\ place(w[k]) <= n - k
        BY <1>7, <3>1, <3>2, <3>3, <3>5
      <4>2. place(w[k + 1]) \in Nat /\ place(w[k]) \in Nat
        BY <1>6, <3>2
      <4> QED
        BY <1>1, <4>1, <4>2
    <3> QED
      BY <3>4, <3>5
  <2> HIDE DEF Q
  <2> QED
    BY <2>1, <2>2, EveryNumber
<1>11. w[n] = w[n - 1]
  <2>1. n - 1 \in Nat /\ n - 1 \in 0..n /\ n \in 1..n /\ n - (n - 1) = 1 /\ n - 1 < n
    BY <1>1
  <2>2. w[n] = Above(w[n - 1], page) /\ w[n - 1] \in page
    BY <1>2, <1>9, <2>1
  <2>3. Above(w[n - 1], page) = w[n - 1] \/ place(w[n - 1]) <= 1
    BY <1>10, <2>1
  <2>4. CASE Above(w[n - 1], page) # w[n - 1]
    <3>1. place(Above(w[n - 1], page)) < place(w[n - 1]) /\ place(w[n - 1]) <= 1
      BY <1>7, <2>2, <2>3, <2>4
    <3>2. place(Above(w[n - 1], page)) \in Nat /\ place(Above(w[n - 1], page)) >= 1
      BY <1>3, <1>6, <2>2
    <3>3. place(w[n - 1]) \in Nat
      BY <1>6, <2>2
    <3> QED
      BY <3>1, <3>2, <3>3
  <2> QED
    BY <2>2, <2>4
<1> QED
  BY <1>1, <1>9, <1>11 DEF n, w

\* An answer and what it answers come to rest at the same place.
LEMMA SameRoot ==
  ASSUME AnswersComeLater, NEW page \in SUBSET Remark, IsFiniteSet(page),
         NEW r \in page, NEW s \in page, Above(s, page) = r
  PROVE  RootOf(r, page) = RootOf(s, page)
<1> DEFINE n == Cardinality(page)
           v == Walked(r, page)
           w == Walked(s, page)
<1>1. n \in Nat \ {0} /\ v[n] = v[n - 1]
  BY TheWalkEnds
<1>2. /\ w[0] = s /\ \A k \in 1..n : w[k] = Above(w[k - 1], page)
      /\ v[0] = r /\ \A k \in 1..n : v[k] = Above(v[k - 1], page)
  BY TheWalk
<1> HIDE DEF n, v, w
<1> DEFINE P == {k \in Nat : k + 1 <= n => w[k + 1] = v[k]}
<1>3. 0 \in P
  <2>1. 1 \in 1..n /\ 1 - 1 = 0 /\ 0 + 1 = 1
    BY <1>1
  <2>2. w[1] = v[0]
    BY <1>2, <2>1
  <2> QED
    BY <2>1, <2>2
<1>4. ASSUME NEW k \in Nat, k \in P PROVE k + 1 \in P
  <2> DEFINE m == k + 1
  <2>1. m \in Nat /\ m - 1 = k /\ (m + 1) - 1 = m
    OBVIOUS
  <2> SUFFICES ASSUME m + 1 <= n PROVE w[m + 1] = v[m]
    BY <2>1
  <2>2. m \in 1..n /\ m + 1 \in 1..n
    BY <1>1, <2>1
  <2>3. w[m] = v[k]
    BY <1>1, <1>4
  <2> HIDE DEF m
  <2>4. w[m + 1] = Above(w[m], page) /\ v[m] = Above(v[k], page)
    BY <1>2, <2>1, <2>2
  <2> QED
    BY <2>3, <2>4
<1>5. Nat \subseteq P
  <2> HIDE DEF P
  <2> QED
    BY <1>3, <1>4, EveryNumber
<1>6. w[n] = v[n - 1]
  <2>1. n - 1 \in Nat /\ (n - 1) + 1 = n /\ n <= n
    BY <1>1
  <2> QED
    BY <1>5, <2>1
<1>7. w[n] = v[n]
  BY <1>1, <1>6
<1> QED
  BY <1>7 DEF RootOf, n, v, w

\* What answers something that is not on the page is under what it answers.
LEMMA RootOfAnOrphan ==
  ASSUME NEW page \in SUBSET Remark, IsFiniteSet(page), NEW s \in page,
         AnswerTo[s] \notin page, AnswerTo[s] # 0
  PROVE  RootOf(s, page) = AnswerTo[s]
<1> DEFINE n == Cardinality(page)
           w == Walked(s, page)
<1>1. n \in Nat /\ w[0] = s /\ \A k \in 1..n : w[k] = Above(w[k - 1], page)
  BY TheWalk
<1>2. Above(s, page) = s
  BY DEF Above
<1> HIDE DEF n, w
<1> DEFINE P == {k \in Nat : k <= n => w[k] = s}
<1>3. 0 \in P
  BY <1>1
<1>4. ASSUME NEW k \in Nat, k \in P PROVE k + 1 \in P
  <2> SUFFICES ASSUME k + 1 <= n PROVE w[k + 1] = s
    OBVIOUS
  <2>1. k + 1 \in 1..n /\ (k + 1) - 1 = k
    BY <1>1
  <2>2. w[k + 1] = Above(w[k], page)
    BY <1>1, <2>1
  <2> QED
    BY <1>1, <1>2, <1>4, <2>2
<1>5. Nat \subseteq P
  <2> HIDE DEF P
  <2> QED
    BY <1>3, <1>4, EveryNumber
<1>6. w[n] = s
  BY <1>1, <1>5
<1> QED
  BY <1>6 DEF RootOf, n, w

\* Remarks that answer one another, or the same remark, are in one thread, however long
\* the chain and whatever is missing from the page, as long as what is answered was
\* written before its answers ("an exchange stays together even when what it started
\* from is missing", conversation.go:256-258).
THEOREM ExchangesStayTogether ==
  AnswersComeLater => (ConversationSpec => []AnswersStayTogether)
<1> SUFFICES ASSUME AnswersComeLater PROVE ConversationSpec => []AnswersStayTogether
  OBVIOUS
<1>1. ConversationTypeOK => AnswersStayTogether
  <2> SUFFICES ASSUME ConversationTypeOK,
                      NEW r \in Submitted(data), NEW s \in Submitted(data),
                      AnswerTo[s] = r \/ (AnswerTo[r] = AnswerTo[s] /\ AnswerTo[r] # 0)
               PROVE  \E thread \in Threads(data) : r \in thread /\ s \in thread
    BY DEF AnswersStayTogether
  <2> DEFINE page == Submitted(data)
  <2>1. data \in Data
    BY DEF ConversationTypeOK
  <2>2. page \in SUBSET Remark /\ IsFiniteSet(page)
    BY <2>1, ThreadsApart
  <2> HIDE DEF page
  <2>3. r \in page /\ s \in page
    BY DEF page
  <2>4. CASE AnswerTo[s] = r
    <3>1. Above(s, page) = r
      BY <2>3, <2>4 DEF Above
    <3> QED
      BY <2>1, <2>2, <2>3, <3>1, SameRoot, ThreadsApart DEF page
  <2>5. CASE AnswerTo[r] = AnswerTo[s] /\ AnswerTo[r] # 0 /\ AnswerTo[r] \in page
    <3> DEFINE a == AnswerTo[r]
    <3>1. a \in page /\ Above(s, page) = a /\ Above(r, page) = a
      BY <2>5 DEF Above
    <3> HIDE DEF a
    <3>2. RootOf(a, page) = RootOf(r, page) /\ RootOf(a, page) = RootOf(s, page)
      BY <2>2, <2>3, <3>1, SameRoot
    <3>3. RootOf(r, page) = RootOf(s, page)
      BY <3>2
    <3> QED
      BY <2>1, <2>3, <3>3, ThreadsApart DEF page
  <2>6. CASE AnswerTo[r] = AnswerTo[s] /\ AnswerTo[r] # 0 /\ AnswerTo[r] \notin page
    <3>1. RootOf(r, page) = AnswerTo[r] /\ RootOf(s, page) = AnswerTo[s]
      BY <2>2, <2>3, <2>6, RootOfAnOrphan
    <3> QED
      BY <2>1, <2>3, <2>6, <3>1, ThreadsApart DEF page
  <2> QED
    BY <2>4, <2>5, <2>6
<1> QED
  BY ConversationTypes, <1>1, PTL

----------------------------------------------------------------------------
(* The stack: whatever order keys and messages come in, a session lives    *)
(* exactly as long as its route.                                           *)
(*                                                                         *)
(* The stack changes in three ways only - a push, a pop and a return to    *)
(* the root - so the argument goes by the shape of the change: three       *)
(* lemmas say what each does to the set of routes on the stack, three say  *)
(* that each preserves the invariant, and each action is one of the three. *)

\* What TLC checks piece by piece is inductive as a whole: a session is stopped
\* with the route that leaves because the route is not also somewhere else.
RoutesInv ==
  /\ RoutesTypeOK
  /\ MainStays
  /\ SessionsHaveARoute
  /\ RoutesKeepTheirSession
  /\ OnStackOnce

----------------------------------------------------------------------------
(* The shape of each change. *)

\* A push adds one route, above the others.
LEMMA PushShape ==
  ASSUME RoutesTypeOK, NEW r \in Plain \cup Id, routes' = Append(routes, r)
  PROVE  /\ routes' \in Seq(Plain \cup Id)
         /\ Len(routes') = Len(routes) + 1
         /\ routes'[Len(routes')] = r
         /\ \A i \in 1..Len(routes) : routes'[i] = routes[i]
         /\ OnStack' = OnStack \cup {r}
<1>1. routes \in Seq(Plain \cup Id) /\ Len(routes) \in Nat
  BY DEF RoutesTypeOK
<1>2. /\ routes' \in Seq(Plain \cup Id)
      /\ Len(routes') = Len(routes) + 1
      /\ routes'[Len(routes')] = r
      /\ \A i \in 1..Len(routes) : routes'[i] = routes[i]
  BY <1>1
<1>3. OnStack' = OnStack \cup {r}
  BY <1>1, <1>2 DEF OnStack
<1> QED
  BY <1>2, <1>3

\* A pop takes the route on screen away, and no other.
LEMMA PopShape ==
  ASSUME RoutesTypeOK, Len(routes) > 1, routes' = SubSeq(routes, 1, Len(routes) - 1)
  PROVE  /\ routes' \in Seq(Plain \cup Id)
         /\ Len(routes') = Len(routes) - 1
         /\ \A i \in 1..Len(routes') : routes'[i] = routes[i]
         /\ OnStack = OnStack' \cup {Top}
<1>1. routes \in Seq(Plain \cup Id) /\ Len(routes) \in Nat
  BY DEF RoutesTypeOK
<1>2. \A i \in 1..Len(routes) - 1 : routes[i] \in Plain \cup Id
  BY <1>1
<1>3. /\ routes' \in Seq(Plain \cup Id)
      /\ Len(routes') = Len(routes) - 1
      /\ \A i \in 1..Len(routes') : routes'[i] = routes[i]
  BY <1>1, <1>2
<1>4. OnStack = OnStack' \cup {Top}
  BY <1>1, <1>3 DEF OnStack, Top
<1> QED
  BY <1>3, <1>4

\* A return to the root leaves one route.
LEMMA RootShape ==
  ASSUME RoutesTypeOK, routes' = <<routes[1]>>
  PROVE  /\ routes' \in Seq(Plain \cup Id)
         /\ Len(routes') = 1
         /\ routes'[1] = routes[1]
         /\ OnStack = OnStack' \cup AboveRoot
<1>1. routes \in Seq(Plain \cup Id) /\ Len(routes) \in Nat /\ Len(routes) >= 1
  BY DEF RoutesTypeOK
<1>2. routes[1] \in Plain \cup Id
  BY <1>1
<1>3. routes' \in Seq(Plain \cup Id) /\ Len(routes') = 1 /\ routes'[1] = routes[1]
  BY <1>2
<1>4. OnStack = OnStack' \cup AboveRoot
  BY <1>1, <1>3 DEF OnStack, AboveRoot
<1> QED
  BY <1>3, <1>4

----------------------------------------------------------------------------
(* Each shape preserves the invariant. *)

\* Help and the switcher have no session: pushing one concerns no other route.
LEMMA PlainPush ==
  ASSUME RoutesInv, NEW r \in {"help", "switcher"}, PushRoute(r),
         UNCHANGED <<session, pushes, pops, choices>>
  PROVE  RoutesInv'
<1>1. r \in Plain /\ r \notin Id /\ r # "main"
  BY IdAssumption DEF Plain
<1>2. /\ routes' \in Seq(Plain \cup Id)
      /\ Len(routes') = Len(routes) + 1
      /\ routes'[Len(routes')] = r
      /\ \A i \in 1..Len(routes) : routes'[i] = routes[i]
      /\ OnStack' = OnStack \cup {r}
  BY <1>1, PushShape DEF RoutesInv, PushRoute
<1>3. Len(routes) \in Nat /\ Len(routes) >= 1 /\ MaxDepth \in Nat
  BY DepthAssumption DEF RoutesInv, RoutesTypeOK
<1>4. RoutesTypeOK'
  BY <1>2, <1>3 DEF RoutesInv, RoutesTypeOK, PushRoute
<1>5. MainStays'
  BY <1>1, <1>2, <1>3 DEF RoutesInv, MainStays
<1>6. SessionsHaveARoute'
  BY <1>2 DEF RoutesInv, SessionsHaveARoute
<1>7. RoutesKeepTheirSession'
  BY <1>1, <1>2 DEF RoutesInv, RoutesKeepTheirSession
<1>8. OnStackOnce'
  <2>1. ASSUME NEW i \in 1..Len(routes'), NEW j \in 1..Len(routes'),
               routes'[i] = routes'[j], routes'[i] \in Id
        PROVE  i = j
    <3>1. i \in 1..Len(routes) /\ j \in 1..Len(routes)
      BY <2>1, <1>1, <1>2, <1>3
    <3> QED
      BY <2>1, <3>1, <1>2 DEF RoutesInv, OnStackOnce
  <2>2. pushes' \cap OnStack' = {}
    BY <1>1, <1>2 DEF RoutesInv, OnStackOnce, RoutesTypeOK
  <2> QED
    BY <2>1, <2>2 DEF OnStackOnce
<1> QED
  BY <1>4, <1>5, <1>6, <1>7, <1>8 DEF RoutesInv

\* A pop, also one of the root route, which changes nothing.
LEMMA PopStep ==
  ASSUME RoutesInv, Pop, UNCHANGED <<pushes, choices>>, pops' \in 0..MaxPending
  PROVE  RoutesInv'
<1>1. CASE Len(routes) <= 1
  <2>1. UNCHANGED <<routes, session, pushes, choices>>
    BY <1>1 DEF RoutesInv, RoutesTypeOK, Pop
  <2> QED
    BY <2>1 DEF RoutesInv, RoutesTypeOK, MainStays, SessionsHaveARoute,
      RoutesKeepTheirSession, OnStackOnce, OnStack
<1>2. CASE Len(routes) > 1
  <2>1. routes' = SubSeq(routes, 1, Len(routes) - 1) /\ Stop({Top})
    BY <1>2 DEF Pop
  <2>2. /\ routes' \in Seq(Plain \cup Id)
        /\ Len(routes') = Len(routes) - 1
        /\ \A i \in 1..Len(routes') : routes'[i] = routes[i]
        /\ OnStack = OnStack' \cup {Top}
    BY <1>2, <2>1, PopShape DEF RoutesInv
  <2>3. Len(routes) \in Nat
    BY DEF RoutesInv, RoutesTypeOK
  <2>4. RoutesTypeOK'
    <3>1. Len(routes') \in 1..MaxDepth
      BY <1>2, <2>2, <2>3, DepthAssumption DEF RoutesInv, RoutesTypeOK
    <3>2. session' \in [Id -> {"none", "live", "stopped"}]
      BY <2>1 DEF RoutesInv, RoutesTypeOK, Stop
    <3> QED
      BY <2>2, <3>1, <3>2 DEF RoutesInv, RoutesTypeOK
  <2>5. MainStays'
    BY <1>2, <2>2, <2>3 DEF RoutesInv, MainStays
  <2>6. Top \in Id => Top \notin OnStack' \cup pushes
    <3>1. ASSUME NEW i \in 1..Len(routes'), routes'[i] = Top, Top \in Id
          PROVE  FALSE
      BY <1>2, <2>2, <2>3, <3>1 DEF RoutesInv, OnStackOnce, Top
    <3>2. Top \in OnStack
      BY <2>2
    <3> QED
      BY <3>1, <3>2 DEF RoutesInv, OnStackOnce, OnStack
  <2>7. SessionsHaveARoute'
    BY <2>1, <2>2 DEF RoutesInv, SessionsHaveARoute, Stop
  <2>8. RoutesKeepTheirSession'
    BY <2>1, <2>2, <2>6 DEF RoutesInv, RoutesKeepTheirSession, Stop
  <2>9. OnStackOnce'
    BY <2>2, <2>3 DEF RoutesInv, OnStackOnce
  <2> QED
    BY <2>4, <2>5, <2>7, <2>8, <2>9 DEF RoutesInv
<1> QED
  BY <1>1, <1>2 DEF RoutesInv, RoutesTypeOK

\* A return to the root stops what was above it, and that was nowhere else.
LEMMA RootStep ==
  ASSUME RoutesInv, PopToRoot, UNCHANGED <<pushes, pops>>, choices' \in 0..MaxPending
  PROVE  RoutesInv'
<1>1. routes' = <<routes[1]>> /\ Stop(AboveRoot)
  BY DEF PopToRoot
<1>2. /\ routes' \in Seq(Plain \cup Id)
      /\ Len(routes') = 1
      /\ routes'[1] = routes[1]
      /\ OnStack = OnStack' \cup AboveRoot
  BY <1>1, RootShape DEF RoutesInv
<1>3. MaxDepth \in Nat \ {0}
  BY DepthAssumption
<1>4. RoutesTypeOK'
  BY <1>1, <1>2, <1>3 DEF RoutesInv, RoutesTypeOK, Stop
<1>5. MainStays'
  BY <1>2 DEF RoutesInv, MainStays
<1>6. OnStack' = {"main"}
  BY <1>2 DEF RoutesInv, MainStays, OnStack
<1>7. "main" \notin Id
  BY IdAssumption DEF Plain
<1>8. SessionsHaveARoute'
  BY <1>1, <1>2 DEF RoutesInv, SessionsHaveARoute, Stop
<1>9. RoutesKeepTheirSession'
  <2>1. ASSUME NEW i \in Id, i \in OnStack' \cup pushes'
        PROVE  session'[i] = "live"
    <3>1. i \in pushes
      BY <2>1, <1>6, <1>7
    <3>2. i \notin AboveRoot
      BY <3>1, <1>2 DEF RoutesInv, OnStackOnce
    <3> QED
      BY <3>1, <3>2, <1>1 DEF RoutesInv, RoutesKeepTheirSession, Stop
  <2> QED
    BY <2>1 DEF RoutesKeepTheirSession
<1>10. OnStackOnce'
  BY <1>2, <1>6, <1>7 DEF RoutesInv, OnStackOnce, RoutesTypeOK
<1> QED
  BY <1>4, <1>5, <1>8, <1>9, <1>10 DEF RoutesInv

----------------------------------------------------------------------------
(* The actions. *)

\* The initial stack is the main route, with nothing on its way.
LEMMA RoutesInitInv == RoutesInit => RoutesInv
<1> SUFFICES ASSUME RoutesInit PROVE RoutesInv
  OBVIOUS
<1>1. routes = <<"main">> /\ Len(routes) = 1 /\ routes[1] = "main"
  BY DEF RoutesInit
<1>2. OnStack = {"main"}
  BY <1>1 DEF OnStack
<1>3. "main" \notin Id
  BY IdAssumption DEF Plain
<1>4. RoutesTypeOK
  BY <1>1, DepthAssumption DEF RoutesInit, RoutesTypeOK, Plain
<1>5. MainStays
  BY <1>1 DEF MainStays
<1>6. SessionsHaveARoute /\ RoutesKeepTheirSession /\ OnStackOnce
  BY <1>1, <1>2, <1>3 DEF RoutesInit, SessionsHaveARoute, RoutesKeepTheirSession, OnStackOnce
<1> QED
  BY <1>4, <1>5, <1>6 DEF RoutesInv

\* A route is built with its session, about to be pushed.
LEMMA OpenStep == ASSUME RoutesInv, NEW i \in Id, OpenRoute(i) PROVE RoutesInv'
<1>1. UNCHANGED <<routes, pops, choices>> /\ OnStack' = OnStack
  BY DEF OpenRoute, OnStack
<1>2. /\ i \notin OnStack \cup pushes
      /\ session' = [session EXCEPT ![i] = "live"]
      /\ pushes' = pushes \cup {i}
  BY DEF OpenRoute
<1>3. RoutesTypeOK'
  BY <1>1, <1>2 DEF RoutesInv, RoutesTypeOK
<1>4. MainStays'
  BY <1>1 DEF RoutesInv, MainStays
<1>5. SessionsHaveARoute'
  BY <1>1, <1>2 DEF RoutesInv, SessionsHaveARoute, RoutesTypeOK
<1>6. RoutesKeepTheirSession'
  BY <1>1, <1>2 DEF RoutesInv, RoutesKeepTheirSession, RoutesTypeOK
<1>7. OnStackOnce'
  BY <1>1, <1>2 DEF RoutesInv, OnStackOnce
<1> QED
  BY <1>3, <1>4, <1>5, <1>6, <1>7 DEF RoutesInv

\* A push arrives: the route moves from one place to the other.
LEMMA ArrivalStep == ASSUME RoutesInv, NEW i \in Id, PushArrives(i) PROVE RoutesInv'
<1>1. /\ i \in pushes /\ pushes' = pushes \ {i}
      /\ UNCHANGED <<session, pops, choices>>
      /\ Len(routes) < MaxDepth /\ routes' = Append(routes, i)
  BY DEF PushArrives, PushRoute
<1>2. /\ routes' \in Seq(Plain \cup Id)
      /\ Len(routes') = Len(routes) + 1
      /\ routes'[Len(routes')] = i
      /\ \A j \in 1..Len(routes) : routes'[j] = routes[j]
      /\ OnStack' = OnStack \cup {i}
  BY <1>1, PushShape DEF RoutesInv
<1>3. Len(routes) \in Nat /\ Len(routes) >= 1 /\ MaxDepth \in Nat
  BY DepthAssumption DEF RoutesInv, RoutesTypeOK
<1>4. i # "main" /\ i \notin OnStack
  BY <1>1, IdAssumption DEF RoutesInv, OnStackOnce, Plain
<1>5. RoutesTypeOK'
  BY <1>1, <1>2, <1>3 DEF RoutesInv, RoutesTypeOK
<1>6. MainStays'
  BY <1>2, <1>3, <1>4 DEF RoutesInv, MainStays
<1>7. SessionsHaveARoute' /\ RoutesKeepTheirSession'
  BY <1>1, <1>2 DEF RoutesInv, SessionsHaveARoute, RoutesKeepTheirSession
<1>8. OnStackOnce'
  <2>1. ASSUME NEW j \in 1..Len(routes'), NEW k \in 1..Len(routes'),
               routes'[j] = routes'[k], routes'[j] \in Id
        PROVE  j = k
    <3>1. \A n \in 1..Len(routes) : routes[n] # i
      BY <1>4 DEF OnStack
    <3>2. \A n \in 1..Len(routes') : n \in 1..Len(routes) \/ n = Len(routes')
      BY <1>2, <1>3
    <3>3. CASE j \in 1..Len(routes) /\ k \in 1..Len(routes)
      BY <2>1, <3>3, <1>2 DEF RoutesInv, OnStackOnce
    <3>4. CASE j = Len(routes') \/ k = Len(routes')
      BY <2>1, <3>1, <3>2, <3>4, <1>2
    <3> QED
      BY <3>2, <3>3, <3>4
  <2>2. pushes' \cap OnStack' = {}
    BY <1>1, <1>2 DEF RoutesInv, OnStackOnce
  <2> QED
    BY <2>1, <2>2 DEF OnStackOnce
<1> QED
  BY <1>5, <1>6, <1>7, <1>8 DEF RoutesInv

\* What leaves the stack and the sessions alone leaves the invariant alone.
LEMMA SameStack ==
  ASSUME RoutesInv, UNCHANGED <<routes, session, pushes>>,
         pops' \in 0..MaxPending, choices' \in 0..MaxPending
  PROVE  RoutesInv'
  BY DEF RoutesInv, RoutesTypeOK, MainStays, SessionsHaveARoute, RoutesKeepTheirSession,
     OnStackOnce, OnStack

\* Every step preserves the invariant.
LEMMA RoutesNextInv == RoutesInv /\ [RoutesNext]_routeVars => RoutesInv'
<1> SUFFICES ASSUME RoutesInv, [RoutesNext]_routeVars PROVE RoutesInv'
  OBVIOUS
<1>1. MaxPending \in Nat /\ pops \in 0..MaxPending /\ choices \in 0..MaxPending
  BY DepthAssumption DEF RoutesInv, RoutesTypeOK
<1>2. ASSUME NEW i \in Id, OpenRoute(i) PROVE RoutesInv'
  BY <1>2, OpenStep
<1>3. ASSUME NEW i \in Id, PushArrives(i) PROVE RoutesInv'
  BY <1>3, ArrivalStep
<1>4. CASE OpenHelp
  BY <1>4, PlainPush DEF OpenHelp
<1>5. CASE ToggleSwitcher
  <2>1. CASE Top = "switcher"
    BY <1>1, <1>5, <2>1, RootStep DEF ToggleSwitcher
  <2>2. CASE Top # "switcher"
    BY <1>5, <2>2, PlainPush DEF ToggleSwitcher
  <2> QED
    BY <2>1, <2>2
<1>6. CASE CloseHelp
  BY <1>1, <1>6, PopStep DEF CloseHelp
<1>7. CASE AskBack
  BY <1>1, <1>7, SameStack DEF AskBack
<1>8. CASE Select
  BY <1>1, <1>8, SameStack DEF Select
<1>9. CASE PopArrives
  BY <1>1, <1>9, PopStep DEF PopArrives
<1>10. CASE ChoiceArrives
  BY <1>1, <1>10, RootStep DEF ChoiceArrives
<1>11. CASE UNCHANGED routeVars
  BY <1>1, <1>11, SameStack DEF routeVars
<1> QED
  BY <1>2, <1>3, <1>4, <1>5, <1>6, <1>7, <1>8, <1>9, <1>10, <1>11 DEF RoutesNext

\* The inductive argument, once for the four theorems.
LEMMA RoutesInvariance == RoutesSpec => []RoutesInv
<1>1. RoutesInit => RoutesInv
  BY RoutesInitInv
<1>2. RoutesInv /\ [RoutesNext]_routeVars => RoutesInv'
  BY RoutesNextInv
<1> QED
  BY <1>1, <1>2, PTL DEF RoutesSpec

----------------------------------------------------------------------------
(* The theorems. *)

\* The stack holds routes, at least one and at most MaxDepth, and every variable
\* keeps its type.
THEOREM RouteTypes == RoutesSpec => []RoutesTypeOK
<1>1. RoutesInv => RoutesTypeOK
  BY DEF RoutesInv
<1> QED
  BY <1>1, RoutesInvariance, PTL

\* However many pops arrive, the main route stays at the bottom of the stack.
THEOREM RootStays == RoutesSpec => []MainStays
<1>1. RoutesInv => MainStays
  BY DEF RoutesInv
<1> QED
  BY <1>1, RoutesInvariance, PTL

\* A session that is live belongs to a route that is on the stack or about to
\* be: no request goes on for a screen that is gone.
THEOREM NoSessionLeaks == RoutesSpec => []SessionsHaveARoute
<1>1. RoutesInv => SessionsHaveARoute
  BY DEF RoutesInv
<1> QED
  BY <1>1, RoutesInvariance, PTL

\* A route that is on the stack or about to be has its session: no screen the
\* user can come back to has had its requests cut off.
THEOREM SessionsLast == RoutesSpec => []RoutesKeepTheirSession
<1>1. RoutesInv => RoutesKeepTheirSession
  BY DEF RoutesInv
<1> QED
  BY <1>1, RoutesInvariance, PTL

\* A route with a session is on the stack at most once.
THEOREM NoRouteTwice == RoutesSpec => []OnStackOnce
<1>1. RoutesInv => OnStackOnce
  BY DEF RoutesInv
<1> QED
  BY <1>1, RoutesInvariance, PTL

\* The stack keeps its root and holds a route once (stack.go's push and pop in
\* ui/route.go).
THEOREM StackSound == RoutesSpec => []StackIsSound
  BY RouteTypes, RootStays, NoRouteTwice, PTL DEF StackIsSound

\* Sessions live exactly as long as their routes (route.go:102-103).
THEOREM SessionsFollow == RoutesSpec => []SessionsFollowRoutes
  BY NoSessionLeaks, SessionsLast, PTL DEF SessionsFollowRoutes

----------------------------------------------------------------------------
(* The screen. *)

\* The rows of a list that are shown are rows it has, fit the space there is, leave
\* none of it empty while there are more, and include the cursor's (Window,
\* layout.go).
THEOREM TheCursorIsShown ==
  ASSUME NEW length \in Int, NEW place \in Int, NEW visible \in Int
  PROVE  LET w == Window(length, place, visible)
             room == Larger(visible, 1)
             row == Clamp(place, 0, length - 1)
         IN  /\ 0 <= w[1] /\ w[1] <= w[2] /\ w[2] <= Larger(length, 0)
             /\ w[2] - w[1] = Smaller(room, Larger(length, 0))
             /\ length > 0 => w[1] <= row /\ row < w[2]
<1> DEFINE rows == Larger(visible, 1)
<1> DEFINE row == Clamp(place, 0, length - 1)
<1> DEFINE w == Window(length, place, visible)
<1> DEFINE half == rows \div 2
<1> DEFINE start == Clamp(row - half, 0, length - rows)
<1>1. rows \in Nat /\ rows >= 1
  BY DEF Larger
<1>2. half \in Nat /\ half < rows
  <2> HIDE DEF rows
  <2> QED
    BY <1>1
<1>3. length > 0 => row \in 0..length - 1
  BY DEF Clamp, Smaller
<1>4. CASE length <= 0
  <2>1. Window(length, place, visible) = <<0, 0>>
    BY <1>4 DEF Window
  <2> HIDE DEF rows, row, half, start
  <2> QED
    BY <1>1, <1>4, <2>1 DEF Larger, Smaller, rows
<1>5. CASE length > 0 /\ length <= rows
  <2>1. Window(length, place, visible) = <<0, length>>
    BY <1>5 DEF Window
  <2>2. Larger(length, 0) = length /\ Smaller(rows, length) = length
    BY <1>1, <1>5 DEF Larger, Smaller
  <2>3. row \in 0..length - 1
    BY <1>3, <1>5
  <2> QED
    BY <1>5, <2>1, <2>2, <2>3
<1>6. CASE length > 0 /\ length > rows
  <2>1. Window(length, place, visible) = <<start, start + rows>>
    BY <1>1, <1>6 DEF Window
  <2>2. Larger(length, 0) = length /\ Smaller(rows, length) = rows
    BY <1>1, <1>6 DEF Larger, Smaller
  <2>3. row \in 0..length - 1
    BY <1>3, <1>6
  <2>4. start \in 0..length - rows /\ start <= row /\ row < start + rows
    <3> HIDE DEF rows, row, half
    <3> QED
      BY <1>1, <1>2, <1>6, <2>3 DEF Clamp, Smaller
  <2> HIDE DEF start, rows, row
  <2>5. /\ 0 <= start /\ start <= start + rows /\ start + rows <= length
        /\ start + rows - start = rows
    BY <1>1, <1>6, <2>4
  <2>6. w[1] = start /\ w[2] = start + rows
    BY <2>1
  <2>7. 0 <= w[1] /\ w[1] <= w[2] /\ w[2] <= length /\ w[2] - w[1] = rows
    BY <1>1, <2>4, <2>5, <2>6
  <2>8. w[1] <= row /\ row < w[2]
    BY <2>4, <2>6
  <2> QED
    BY <2>2, <2>7, <2>8 DEF row, rows
<1>7. length <= 0 \/ (length > 0 /\ length <= rows) \/ (length > 0 /\ length > rows)
  BY <1>1
<1> QED
  BY <1>4, <1>5, <1>6, <1>7

\* The header, the body and the footer fill the terminal, and the body is never
\* empty.  Content is never wider than its box.  And a screen that is not refused as
\* too small shows its bars, and has the room its least size stands for (Layout,
\* ContentWidth, BoxWidth and TooSmall, layout.go).
THEOREM TheFrameFills ==
  ASSUME NEW width \in Int, NEW height \in Int
  PROVE  /\ LET f == Frame(height)
            IN /\ f.header + f.body + f.footer = Larger(height, 1)
               /\ f.body >= 1
               /\ ~TooSmall(width, height) =>
                    f.header = HeaderHeight /\ f.body >= MinHeight - HeaderHeight - FooterHeight
         /\ ContentWidth(width) \in 1..BoxWidth(width)
         /\ ~TooSmall(width, height) =>
              ContentWidth(width) = width - 2 * Gutter
<1> USE DEF Larger, HeaderHeight, FooterHeight, MinHeight, MinWidth, Gutter
<1>1. LET f == Frame(height)
      IN /\ f.header + f.body + f.footer = Larger(height, 1)
         /\ f.body >= 1
         /\ ~TooSmall(width, height) =>
              f.header = HeaderHeight /\ f.body >= MinHeight - HeaderHeight - FooterHeight
  BY DEF Frame, BarsFit, TooSmall
<1>2. ContentWidth(width) \in 1..BoxWidth(width)
  BY DEF ContentWidth, BoxWidth
<1>3. ~TooSmall(width, height) => ContentWidth(width) = width - 2 * Gutter
  BY DEF TooSmall, ContentWidth
<1> QED
  BY <1>1, <1>2, <1>3

\* The two parts of a split are of a size that adds up, and neither is negative
\* (SplitCols, SplitRows and SplitRowsFair, layout.go).
THEOREM SplitsAreParts ==
  ASSUME NEW size \in Nat, NEW want \in Int
  PROVE  /\ Split(size, want) \in 0..size
         /\ SplitFair(size, want) \in 0..size
         /\ SplitFair(size, want) <= Larger(size \div 3, 1)
<1>1. size \div 3 \in Int
  OBVIOUS
<1> DEFINE third == size \div 3
<1> HIDE DEF third
<1>2. third \in Int
  BY <1>1 DEF third
<1>3. \A v \in Int : Split(size, v) \in 0..size /\ (v >= 0 => Split(size, v) <= v)
                     /\ (v < 0 => Split(size, v) = 0)
  BY DEF Split, Clamp, Smaller
<1>4. /\ Smaller(want, Larger(third, 1)) \in Int
      /\ Smaller(want, Larger(third, 1)) <= Larger(third, 1)
       /\ Larger(third, 1) \in Nat
  BY <1>2 DEF Smaller, Larger
<1>5. SplitFair(size, want) = Split(size, Smaller(want, Larger(third, 1)))
  BY DEF SplitFair, third
<1> QED
  BY <1>3, <1>4, <1>5 DEF third

----------------------------------------------------------------------------
(* Layout: fitting the columns of a table.                                 *)

\* What may be dropped, what has been, and the row with the last of those back.
Optional == {i \in Shown(asked) : asked[i].min = 0}
Gone == Optional \ Shown(cols)
Restored == [cols EXCEPT ![Min(Gone)] = asked[Min(Gone)]]

\* Columns are asked for at their least width or wider.
Normalised ==
  \A i \in DOMAIN asked :
    asked[i].min \in Nat /\ (asked[i].min > 0 => asked[i].width >= asked[i].min)

\* A row with room gives nothing up: slack only widens it.  In one without, the
\* columns that are left are as they were asked for until all that may go are gone,
\* and it is short of nothing that came back.
Whole == \A i \in Shown(cols) : cols[i] = asked[i]
Roomy ==
  /\ Fits /\ Shown(cols) = Shown(asked)
  /\ \A i \in DOMAIN cols : cols[i].width >= asked[i].width
Squeezed ==
  /\ Shown(cols) \subseteq Shown(asked) /\ Shown(asked) \ Shown(cols) \subseteq Optional
  /\ \A i \in Gone : \A j \in Optional : j > i => j \in Gone
  /\ Gone # {} => Total(Restored) > rowWidth
  /\ Whole \/ (Gone = Optional /\ Total(cols) >= rowWidth)

LayoutInv ==
  /\ LayoutTypeOK /\ Normalised
  /\ fitting = "widen" => cols = asked
  /\ Roomy \/ Squeezed
  /\ fitting = "drop" => Roomy \/ Whole
  /\ fitting \in {"shrink", "done"} => Fits \/ Gone = Optional
  /\ fitting = "done" => Fits \/ \A i \in DOMAIN cols : cols[i].width <= cols[i].min

LEMMA ColumnWidths ==
  ASSUME NEW cs \in Seq(Column)
  PROVE  \A i \in DOMAIN cs : cs[i] \in Column /\ cs[i].width \in Int
<1>1. \A i \in DOMAIN cs : cs[i] \in Column
  OBVIOUS
<1> QED
  BY <1>1 DEF Column

LEMMA ShownColumns ==
  ASSUME NEW cs \in Seq(Column)
  PROVE  /\ Shown(cs) \subseteq DOMAIN cs /\ Shown(cs) \subseteq Nat
         /\ Len(cs) \in Nat /\ Shown(cs) \subseteq 0..Len(cs)
         /\ IsFiniteSet(Shown(cs)) /\ Cardinality(Shown(cs)) \in Nat
<1>1. Len(cs) \in Nat /\ DOMAIN cs = 1..Len(cs)
  OBVIOUS
<1>2. Shown(cs) \subseteq 1..Len(cs)
  BY <1>1 DEF Shown
<1>3. IsFiniteSet(Shown(cs))
  <2>1. IsFiniteSet(1..Len(cs))
    BY <1>1, FS_Interval
  <2> QED
    BY <1>2, <2>1, FS_Subset
<1> QED
  BY <1>1, <1>2, <1>3, FS_CardinalityType

\* The room a row takes, in parts.
LEMMA TotalIs ==
  ASSUME NEW cs \in Seq(Column),
         NEW w, w = [i \in DOMAIN cs |-> cs[i].width],
         NEW n, n = Cardinality(Shown(cs))
  PROVE  /\ Total(cs) = Indent + SumFunctionOnSet(w, Shown(cs)) + Sep * Larger(n - 1, 0)
         /\ SumFunctionOnSet(w, Shown(cs)) \in Int
         /\ n \in Nat /\ Larger(n - 1, 0) \in Nat /\ Sep * Larger(n - 1, 0) \in Nat
         /\ Total(cs) \in Int
<1>1. IsFiniteSet(Shown(cs)) /\ n \in Nat
  BY ShownColumns
<1>2. \A i \in DOMAIN cs : cs[i].width \in Int
  BY ColumnWidths
<1>3. SumFunctionOnSet(w, Shown(cs)) \in Int
  <2>1. \A i \in Shown(cs) : w[i] \in Int
    BY <1>2 DEF Shown
  <2> QED
    BY <1>1, <2>1, SumIsAnInteger
<1>4. Larger(n - 1, 0) \in Nat
  BY <1>1 DEF Larger
<1>5. Indent \in Int /\ Sep * Larger(n - 1, 0) \in Nat
  BY <1>4, SpaceAssumption
<1>6. Total(cs) = Indent + SumFunctionOnSet(w, Shown(cs)) + Sep * Larger(n - 1, 0)
  BY DEF Total
<1> QED
  BY <1>1, <1>3, <1>4, <1>5, <1>6

\* A column that is shown gets another width, and the row by as much.
LEMMA OneWider ==
  ASSUME NEW cs \in Seq(Column), NEW ds \in Seq(Column), DOMAIN ds = DOMAIN cs,
         NEW i \in Shown(cs), i \in Shown(ds),
         \A j \in DOMAIN cs : j # i => ds[j].width = cs[j].width
  PROVE  Shown(ds) = Shown(cs) /\ Total(ds) = Total(cs) + (ds[i].width - cs[i].width)
<1> DEFINE w == [j \in DOMAIN cs |-> cs[j].width]
           x == [j \in DOMAIN ds |-> ds[j].width]
<1>1. Shown(ds) = Shown(cs)
  BY DEF Shown
<1>2. /\ i \in DOMAIN cs /\ w[i] = cs[i].width /\ x[i] = ds[i].width
      /\ cs[i].width \in Int /\ ds[i].width \in Int
  BY ColumnWidths DEF Shown
<1>3. \A j \in Shown(cs) : w[j] \in Int /\ x[j] \in Int /\ (j # i => w[j] = x[j])
  BY ColumnWidths DEF Shown
<1> HIDE DEF w, x
<1>4. IsFiniteSet(Shown(cs))
  BY ShownColumns
<1>5. SumFunctionOnSet(x, Shown(cs)) = SumFunctionOnSet(w, Shown(cs)) + (x[i] - w[i])
  BY <1>3, <1>4, SumOfOneChanged
<1> DEFINE rest == Sep * Larger(Cardinality(Shown(cs)) - 1, 0)
<1>6. /\ Total(cs) = Indent + SumFunctionOnSet(w, Shown(cs)) + rest
      /\ SumFunctionOnSet(w, Shown(cs)) \in Int /\ rest \in Nat
  BY TotalIs DEF w
<1>7. Total(ds) = Indent + SumFunctionOnSet(x, Shown(cs)) + rest
  BY <1>1, TotalIs DEF x
<1> HIDE DEF rest
<1> QED
  BY <1>1, <1>2, <1>5, <1>6, <1>7, SpaceAssumption

\* A column more is shown, and the row takes more room.
LEMMA OneMoreColumn ==
  ASSUME NEW cs \in Seq(Column), NEW ds \in Seq(Column), DOMAIN ds = DOMAIN cs,
         NEW i \in DOMAIN cs, i \notin Shown(cs), i \in Shown(ds),
         \A j \in DOMAIN cs : j # i => ds[j].width = cs[j].width
  PROVE  Total(ds) > Total(cs)
<1> DEFINE w == [j \in DOMAIN cs |-> cs[j].width]
           x == [j \in DOMAIN ds |-> ds[j].width]
           n == Cardinality(Shown(cs))
<1>1. Shown(ds) = Shown(cs) \cup {i} /\ Shown(ds) \ {i} = Shown(cs)
  BY DEF Shown
<1>2. /\ x[i] = ds[i].width /\ ds[i].width \in Int /\ ds[i].width > 0
      /\ \A j \in Shown(cs) : x[j] = w[j]
      /\ \A j \in Shown(ds) : x[j] \in Int
  BY ColumnWidths DEF Shown
<1> HIDE DEF w, x
<1>3. IsFiniteSet(Shown(cs)) /\ IsFiniteSet(Shown(ds)) /\ n \in Nat
  BY ShownColumns
<1>4. SumFunctionOnSet(x, Shown(ds)) = x[i] + SumFunctionOnSet(x, Shown(cs))
  BY <1>1, <1>2, <1>3, SumWithout
<1>5. SumFunctionOnSet(x, Shown(cs)) = SumFunctionOnSet(w, Shown(cs))
  BY <1>2, <1>3, SumOfTheSame
<1>6. Cardinality(Shown(ds)) = n + 1
  BY <1>1, <1>3, FS_AddElement
<1> DEFINE a == Larger(n - 1, 0)
           b == Larger((n + 1) - 1, 0)
<1>7. /\ Total(cs) = Indent + SumFunctionOnSet(w, Shown(cs)) + Sep * a
      /\ SumFunctionOnSet(w, Shown(cs)) \in Int
  BY TotalIs DEF w
<1>8. Total(ds) = Indent + SumFunctionOnSet(x, Shown(ds)) + Sep * b
  BY <1>6, TotalIs DEF x
<1>9. Sep * a \in Nat /\ Sep * b \in Nat /\ Sep * b >= Sep * a
  <2>1. b = a \/ b = a + 1
    BY <1>3 DEF Larger
  <2>2. a \in Nat /\ Sep \in Nat
    BY <1>3, SpaceAssumption DEF Larger
  <2> HIDE DEF a, b
  <2>3. Sep * (a + 1) = Sep * a + Sep /\ Sep * a \in Nat
    BY <2>2
  <2> QED
    BY <2>1, <2>2, <2>3
<1> HIDE DEF a, b
<1> QED
  BY <1>2, <1>4, <1>5, <1>7, <1>8, <1>9, SpaceAssumption

LEMMA LayoutInitInv == LayoutInit => LayoutInv
<1> SUFFICES ASSUME LayoutInit PROVE LayoutInv
  OBVIOUS
<1>1. PICK table \in Tables : asked = [i \in DOMAIN table |-> Normal(table[i])]
  BY DEF LayoutInit
<1>2. table \in Seq(Column)
  BY TableAssumption
<1>3. ASSUME NEW i \in DOMAIN table
      PROVE  /\ Normal(table[i]) \in Column /\ Normal(table[i]).min \in Nat
             /\ Normal(table[i]).min > 0 => Normal(table[i]).width >= Normal(table[i]).min
  <2>1. table[i] \in Column
    BY <1>2
  <2> DEFINE c == table[i]
             least == Larger(c.min, 0)
             w == IF least > 0 THEN Larger(c.width, least) ELSE c.width
  <2>2. c.min \in Int /\ c.width \in Int /\ c.flex \in BOOLEAN
    BY <2>1 DEF Column
  <2>3. Normal(c) = [width |-> w, min |-> least, flex |-> c.flex]
    <3>1. Normal(c) = [c EXCEPT !.min = least, !.width = w]
      BY <2>1 DEF Normal, Column
    <3> HIDE DEF least, w
    <3> QED
      BY <2>1, <3>1 DEF Column
  <2>4. least \in Nat /\ w \in Int /\ (least > 0 => w >= least)
    BY <2>2 DEF Larger
  <2> HIDE DEF c, least, w
  <2>5. /\ Normal(c) \in Column
        /\ Normal(c).min \in Nat /\ (Normal(c).min > 0 => Normal(c).width >= Normal(c).min)
    BY <2>2, <2>3, <2>4 DEF Column
  <2> QED
    BY <2>5 DEF c
<1>4. asked \in Seq(Column) /\ DOMAIN asked = DOMAIN table /\ Normalised
  BY <1>1, <1>2, <1>3 DEF Normalised
<1>5. cols = asked /\ rowWidth \in Int /\ fitting = "widen"
  BY TableAssumption DEF LayoutInit
<1>6. LayoutTypeOK
  BY <1>4, <1>5 DEF LayoutTypeOK, MinimumsAreKept, Normalised
<1>7. Squeezed /\ Whole
  <2>1. Gone = {}
    BY <1>5 DEF Gone, Optional
  <2> QED
    BY <1>5, <2>1 DEF Squeezed, Whole
<1> QED
  BY <1>4, <1>5, <1>6, <1>7 DEF LayoutInv

\* The types of the columns, spelled out.
LEMMA RowFacts ==
  ASSUME LayoutInv
  PROVE  /\ asked \in Seq(Column) /\ cols \in Seq(Column) /\ DOMAIN cols = DOMAIN asked
         /\ \A i \in DOMAIN cols :
              /\ cols[i] \in Column /\ cols[i].width \in Int /\ cols[i].min \in Nat
              /\ asked[i].width \in Int
              /\ cols[i].min = asked[i].min /\ cols[i].flex = asked[i].flex
              /\ cols[i].min > 0 => cols[i].width >= cols[i].min
         /\ rowWidth \in Int /\ Total(cols) \in Int
<1>1. asked \in Seq(Column) /\ cols \in Seq(Column) /\ DOMAIN cols = DOMAIN asked
  BY DEF LayoutInv, LayoutTypeOK
<1>2. \A i \in DOMAIN cols : cols[i] \in Column /\ asked[i] \in Column
  BY <1>1
<1>3. rowWidth \in Int /\ Total(cols) \in Int
  BY <1>1, TotalIs DEF LayoutInv, LayoutTypeOK
<1> QED
  BY <1>1, <1>2, <1>3 DEF LayoutInv, LayoutTypeOK, Normalised, MinimumsAreKept, Column

\* One column gets another width.
LEMMA OneColumn ==
  ASSUME LayoutInv, NEW i \in DOMAIN cols, NEW w \in Int,
         cols' = [cols EXCEPT ![i].width = w], UNCHANGED <<asked, rowWidth>>,
         cols[i].min > 0 => w >= cols[i].min,
         fitting' \in {"widen", "drop", "shrink", "done"}
  PROVE  /\ LayoutTypeOK' /\ Normalised'
         /\ cols' \in Seq(Column) /\ DOMAIN cols' = DOMAIN cols
         /\ cols'[i].width = w /\ cols'[i].min = cols[i].min
         /\ \A j \in DOMAIN cols : j # i => cols'[j] = cols[j]
<1>1. /\ cols \in Seq(Column) /\ cols[i] \in Column
  BY RowFacts
<1>2. [cols[i] EXCEPT !.width = w] \in Column
  BY <1>1 DEF Column
<1>3. cols' = [cols EXCEPT ![i] = [cols[i] EXCEPT !.width = w]]
  OBVIOUS
<1>4. /\ cols' \in Seq(Column) /\ DOMAIN cols' = DOMAIN cols
      /\ cols'[i] = [cols[i] EXCEPT !.width = w]
      /\ \A j \in DOMAIN cols : j # i => cols'[j] = cols[j]
  BY <1>1, <1>2, <1>3
<1>5. /\ cols'[i].width = w /\ cols'[i].min = cols[i].min /\ cols'[i].flex = cols[i].flex
  BY <1>1, <1>4 DEF Column
<1>6. Normalised'
  BY DEF LayoutInv, Normalised
<1>7. LayoutTypeOK'
  BY <1>4, <1>5 DEF LayoutInv, LayoutTypeOK, MinimumsAreKept
<1> QED
  BY <1>4, <1>5, <1>6, <1>7

LEMMA WidenInv ==
  ASSUME LayoutInv, Widen
  PROVE  LayoutInv'
<1> DEFINE flexible == {i \in Shown(cols) : cols[i].flex}
<1>1. cols = asked /\ fitting' = "drop" /\ UNCHANGED <<asked, rowWidth>>
  BY DEF Widen, LayoutInv
<1>2. CASE cols' = cols
  <2>1. LayoutTypeOK' /\ Normalised'
    BY <1>1, <1>2 DEF LayoutInv, LayoutTypeOK, MinimumsAreKept, Normalised
  <2>2. Gone' = {}
    BY <1>1, <1>2 DEF Gone, Optional
  <2>3. Squeezed' /\ Whole'
    BY <1>1, <1>2, <2>2 DEF Squeezed, Whole
  <2> QED
    BY <1>1, <2>1, <2>3 DEF LayoutInv
<1>3. CASE Total(cols) < rowWidth /\ flexible # {}
  <2> DEFINE i == Min(flexible)
             w == cols[i].width + (rowWidth - Total(cols))
  <2>1. i \in Shown(cols) /\ i \in DOMAIN cols
    <3>1. flexible \subseteq Nat
      BY RowFacts, ShownColumns
    <3>2. i \in flexible
      BY <1>3, <3>1, MinIsLeast
    <3> QED
      BY <3>2 DEF Shown
  <2>2. cols' = [cols EXCEPT ![i].width = w]
    BY <1>3 DEF Widen
  <2> HIDE DEF i
  <2>3. /\ w \in Int /\ w > cols[i].width /\ cols[i].width > 0
        /\ cols[i].min > 0 => w >= cols[i].min
    BY <1>3, <2>1, RowFacts DEF Shown
  <2> HIDE DEF w
  <2>4. /\ LayoutTypeOK' /\ Normalised'
        /\ cols' \in Seq(Column) /\ DOMAIN cols' = DOMAIN cols
        /\ cols'[i].width = w /\ \A j \in DOMAIN cols : j # i => cols'[j] = cols[j]
    BY <1>1, <2>1, <2>2, <2>3, OneColumn
  <2>5. i \in Shown(cols')
    BY <2>1, <2>3, <2>4, RowFacts DEF Shown
  <2>6. Shown(cols') = Shown(cols) /\ Total(cols') = Total(cols) + (w - cols[i].width)
    BY <2>1, <2>4, <2>5, RowFacts, OneWider
  <2>7. Total(cols') = rowWidth
    BY <2>1, <2>6, RowFacts DEF w
  <2>8. \A j \in DOMAIN cols : cols'[j].width >= asked[j].width
    BY <1>1, <2>1, <2>3, <2>4, RowFacts
  <2>9. Roomy'
    BY <1>1, <2>4, <2>6, <2>7, <2>8, RowFacts DEF Roomy, Fits
  <2> QED
    BY <1>1, <2>4, <2>9 DEF LayoutInv
<1> QED
  BY <1>2, <1>3 DEF Widen

\* The rightmost of the columns that may go is the leftmost of those that have gone.
LEMMA DropInv ==
  ASSUME LayoutInv, Drop
  PROVE  LayoutInv'
<1> DEFINE d == Max(Droppable)
<1>1. /\ fitting = "drop" /\ fitting' = "drop" /\ ~Fits /\ UNCHANGED <<asked, rowWidth>>
      /\ cols' = [cols EXCEPT ![d].width = 0]
  BY DEF Drop
<1>2. Whole /\ Squeezed
  BY <1>1 DEF LayoutInv, Roomy
<1>3. d \in Droppable /\ \A j \in Droppable : d >= j
  <2>1. Droppable \subseteq 0..Len(cols) /\ Len(cols) \in Nat
    BY RowFacts, ShownColumns DEF Droppable
  <2> QED
    BY <2>1, MaxIsGreatest DEF Drop
<1> HIDE DEF d
<1>4. /\ d \in Shown(cols) /\ d \in DOMAIN cols /\ cols[d].min = 0
      /\ d \in Shown(asked) /\ asked[d].min = 0 /\ d \in Nat
  BY <1>2, <1>3, RowFacts, ShownColumns DEF Droppable, Squeezed
<1>5. /\ LayoutTypeOK' /\ Normalised'
      /\ cols' \in Seq(Column) /\ DOMAIN cols' = DOMAIN cols
      /\ cols'[d].width = 0 /\ \A j \in DOMAIN cols : j # d => cols'[j] = cols[j]
  <2>1. 0 \in Int /\ (cols[d].min > 0 => 0 >= cols[d].min)
    BY <1>4
  <2> QED
    BY <1>1, <1>4, <2>1, OneColumn
<1>6. Shown(cols') = Shown(cols) \ {d}
  BY <1>4, <1>5 DEF Shown
<1>7. Optional' = Optional /\ Gone' = Gone \cup {d}
  BY <1>1, <1>4, <1>6 DEF Gone, Optional
<1>8. Droppable = Optional \ Gone
  BY <1>2, RowFacts DEF Droppable, Optional, Gone, Squeezed, Shown
<1>9. \A g \in Gone : d < g
  <2>1. \A g \in Gone : g \in Nat /\ g # d
    BY <1>4, RowFacts, ShownColumns DEF Gone, Optional
  <2>2. d \in Optional /\ d \notin Gone
    BY <1>3, <1>8
  <2> QED
    BY <1>2, <1>4, <2>1, <2>2 DEF Squeezed
<1>10. Min(Gone') = d
  <2>1. Gone' \subseteq Nat /\ Gone' # {}
    BY <1>4, <1>7, RowFacts, ShownColumns DEF Gone, Optional
  <2>2. Min(Gone') \in Gone' /\ \A g \in Gone' : Min(Gone') =< g
    BY <2>1, MinIsLeast
  <2> QED
    BY <1>4, <1>7, <1>9, <2>1, <2>2
<1>11. Restored' = cols
  <2>1. cols[d] = asked[d]
    BY <1>2, <1>4 DEF Whole
  <2>2. Restored' = [cols' EXCEPT ![d] = asked[d]]
    BY <1>1, <1>10 DEF Restored
  <2>3. /\ DOMAIN Restored' = DOMAIN cols
        /\ \A j \in DOMAIN cols : Restored'[j] = cols[j]
    BY <1>5, <2>1, <2>2
  <2>4. Restored' \in Seq(Column)
    BY <1>4, <1>5, <2>1, <2>2, RowFacts
  <2> QED
    BY <2>3, <2>4, RowFacts
<1>12. Whole'
  BY <1>1, <1>2, <1>5, <1>6 DEF Whole, Shown
<1>13. Squeezed'
  <2>1. Shown(cols') \subseteq Shown(asked') /\ Shown(asked') \ Shown(cols') \subseteq Optional'
    BY <1>1, <1>2, <1>4, <1>6, <1>7 DEF Squeezed, Optional
  <2>2. \A i \in Gone' : \A j \in Optional' : j > i => j \in Gone'
    <3>1. ASSUME NEW i \in Gone', NEW j \in Optional, j > i PROVE j \in Gone'
      <4>1. CASE i \in Gone
        BY <1>2, <1>7, <3>1, <4>1 DEF Squeezed
      <4>2. CASE i = d
        <5>1. j \notin Droppable
          <6>1. j \in Nat
            BY RowFacts, ShownColumns DEF Optional
          <6> QED
            BY <1>3, <1>4, <3>1, <4>2, <6>1
        <5> QED
          BY <1>7, <1>8, <3>1, <5>1
      <4> QED
        BY <1>7, <3>1, <4>1, <4>2
    <3> QED
      BY <1>7, <3>1
  <2>3. Total(Restored') > rowWidth'
    BY <1>1, <1>11, RowFacts DEF Fits
  <2> QED
    BY <2>1, <2>2, <2>3, <1>12 DEF Squeezed
<1> QED
  BY <1>1, <1>5, <1>12, <1>13 DEF LayoutInv

\* Columns shrink only where none is left to go, and a row that was too wide has no
\* room for one that comes back.
LEMMA ShrinkInv ==
  ASSUME LayoutInv, Shrink
  PROVE  LayoutInv'
<1> DEFINE d == Max(Shrinkable)
<1>1. /\ fitting = "shrink" /\ fitting' = "shrink" /\ ~Fits /\ UNCHANGED <<asked, rowWidth>>
      /\ cols' = [cols EXCEPT ![d].width = @ - 1]
  BY DEF Shrink
<1>2. Squeezed /\ Gone = Optional
  BY <1>1 DEF LayoutInv, Roomy
<1>3. d \in Shrinkable
  <2>1. Shrinkable \subseteq 0..Len(cols) /\ Len(cols) \in Nat
    BY RowFacts DEF Shrinkable
  <2> QED
    BY <2>1, MaxIsGreatest DEF Shrink
<1> HIDE DEF d
<1>4. d \in DOMAIN cols /\ cols[d].width > cols[d].min /\ d \in Shown(cols)
  BY <1>3, RowFacts DEF Shrinkable, Shown
<1>5. cols[d].min > 0
  BY <1>2, <1>4, RowFacts DEF Squeezed, Gone, Optional, Shown
<1>6. cols[d].width - 1 \in Int /\ cols[d].width - 1 >= cols[d].min
  BY <1>4, RowFacts
<1>7. /\ LayoutTypeOK' /\ Normalised'
      /\ cols' \in Seq(Column) /\ DOMAIN cols' = DOMAIN cols
      /\ cols'[d].width = cols[d].width - 1
      /\ \A j \in DOMAIN cols : j # d => cols'[j] = cols[j]
  BY <1>1, <1>4, <1>6, OneColumn
<1>8. d \in Shown(cols')
  BY <1>4, <1>5, <1>6, <1>7, RowFacts DEF Shown
<1>9. /\ Shown(cols') = Shown(cols)
      /\ Total(cols') = Total(cols) + ((cols[d].width - 1) - cols[d].width)
  BY <1>4, <1>7, <1>8, RowFacts, OneWider
<1>10. Total(cols') \in Int /\ Total(cols') >= rowWidth
  BY <1>1, <1>4, <1>9, RowFacts DEF Fits
<1>11. Optional' = Optional /\ Gone' = Gone
  BY <1>1, <1>9 DEF Gone, Optional
<1>12. Gone # {} => Total(Restored') > rowWidth
  <2> SUFFICES ASSUME Gone # {} PROVE Total(Restored') > rowWidth
    OBVIOUS
  <2> DEFINE g == Min(Gone)
  <2>1. g \in Gone
    <3>1. Gone \subseteq Nat
      BY RowFacts, ShownColumns DEF Gone, Optional
    <3> QED
      BY <3>1, MinIsLeast
  <2>2. Restored' = [cols' EXCEPT ![g] = asked[g]]
    BY <1>1, <1>11 DEF Restored
  <2> HIDE DEF g
  <2>3. g \in DOMAIN cols' /\ g \notin Shown(cols') /\ asked[g].width > 0 /\ asked[g] \in Column
    BY <1>7, <1>9, <2>1, RowFacts DEF Gone, Optional, Shown
  <2>4. /\ Restored' \in Seq(Column) /\ DOMAIN Restored' = DOMAIN cols'
        /\ Restored'[g] = asked[g]
        /\ \A j \in DOMAIN cols' : j # g => Restored'[j].width = cols'[j].width
    BY <1>7, <2>2, <2>3
  <2>5. g \in Shown(Restored')
    BY <2>3, <2>4 DEF Shown
  <2>6. Total(Restored') > Total(cols')
    BY <1>7, <2>3, <2>4, <2>5, OneMoreColumn
  <2>7. Total(Restored') \in Int
    BY <2>4, TotalIs
  <2> QED
    BY <1>10, <2>6, <2>7, RowFacts
<1>13. Squeezed'
  <2>1. Shown(cols') \subseteq Shown(asked') /\ Shown(asked') \ Shown(cols') \subseteq Optional'
    BY <1>1, <1>2, <1>9, <1>11 DEF Squeezed
  <2>2. \A i \in Gone' : \A j \in Optional' : j > i => j \in Gone'
    BY <1>2, <1>11 DEF Squeezed
  <2>3. Gone' # {} => Total(Restored') > rowWidth'
    BY <1>1, <1>11, <1>12
  <2>4. Gone' = Optional' /\ Total(cols') >= rowWidth'
    BY <1>1, <1>2, <1>10, <1>11
  <2> QED
    BY <2>1, <2>2, <2>3, <2>4 DEF Squeezed
<1> QED
  BY <1>1, <1>2, <1>7, <1>11, <1>13 DEF LayoutInv

LEMMA LayoutNextInv == LayoutInv /\ [LayoutNext]_layoutVars => LayoutInv'
<1> SUFFICES ASSUME LayoutInv, [LayoutNext]_layoutVars PROVE LayoutInv'
  OBVIOUS
<1>1. ASSUME UNCHANGED <<asked, cols, rowWidth>>,
             fitting' \in {"widen", "drop", "shrink", "done"}
      PROVE  /\ LayoutTypeOK' /\ Normalised' /\ (Roomy' <=> Roomy) /\ (Squeezed' <=> Squeezed)
             /\ (Whole' <=> Whole) /\ (Fits' <=> Fits) /\ Gone' = Gone /\ Optional' = Optional
  <2>1. LayoutTypeOK' /\ Normalised'
    BY <1>1 DEF LayoutInv, LayoutTypeOK, MinimumsAreKept, Normalised
  <2>2. (Fits' <=> Fits) /\ Gone' = Gone /\ Optional' = Optional /\ Restored' = Restored
    BY <1>1 DEF Fits, Gone, Optional, Restored
  <2> QED
    BY <1>1, <2>1, <2>2 DEF Roomy, Squeezed, Whole
<1>2. CASE Dropped
  <2>1. fitting = "drop" /\ fitting' = "shrink" /\ UNCHANGED <<asked, cols, rowWidth>>
    BY <1>2 DEF Dropped
  <2>2. Fits \/ Gone = Optional
    BY <1>2, RowFacts DEF Dropped, Droppable, Gone, Optional, Shown
  <2> QED
    BY <1>1, <2>1, <2>2 DEF LayoutInv
<1>3. CASE Shrunk
  <2>1. fitting = "shrink" /\ fitting' = "done" /\ UNCHANGED <<asked, cols, rowWidth>>
    BY <1>3 DEF Shrunk
  <2>2. Fits \/ \A i \in DOMAIN cols : cols[i].width <= cols[i].min
    BY <1>3, RowFacts DEF Shrunk, Shrinkable
  <2> QED
    BY <1>1, <2>1, <2>2 DEF LayoutInv
<1>4. CASE UNCHANGED layoutVars
  <2>1. UNCHANGED <<asked, cols, rowWidth, fitting>>
    BY <1>4 DEF layoutVars
  <2>2. fitting' \in {"widen", "drop", "shrink", "done"}
    BY <2>1 DEF LayoutInv, LayoutTypeOK
  <2> QED
    BY <1>1, <2>1, <2>2 DEF LayoutInv
<1> QED
  BY <1>2, <1>3, <1>4, WidenInv, DropInv, ShrinkInv DEF LayoutNext

\* Every column keeps its type and its least width, whatever gives way
\* (layout.go:262-263).
THEOREM ColumnTypes == LayoutSpec => []LayoutTypeOK
<1>1. LayoutInv => LayoutTypeOK
  BY DEF LayoutInv
<1> QED
  BY <1>1, LayoutInitInv, LayoutNextInv, PTL DEF LayoutSpec

\* Columns give way from the right, none that there was room for, and none shrinks
\* before all that may go are gone (layout.go:273-276).
THEOREM ColumnsGiveWay == LayoutSpec => []ColumnsGiveWayInOrder
<1>1. LayoutInv => ColumnsGiveWayInOrder
  <2> SUFFICES ASSUME LayoutInv, fitting = "done" PROVE ColumnsGiveWayInOrder
    BY DEF ColumnsGiveWayInOrder
  <2>1. Fits \/ \A i \in DOMAIN cols : cols[i].width <= cols[i].min
    BY DEF LayoutInv
  <2>2. CASE Roomy
    <3>1. Gone = {}
      BY <2>2 DEF Roomy, Gone, Optional
    <3>2. \A i \in DOMAIN cols : cols[i].width >= asked[i].width
      BY <2>2 DEF Roomy
    <3>3. ~\E i \in DOMAIN cols : 0 < cols[i].width /\ cols[i].width < asked[i].width
      BY <3>2, RowFacts
    <3> QED
      BY <2>1, <3>1, <3>3 DEF ColumnsGiveWayInOrder, Gone, Optional
  <2>3. CASE Squeezed
    <3>1. (\E i \in DOMAIN cols : 0 < cols[i].width /\ cols[i].width < asked[i].width)
            => Gone = Optional
      BY <2>3, RowFacts DEF Squeezed, Whole, Shown
    <3> QED
      BY <2>1, <2>3, <3>1 DEF ColumnsGiveWayInOrder, Squeezed, Gone, Optional, Restored
  <2> QED
    BY <2>2, <2>3 DEF LayoutInv
<1> QED
  BY <1>1, LayoutInitInv, LayoutNextInv, PTL DEF LayoutSpec

\* How far a row is from fitted: the loops still to come, and the room it takes.
LoopsLeft == [widen |-> 3, drop |-> 2, shrink |-> 1, done |-> 0][fitting]
Closer ==
  LoopsLeft' < LoopsLeft \/ (LoopsLeft' = LoopsLeft /\ Total(cols') < Total(cols))

LEMMA RowTakesRoom == LayoutInv => LoopsLeft \in Nat /\ Total(cols) \in Nat
<1> SUFFICES ASSUME LayoutInv PROVE LoopsLeft \in Nat /\ Total(cols) \in Nat
  OBVIOUS
<1>1. LoopsLeft \in Nat
  BY DEF LoopsLeft, LayoutInv, LayoutTypeOK
<1> DEFINE w == [i \in DOMAIN cols |-> cols[i].width]
<1>2. IsFiniteSet(Shown(cols))
  BY RowFacts, ShownColumns
<1>3. \A i \in Shown(cols) : w[i] \in Nat
  BY RowFacts DEF Shown
<1>4. SumFunctionOnSet(w, Shown(cols)) \in Nat
  BY <1>2, <1>3, SumIsANatural
<1> DEFINE rest == Sep * Larger(Cardinality(Shown(cols)) - 1, 0)
<1>5. Total(cols) = Indent + SumFunctionOnSet(w, Shown(cols)) + rest /\ rest \in Nat
  BY RowFacts, TotalIs
<1> HIDE DEF w, rest
<1>6. Total(cols) \in Nat
  BY <1>4, <1>5, SpaceAssumption
<1> QED
  BY <1>1, <1>6

\* A column that goes takes its width along, and one that shrinks a cell.
LEMMA EveryTurnIsCloser == LayoutInv /\ [LayoutNext]_layoutVars => [Closer]_layoutVars
<1> SUFFICES ASSUME LayoutInv, LayoutNext PROVE Closer
  BY DEF Closer
<1>1. CASE Widen \/ Dropped \/ Shrunk
  BY <1>1 DEF Widen, Dropped, Shrunk, Closer, LoopsLeft
<1>2. CASE Drop
  <2> DEFINE d == Max(Droppable)
  <2>1. fitting = "drop" /\ fitting' = "drop" /\ cols' = [cols EXCEPT ![d].width = 0]
    BY <1>2 DEF Drop
  <2>2. d \in Droppable
    <3>1. Droppable \subseteq 0..Len(cols) /\ Len(cols) \in Nat
      BY RowFacts, ShownColumns DEF Droppable
    <3> QED
      BY <1>2, <3>1, MaxIsGreatest DEF Drop
  <2> HIDE DEF d
  <2>3. d \in Shown(cols) /\ d \in DOMAIN cols /\ cols[d].min = 0
    BY <2>2, RowFacts, ShownColumns DEF Droppable
  <2>4. /\ cols' \in Seq(Column) /\ DOMAIN cols' = DOMAIN cols
        /\ cols'[d].width = 0 /\ \A j \in DOMAIN cols : j # d => cols'[j] = cols[j]
    <3>1. 0 \in Int /\ (cols[d].min > 0 => 0 >= cols[d].min) /\ UNCHANGED <<asked, rowWidth>>
      BY <1>2, <2>3 DEF Drop
    <3> QED
      BY <2>1, <2>3, <3>1, OneColumn
  <2>5. d \notin Shown(cols')
    BY <2>4 DEF Shown
  <2>6. Total(cols') < Total(cols)
    <3>1. Total(cols) > Total(cols')
      BY <2>3, <2>4, <2>5, RowFacts, OneMoreColumn
    <3>2. Total(cols') \in Int /\ Total(cols) \in Int
      BY <2>4, RowFacts, TotalIs
    <3> QED
      BY <3>1, <3>2
  <2> QED
    BY <2>1, <2>6 DEF Closer, LoopsLeft
<1>3. CASE Shrink
  <2> DEFINE d == Max(Shrinkable)
  <2>1. /\ fitting = "shrink" /\ fitting' = "shrink" /\ ~Fits
        /\ cols' = [cols EXCEPT ![d].width = @ - 1] /\ UNCHANGED <<asked, rowWidth>>
    BY <1>3 DEF Shrink
  <2>2. d \in Shrinkable
    <3>1. Shrinkable \subseteq 0..Len(cols) /\ Len(cols) \in Nat
      BY RowFacts DEF Shrinkable
    <3> QED
      BY <1>3, <3>1, MaxIsGreatest DEF Shrink
  <2> HIDE DEF d
  <2>3. d \in DOMAIN cols /\ cols[d].width > cols[d].min /\ d \in Shown(cols)
    BY <2>2, RowFacts DEF Shrinkable, Shown
  <2>4. cols[d].min > 0
    <3>1. Squeezed /\ Gone = Optional
      BY <2>1 DEF LayoutInv, Roomy
    <3> QED
      BY <2>3, <3>1, RowFacts DEF Squeezed, Gone, Optional, Shown
  <2>5. cols[d].width - 1 \in Int /\ cols[d].width - 1 >= cols[d].min
    BY <2>3, RowFacts
  <2>6. /\ cols' \in Seq(Column) /\ DOMAIN cols' = DOMAIN cols
        /\ cols'[d].width = cols[d].width - 1
        /\ \A j \in DOMAIN cols : j # d => cols'[j] = cols[j]
    BY <2>1, <2>3, <2>5, OneColumn
  <2>7. d \in Shown(cols')
    BY <2>3, <2>4, <2>5, <2>6, RowFacts DEF Shown
  <2>8. Total(cols') = Total(cols) + ((cols[d].width - 1) - cols[d].width)
    BY <2>3, <2>6, <2>7, RowFacts, OneWider
  <2>9. Total(cols') < Total(cols)
    BY <2>3, <2>8, RowFacts
  <2> QED
    BY <2>1, <2>9 DEF Closer, LoopsLeft
<1> QED
  BY <1>1, <1>2, <1>3 DEF LayoutNext

\* The three loops end: every turn leaves one of them for the next, or leaves the row
\* with less to go, and neither can go on below nothing (layout.go:306-341).
THEOREM LoopsEnd ==
  LayoutSpec => [](LoopsLeft \in Nat /\ Total(cols) \in Nat) /\ [][Closer]_layoutVars
<1>1. LayoutInv => LoopsLeft \in Nat /\ Total(cols) \in Nat
  BY RowTakesRoom
<1>2. LayoutInv /\ [LayoutNext]_layoutVars => [Closer]_layoutVars
  BY EveryTurnIsCloser
<1> QED
  BY <1>1, <1>2, LayoutInitInv, LayoutNextInv, PTL DEF LayoutSpec

----------------------------------------------------------------------------
(* Reads.  A key names everything that its request says, so what is kept    *)
(* under a key is what the read would have asked for.                     *)

\* What is in one of the tables is in what they say together, and nothing else is.
LEMMA JoinedTables ==
  ASSUME NEW tables, NEW rd
  PROVE  /\ rd \in DOMAIN Joined(tables) <=> \E t \in tables : rd \in DOMAIN t
         /\ (\E t \in tables : rd \in DOMAIN t) =>
              \A p : p \in Joined(tables)[rd] <=>
                       \E t \in tables : rd \in DOMAIN t /\ p \in t[rd]
BY DEF Joined

\* A request says nothing that its key leaves out.
LEMMA NothingUnkeyed ==
  \A rd : rd \in DOMAIN Says =>
    rd \in DOMAIN KeyedBy /\ Says[rd] \subseteq KeyedBy[rd]
<1> DEFINE keyed == {AccountsKeyedBy, RunsKeyedBy, PullsKeyedBy, TalkKeyedBy, GatesKeyedBy,
                     [search |-> SearchKeyedBy], [review_threads |-> ThreadsKeyedBy]}
           say == {AccountsSay, RunsSay, PullsSay, TalkSay, PartsSay, GatesSay,
                   [logs |-> LogsSay], [checks |-> ChecksSay], [search |-> SearchSays],
                   [review_threads |-> ThreadsSay]}
<1>1. ASSUME NEW t \in say
      PROVE  \E u \in keyed :
               \A rd \in DOMAIN t : rd \in DOMAIN u /\ t[rd] \subseteq u[rd]
  <2>1. CASE t = AccountsSay
    BY <2>1 DEF AccountsSay, AccountsKeyedBy
  <2>2. CASE t = RunsSay
    <3>1. \A rd \in DOMAIN RunsSay :
            rd \in DOMAIN RunsKeyedBy /\ RunsSay[rd] \subseteq RunsKeyedBy[rd]
      BY DEF RunsSay, RunsKeyedBy
    <3> QED
      BY <2>2, <3>1
  <2>3. CASE t = PullsSay
    <3>1. \A rd \in DOMAIN PullsSay :
            rd \in DOMAIN PullsKeyedBy /\ PullsSay[rd] \subseteq PullsKeyedBy[rd]
      BY DEF PullsSay, PullsKeyedBy
    <3> QED
      BY <2>3, <3>1
  <2>4. CASE t = TalkSay
    BY <2>4 DEF TalkSay, TalkKeyedBy
  <2>5. CASE t = PartsSay
    <3>1. \A rd \in DOMAIN PartsSay :
            rd \in DOMAIN PullsKeyedBy /\ PartsSay[rd] \subseteq PullsKeyedBy[rd]
      BY DEF PartsSay, PullsKeyedBy
    <3> QED
      BY <2>5, <3>1
  <2>6. CASE t = GatesSay
    BY <2>6 DEF GatesSay, GatesKeyedBy
  <2>7. CASE t = [logs |-> LogsSay]
    <3>1. \A rd \in DOMAIN t :
            rd \in DOMAIN RunsKeyedBy /\ t[rd] \subseteq RunsKeyedBy[rd]
      BY <2>7 DEF LogsSay, RunsKeyedBy
    <3> QED
      BY <3>1
  <2>8. CASE t = [checks |-> ChecksSay]
    <3>1. \A rd \in DOMAIN t :
            rd \in DOMAIN PullsKeyedBy /\ t[rd] \subseteq PullsKeyedBy[rd]
      BY <2>8 DEF ChecksSay, PullsKeyedBy
    <3> QED
      BY <3>1
  <2>9. CASE t = [search |-> SearchSays]
    <3>1. [search |-> SearchKeyedBy] \in keyed
      OBVIOUS
    <3>2. SearchSays = SearchKeyedBy
      BY DEF SearchSays, SearchKeyedBy
    <3> QED
      BY <2>9, <3>1, <3>2
  <2>10. CASE t = [review_threads |-> ThreadsSay]
    <3>1. [review_threads |-> ThreadsKeyedBy] \in keyed
      OBVIOUS
    <3>2. ThreadsSay = ThreadsKeyedBy
      BY DEF ThreadsSay, ThreadsKeyedBy
    <3> QED
      BY <2>10, <3>1, <3>2
  <2> QED
    BY <2>1, <2>2, <2>3, <2>4, <2>5, <2>6, <2>7, <2>8, <2>9, <2>10
<1>2. KeyedBy = Joined(keyed) /\ Says = Joined(say)
  BY DEF KeyedBy, Says
<1> HIDE DEF keyed, say
<1> SUFFICES ASSUME NEW rd, rd \in DOMAIN Says
             PROVE  rd \in DOMAIN KeyedBy /\ \A p \in Says[rd] : p \in KeyedBy[rd]
  OBVIOUS
<1>3. PICK t \in say : rd \in DOMAIN t
  BY <1>2, JoinedTables
<1>4. rd \in DOMAIN Joined(keyed)
  BY <1>1, <1>3, JoinedTables
<1>5. ASSUME NEW p \in Joined(say)[rd] PROVE p \in Joined(keyed)[rd]
  <2>1. PICK u \in say : rd \in DOMAIN u /\ p \in u[rd]
    BY <1>3, JoinedTables
  <2>2. PICK k \in keyed : rd \in DOMAIN k /\ u[rd] \subseteq k[rd]
    BY <1>1, <2>1
  <2> QED
    BY <2>1, <2>2, JoinedTables
<1> QED
  BY <1>2, <1>4, <1>5

\* Two calls with the same key ask the same.
LEMMA SameKeySaysTheSame ==
  ASSUME NEW r \in DOMAIN Says, NEW s \in DOMAIN Says, NEW x, NEW y, KeyOf(r, x) = KeyOf(s, y)
  PROVE  r = s /\ Saying(r, x) = Saying(s, y)
<1> DEFINE dx == Defaulted(x)
           dy == Defaulted(y)
<1>1. r = s /\ Part(dx, KeyedBy[r]) = Part(dy, KeyedBy[r])
  BY DEF KeyOf
<1> HIDE DEF dx, dy
<1>2. \A p \in KeyedBy[r] : dx[p] = dy[p]
  BY <1>1 DEF Part
<1>3. \A p \in Says[r] : dx[p] = dy[p]
  BY <1>2, NothingUnkeyed
<1>4. Part(dx, Says[r]) = Part(dy, Says[r])
  BY <1>3 DEF Part
<1> QED
  BY <1>1, <1>4 DEF Saying, dx, dy

\* The reads of the program all say something.
LEMMA EveryReadSays == \A rd \in DOMAIN KeyedBy : rd \in DOMAIN Says
<1> DEFINE keyed == {AccountsKeyedBy, RunsKeyedBy, PullsKeyedBy, TalkKeyedBy, GatesKeyedBy,
                     [search |-> SearchKeyedBy], [review_threads |-> ThreadsKeyedBy]}
           say == {AccountsSay, RunsSay, PullsSay, TalkSay, PartsSay, GatesSay,
                   [logs |-> LogsSay], [checks |-> ChecksSay], [search |-> SearchSays],
                   [review_threads |-> ThreadsSay]}
<1>1. ASSUME NEW k \in keyed, NEW rd \in DOMAIN k
      PROVE  \E t \in say : rd \in DOMAIN t
  <2>1. CASE k = AccountsKeyedBy
    BY <2>1 DEF AccountsSay, AccountsKeyedBy
  <2>2. CASE k = RunsKeyedBy
    <3>1. rd \in DOMAIN RunsSay \/ rd \in DOMAIN [logs |-> LogsSay]
      BY <2>2 DEF RunsKeyedBy, RunsSay
    <3> QED
      BY <3>1
  <2>3. CASE k = PullsKeyedBy
    <3>1. \/ rd \in DOMAIN PullsSay \/ rd \in DOMAIN PartsSay
          \/ rd \in DOMAIN [checks |-> ChecksSay]
      BY <2>3 DEF PullsKeyedBy, PullsSay, PartsSay
    <3> QED
      BY <3>1
  <2>4. CASE k = TalkKeyedBy
    BY <2>4 DEF TalkSay, TalkKeyedBy
  <2>5. CASE k = GatesKeyedBy
    BY <2>5 DEF GatesSay, GatesKeyedBy
  <2>6. CASE k = [search |-> SearchKeyedBy]
    <3>1. rd \in DOMAIN [search |-> SearchSays]
      BY <2>6
    <3> QED
      BY <3>1
  <2>7. CASE k = [review_threads |-> ThreadsKeyedBy]
    <3>1. rd \in DOMAIN [review_threads |-> ThreadsSay]
      BY <2>7
    <3> QED
      BY <3>1
  <2> QED
    BY <2>1, <2>2, <2>3, <2>4, <2>5, <2>6, <2>7
<1>2. KeyedBy = Joined(keyed) /\ Says = Joined(say)
  BY DEF KeyedBy, Says
<1> HIDE DEF keyed, say
<1> QED
  BY <1>1, <1>2, JoinedTables

\* The checks that are shown are a choice among the functions that take them in one by
\* one: the greatest place of a set comes last.
CheckStep(runs, g, D) ==
  [s \in D |-> IF s = {} THEN <<>> ELSE TakeCheck(g[s \ {Max(s)}], runs[Max(s)])]

LEMMA ShownIsAChoice ==
  ASSUME NEW runs
  PROVE  FoldLeft(TakeCheck, <<>>, runs) =
           (CHOOSE g : g = CheckStep(runs, g, SUBSET DOMAIN runs))[DOMAIN runs]
BY DEF FoldLeft, MapThenFoldSet, CheckStep

\* There is one, which is built up from the smaller sets of places.
LEMMA ChecksAreTakenInOrder ==
  ASSUME NEW S, NEW runs \in Seq(S)
  PROVE  \E g : /\ g = CheckStep(runs, g, SUBSET (1..Len(runs)))
                /\ Reduced(runs).shown = g[1..Len(runs)]
<1> DEFINE N == Len(runs)
           places == 1..N
           D(n) == {s \in SUBSET places : Cardinality(s) <= n}
           P == {n \in Nat : \E g : g = CheckStep(runs, g, D(n))}
<1>a. N \in Nat /\ DOMAIN runs = places
  BY LenProperties
<1>b. IsFiniteSet(places) /\ Cardinality(places) \in Nat
  BY <1>a, FS_Interval, FS_CardinalityType
<1>0. \A s \in SUBSET places : IsFiniteSet(s) /\ Cardinality(s) \in Nat
  BY <1>b, FS_Subset, FS_CardinalityType
<1>c. \A s \in SUBSET places : s # {} => Max(s) \in s
  <2>1. \A s \in SUBSET places : s \subseteq 0..N
    BY <1>a
  <2> QED
    BY <1>a, <2>1, MaxIsGreatest
<1> HIDE DEF places
<1>1. \A n \in Nat : \A s \in D(n + 1) : s # {} => s \ {Max(s)} \in D(n)
  BY <1>0, <1>c, FS_RemoveElement
<1>2. 0 \in P
  <2>1. \A s \in D(0) : s = {}
    BY <1>0, FS_EmptySet
  <2> DEFINE g == [s \in D(0) |-> <<>>]
  <2>2. g = CheckStep(runs, g, D(0))
    BY <2>1 DEF CheckStep
  <2> QED
    BY <2>2
<1>3. ASSUME NEW n \in Nat, n \in P
      PROVE  n + 1 \in P
  <2>1. PICK g : g = CheckStep(runs, g, D(n))
    BY <1>3
  <2> DEFINE h == CheckStep(runs, g, D(n + 1))
  <2>2. D(n) \subseteq D(n + 1)
    BY <1>0
  <2> HIDE DEF D
  <2>3. \A s \in D(n) : h[s] = g[s]
    BY <2>1, <2>2 DEF CheckStep
  <2>4. h = CheckStep(runs, h, D(n + 1))
    BY <1>1, <2>3 DEF CheckStep
  <2> QED
    BY <2>4
<1>4. Cardinality(places) \in P
  BY <1>b, <1>2, <1>3, EveryNumber
<1>5. D(Cardinality(places)) = SUBSET places
  BY <1>b, FS_Subset
<1>6. \E g : g = CheckStep(runs, g, SUBSET places)
  BY <1>4, <1>5
<1> DEFINE g == CHOOSE x : x = CheckStep(runs, x, SUBSET places)
<1>7. g = CheckStep(runs, g, SUBSET places)
  BY <1>6
<1>8. Reduced(runs).shown = g[places]
  BY <1>a, ShownIsAChoice DEF Reduced
<1> QED
  BY <1>7, <1>8 DEF places

\* A check of the API.
CheckRun == [name : STRING, at : Int, id : Int]

\* What is shown of the first n checks: the latest of each name, and a name stands
\* before another when it came in first.
LatestOfEach(runs, latest, n) ==
  /\ latest \in Seq(CheckRun)
  /\ \A i \in 1..n : \E k \in DOMAIN latest :
       latest[k].name = runs[i].name /\ ~Later(runs[i], latest[k])
  /\ \A k \in DOMAIN latest : \E i \in 1..n : runs[i].name = latest[k].name
  /\ \A k, l \in DOMAIN latest : k < l =>
       \E i \in 1..n : /\ runs[i].name = latest[k].name
                       /\ \A j \in 1..i : runs[j].name # latest[l].name

\* Taking in one more check keeps what is shown the latest of each.
LEMMA OneMoreCheck ==
  ASSUME NEW runs \in Seq(CheckRun), NEW n \in Nat, n < Len(runs), NEW latest,
         LatestOfEach(runs, latest, n)
  PROVE  LatestOfEach(runs, TakeCheck(latest, runs[n + 1]), n + 1)
<1> DEFINE r == runs[n + 1]
           next == TakeCheck(latest, r)
<1>1. r \in CheckRun /\ \A i \in 1..n + 1 : runs[i] \in CheckRun
  BY ElementOfSeq, LenProperties
<1>2. latest \in Seq(CheckRun) /\ Len(latest) \in Nat /\ DOMAIN latest = 1..Len(latest)
  BY LenProperties DEF LatestOfEach
<1>3. \A k \in DOMAIN latest : latest[k] \in CheckRun
  BY <1>2, ElementOfSeq
<1>4. CASE \E i \in DOMAIN latest : latest[i].name = r.name
  <2>1. next = [i \in DOMAIN latest |->
                  IF latest[i].name = r.name /\ Later(r, latest[i]) THEN r ELSE latest[i]]
    BY <1>4 DEF TakeCheck
  <2>2. DOMAIN next = DOMAIN latest /\ next \in [1..Len(latest) -> CheckRun]
    BY <1>1, <1>2, <1>3, <2>1
  <2>3. next \in Seq(CheckRun)
    BY <1>2, <2>2, SeqDef
  <2>4. \A k \in DOMAIN latest : next[k].name = latest[k].name
    BY <2>1
  <2>5. ASSUME NEW i \in 1..n + 1
        PROVE  \E k \in DOMAIN latest : next[k].name = runs[i].name /\ ~Later(runs[i], next[k])
    <3>1. CASE i \in 1..n
      <4>1. PICK k \in DOMAIN latest : latest[k].name = runs[i].name /\ ~Later(runs[i], latest[k])
        BY <3>1 DEF LatestOfEach
      <4>2. runs[i] \in CheckRun /\ latest[k] \in CheckRun
        BY <1>1, <1>3
      <4>3. Later(r, latest[k]) => ~Later(runs[i], r)
        BY <1>1, <4>1, <4>2 DEF Later, CheckRun
      <4>4. next[k] = latest[k] \/ (next[k] = r /\ Later(r, latest[k]))
        BY <2>1
      <4>5. ~Later(runs[i], next[k])
        BY <4>1, <4>3, <4>4
      <4> QED
        BY <2>4, <4>1, <4>5
    <3>2. CASE i = n + 1
      <4>1. PICK k \in DOMAIN latest : latest[k].name = r.name
        BY <1>4
      <4>2. ~Later(r, r)
        BY <1>1 DEF Later, CheckRun
      <4>3. next[k] = r \/ (next[k] = latest[k] /\ ~Later(r, latest[k]))
        BY <2>1, <4>1
      <4>4. ~Later(r, next[k])
        BY <4>2, <4>3
      <4> QED
        BY <2>4, <3>2, <4>1, <4>4
    <3> QED
      BY <3>1, <3>2
  <2>6. \A k \in DOMAIN latest : \E i \in 1..n + 1 : runs[i].name = next[k].name
    <3>1. \A i \in 1..n : i \in 1..n + 1
      OBVIOUS
    <3> QED
      BY <2>4, <3>1 DEF LatestOfEach
  <2>7. ASSUME NEW k \in DOMAIN latest, NEW l \in DOMAIN latest, k < l
        PROVE  \E i \in 1..n + 1 : /\ runs[i].name = next[k].name
                                   /\ \A j \in 1..i : runs[j].name # next[l].name
    <3>1. PICK i \in 1..n : /\ runs[i].name = latest[k].name
                            /\ \A j \in 1..i : runs[j].name # latest[l].name
      BY <2>7 DEF LatestOfEach
    <3>2. i \in 1..n + 1
      OBVIOUS
    <3> QED
      BY <2>4, <3>1, <3>2
  <2> HIDE DEF next
  <2>8. \A i \in 1..n + 1 : \E k \in DOMAIN next :
          next[k].name = runs[i].name /\ ~Later(runs[i], next[k])
    BY <2>2, <2>5
  <2>9. \A k \in DOMAIN next : \E i \in 1..n + 1 : runs[i].name = next[k].name
    BY <2>2, <2>6
  <2>10. \A k, l \in DOMAIN next : k < l =>
           \E i \in 1..n + 1 : /\ runs[i].name = next[k].name
                               /\ \A j \in 1..i : runs[j].name # next[l].name
    BY <2>2, <2>7
  <2>11. LatestOfEach(runs, next, n + 1)
    BY <2>3, <2>8, <2>9, <2>10, Zenon DEF LatestOfEach
  <2> QED
    BY <2>11 DEF next
<1>5. CASE \A i \in DOMAIN latest : latest[i].name # r.name
  <2>1. next = Append(latest, r)
    BY <1>5 DEF TakeCheck
  <2>2. /\ next \in Seq(CheckRun) /\ DOMAIN next = 1..Len(latest) + 1
        /\ next[Len(latest) + 1] = r /\ \A k \in 1..Len(latest) : next[k] = latest[k]
    <3>1. next \in Seq(CheckRun) /\ Len(next) = Len(latest) + 1
      BY <1>1, <1>2, <2>1, AppendProperties
    <3> QED
      BY <1>1, <1>2, <2>1, <3>1, AppendProperties, LenProperties
  <2>3. ASSUME NEW i \in 1..n + 1
        PROVE  \E k \in DOMAIN next : next[k].name = runs[i].name /\ ~Later(runs[i], next[k])
    <3>1. CASE i \in 1..n
      <4>1. PICK k \in DOMAIN latest : latest[k].name = runs[i].name /\ ~Later(runs[i], latest[k])
        BY <3>1 DEF LatestOfEach
      <4>2. k \in DOMAIN next /\ next[k] = latest[k]
        BY <1>2, <2>2
      <4> QED
        BY <4>1, <4>2
    <3>2. CASE i = n + 1
      <4>1. ~Later(r, r) /\ Len(latest) + 1 \in DOMAIN next
        BY <1>1, <1>2, <2>2 DEF Later, CheckRun
      <4> QED
        BY <2>2, <3>2, <4>1
    <3> QED
      BY <3>1, <3>2
  <2>4. ASSUME NEW k \in DOMAIN next
        PROVE  \E i \in 1..n + 1 : runs[i].name = next[k].name
    <3>1. CASE k \in 1..Len(latest)
      <4>1. PICK i \in 1..n : runs[i].name = latest[k].name
        BY <1>2, <3>1 DEF LatestOfEach
      <4> QED
        BY <2>2, <3>1, <4>1
    <3>2. CASE k = Len(latest) + 1
      <4>1. n + 1 \in 1..n + 1
        OBVIOUS
      <4> QED
        BY <2>2, <3>2, <4>1
    <3> QED
      BY <1>2, <2>2, <3>1, <3>2
  <2>5. ASSUME NEW k \in DOMAIN next, NEW l \in DOMAIN next, k < l
        PROVE  \E i \in 1..n + 1 : /\ runs[i].name = next[k].name
                                   /\ \A j \in 1..i : runs[j].name # next[l].name
    <3>1. k \in DOMAIN latest /\ next[k] = latest[k]
      BY <1>2, <2>2, <2>5
    <3>2. CASE l \in 1..Len(latest)
      <4>1. PICK i \in 1..n : /\ runs[i].name = latest[k].name
                              /\ \A j \in 1..i : runs[j].name # latest[l].name
        BY <1>2, <2>5, <3>1, <3>2 DEF LatestOfEach
      <4>2. i \in 1..n + 1 /\ next[l] = latest[l]
        BY <2>2, <3>2
      <4> QED
        BY <3>1, <4>1, <4>2
    <3>3. CASE l = Len(latest) + 1
      <4>1. PICK i \in 1..n : runs[i].name = latest[k].name
        BY <3>1 DEF LatestOfEach
      <4>2. \A j \in 1..n : runs[j].name # r.name
        BY <1>5 DEF LatestOfEach
      <4>3. i \in 1..n + 1 /\ \A j \in 1..i : j \in 1..n
        OBVIOUS
      <4> QED
        BY <2>2, <3>1, <3>3, <4>1, <4>2, <4>3
    <3> QED
      BY <1>2, <2>2, <3>2, <3>3
  <2> QED
    BY <2>2, <2>3, <2>4, <2>5 DEF LatestOfEach
<1> QED
  BY <1>4, <1>5

\* So what is shown of the checks of a commit is the latest of each name.
LEMMA ShownAreTheLatest ==
  ASSUME NEW runs \in Seq(CheckRun)
  PROVE  LatestOfEach(runs, Reduced(runs).shown, Len(runs))
<1>1. Len(runs) \in Nat
  BY LenProperties
<1>2. PICK g : /\ g = CheckStep(runs, g, SUBSET (1..Len(runs)))
               /\ Reduced(runs).shown = g[1..Len(runs)]
  BY ChecksAreTakenInOrder
<1> DEFINE P == {n \in Nat : n <= Len(runs) => LatestOfEach(runs, g[1..n], n)}
<1>3. 0 \in P
  <2>1. g[{}] = <<>>
    BY <1>2 DEF CheckStep
  <2>2. 1..0 = {}
    OBVIOUS
  <2>3. <<>> \in Seq(CheckRun) /\ DOMAIN <<>> = {}
    OBVIOUS
  <2>4. LatestOfEach(runs, <<>>, 0)
    BY <2>2, <2>3 DEF LatestOfEach
  <2> QED
    BY <2>1, <2>2, <2>4
<1>4. ASSUME NEW n \in Nat, n \in P PROVE n + 1 \in P
  <2> SUFFICES ASSUME n + 1 <= Len(runs) PROVE LatestOfEach(runs, g[1..n + 1], n + 1)
    OBVIOUS
  <2>1. LatestOfEach(runs, g[1..n], n) /\ n < Len(runs)
    BY <1>1, <1>4
  <2> DEFINE s == 1..n + 1
  <2>2. /\ s \in SUBSET (1..Len(runs)) /\ s \subseteq 0..n + 1 /\ n + 1 \in s
        /\ \A y \in s : y <= n + 1
    BY <1>1
  <2> HIDE DEF s
  <2>s. s # {} /\ n + 1 \in Nat
    BY <2>2
  <2>3. Max(s) = n + 1
    <3>1. Max(s) \in s /\ \A y \in s : Max(s) >= y
      BY <2>2, <2>s, MaxIsGreatest
    <3>2. Max(s) \in 0..n + 1
      BY <2>2, <3>1
    <3> QED
      BY <2>2, <3>1, <3>2
  <2>4. s \ {n + 1} = 1..n
    BY DEF s
  <2>5. g[s] = TakeCheck(g[s \ {Max(s)}], runs[Max(s)])
    BY <1>2, <2>2, <2>s DEF CheckStep
  <2>6. g[s] = TakeCheck(g[1..n], runs[n + 1])
    BY <2>3, <2>4, <2>5
  <2>7. LatestOfEach(runs, TakeCheck(g[1..n], runs[n + 1]), n + 1)
    BY <2>1, OneMoreCheck
  <2> QED
    BY <2>6, <2>7 DEF s
<1> HIDE DEF P
<1>5. Len(runs) \in P
  BY <1>1, <1>3, <1>4, EveryNumber
<1> QED
  BY <1>1, <1>2, <1>5 DEF P

\* What is kept was said by a call with its key, and what was answered was asked.
ReadsInv ==
  /\ \A e \in keptReads : \E rd \in DOMAIN ArgsOf : \E args \in ArgsOf[rd] :
       /\ e.key = KeyOf(rd, args) /\ e.said = Saying(rd, args)
       /\ \E r \in DOMAIN ArgsOf : e.body \in Bodies(r)
  /\ \A e, f \in keptReads : e.key = f.key => e = f
  /\ spent \in BOOLEAN
  /\ answered # NoAnswer =>
       /\ answered.read \in DOMAIN ArgsOf
       /\ answered.said = Saying(answered.read, answered.args)
       /\ \E r \in DOMAIN ArgsOf : answered.body \in Bodies(r)

LEMMA ReadsInitInv == ReadsInit => ReadsInv
BY DEF ReadsInit, ReadsInv

LEMMA ReadsNextInv == ReadsInv /\ [ReadsNext]_readVars => ReadsInv'
<1> SUFFICES ASSUME ReadsInv, [ReadsNext]_readVars PROVE ReadsInv'
  OBVIOUS
<1>1. ASSUME NEW rd \in DOMAIN ArgsOf, NEW args \in ArgsOf[rd], Hit(rd, args)
      PROVE  ReadsInv'
  <2>1. PICK e \in Held(rd, args) : Gives(rd, args, e.said, e.body)
    BY <1>1 DEF Hit
  <2>2. e \in keptReads /\ e.key = KeyOf(rd, args)
    BY DEF Held
  <2>3. PICK r \in DOMAIN ArgsOf : \E x \in ArgsOf[r] :
          /\ e.key = KeyOf(r, x) /\ e.said = Saying(r, x)
          /\ \E k \in DOMAIN ArgsOf : e.body \in Bodies(k)
    BY <2>2 DEF ReadsInv
  <2>4. PICK x \in ArgsOf[r] : /\ e.key = KeyOf(r, x) /\ e.said = Saying(r, x)
                               /\ \E k \in DOMAIN ArgsOf : e.body \in Bodies(k)
    BY <2>3
  <2>5. r \in DOMAIN Says /\ rd \in DOMAIN Says
    BY ArgsAssumption, EveryReadSays
  <2>6. e.said = Saying(rd, args)
    <3>1. KeyOf(r, x) = KeyOf(rd, args)
      BY <2>2, <2>4
    <3>2. Saying(r, x) = Saying(rd, args)
      BY <2>5, <3>1, SameKeySaysTheSame
    <3> QED
      BY <2>4, <3>2
  <2>7. /\ answered'.read = rd /\ answered'.args = args
        /\ answered'.said = e.said /\ answered'.body = e.body
    BY <2>1 DEF Gives
  <2> QED
    BY <1>1, <2>4, <2>6, <2>7 DEF Hit, ReadsInv
<1>2. ASSUME NEW rd \in DOMAIN ArgsOf, NEW args \in ArgsOf[rd], Fetch(rd, args)
      PROVE  ReadsInv'
  <2>1. PICK body \in Bodies(rd) :
          /\ keptReads' = keptReads \cup
               {[key |-> KeyOf(rd, args), said |-> Saying(rd, args), body |-> body]}
          /\ Gives(rd, args, Saying(rd, args), body)
    BY <1>2 DEF Fetch
  <2>2. /\ answered'.read = rd /\ answered'.args = args
        /\ answered'.said = Saying(rd, args) /\ answered'.body = body
    BY <2>1 DEF Gives
  <2> DEFINE new == [key |-> KeyOf(rd, args), said |-> Saying(rd, args), body |-> body]
  <2>3. /\ keptReads' = keptReads \cup {new}
        /\ new.key = KeyOf(rd, args) /\ new.said = Saying(rd, args) /\ new.body = body
    BY <2>1
  <2>4. \A e \in keptReads : e.key # new.key
    BY <1>2, <2>3 DEF Fetch, Held
  <2> HIDE DEF new
  <2>5. \A e, f \in keptReads' : e.key = f.key => e = f
    BY <2>3, <2>4 DEF ReadsInv
  <2>6. ASSUME NEW e \in keptReads'
        PROVE  \E rd2 \in DOMAIN ArgsOf : \E x \in ArgsOf[rd2] :
                 /\ e.key = KeyOf(rd2, x) /\ e.said = Saying(rd2, x)
                 /\ \E r \in DOMAIN ArgsOf : e.body \in Bodies(r)
    BY <2>1, <2>3, <2>6 DEF ReadsInv
  <2>7. spent' \in BOOLEAN
    BY <1>2 DEF Fetch, SpentAfter, ReadsInv
  <2> QED
    BY <2>1, <2>2, <2>5, <2>6, <2>7 DEF ReadsInv
<1>3. ASSUME NEW rd \in DOMAIN ArgsOf, NEW args \in ArgsOf[rd],
             FetchFails(rd, args) \/ Refused(rd, args)
      PROVE  ReadsInv'
  BY <1>3 DEF FetchFails, Refused, SpentAfter, ReadsInv
<1>4. CASE Forgotten \/ WindowResets \/ UNCHANGED readVars
  BY <1>4 DEF Forgotten, WindowResets, readVars, ReadsInv
<1> QED
  BY <1>1, <1>2, <1>3, <1>4 DEF ReadsNext

LEMMA ReadsSafe == ReadsInv => ReadsTypeOK /\ AnsweredAsAsked
<1> SUFFICES ASSUME ReadsInv PROVE ReadsTypeOK /\ AnsweredAsAsked
  OBVIOUS
<1>1. ReadsTypeOK
  <2>1. \A rd, args : KeyOf(rd, args)[1] = rd
    BY DEF KeyOf
  <2> QED
    BY <2>1 DEF ReadsInv, ReadsTypeOK
<1>2. ASSUME answered # NoAnswer PROVE AnsweredAsAsked
  <2> DEFINE given == answered.body.listed
             latest == answered.body.shown
             places(name) == {i \in DOMAIN given : given[i].name = name}
             First(name) == CHOOSE i \in DOMAIN given :
                              given[i].name = name /\ \A j \in 1..i - 1 : given[j].name # name
  <2>1. /\ given \in Seq(CheckRun) /\ LatestOfEach(given, latest, Len(given))
    <3>1. PICK r \in DOMAIN ArgsOf : answered.body \in Bodies(r)
      BY <1>2 DEF ReadsInv
    <3>2. CASE r = "checks"
      <4>1. PICK runs \in CheckLists : answered.body = Reduced(runs)
        BY <3>1, <3>2 DEF Bodies
      <4>2. runs \in Seq(CheckRun) /\ Reduced(runs).listed = runs
        BY ChecksAssumption DEF CheckRun, Reduced
      <4> QED
        BY <4>1, <4>2, ShownAreTheLatest
    <3>3. CASE r # "checks"
      <4>1. answered.body = NoBody
        BY <3>1, <3>3 DEF Bodies
      <4>2. given = <<>> /\ latest = <<>>
        BY <4>1 DEF NoBody
      <4>3. <<>> \in Seq(CheckRun) /\ DOMAIN <<>> = {} /\ 1..Len(<<>>) = {}
        OBVIOUS
      <4> HIDE DEF given, latest
      <4> QED
        BY <4>2, <4>3 DEF LatestOfEach
    <3> QED
      BY <3>2, <3>3
  <2>2. Len(given) \in Nat /\ DOMAIN given = 1..Len(given)
    BY <2>1, LenProperties
  <2> HIDE DEF given, latest
  <2>3. ASSUME NEW k \in DOMAIN latest
        PROVE  /\ First(latest[k].name) \in DOMAIN given
               /\ given[First(latest[k].name)].name = latest[k].name
               /\ \A j \in 1..First(latest[k].name) - 1 : given[j].name # latest[k].name
    <3> DEFINE name == latest[k].name
    <3>1. places(name) \subseteq Nat /\ places(name) # {}
      <4>1. PICK i \in 1..Len(given) : given[i].name = name
        BY <2>1 DEF LatestOfEach
      <4>2. i \in places(name)
        BY <2>2, <4>1
      <4>3. places(name) \subseteq Nat
        BY <2>2
      <4> QED
        BY <4>2, <4>3
    <3> DEFINE m == Min(places(name))
    <3>2. m \in places(name) /\ \A y \in places(name) : m =< y
      BY <3>1, MinIsLeast
    <3> HIDE DEF m
    <3>3. m \in 1..Len(given) /\ \A j \in 1..m - 1 : j \in 1..Len(given) /\ j < m
      BY <2>2, <3>2
    <3>4. \A j \in 1..m - 1 : given[j].name # name
      <4>1. \A j \in 1..m - 1 : j \notin places(name)
        BY <3>1, <3>2, <3>3
      <4> QED
        BY <2>2, <3>3, <4>1
    <3>5. \E i \in DOMAIN given :
            given[i].name = name /\ \A j \in 1..i - 1 : given[j].name # name
      BY <3>2, <3>4
    <3> HIDE DEF name
    <3> QED
      BY <3>5 DEF name
  <2>4. ASSUME NEW k \in DOMAIN latest, NEW l \in DOMAIN latest, k < l
        PROVE  First(latest[k].name) < First(latest[l].name)
    <3> DEFINE x == First(latest[k].name)
               y == First(latest[l].name)
    <3>1. PICK i \in 1..Len(given) : /\ given[i].name = latest[k].name
                                      /\ \A j \in 1..i : given[j].name # latest[l].name
      BY <2>1, <2>4 DEF LatestOfEach
    <3>2. /\ x \in 1..Len(given) /\ \A j \in 1..x - 1 : given[j].name # latest[k].name
          /\ y \in 1..Len(given) /\ given[y].name = latest[l].name
      BY <2>2, <2>3
    <3> HIDE DEF x, y, First
    <3>3. y \notin 1..i /\ i \notin 1..x - 1
      BY <3>1, <3>2
    <3> QED
      BY <2>2, <3>1, <3>2, <3>3 DEF x, y
  <2>5. \A i \in DOMAIN given : \E k \in DOMAIN latest :
          latest[k].name = given[i].name /\ ~Later(given[i], latest[k])
    BY <2>1, <2>2 DEF LatestOfEach
  <2> QED
    BY <1>2, <2>4, <2>5 DEF AnsweredAsAsked, ReadsInv, given, latest
<1>3. CASE answered = NoAnswer
  BY <1>1, <1>3 DEF AnsweredAsAsked
<1> QED
  BY <1>1, <1>2, <1>3

\* The entries kept and the call that returned last have their types.
THEOREM ReadTypes == ReadsSpec => []ReadsTypeOK
<1> QED
  BY ReadsInitInv, ReadsNextInv, ReadsSafe, PTL DEF ReadsSpec

\* A read is answered with what it asked for, whatever was asked before it, and of the
\* checks of a commit it is the latest of each name, in the order the names came in
\* (the keys of rest.go and search.go; filterLatestCheckRuns, rest.go).
THEOREM AsAsked == ReadsSpec => []AnsweredAsAsked
<1> QED
  BY ReadsInitInv, ReadsNextInv, ReadsSafe, PTL DEF ReadsSpec

----------------------------------------------------------------------------
(* All of them together.  A part that runs leaves the variables of the     *)
(* others alone, and one that does not run stays where it started, so that *)
(* a behaviour of the parts is a behaviour of each.                        *)

\* Every part starts where it starts alone.
LEMMA PartsStart ==
  PartsInit =>
    /\ RoutesInit /\ FiltersInit /\ KeysInit /\ LayoutInit /\ LogsInit
    /\ SegmentsInit /\ SearchInit /\ ConversationInit /\ ReadsInit /\ IssuesInit
  BY DEF PartsInit

\* A step is a step of one part and a stutter of every other one.
LEMMA PartsStep ==
  ASSUME [PartsNext]_partsVars
  PROVE  /\ [RoutesNext]_routeVars /\ [FiltersNext]_filterVars /\ [KeysNext]_keyVars
         /\ [LayoutNext]_layoutVars /\ [LogsNext]_logsVars /\ [SegmentsNext]_segmentVars
         /\ [SearchNext]_searchVars /\ [ConversationNext]_conversationVars
         /\ [ReadsNext]_readVars /\ [IssuesNext]_issueVars
  BY DEF PartsNext, partsVars

\* Each part does in company what it does alone, so that what is proved of a part (the
\* theorems above) is true of what the runs of MCParts check.
THEOREM PartsKeepToThemselves ==
  PartsSpec =>
    /\ RoutesSpec /\ FiltersSpec /\ KeysSpec /\ LayoutSpec /\ LogsSpec
    /\ SegmentsSpec /\ SearchSpec /\ ConversationSpec /\ ReadsSpec /\ IssuesSpec
<1>1. PartsInit =>
        /\ RoutesInit /\ FiltersInit /\ KeysInit /\ LayoutInit /\ LogsInit
        /\ SegmentsInit /\ SearchInit /\ ConversationInit /\ ReadsInit /\ IssuesInit
  BY PartsStart
<1>2. [PartsNext]_partsVars =>
        /\ [RoutesNext]_routeVars /\ [FiltersNext]_filterVars /\ [KeysNext]_keyVars
        /\ [LayoutNext]_layoutVars /\ [LogsNext]_logsVars /\ [SegmentsNext]_segmentVars
        /\ [SearchNext]_searchVars /\ [ConversationNext]_conversationVars
        /\ [ReadsNext]_readVars /\ [IssuesNext]_issueVars
  BY PartsStep
<1> QED
  BY <1>1, <1>2, PTL
     DEF PartsSpec, RoutesSpec, FiltersSpec, KeysSpec, LayoutSpec, LogsSpec, SegmentsSpec,
         SearchSpec, ConversationSpec, ReadsSpec, IssuesSpec

\* Every part keeps its types, whichever of them runs.
THEOREM PartTypes == PartsSpec => []TypesOK
<1>1. /\ RoutesTypeOK /\ FiltersTypeOK /\ KeysTypeOK /\ LayoutTypeOK /\ LogsTypeOK
      /\ SegmentsTypeOK /\ SearchTypeOK /\ ConversationTypeOK /\ ReadsTypeOK /\ IssuesTypeOK
      => TypesOK
  BY DEF TypesOK
<1> QED
  BY PartsKeepToThemselves, RouteTypes, FilterTypes, KeyTypes, ColumnTypes, LogTypes,
     SegmentTypes, SearchTypes, ConversationTypes, ReadTypes, IssueTypes, <1>1, PTL

\* What the parts promise, in the company in which it is checked.
THEOREM PartsAreSafe ==
  AnswersComeLater =>
    (PartsSpec =>
       /\ [](/\ StackIsSound /\ SessionsFollowRoutes /\ OneLoginAtATime
             /\ HintsAreTrue /\ HeldKeyNeverConfirms /\ ColumnsGiveWayInOrder
             /\ LoadMoreIsHonest /\ ButtonsAreWhereTheyAreDrawn /\ AnswersStayTogether
             /\ AnsweredAsAsked /\ IssueScreensAreHonest)
       /\ OnlyKeysMoveTheView /\ SegmentsInOrder)
<1> QED
  BY PartsKeepToThemselves, StackSound, SessionsFollow, OneLogin, TrueHints, HeldKeys,
     ColumnsGiveWay, HonestLoadMore, ButtonsAreThere, ExchangesStayTogether, AsAsked,
     IssuesAreHonest, TheViewStays, SegmentsAreInOrder, PTL
=============================================================================
