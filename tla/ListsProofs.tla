---------------------------- MODULE ListsProofs ----------------------------
(***************************************************************************)
(* Theorems about Lists.  The invariant Inv is the type invariant, the     *)
(* cursor of every tab, and what an empty table rests on: the tab on       *)
(* screen was asked for, and a list that no stray reply reached has rows   *)
(* wherever its query has, once the page it waited for is in.              *)
(***************************************************************************)
EXTENDS Lists, FiniteSetTheorems, TLAPS

TabList == [rows : SUBSET Row, loading : BOOLEAN, loaded : BOOLEAN, failed : BOOLEAN,
            page : 1..MaxPage, hasMore : BOOLEAN, cursor : Nat, filter : Filter]
Message == [tab : Tabs, page : 0..MaxPage, query : Queries]

CursorRests(l) ==
  l.cursor < Selectable(l) \/ (Selectable(l) = 0 /\ l.cursor = 0)

\* A list is sound by itself, and its rows are finite in number.
ListOK(l) == l \in TabList /\ IsFiniteSet(l.rows) /\ CursorRests(l)

\* What a list shows that was told nothing but what it asked, under context o: a
\* further page is asked for and offered only beside rows, and a table that is
\* empty, neither loading nor failed, is so on GitHub.
Told(o, l) ==
  /\ l.page > 1 \/ l.hasMore => l.rows # {}
  /\ l.loaded /\ l.rows = {} /\ ~l.loading /\ ~l.failed => Total[Query(o, l)] = 0

AskedFor(l) == l.loaded \/ l.loading \/ l.failed

ScreenOK ==
  /\ tab \in Tabs /\ owner \in Owner /\ covered \in BOOLEAN /\ approving \in BOOLEAN
  /\ astray \subseteq Tabs
RequestsOK == IsABag(requests) /\ InFlight \subseteq Message
TabsOK ==
  /\ list \in [Tabs -> TabList]
  /\ \A t \in Tabs : ListOK(list[t]) /\ (t \notin astray => Told(owner, list[t]))
  /\ tab \in astray \/ AskedFor(list[tab])

Inv == ScreenOK /\ RequestsOK /\ TabsOK

----------------------------------------------------------------------------
(* Bags of requests.                                                       *)

LEMMA BagGrows ==
  ASSUME NEW B, IsABag(B), NEW m
  PROVE  /\ IsABag(B (+) SetToBag({m}))
         /\ BagToSet(B (+) SetToBag({m})) = BagToSet(B) \cup {m}
BY DEF IsABag, SetToBag, BagToSet, (+)

LEMMA BagShrinks ==
  ASSUME NEW B, IsABag(B), NEW m
  PROVE  /\ IsABag(B (-) SetToBag({m}))
         /\ BagToSet(B (-) SetToBag({m})) \subseteq BagToSet(B)
BY DEF IsABag, SetToBag, BagToSet, (-)

\* A request that is sound may be sent.
LEMMA Loading ==
  ASSUME RequestsOK, NEW t \in Tabs, NEW l \in TabList, NEW o \in Owner, NEW p \in 0..MaxPage,
         Load(t, l, o, p)
  PROVE  RequestsOK'
<1> DEFINE m == Request(t, l, o, p)
<1>1. m \in Message
  <2>1. Query(o, l) \in Queries
    BY DEF Query, Queries, TabList
  <2> QED
    BY <2>1 DEF Message, Request
<1>2. IsABag(requests') /\ InFlight' = InFlight \cup {m}
  <2> HIDE DEF m
  <2>1. requests' = requests (+) SetToBag({m})
    BY DEF Load, m
  <2> QED
    BY <2>1, BagGrows DEF RequestsOK, InFlight
<1> QED
  BY <1>1, <1>2 DEF RequestsOK

LEMMA Returning ==
  ASSUME RequestsOK, NEW m, Returned(m)
  PROVE  RequestsOK'
<1>1. IsABag(requests') /\ InFlight' \subseteq InFlight
  BY BagShrinks DEF Returned, RequestsOK, InFlight
<1> QED
  BY <1>1 DEF RequestsOK

----------------------------------------------------------------------------
(* What becomes of one list.                                               *)

LEMMA NewTabOK ==
  ASSUME NEW o
  PROVE  ListOK(NewTab) /\ Told(o, NewTab)
<1>1. NewTab \in TabList
  BY BoundAssumption, ContextAssumption DEF NewTab, TabList
<1>2. NewTab.rows = {} /\ Cardinality({}) = 0 /\ IsFiniteSet({}) /\ NewTab.cursor = 0
        /\ NewTab.hasMore = FALSE /\ NewTab.loaded = FALSE /\ NewTab.page = 1
  BY FS_EmptySet DEF NewTab
<1> QED
  BY <1>1, <1>2 DEF ListOK, CursorRests, Selectable, Told

LEMMA StartedOK ==
  ASSUME NEW l \in TabList, NEW o
  PROVE  ListOK(Started(l)) /\ Told(o, Started(l)) /\ Started(l).loading
<1>1. Started(l) \in TabList
  <2>1. 1 \in 1..MaxPage /\ {} \in SUBSET Row /\ 0 \in Nat
    BY BoundAssumption
  <2> QED
    BY <2>1 DEF Started, TabList
<1>2. Started(l).rows = {} /\ Started(l).cursor = 0 /\ Started(l).hasMore = FALSE
        /\ Started(l).loading = TRUE /\ Started(l).page = 1
  BY DEF Started, TabList
<1>3. Cardinality({}) = 0 /\ IsFiniteSet({})
  BY FS_EmptySet
<1> QED
  BY <1>1, <1>2, <1>3 DEF ListOK, CursorRests, Selectable, Told

LEMMA SelectableIs ==
  ASSUME NEW l \in TabList, IsFiniteSet(l.rows)
  PROVE  Selectable(l) \in Nat /\ Cardinality(l.rows) \in Nat
           /\ Selectable(l) = Cardinality(l.rows) + (IF l.hasMore THEN 1 ELSE 0)
BY FS_CardinalityType DEF Selectable, TabList

\* clampCursor gives the cursor a row, and moves it only where it has none.
LEMMA ClampedOK ==
  ASSUME NEW l \in TabList, IsFiniteSet(l.rows)
  PROVE  /\ Clamped(l) \in TabList
         /\ Clamped(l) = [l EXCEPT !.cursor = Clamped(l).cursor]
         /\ CursorRests(Clamped(l))
         /\ l.cursor < Selectable(l) \/ l.cursor = 0 => Clamped(l).cursor = l.cursor
<1> DEFINE c == IF l.cursor <= Selectable(l) - 1 THEN l.cursor
                ELSE IF Selectable(l) - 1 < 0 THEN 0 ELSE Selectable(l) - 1
<1>1. Clamped(l) = [l EXCEPT !.cursor = c]
  BY DEF Clamped, TabList
<1>2. l.cursor \in Nat /\ Selectable(l) \in Nat
  BY SelectableIs DEF TabList
<1>3. /\ c \in Nat
      /\ c < Selectable(l) \/ (Selectable(l) = 0 /\ c = 0)
      /\ l.cursor < Selectable(l) \/ l.cursor = 0 => c = l.cursor
  BY <1>2
<1> HIDE DEF c
<1>4. Clamped(l) \in TabList /\ Clamped(l).cursor = c /\ Clamped(l).rows = l.rows
        /\ Clamped(l).hasMore = l.hasMore
  BY <1>1, <1>3 DEF TabList
<1>5. Selectable(Clamped(l)) = Selectable(l)
  BY <1>4 DEF Selectable
<1> QED
  BY <1>1, <1>3, <1>4, <1>5 DEF CursorRests

\* The rows of a page are of its query and finite in number, and the first page
\* has some where there are any.
LEMMA PageRowsFacts ==
  ASSUME NEW q \in Queries, NEW p \in 0..MaxPage
  PROVE  /\ PageRows(q, p) \subseteq Row /\ IsFiniteSet(PageRows(q, p))
         /\ p \in {0, 1} /\ Total[q] # 0 => PageRows(q, p) # {}
<1> DEFINE first == IF p = 0 THEN 1 ELSE p
           N == {m \in 1..Total[q] : (first - 1) * PageSize < m /\ m <= first * PageSize}
           f == [m \in N |-> [query |-> q, n |-> m]]
<1>1. PageRows(q, p) = {[query |-> q, n |-> n] : n \in N}
  BY DEF PageRows
<1>0. Total[q] \in Nat
  BY PagingAssumption
<1>2. PageRows(q, p) \subseteq Row
  BY <1>1 DEF Row
<1>3. IsFiniteSet(N)
  <2>1. IsFiniteSet(1..Total[q])
    BY <1>0, FS_Interval
  <2>2. N \in SUBSET (1..Total[q])
    OBVIOUS
  <2> HIDE DEF N
  <2> QED
    BY <2>1, <2>2, FS_Subset
<1>4. f \in Surjection(N, PageRows(q, p))
  <2> HIDE DEF N
  <2> QED
    BY <1>1 DEF Surjection
<1>5. IsFiniteSet(PageRows(q, p))
  <2> HIDE DEF N, f
  <2> QED
    BY <1>3, <1>4, FS_Surjection
<1>6. p \in {0, 1} /\ Total[q] # 0 => 1 \in N
  BY <1>0, PagingAssumption
<1> QED
  BY <1>1, <1>2, <1>5, <1>6

\* A reply leaves a sound list, one to a poll adds to it, and one to what the list
\* asked leaves an honest one.
LEMMA FilledOK ==
  ASSUME NEW l \in TabList, ListOK(l), NEW m \in Message
  PROVE  /\ ListOK(Filled(l, m)) /\ Filled(l, m).loaded
         /\ m.page = 0 => /\ l.rows \subseteq Filled(l, m).rows
                          /\ Filled(l, m).cursor = l.cursor
                          /\ Filled(l, m).page = l.page
                          /\ Filled(l, m).hasMore = l.hasMore
         /\ \A o \in Owner :
              ~Astray(o, l, m) /\ (Told(o, l) \/ m.page = 1) => Told(o, Filled(l, m))
<1> DEFINE got == PageRows(m.query, m.page)
           beyond == RowsBeyond(m.query, m.page)
           k == [l EXCEPT !.loading = FALSE, !.loaded = TRUE, !.failed = FALSE,
                          !.rows = IF m.page = 1 THEN got ELSE @ \cup got,
                          !.hasMore = IF m.page = 0 THEN @ ELSE beyond,
                          !.cursor = IF m.page = 1 THEN 0 ELSE @]
<1>1. Filled(l, m) = Clamped(k)
  BY DEF Filled
<1>2. m.query \in Queries /\ m.page \in 0..MaxPage
  BY DEF Message
<1>3. /\ got \subseteq Row /\ IsFiniteSet(got)
      /\ m.page \in {0, 1} /\ Total[m.query] # 0 => got # {}
  BY <1>2, PageRowsFacts
<1>4. beyond \in BOOLEAN /\ (m.page = 1 /\ beyond => Total[m.query] # 0)
  BY <1>2, PagingAssumption DEF RowsBeyond
<1> HIDE DEF got, beyond
<1>5. /\ k \in TabList
      /\ k.rows = IF m.page = 1 THEN got ELSE l.rows \cup got
      /\ k.hasMore = IF m.page = 0 THEN l.hasMore ELSE beyond
      /\ k.cursor = IF m.page = 1 THEN 0 ELSE l.cursor
      /\ k.page = l.page /\ k.loaded = TRUE /\ k.loading = FALSE /\ k.failed = FALSE
      /\ k.filter = l.filter
  BY <1>3, <1>4 DEF TabList
<1> HIDE DEF k
<1>6. IsFiniteSet(k.rows)
  BY <1>3, <1>5, FS_Union DEF ListOK
<1>7. /\ Clamped(k) \in TabList
      /\ Clamped(k) = [k EXCEPT !.cursor = Clamped(k).cursor]
      /\ CursorRests(Clamped(k))
      /\ k.cursor < Selectable(k) \/ k.cursor = 0 => Clamped(k).cursor = k.cursor
  BY <1>5, <1>6, ClampedOK
<1>8. /\ Clamped(k).rows = k.rows /\ Clamped(k).hasMore = k.hasMore
      /\ Clamped(k).page = k.page /\ Clamped(k).loaded = TRUE
      /\ Clamped(k).filter = l.filter
  BY <1>5, <1>7 DEF TabList
<1>9. ListOK(Clamped(k))
  BY <1>6, <1>7, <1>8 DEF ListOK
<1>10. ASSUME NEW o \in Owner, ~Astray(o, l, m), Told(o, l) \/ m.page = 1
       PROVE  Told(o, Clamped(k))
  <2>1. Query(o, Clamped(k)) = m.query
    BY <1>8, <1>10 DEF Astray, Query
  <2>2. m.page \in Nat /\ l.page \in Nat /\ (m.page # 0 => l.page = m.page)
    BY <1>2, <1>10, BoundAssumption DEF Astray, TabList
  <2>3. CASE m.page = 1
    BY <1>3, <1>4, <1>5, <1>8, <2>1, <2>2, <2>3 DEF Told
  <2>4. CASE m.page = 0
    BY <1>3, <1>5, <1>8, <1>10, <2>1, <2>4 DEF Told
  <2>5. CASE m.page > 1
    BY <1>5, <1>8, <1>10, <2>2, <2>5 DEF Told
  <2> QED
    BY <2>2, <2>3, <2>4, <2>5
<1>12. m.page = 0 => l.rows \subseteq k.rows /\ k.page = l.page /\ k.hasMore = l.hasMore
                       /\ k.cursor = l.cursor
  BY <1>5
<1>13. m.page = 0 => Clamped(k).cursor = l.cursor
  <2> SUFFICES ASSUME m.page = 0 PROVE Clamped(k).cursor = l.cursor
    OBVIOUS
  <2>1. Cardinality(l.rows) <= Cardinality(k.rows) /\ Cardinality(l.rows) \in Nat
          /\ Cardinality(k.rows) \in Nat
    BY <1>6, <1>12, FS_Subset, FS_CardinalityType DEF ListOK
  <2>2. Selectable(l) <= Selectable(k) /\ l.cursor \in Nat
    <3>1. Selectable(l) = Cardinality(l.rows) + (IF l.hasMore THEN 1 ELSE 0)
      BY SelectableIs DEF ListOK
    <3>2. Selectable(k) = Cardinality(k.rows) + (IF l.hasMore THEN 1 ELSE 0)
      BY <1>5, <1>6, <1>12, SelectableIs
    <3> QED
      BY <2>1, <3>1, <3>2 DEF TabList
  <2>3. Selectable(l) \in Nat /\ Selectable(k) \in Nat
    BY <1>5, <1>6, SelectableIs DEF ListOK
  <2> QED
    BY <1>7, <1>12, <2>2, <2>3 DEF ListOK, CursorRests
<1> QED
  BY <1>1, <1>8, <1>9, <1>10, <1>12, <1>13

\* So does a failure, which changes nothing but the flags.
LEMMA FailedOK ==
  ASSUME NEW l \in TabList, ListOK(l), NEW m \in Message
  PROVE  /\ ListOK(Failed(m.tab, l, m))
         /\ Failed(m.tab, l, m).rows = l.rows /\ Failed(m.tab, l, m).cursor = l.cursor
         /\ Failed(m.tab, l, m).page = l.page /\ Failed(m.tab, l, m).hasMore = l.hasMore
         /\ \A o \in Owner :
              ~Astray(o, l, m) =>
                /\ Told(o, l) => Told(o, Failed(m.tab, l, m))
                /\ AskedFor(l) => AskedFor(Failed(m.tab, l, m))
<1> DEFINE k == Failed(m.tab, l, m)
<1>1. /\ k \in TabList /\ k.rows = l.rows /\ k.cursor = l.cursor /\ k.hasMore = l.hasMore
      /\ k.page = l.page /\ k.filter = l.filter /\ k.loaded = l.loaded
      /\ k.failed = (l.failed \/ m.tab = "runs" \/ m.page # 0)
  BY DEF Failed, TabList
<1> HIDE DEF k
<1>2. ListOK(k)
  <2>1. Selectable(k) = Selectable(l)
    BY <1>1 DEF Selectable
  <2> QED
    BY <1>1, <2>1 DEF ListOK, CursorRests
<1>3. ASSUME NEW o \in Owner, ~Astray(o, l, m)
      PROVE  (Told(o, l) => Told(o, k)) /\ (AskedFor(l) => AskedFor(k))
  <2>1. Query(o, k) = Query(o, l)
    BY <1>1 DEF Query
  <2>2. k.failed \/ (~l.loading /\ ~l.failed)
    <3>1. m.page = 0 => l.page # 0
      BY DEF TabList
    <3> QED
      BY <1>1, <1>3, <3>1 DEF Astray
  <2> QED
    BY <1>1, <2>1, <2>2 DEF Told, AskedFor
<1> QED
  BY <1>1, <1>2, <1>3 DEF k
----------------------------------------------------------------------------
(* The steps.                                                              *)

LEMMA NeighbourFacts ==
  ASSUME tab \in Tabs, NEW step \in {1, Len(TabOrder) - 1}
  PROVE  Neighbour(tab, step) \in Tabs
<1> DEFINE at == CHOOSE i \in 1..Len(TabOrder) : TabOrder[i] = tab
<1>1. at \in 1..Len(TabOrder)
  BY DEF Tabs
<1> HIDE DEF at
<1>2. Len(TabOrder) \in 2..3 /\ step \in Int
  BY TabAssumption
<1>3. ((at - 1 + step) % Len(TabOrder)) + 1 \in 1..Len(TabOrder)
  BY <1>1, <1>2
<1> QED
  BY <1>3 DEF Neighbour, at, Tabs

\* One list changes, to a sound one.
LEMMA OneListChanges ==
  ASSUME TabsOK, NEW t \in Tabs, NEW l, ListOK(l), list' = [list EXCEPT ![t] = l],
         owner' = owner, astray' \ {t} = astray \ {t},
         t \in astray' \/ Told(owner, l), tab' = t, t \in astray' \/ AskedFor(l)
  PROVE  TabsOK'
<1>1. list' \in [Tabs -> TabList] /\ list'[t] = l
  BY DEF TabsOK, ListOK
<1>2. ASSUME NEW s \in Tabs
      PROVE  ListOK(list'[s]) /\ (s \notin astray' => Told(owner', list'[s]))
  <2>1. s # t => (s \in astray' <=> s \in astray) /\ list'[s] = list[s]
    BY DEF TabsOK
  <2> QED
    BY <1>1, <2>1 DEF TabsOK
<1> QED
  BY <1>1, <1>2 DEF TabsOK

\* A list starts afresh and asks for its first page.
LEMMA Starting ==
  ASSUME Inv, NEW l \in TabList, NEW t \in Tabs, NEW k \in TabList, owner' = owner,
         list' = [list EXCEPT ![t] = Started(l)], tab' = t, Load(t, k, owner, 1),
         astray' = astray \ {t}
  PROVE  TabsOK' /\ RequestsOK'
<1>1. ListOK(Started(l)) /\ Told(owner, Started(l)) /\ Started(l).loading
  BY StartedOK
<1>2. TabsOK'
  BY <1>1, OneListChanges DEF Inv, AskedFor
<1>3. 1 \in 0..MaxPage
  BY BoundAssumption
<1>4. RequestsOK'
  BY <1>3, Loading DEF Inv, ScreenOK
<1> QED
  BY <1>2, <1>4

LEMMA InvInit == Init => Inv
<1> SUFFICES ASSUME Init PROVE Inv
  OBVIOUS
<1>1. /\ ListOK(Started(NewTab)) /\ Told(Viewer, Started(NewTab)) /\ Started(NewTab).loading
      /\ ListOK(NewTab) /\ Told(Viewer, NewTab) /\ NewTab \in TabList
  BY NewTabOK, StartedOK DEF ListOK
<1>2. tab \in Tabs
  BY TabAssumption DEF Init, Tabs
<1>3. TabsOK
  BY <1>1, <1>2 DEF Init, TabsOK, ListOK, AskedFor
<1>4. RequestsOK
  <2>1. Request(tab, NewTab, Viewer, 1) \in Message
    <3>1. Query(Viewer, NewTab) \in Queries
      BY <1>1, ContextAssumption DEF Query, Queries, TabList
    <3>2. 1 \in 0..MaxPage
      BY BoundAssumption
    <3> QED
      BY <1>2, <3>1, <3>2 DEF Message, Request
  <2>2. IsABag(requests) /\ InFlight = {Request(tab, NewTab, Viewer, 1)}
    BY DEF Init, IsABag, SetToBag, InFlight, BagToSet
  <2> QED
    BY <2>1, <2>2 DEF RequestsOK
<1> QED
  BY <1>2, <1>3, <1>4, ContextAssumption DEF Init, Inv, ScreenOK

LEMMA InvKept == Inv /\ [Next]_vars => Inv'
<1> SUFFICES ASSUME Inv, [Next]_vars PROVE Inv'
  OBVIOUS
<1> USE DEF Inv
<1>0. /\ tab \in Tabs /\ owner \in Owner
      /\ \A t \in Tabs : list[t] \in TabList /\ ListOK(list[t])
  BY DEF ScreenOK, TabsOK
<1>1. ASSUME NEW step \in {1, Len(TabOrder) - 1}, SwitchTab(step) PROVE Inv'
  <2> DEFINE t == Neighbour(tab, step)
  <2>1. t \in Tabs
    BY <1>0, NeighbourFacts
  <2> HIDE DEF t
  <2>2. ScreenOK' /\ tab' = t /\ owner' = owner
    BY <1>1, <2>1 DEF SwitchTab, ScreenOK, t
  <2>3. CASE (list[t].loaded \/ list[t].loading) /\ UNCHANGED <<list, requests, astray>>
    BY <2>1, <2>2, <2>3 DEF TabsOK, RequestsOK, InFlight, AskedFor
  <2>4. CASE /\ list' = [list EXCEPT ![t] = Started(@)] /\ Load(t, list[t], owner, 1)
             /\ astray' = astray \ {t}
    <3>1. list' = [list EXCEPT ![t] = Started(list[t])]
      BY <2>4
    <3>2. TabsOK' /\ RequestsOK'
      BY <1>0, <2>1, <2>2, <2>4, <3>1, Starting
    <3> QED
      BY <2>2, <3>2
  <2> QED
    BY <1>1, <2>3, <2>4 DEF SwitchTab, t
<1>2. ASSUME NEW d \in {-1, 1}, Move(d) PROVE Inv'
  <2> DEFINE l == [list[tab] EXCEPT !.cursor = @ + d]
  <2>1. list' = [list EXCEPT ![tab] = l] /\ UNCHANGED <<tab, owner, astray>>
    BY <1>2 DEF Move
  <2>2. /\ l \in TabList /\ l.rows = list[tab].rows /\ l.hasMore = list[tab].hasMore
        /\ l.cursor = list[tab].cursor + d /\ l.loaded = list[tab].loaded
        /\ l.loading = list[tab].loading /\ l.failed = list[tab].failed
        /\ l.page = list[tab].page /\ l.filter = list[tab].filter
    BY <1>0, <1>2 DEF Move, TabList
  <2>3. l.cursor \in 0..Selectable(list[tab]) - 1 /\ Selectable(list[tab]) \in Nat
    BY <1>0, <1>2, <2>2, SelectableIs DEF Move, TabsOK, ListOK
  <2> HIDE DEF l
  <2>4. Selectable(l) = Selectable(list[tab]) /\ Query(owner, l) = Query(owner, list[tab])
    BY <2>2 DEF Selectable, Query
  <2>5. ListOK(l)
    BY <1>0, <2>2, <2>3, <2>4 DEF ListOK, CursorRests
  <2>6. (tab \notin astray => Told(owner, l)) /\ (AskedFor(list[tab]) => AskedFor(l))
    BY <1>0, <2>2, <2>4 DEF TabsOK, Told, AskedFor
  <2>7. TabsOK'
    BY <1>0, <2>1, <2>5, <2>6, OneListChanges DEF TabsOK
  <2> QED
    BY <1>2, <2>7 DEF Move, ScreenOK, RequestsOK, InFlight
<1>3. CASE LoadMore
  <2> DEFINE l == [list[tab] EXCEPT !.page = @ + 1, !.loading = TRUE]
  <2>1. list' = [list EXCEPT ![tab] = l] /\ UNCHANGED <<tab, owner, astray>>
    BY <1>0, <1>3 DEF LoadMore, TabsOK
  <2>2. list[tab].page \in 1..MaxPage /\ list[tab].page < MaxPage /\ MaxPage \in Nat
    BY <1>0, <1>3, BoundAssumption DEF LoadMore, TabList
  <2>3. /\ l \in TabList /\ l.rows = list[tab].rows /\ l.hasMore = list[tab].hasMore
        /\ l.cursor = list[tab].cursor /\ l.loading = TRUE
    <3>1. list[tab].page + 1 \in 1..MaxPage
      BY <2>2
    <3> QED
      BY <1>0, <3>1 DEF TabList
  <2> HIDE DEF l
  <2>4. Selectable(l) = Selectable(list[tab])
    BY <2>3 DEF Selectable
  <2>5. ListOK(l) /\ AskedFor(l)
    BY <1>0, <2>3, <2>4 DEF ListOK, AskedFor, CursorRests
  <2>6. tab \notin astray => Told(owner, l)
    <3>1. list[tab].hasMore
      BY <1>3 DEF LoadMore, OnLoadMore
    <3> QED
      BY <1>0, <2>3, <3>1 DEF TabsOK, Told
  <2>7. TabsOK'
    BY <1>0, <2>1, <2>5, <2>6, OneListChanges
  <2>8. RequestsOK'
    <3>1. list[tab].page + 1 \in 0..MaxPage
      BY <2>2
    <3>2. Load(tab, list[tab], owner, list[tab].page + 1)
      BY <1>3 DEF LoadMore
    <3> QED
      BY <1>0, <3>1, <3>2, Loading
  <2> QED
    BY <1>3, <2>7, <2>8 DEF LoadMore, ScreenOK
<1>4. CASE Refresh
  <2>1. list' = [list EXCEPT ![tab] = Started(list[tab])] /\ tab' = tab /\ owner' = owner
          /\ Load(tab, list[tab], owner, 1) /\ astray' = astray \ {tab}
    BY <1>4 DEF Refresh
  <2>2. TabsOK' /\ RequestsOK'
    BY <1>0, <2>1, Starting
  <2> QED
    BY <1>4, <2>2 DEF Refresh, ScreenOK
<1>5. ASSUME NEW f \in Filter, SetFilter(f) PROVE Inv'
  <2> DEFINE k == [list[tab] EXCEPT !.filter = f]
  <2>1. k \in TabList
    BY <1>0 DEF TabList
  <2> HIDE DEF k
  <2>2. Started(k) \in TabList
    BY <2>1, StartedOK DEF ListOK
  <2>3. list' = [list EXCEPT ![tab] = Started(k)] /\ tab' = tab /\ owner' = owner
          /\ Load(tab, Started(k), owner, 1) /\ astray' = astray \ {tab}
    BY <1>5 DEF SetFilter, k
  <2>4. TabsOK' /\ RequestsOK'
    BY <1>0, <2>1, <2>2, <2>3, Starting
  <2> QED
    BY <1>5, <2>4 DEF SetFilter, ScreenOK
<1>6. CASE Cover \/ Uncover \/ Approve
  BY <1>6 DEF Cover, Uncover, Approve, ScreenOK, TabsOK, RequestsOK, InFlight
<1>7. ASSUME NEW o \in Owner, SwitchContext(o) PROVE Inv'
  <2>1. /\ ListOK(Started(NewTab)) /\ Told(o, Started(NewTab)) /\ Started(NewTab).loading
        /\ ListOK(NewTab) /\ Told(o, NewTab) /\ NewTab \in TabList
    BY NewTabOK, StartedOK DEF ListOK
  <2>2. /\ list' = [t \in Tabs |-> IF t = tab THEN Started(NewTab) ELSE NewTab]
        /\ tab' = tab /\ owner' = o /\ astray' = {}
    BY <1>7 DEF SwitchContext
  <2>3. TabsOK'
    BY <1>0, <2>1, <2>2 DEF TabsOK, ListOK, AskedFor
  <2>4. 1 \in 0..MaxPage
    BY BoundAssumption
  <2>5. RequestsOK'
    BY <1>0, <1>7, <2>1, <2>4, Loading DEF SwitchContext
  <2> QED
    BY <1>7, <2>2, <2>3, <2>5 DEF SwitchContext, ScreenOK
<1>8. CASE ApproveDone \/ Poll
  <2>1. RequestsOK'
    <3>1. 0 \in 0..MaxPage
      BY BoundAssumption
    <3>2. CASE UNCHANGED requests
      BY <3>2 DEF RequestsOK, InFlight
    <3>3. CASE OnScreen("runs") /\ Load("runs", list["runs"], owner, 0)
      <4>1. "runs" \in Tabs
        BY <1>0, <3>3 DEF OnScreen
      <4> QED
        BY <1>0, <3>1, <3>3, <4>1, Loading
    <3>4. CASE Load(tab, list[tab], owner, 0)
      BY <1>0, <3>1, <3>4, Loading
    <3> QED
      BY <1>8, <3>2, <3>3, <3>4 DEF ApproveDone, Poll
  <2> QED
    BY <1>8, <2>1 DEF ApproveDone, Poll, ScreenOK, TabsOK
<1>9. ASSUME NEW m \in InFlight, Deliver(m) PROVE Inv'
  <2> DEFINE t == m.tab
  <2>1. m \in Message /\ t \in Tabs
    BY DEF RequestsOK, Message
  <2>2. RequestsOK' /\ tab' = tab /\ owner' = owner /\ UNCHANGED <<covered, approving>>
    <3>1. Returned(m)
      BY <1>9 DEF Deliver, Answer, Failure, Missed
    <3> QED
      BY <3>1, Returning DEF Returned
  <2>3. ScreenOK'
    BY <1>9, <2>1, <2>2 DEF Deliver, Answer, Failure, Missed, ScreenOK
  <2>4. CASE Answer(m)
    <3> DEFINE l == Filled(list[t], m)
    <3>1. list' = [list EXCEPT ![t] = l] /\ t = tab
            /\ astray' = IF Astray(owner, list[t], m) THEN astray \cup {t}
                         ELSE IF m.page = 1 THEN astray \ {t} ELSE astray
      BY <2>4 DEF Answer, OnScreen
    <3>2. /\ ListOK(l) /\ l.loaded
          /\ ~Astray(owner, list[t], m) /\ (Told(owner, list[t]) \/ m.page = 1)
               => Told(owner, l)
      BY <1>0, <2>1, FilledOK
    <3>3. t \notin astray => Told(owner, list[t])
      BY <2>1 DEF TabsOK
    <3> HIDE DEF l, t
    <3>4. t \in astray' \/ Told(owner, l)
      BY <3>1, <3>2, <3>3
    <3>5. astray' \ {t} = astray \ {t}
      BY <3>1
    <3>6. TabsOK'
      BY <2>1, <2>2, <3>1, <3>2, <3>4, <3>5, OneListChanges DEF AskedFor
    <3> QED
      BY <2>2, <2>3, <3>6
  <2>5. CASE Failure(m)
    <3> DEFINE l == Failed(t, list[t], m)
    <3>1. list' = [list EXCEPT ![t] = l] /\ t = tab
            /\ astray' = IF Astray(owner, list[t], m) THEN astray \cup {t} ELSE astray
      BY <2>5 DEF Failure, OnScreen
    <3>2. /\ ListOK(l)
          /\ ~Astray(owner, list[t], m) =>
               /\ Told(owner, list[t]) => Told(owner, l)
               /\ AskedFor(list[t]) => AskedFor(l)
      BY <1>0, <2>1, FailedOK
    <3>3. (t \notin astray => Told(owner, list[t])) /\ (t \in astray \/ AskedFor(list[t]))
      BY <2>1, <3>1 DEF TabsOK
    <3> HIDE DEF l, t
    <3>4. (t \in astray' \/ Told(owner, l)) /\ (t \in astray' \/ AskedFor(l))
      BY <3>1, <3>2, <3>3
    <3>5. astray' \ {t} = astray \ {t}
      BY <3>1
    <3>6. TabsOK'
      BY <2>1, <2>2, <3>1, <3>2, <3>4, <3>5, OneListChanges
    <3> QED
      BY <2>2, <2>3, <3>6
  <2>6. CASE Missed(m)
    BY <2>2, <2>3, <2>6 DEF Missed, TabsOK
  <2> QED
    BY <1>9, <2>4, <2>5, <2>6 DEF Deliver
<1>10. CASE UNCHANGED vars
  BY <1>10 DEF vars, ScreenOK, TabsOK, RequestsOK, InFlight
<1> QED
  BY <1>1, <1>2, <1>3, <1>4, <1>5, <1>6, <1>7, <1>8, <1>9, <1>10 DEF Next

----------------------------------------------------------------------------
(* What follows.                                                           *)

\* The invariant holds for any contexts, filters, page size and number of rows.
THEOREM InvHolds == Spec => []Inv
BY InvInit, InvKept, PTL DEF Spec

\* Every list keeps its type and its cursor a row (clampCursor, runs.go:178).
THEOREM Sound == Spec => []ListsAreSound
<1>1. Inv => ListsAreSound
  BY DEF Inv, ScreenOK, RequestsOK, TabsOK, ListsAreSound, TypeOK, CursorOnARow, ListOK,
         CursorRests, TabList, Message
<1> QED
  BY InvHolds, <1>1, PTL

\* A table that says it found nothing is empty on GitHub, whatever other contexts
\* and filters have there, unless the list was given a reply to another question
\* (message, runs.go:394-404, and apply, :124-153).
THEOREM EmptinessWasTold == Spec => []EmptyMeansEmpty
<1>1. Inv => EmptyMeansEmpty
  BY DEF Inv, ScreenOK, TabsOK, AskedFor, Told, EmptyMeansEmpty
<1> QED
  BY InvHolds, <1>1, PTL

\* A poll takes nothing off the screen (runs.go:92-97).
THEOREM PollsAdd == Spec => PollsOnlyAdd
<1> DEFINE OnlyAdds ==
      \A m \in InFlight :
        m.page = 0 /\ Deliver(m) =>
          \A t \in Tabs :
            /\ list[t].rows \subseteq list'[t].rows
            /\ list'[t].cursor = list[t].cursor
            /\ list'[t].page = list[t].page
            /\ list'[t].hasMore = list[t].hasMore
<1>1. Inv /\ [Next]_vars => [OnlyAdds]_vars
  <2> SUFFICES ASSUME Inv, NEW m \in InFlight, m.page = 0, Deliver(m), NEW t \in Tabs
               PROVE  /\ list[t].rows \subseteq list'[t].rows
                      /\ list'[t].cursor = list[t].cursor
                      /\ list'[t].page = list[t].page
                      /\ list'[t].hasMore = list[t].hasMore
    OBVIOUS
  <2>1. m \in Message /\ m.tab \in Tabs /\ list[m.tab] \in TabList /\ ListOK(list[m.tab])
    BY DEF Inv, RequestsOK, TabsOK, Message
  <2>2. CASE Answer(m)
    BY <2>1, <2>2, FilledOK DEF Answer, Inv, TabsOK
  <2>3. CASE Failure(m)
    BY <2>1, <2>3, FailedOK DEF Failure, Inv, TabsOK
  <2>4. CASE Missed(m)
    BY <2>4 DEF Missed
  <2> QED
    BY <2>2, <2>3, <2>4 DEF Deliver
<1> QED
  BY InvHolds, <1>1, PTL DEF Spec, PollsOnlyAdd

\* A tab that was fetched is kept when the user comes back (docs/spec.md:145).
THEOREM ReopeningKeeps == Spec => ReopeningKeepsTheList
<1> DEFINE Keeps ==
      tab' # tab =>
        /\ \A t \in Tabs : list[t].loaded => list'[t] = list[t]
        /\ list[tab'].loaded => requests' = requests
<1>1. Inv /\ [Next]_vars => [Keeps]_vars
  <2> SUFFICES ASSUME Inv, [Next]_vars, tab' # tab
               PROVE  /\ \A t \in Tabs : list[t].loaded => list'[t] = list[t]
                      /\ list[tab'].loaded => requests' = requests
    OBVIOUS
  <2>1. PICK step \in {1, Len(TabOrder) - 1} : SwitchTab(step)
    BY DEF Next, Move, LoadMore, Refresh, SetFilter, Cover, Uncover, SwitchContext, Approve,
           ApproveDone, Poll, Deliver, Answer, Failure, Missed, Returned, vars
  <2> QED
    BY <2>1 DEF SwitchTab, Inv, TabsOK
<1> QED
  BY InvHolds, <1>1, PTL DEF Spec, ReopeningKeepsTheList
=============================================================================
