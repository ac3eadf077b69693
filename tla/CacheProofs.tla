---------------------------- MODULE CacheProofs ----------------------------
(***************************************************************************)
(* Proofs about Cache for every number of keys, callers, writers and       *)
(* entries and every TTL: types, the safety invariants the runs check, and *)
(* that the cache implements ReadThrough.                                  *)
(***************************************************************************)
EXTENDS Cache, SequenceTheorems, SetTheorems, TLAPS

\* A caller is inside getOrLoad exactly while it holds an entry.
HoldersAreBusy == \A c \in Caller : pc[c] = "idle" <=> held[c] = None

\* Whoever shares an entry shares its key, and only one of them loads it.
EntriesAreKeyed ==
  \A c, d \in Caller : held[c] # None /\ held[c] = held[d] =>
    key[c] = key[d] /\ (Owner(c) /\ Owner(d) => c = d)

\* The map names an entry once, under the key its holders asked for.
MapIsKeyed ==
  \A k \in Key : entries[k] # None =>
    /\ \A j \in Key : entries[j] = entries[k] => j = k
    /\ \A c \in Caller : held[c] = entries[k] => key[c] = k

OwnersAreUnsettled == \A c \in Caller : Owner(c) => ~heap[held[c]].loaded

\* An open entry of the map has an owner.
OpenEntriesHaveAnOwner ==
  \A k \in Key : entries[k] # None /\ ~heap[entries[k]].loaded =>
    \E o \in Caller : Owner(o) /\ held[o] = entries[k]

FloorsAreReached ==
  /\ \A k \in Key : floor[k] <= version[k] /\ newest[k] <= version[k]
  /\ \A c \in Caller : pc[c] # "idle" => asked[c] <= floor[key[c]]

\* v is new enough for everyone who holds or may still join the entry e of k.
FreshFor(e, k, v) ==
  /\ v <= version[k]
  /\ entries[k] = e => floor[k] <= v /\ newest[k] <= v
  /\ \A c \in Caller : held[c] = e => asked[c] <= v

LoadsAreFresh ==
  \A c \in Caller : pc[c] = "loaded" /\ got[c].err = "none" =>
    FreshFor(held[c], key[c], got[c].value)

SettledAreFresh ==
  /\ \A c \in Caller : pc[c] = "waiting" /\ heap[held[c]].loaded
                        /\ heap[held[c]].err = "none" =>
       FreshFor(held[c], key[c], heap[held[c]].value)
  /\ \A k \in Key : Stored(k) /\ heap[entries[k]].err = "none" =>
       FreshFor(entries[k], k, heap[entries[k]].value)

Wiring == /\ HoldersAreBusy
          /\ EntriesAreKeyed
          /\ MapIsKeyed
          /\ OwnersAreUnsettled
          /\ OpenEntriesHaveAnOwner
          /\ WaitersHaveAnOwner
          /\ FailuresAreNotKept

Freshness == /\ FloorsAreReached
             /\ LoadsAreFresh
             /\ SettledAreFresh

IInv == TypeOK /\ Wiring /\ Freshness

-----------------------------------------------------------------------------
(* Types. *)

USE KeyAssumption, NoneAssumption, TTLAssumption
  DEF KeyAssumption, NoneAssumption, TTLAssumption

\* The empty cache, before any read or write, is typed.
LEMMA TypeInit == Init => TypeOK
<1> SUFFICES ASSUME Init PROVE TypeOK
  OBVIOUS
<1>1. (CHOOSE k \in Key : TRUE) \in Key
  OBVIOUS
<1>2. /\ key \in [Caller -> Key] /\ wkey \in [Writer -> Key]
  BY <1>1 DEF Init
<1>3. /\ reply \in [to : Caller \cup {None}, err : {"none"} \cup Failures, value : Nat]
      /\ got \in [Caller -> Result]
      /\ heap \in [Entry -> [err : {"none"} \cup Failures, value : Nat,
                             expires : Nat, loaded : BOOLEAN]]
  BY DEF Init, Claimed, Result, Ok, Silent
<1> QED
  BY <1>2, <1>3 DEF Init, TypeOK, Claimed, Result, Ok, Failures, Silent

\* A sweep maps every key to an entry or to nothing.
LEMMA SweptType == ASSUME TypeOK, NEW t \in Nat
                   PROVE  Swept(t) \in [Key -> Entry \cup {None}]
  BY DEF TypeOK, Swept

\* What an owner leaves in its entry is an entry.
LEMMA SettledType ==
  ASSUME TypeOK, NEW e \in Entry, NEW g \in Result
  PROVE  Settled(e, g) \in [err : {"none"} \cup Failures, value : Nat,
                            expires : Nat, loaded : BOOLEAN]
<1>1. now + TTL \in Nat /\ heap[e].value \in Nat /\ heap[e].expires \in Nat
  BY DEF TypeOK
<1>2. CASE g.err = "none"
  BY <1>1, <1>2 DEF Settled, Result
<1>3. CASE g.err # "none"
  <2>1. Settled(e, g) = [heap[e] EXCEPT !.err = g.err, !.loaded = TRUE]
    BY <1>3 DEF Settled
  <2>2. heap[e] \in [err : {"none"} \cup Failures, value : Nat,
                     expires : Nat, loaded : BOOLEAN]
    BY DEF TypeOK
  <2>3. g.err \in {"none"} \cup Failures
    BY DEF Result
  <2> QED
    BY <2>1, <2>2, <2>3
<1> QED
  BY <1>2, <1>3

\* The parts of TypeOK an action changes are listed in its step.
LEMMA TypeStep == TypeOK /\ HoldersAreBusy /\ [Next]_vars => TypeOK'
<1> SUFFICES ASSUME TypeOK, HoldersAreBusy, [Next]_vars PROVE TypeOK'
  OBVIOUS
<1>1. ASSUME NEW c \in Caller, NEW k \in Key, NEW t \in {now, now + 1}, Join(c, k, t)
      PROVE  TypeOK'
  <2>1. Swept(now) \in [Key -> Entry \cup {None}]
    BY SweptType DEF TypeOK
  <2> QED
    BY <1>1, <2>1 DEF TypeOK, Join, Lookup, Servable, Silent, writerVars, historyVars
<1>2. ASSUME NEW c \in Caller, NEW k \in Key, NEW t \in {now, now + 1},
             NEW e \in Entry, Claim(c, k, t, e)
      PROVE  TypeOK'
  <2>1. Swept(now) \in [Key -> Entry \cup {None}]
    BY SweptType DEF TypeOK
  <2> QED
    BY <1>2, <2>1 DEF TypeOK, Claim, Claimed, Lookup, Silent, writerVars, historyVars
<1>3. ASSUME NEW c \in Caller, LoadReads(c) PROVE TypeOK'
  BY <1>3 DEF TypeOK, LoadReads, Result, Ok, Silent, cacheVars, writerVars, historyVars
<1>4. ASSUME NEW c \in Caller, NEW e \in Failures, LoadFails(c, e) PROVE TypeOK'
  BY <1>4 DEF TypeOK, LoadFails, Result, Err, Silent, cacheVars, writerVars, historyVars
<1>5. ASSUME NEW c \in Caller, Publish(c) PROVE TypeOK'
  <2>1. held[c] \in Entry /\ got[c] \in Result
    BY <1>5 DEF Publish, TypeOK, HoldersAreBusy
  <2>2. Settled(held[c], got[c]) \in [err : {"none"} \cup Failures, value : Nat,
                                      expires : Nat, loaded : BOOLEAN]
    BY <2>1, SettledType
  <2>3. heap' \in [Entry -> [err : {"none"} \cup Failures, value : Nat,
                             expires : Nat, loaded : BOOLEAN]]
    BY <1>5, <2>2 DEF Publish, TypeOK
  <2>4. entries' \in [Key -> Entry \cup {None}]
    BY <1>5 DEF Publish, AfterLoad, TypeOK
  <2>5. newest' \in [Key -> Nat]
    <3>1. \A k \in Key : Stored(k)' => StoredValue(k)' \in Nat
      BY <2>3, <2>4 DEF Stored, StoredValue
    <3> QED
      BY <1>5, <3>1 DEF Publish, TypeOK
  <2> QED
    BY <1>5, <2>1, <2>3, <2>4, <2>5 DEF TypeOK, Publish, Return, Result, Ok, writerVars
<1>6. ASSUME NEW c \in Caller, Wake(c) PROVE TypeOK'
  <2>1. held[c] \in Entry
    BY <1>6 DEF Wake, TypeOK, HoldersAreBusy
  <2> QED
    BY <1>6, <2>1 DEF TypeOK, Wake, Return, Result, Ok, Err, cacheVars, writerVars
<1>7. ASSUME NEW c \in Caller, GiveUp(c) PROVE TypeOK'
  BY <1>7 DEF TypeOK, GiveUp, Return, Result, Ok, Err, Failures, cacheVars, writerVars
<1>8. ASSUME NEW c \in Caller, CancelCtx(c) PROVE TypeOK'
  BY <1>8 DEF TypeOK, CancelCtx, Silent, cacheVars, writerVars, historyVars
<1>9. ASSUME NEW w \in Writer, NEW k \in Key, WriteSend(w, k) PROVE TypeOK'
  BY <1>9 DEF TypeOK, WriteSend, Silent, cacheVars, readerVars, historyVars
<1>10. ASSUME NEW w \in Writer, WriteCommits(w) PROVE TypeOK'
  BY <1>10 DEF TypeOK, WriteCommits, Silent, cacheVars, readerVars, historyVars
<1>11. ASSUME NEW w \in Writer, WriteReturns(w) PROVE TypeOK'
  BY <1>11 DEF TypeOK, WriteReturns, DropAll, Silent, readerVars
<1>12. ASSUME NEW w \in Writer, WriteFails(w) PROVE TypeOK'
  BY <1>12 DEF TypeOK, WriteFails, Silent, cacheVars, readerVars, historyVars
<1>13. CASE Invalidate
  BY <1>13 DEF TypeOK, Invalidate, DropAll, Silent, readerVars, writerVars
<1>14. ASSUME NEW k \in Key, RemoteChange(k) PROVE TypeOK'
  BY <1>14 DEF TypeOK, RemoteChange, Silent, cacheVars, readerVars, writerVars, historyVars
<1>15. CASE Tick
  BY <1>15 DEF TypeOK, Tick, Silent, cacheVars, readerVars, writerVars, historyVars
<1>16. CASE UNCHANGED vars
  BY <1>16 DEF TypeOK, vars, cacheVars, readerVars, writerVars, historyVars
<1> QED
  BY <1>1, <1>2, <1>3, <1>4, <1>5, <1>6, <1>7, <1>8, <1>9, <1>10, <1>11, <1>12,
     <1>13, <1>14, <1>15, <1>16 DEF Next, Finishing

-----------------------------------------------------------------------------
(* The shape of the cache: who holds, owns and waits on what. *)

\* TypeOK without the histories: what the shape argument needs of it.
LEMMA TypeFacts ==
  TypeOK => /\ entries \in [Key -> Entry \cup {None}]
            /\ pc \in [Caller -> {"idle", "waiting", "loading", "loaded"}]
            /\ key \in [Caller -> Key]
            /\ held \in [Caller -> Entry \cup {None}]
            /\ DOMAIN heap = Entry
            /\ \A e \in Entry : heap[e].loaded \in BOOLEAN
            /\ got \in [Caller -> Result]
  BY DEF TypeOK

\* With no entry stored and no caller inside, nothing is wired.
LEMMA WiringInit == Init => Wiring
  BY DEF Init, Wiring, HoldersAreBusy, EntriesAreKeyed, MapIsKeyed,
     OwnersAreUnsettled, OpenEntriesHaveAnOwner, WaitersHaveAnOwner,
     FailuresAreNotKept, Stored, Owner

\* A caller that joins waits on an entry somebody loads, or on a settled one.
LEMMA JoinWiring ==
  ASSUME TypeOK, TypeOK', Wiring, NEW c \in Caller, NEW k \in Key,
         NEW t \in {now, now + 1}, Join(c, k, t)
  PROVE  Wiring'
<1> DEFINE e == Swept(now)[k]
<1>1. /\ entries[k] = e /\ e \in Entry /\ ~Expired(e, t)
      /\ \A j \in Key : entries'[j] = entries[j] \/ entries'[j] = None
      /\ entries'[k] = e
  BY TypeFacts DEF Join, Servable, Swept
<1>2. /\ pc[c] = "idle" /\ held[c] = None
      /\ pc' = [pc EXCEPT ![c] = "waiting"]
      /\ held' = [held EXCEPT ![c] = e]
      /\ key' = [key EXCEPT ![c] = k]
      /\ heap' = heap
  BY DEF Join, Lookup, Wiring, HoldersAreBusy
<1> HIDE DEF e
<1>3. HoldersAreBusy'
  BY <1>1, <1>2, TypeFacts DEF Wiring, HoldersAreBusy
<1>4. EntriesAreKeyed'
  BY <1>1, <1>2, TypeFacts DEF Wiring, EntriesAreKeyed, MapIsKeyed, Owner
<1>5. MapIsKeyed'
  BY <1>1, <1>2, TypeFacts DEF Wiring, MapIsKeyed
<1>6. OwnersAreUnsettled'
  BY <1>1, <1>2, TypeFacts DEF Wiring, OwnersAreUnsettled, Owner
<1>7. OpenEntriesHaveAnOwner'
  BY <1>1, <1>2, TypeFacts DEF Wiring, OpenEntriesHaveAnOwner, Owner
<1>8. WaitersHaveAnOwner'
  BY <1>1, <1>2, TypeFacts
     DEF Wiring, WaitersHaveAnOwner, OpenEntriesHaveAnOwner, MapIsKeyed, Owner
<1>9. FailuresAreNotKept'
  BY <1>1, <1>2, TypeFacts DEF Wiring, FailuresAreNotKept, Stored
<1> QED
  BY <1>3, <1>4, <1>5, <1>6, <1>7, <1>8, <1>9 DEF Wiring

\* A caller that claims takes an object nobody holds, and owns it alone.
LEMMA ClaimWiring ==
  ASSUME TypeOK, TypeOK', Wiring, NEW c \in Caller, NEW k \in Key,
         NEW t \in {now, now + 1}, NEW e \in Entry, Claim(c, k, t, e)
  PROVE  Wiring'
<1>1. /\ \A j \in Key \ {k} : entries'[j] = entries[j] \/ entries'[j] = None
      /\ \A j \in Key \ {k} : entries[j] # e
      /\ \A d \in Caller : held[d] # e
      /\ entries'[k] = e
  BY TypeFacts DEF Claim, Unreferenced, Swept
<1>2. /\ pc[c] = "idle" /\ held[c] = None
      /\ pc' = [pc EXCEPT ![c] = "loading"]
      /\ held' = [held EXCEPT ![c] = e]
      /\ key' = [key EXCEPT ![c] = k]
      /\ heap' = [heap EXCEPT ![e] = Claimed]
      /\ Claimed.loaded = FALSE
  BY DEF Claim, Lookup, Claimed, Wiring, HoldersAreBusy
<1>3. HoldersAreBusy'
  BY <1>1, <1>2, TypeFacts DEF Wiring, HoldersAreBusy
<1>4. EntriesAreKeyed'
  BY <1>1, <1>2, TypeFacts DEF Wiring, EntriesAreKeyed, Owner
<1>5. MapIsKeyed'
  BY <1>1, <1>2, TypeFacts DEF Wiring, MapIsKeyed
<1>6. OwnersAreUnsettled'
  BY <1>1, <1>2, TypeFacts DEF Wiring, OwnersAreUnsettled, HoldersAreBusy, Owner
<1>7. OpenEntriesHaveAnOwner'
  BY <1>1, <1>2, TypeFacts DEF Wiring, OpenEntriesHaveAnOwner, Owner
<1>8. WaitersHaveAnOwner'
  BY <1>1, <1>2, TypeFacts DEF Wiring, WaitersHaveAnOwner, HoldersAreBusy, Owner
<1>9. FailuresAreNotKept'
  BY <1>1, <1>2, TypeFacts DEF Wiring, FailuresAreNotKept, Stored
<1> QED
  BY <1>3, <1>4, <1>5, <1>6, <1>7, <1>8, <1>9 DEF Wiring

\* A load that comes back, either way, is still its owner's.
LEMMA LoadWiring ==
  ASSUME TypeOK, TypeOK', Wiring, NEW c \in Caller,
         LoadReads(c) \/ \E e \in Failures : LoadFails(c, e)
  PROVE  Wiring'
<1>1. /\ pc[c] \in {"loading", "loaded"}
      /\ pc' = [pc EXCEPT ![c] = "loaded"]
      /\ UNCHANGED <<entries, heap, key, held>>
  BY DEF LoadReads, LoadFails, cacheVars
<1>2. \A d \in Caller : /\ Owner(d)' <=> Owner(d)
                        /\ pc'[d] = "idle" <=> pc[d] = "idle"
                        /\ pc'[d] = "waiting" <=> pc[d] = "waiting"
  BY <1>1, TypeFacts DEF Owner
<1> QED
  BY <1>1, <1>2 DEF Wiring, HoldersAreBusy, EntriesAreKeyed, MapIsKeyed,
     OwnersAreUnsettled, OpenEntriesHaveAnOwner, WaitersHaveAnOwner,
     FailuresAreNotKept, Stored

\* The owner settles its entry on the way out: its waiters no longer need it.
LEMMA PublishWiring ==
  ASSUME TypeOK, TypeOK', Wiring, NEW c \in Caller, Publish(c)
  PROVE  Wiring'
<1> DEFINE e == held[c]
           g == got[c]
<1>1. /\ pc[c] = "loaded" /\ Owner(c) /\ e \in Entry /\ g \in Result
      /\ pc' = [pc EXCEPT ![c] = "idle"]
      /\ held' = [held EXCEPT ![c] = None]
      /\ key' = key
      /\ heap' = [heap EXCEPT ![e] = Settled(e, g)]
      /\ entries' = AfterLoad(key[c], e, g)
  BY TypeFacts DEF Publish, Return, Owner, Wiring, HoldersAreBusy
<1>2. Settled(e, g).loaded /\ Settled(e, g).err = g.err
  BY <1>1, TypeFacts DEF Settled, TypeOK
<1>3. \A k \in Key : \/ entries'[k] = entries[k] /\ ~(entries[k] = e /\ g.err # "none")
                     \/ entries'[k] = None
  BY <1>1, TypeFacts DEF AfterLoad, Wiring, MapIsKeyed
<1> HIDE DEF e, g
<1>4. HoldersAreBusy'
  BY <1>1, TypeFacts DEF Wiring, HoldersAreBusy
<1>5. EntriesAreKeyed'
  BY <1>1, TypeFacts DEF Wiring, EntriesAreKeyed, Owner
<1>6. MapIsKeyed'
  BY <1>1, <1>3, TypeFacts DEF Wiring, MapIsKeyed
<1>7. OwnersAreUnsettled'
  BY <1>1, <1>2, TypeFacts DEF Wiring, OwnersAreUnsettled, EntriesAreKeyed, Owner, e
<1>8. OpenEntriesHaveAnOwner'
  BY <1>1, <1>2, <1>3, TypeFacts DEF Wiring, OpenEntriesHaveAnOwner, Owner, e
<1>9. WaitersHaveAnOwner'
  BY <1>1, <1>2, TypeFacts DEF Wiring, WaitersHaveAnOwner, HoldersAreBusy, Owner, e
<1>10. FailuresAreNotKept'
  BY <1>1, <1>2, <1>3, TypeFacts DEF Wiring, FailuresAreNotKept, Stored
<1> QED
  BY <1>4, <1>5, <1>6, <1>7, <1>8, <1>9, <1>10 DEF Wiring

\* A waiter that leaves, served or not, was nobody's owner.
LEMMA LeaveWiring ==
  ASSUME TypeOK, TypeOK', Wiring, NEW c \in Caller, Wake(c) \/ GiveUp(c)
  PROVE  Wiring'
<1>1. /\ pc[c] = "waiting" /\ ~Owner(c)
      /\ pc' = [pc EXCEPT ![c] = "idle"]
      /\ held' = [held EXCEPT ![c] = None]
      /\ UNCHANGED <<entries, heap, key>>
  BY DEF Wake, GiveUp, Return, cacheVars, Owner
<1>2. HoldersAreBusy'
  BY <1>1, TypeFacts DEF Wiring, HoldersAreBusy
<1>3. EntriesAreKeyed' /\ MapIsKeyed'
  BY <1>1, TypeFacts DEF Wiring, EntriesAreKeyed, MapIsKeyed, Owner
<1>4. OwnersAreUnsettled'
  BY <1>1, TypeFacts DEF Wiring, OwnersAreUnsettled, Owner
<1>5. OpenEntriesHaveAnOwner' /\ WaitersHaveAnOwner'
  BY <1>1, TypeFacts DEF Wiring, OpenEntriesHaveAnOwner, WaitersHaveAnOwner, Owner
<1>6. FailuresAreNotKept'
  BY <1>1 DEF Wiring, FailuresAreNotKept, Stored
<1> QED
  BY <1>2, <1>3, <1>4, <1>5, <1>6 DEF Wiring

\* Emptying the map leaves the callers and the objects they hold.
LEMMA DropWiring ==
  ASSUME TypeOK, TypeOK', Wiring, entries' = DropAll,
         UNCHANGED <<heap, pc, key, held>>
  PROVE  Wiring'
<1>1. \A k \in Key : entries'[k] = None
  BY DEF DropAll
<1> QED
  BY <1>1 DEF Wiring, HoldersAreBusy, EntriesAreKeyed, MapIsKeyed,
     OwnersAreUnsettled, OpenEntriesHaveAnOwner, WaitersHaveAnOwner,
     FailuresAreNotKept, Stored, Owner

\* What changes neither the map nor the callers leaves them wired as they were.
LEMMA SameWiring ==
  ASSUME Wiring, UNCHANGED <<entries, heap, pc, key, held>>
  PROVE  Wiring'
BY DEF Wiring, HoldersAreBusy, EntriesAreKeyed, MapIsKeyed, OwnersAreUnsettled,
   OpenEntriesHaveAnOwner, WaitersHaveAnOwner, FailuresAreNotKept, Stored, Owner

\* Every step keeps the callers, their entries and the map wired.
LEMMA WiringStep == TypeOK /\ TypeOK' /\ Wiring /\ [Next]_vars => Wiring'
<1> SUFFICES ASSUME TypeOK, TypeOK', Wiring, [Next]_vars PROVE Wiring'
  OBVIOUS
<1>1. ASSUME NEW c \in Caller, NEW k \in Key, NEW t \in {now, now + 1},
             Join(c, k, t) \/ \E e \in Entry : Claim(c, k, t, e)
      PROVE  Wiring'
  BY <1>1, JoinWiring, ClaimWiring
<1>2. ASSUME NEW c \in Caller, Finishing(c) \/ GiveUp(c) PROVE Wiring'
  BY <1>2, LoadWiring, PublishWiring, LeaveWiring DEF Finishing
<1>3. ASSUME NEW c \in Caller, CancelCtx(c) PROVE Wiring'
  BY <1>3, SameWiring DEF CancelCtx, cacheVars
<1>4. ASSUME NEW w \in Writer,
             \/ \E k \in Key : WriteSend(w, k)
             \/ WriteCommits(w) \/ WriteFails(w)
      PROVE  Wiring'
  BY <1>4, SameWiring DEF WriteSend, WriteCommits, WriteFails, cacheVars, readerVars
<1>5. ASSUME NEW w \in Writer, WriteReturns(w) PROVE Wiring'
  BY <1>5, DropWiring DEF WriteReturns, readerVars
<1>6. CASE Invalidate
  BY <1>6, DropWiring DEF Invalidate, readerVars
<1>7. ASSUME NEW k \in Key, RemoteChange(k) PROVE Wiring'
  BY <1>7, SameWiring DEF RemoteChange, cacheVars, readerVars
<1>8. CASE Tick
  BY <1>8, SameWiring DEF Tick, cacheVars, readerVars
<1>9. CASE UNCHANGED vars
  BY <1>9, SameWiring DEF vars, cacheVars, readerVars
<1> QED
  BY <1>1, <1>2, <1>3, <1>4, <1>5, <1>6, <1>7, <1>8, <1>9 DEF Next

-----------------------------------------------------------------------------
(* Freshness: what a load brought back is new enough for all who share it. *)

\* The numbers the freshness argument compares are naturals.
LEMMA NumberFacts ==
  TypeOK => /\ \A k \in Key : version[k] \in Nat /\ floor[k] \in Nat /\ newest[k] \in Nat
            /\ \A c \in Caller : asked[c] \in Nat /\ got[c].value \in Nat
            /\ \A e \in Entry : heap[e].value \in Nat
  BY DEF TypeOK, Result

\* At the start every history is zero.
LEMMA FreshnessInit == Init => Freshness
  BY DEF Init, Freshness, FloorsAreReached, LoadsAreFresh, SettledAreFresh, Stored

\* A caller joins an entry whose value, when it comes, is above the floor it asked at.
LEMMA JoinFreshness ==
  ASSUME IInv, TypeOK', NEW c \in Caller, NEW k \in Key,
         NEW t \in {now, now + 1}, Join(c, k, t)
  PROVE  Freshness'
<1> DEFINE e == Swept(now)[k]
<1> USE DEF IInv
<1>1. /\ entries[k] = e /\ e \in Entry
      /\ \A j \in Key : entries'[j] = entries[j] \/ entries'[j] = None
  BY TypeFacts DEF Join, Servable, Swept
<1>2. /\ pc[c] = "idle" /\ held[c] = None
      /\ pc' = [pc EXCEPT ![c] = "waiting"]
      /\ held' = [held EXCEPT ![c] = e]
      /\ key' = [key EXCEPT ![c] = k]
      /\ asked' = [asked EXCEPT ![c] = floor[k]]
      /\ UNCHANGED <<heap, got, version, floor, newest>>
  BY DEF Join, Lookup, Wiring, HoldersAreBusy, historyVars
<1> HIDE DEF e
<1>3. FloorsAreReached'
  BY <1>1, <1>2, TypeFacts, NumberFacts DEF Freshness, FloorsAreReached, TypeOK
<1>4. ASSUME NEW f \in Entry, NEW j \in Key, NEW v \in Nat, FreshFor(f, j, v),
             f = e => j = k
      PROVE  FreshFor(f, j, v)'
  BY <1>1, <1>2, <1>4, TypeFacts, NumberFacts DEF FreshFor, TypeOK
<1>5. LoadsAreFresh'
  <2> SUFFICES ASSUME NEW d \in Caller, pc'[d] = "loaded", got'[d].err = "none"
               PROVE  FreshFor(held[d], key[d], got[d].value)'
    BY DEF LoadsAreFresh
  <2>1. /\ d # c /\ pc[d] = "loaded" /\ held'[d] = held[d] /\ key'[d] = key[d]
        /\ held[d] \in Entry /\ key[d] \in Key
        /\ FreshFor(held[d], key[d], got[d].value)
    BY <1>2, TypeFacts DEF Freshness, LoadsAreFresh, Wiring, HoldersAreBusy
  <2>2. held[d] = e => key[d] = k
    BY <1>1, <2>1 DEF Wiring, MapIsKeyed
  <2> QED
    BY <1>2, <1>4, <2>1, <2>2, NumberFacts DEF FreshFor
<1>6. ASSUME NEW j \in Key, Stored(j)', heap'[entries'[j]].err = "none"
      PROVE  FreshFor(entries[j], j, heap[entries[j]].value)'
  <2>1. entries'[j] = entries[j] /\ Stored(j) /\ entries[j] \in Entry
    BY <1>1, <1>2, <1>6, TypeFacts DEF Stored
  <2>2. FreshFor(entries[j], j, heap[entries[j]].value)
    BY <1>2, <1>6, <2>1 DEF Freshness, SettledAreFresh
  <2>3. entries[j] = e => j = k
    BY <1>1 DEF Wiring, MapIsKeyed
  <2> QED
    BY <1>2, <1>4, <2>1, <2>2, <2>3, NumberFacts DEF FreshFor
<1>7. ASSUME NEW d \in Caller, pc'[d] = "waiting", heap'[held'[d]].loaded,
             heap'[held'[d]].err = "none"
      PROVE  FreshFor(held[d], key[d], heap[held[d]].value)'
  <2>1. CASE d = c
    <3>1. held'[d] = e /\ key'[d] = k /\ Stored(k)
      BY <1>1, <1>2, <1>7, <2>1, TypeFacts DEF Stored
    <3>2. FreshFor(e, k, heap[e].value)
      BY <1>1, <1>2, <1>7, <3>1 DEF Freshness, SettledAreFresh
    <3> QED
      BY <1>1, <1>2, <1>4, <3>1, <3>2, NumberFacts DEF FreshFor
  <2>2. CASE d # c
    <3>1. /\ pc[d] = "waiting" /\ held'[d] = held[d] /\ key'[d] = key[d]
          /\ held[d] \in Entry /\ key[d] \in Key
      BY <1>2, <1>7, <2>2, TypeFacts DEF Wiring, HoldersAreBusy
    <3>2. FreshFor(held[d], key[d], heap[held[d]].value)
      BY <1>2, <1>7, <3>1 DEF Freshness, SettledAreFresh
    <3>3. held[d] = e => key[d] = k
      BY <1>1, <3>1 DEF Wiring, MapIsKeyed
    <3> QED
      BY <1>2, <1>4, <3>1, <3>2, <3>3, NumberFacts DEF FreshFor
  <2> QED
    BY <2>1, <2>2
<1> QED
  BY <1>3, <1>5, <1>6, <1>7 DEF Freshness, SettledAreFresh

\* A claimed entry begins above the floor of its own lookup.
LEMMA ClaimFreshness ==
  ASSUME IInv, TypeOK', NEW c \in Caller, NEW k \in Key,
         NEW t \in {now, now + 1}, NEW e \in Entry, Claim(c, k, t, e)
  PROVE  Freshness'
<1> USE DEF IInv
<1>1. /\ \A j \in Key \ {k} : entries'[j] = entries[j] \/ entries'[j] = None
      /\ \A d \in Caller : held[d] # e
      /\ entries'[k] = e
  BY TypeFacts DEF Claim, Unreferenced, Swept
<1>2. /\ pc[c] = "idle" /\ held[c] = None
      /\ pc' = [pc EXCEPT ![c] = "loading"]
      /\ held' = [held EXCEPT ![c] = e]
      /\ key' = [key EXCEPT ![c] = k]
      /\ asked' = [asked EXCEPT ![c] = floor[k]]
      /\ heap' = [heap EXCEPT ![e] = Claimed] /\ ~Claimed.loaded
      /\ UNCHANGED <<got, version, floor, newest>>
  BY DEF Claim, Lookup, Claimed, Wiring, HoldersAreBusy, historyVars
<1>3. FloorsAreReached'
  BY <1>1, <1>2, TypeFacts, NumberFacts DEF Freshness, FloorsAreReached, TypeOK
<1>4. ASSUME NEW f \in Entry, f # e, NEW j \in Key, NEW v \in Nat, FreshFor(f, j, v)
      PROVE  FreshFor(f, j, v)'
  BY <1>1, <1>2, <1>4, TypeFacts, NumberFacts DEF FreshFor, TypeOK
<1>5. ASSUME NEW d \in Caller, d # c, pc[d] # "idle", NEW v \in Nat,
             FreshFor(held[d], key[d], v)
      PROVE  FreshFor(held[d], key[d], v)'
  BY <1>1, <1>2, <1>4, <1>5, TypeFacts DEF Wiring, HoldersAreBusy
<1>6. LoadsAreFresh'
  BY <1>2, <1>5, TypeFacts, NumberFacts DEF Freshness, LoadsAreFresh
<1>7. ASSUME NEW j \in Key, Stored(j)', heap'[entries'[j]].err = "none"
      PROVE  FreshFor(entries[j], j, heap[entries[j]].value)'
  <2>1. entries'[j] = entries[j] /\ Stored(j) /\ entries[j] \in Entry /\ entries[j] # e
    BY <1>1, <1>2, <1>7, TypeFacts DEF Stored
  <2>2. FreshFor(entries[j], j, heap[entries[j]].value)
    BY <1>2, <1>7, <2>1 DEF Freshness, SettledAreFresh, TypeOK
  <2> QED
    BY <1>2, <1>4, <2>1, <2>2, NumberFacts, TypeFacts DEF FreshFor
<1>8. ASSUME NEW d \in Caller, pc'[d] = "waiting", heap'[held'[d]].loaded,
             heap'[held'[d]].err = "none"
      PROVE  FreshFor(held[d], key[d], heap[held[d]].value)'
  <2>1. /\ d # c /\ pc[d] = "waiting" /\ held'[d] = held[d] /\ held[d] \in Entry
        /\ heap'[held[d]] = heap[held[d]] /\ key'[d] = key[d]
    BY <1>1, <1>2, <1>8, TypeFacts DEF Wiring, HoldersAreBusy, TypeOK
  <2>2. FreshFor(held[d], key[d], heap[held[d]].value)
    BY <1>8, <2>1 DEF Freshness, SettledAreFresh
  <2> QED
    BY <1>5, <2>1, <2>2, NumberFacts DEF FreshFor
<1> QED
  BY <1>3, <1>6, <1>7, <1>8 DEF Freshness, SettledAreFresh

\* GitHub answers with what it holds, which every floor is below.
LEMMA ReadFreshness ==
  ASSUME IInv, TypeOK', NEW c \in Caller, LoadReads(c)
  PROVE  Freshness'
<1> USE DEF IInv
<1>1. /\ pc[c] = "loading" /\ held[c] \in Entry /\ key[c] \in Key
      /\ pc' = [pc EXCEPT ![c] = "loaded"]
      /\ got' = [got EXCEPT ![c] = Ok(version[key[c]])]
      /\ Ok(version[key[c]]).value = version[key[c]]
      /\ UNCHANGED <<entries, heap, version, floor, newest, key, held, asked>>
  BY TypeFacts DEF LoadReads, Ok, cacheVars, historyVars, Wiring, HoldersAreBusy
<1>2. FreshFor(held[c], key[c], version[key[c]])
  <2>1. ASSUME NEW d \in Caller, held[d] = held[c] PROVE asked[d] <= version[key[c]]
    <3>1. key[d] = key[c] /\ pc[d] # "idle"
      BY <1>1, <2>1, TypeFacts DEF Wiring, EntriesAreKeyed, HoldersAreBusy
    <3> QED
      BY <1>1, <3>1, NumberFacts DEF Freshness, FloorsAreReached
  <2> QED
    BY <1>1, <2>1, NumberFacts DEF FreshFor, Freshness, FloorsAreReached
<1>3. FloorsAreReached'
  BY <1>1, TypeFacts DEF Freshness, FloorsAreReached
<1>4. LoadsAreFresh'
  BY <1>1, <1>2, TypeFacts DEF Freshness, LoadsAreFresh, FreshFor, TypeOK
<1>5. SettledAreFresh'
  BY <1>1, TypeFacts DEF Freshness, SettledAreFresh, FreshFor, Stored
<1> QED
  BY <1>3, <1>4, <1>5 DEF Freshness

\* A load that fails brings no value to compare.
LEMMA FailFreshness ==
  ASSUME IInv, TypeOK', NEW c \in Caller, NEW x \in Failures, LoadFails(c, x)
  PROVE  Freshness'
<1> USE DEF IInv
<1>1. /\ pc[c] \in {"loading", "loaded"}
      /\ pc' = [pc EXCEPT ![c] = "loaded"]
      /\ got' = [got EXCEPT ![c] = Err(x)] /\ Err(x).err # "none"
      /\ UNCHANGED <<entries, heap, version, floor, newest, key, held, asked>>
  BY DEF LoadFails, Err, Failures, cacheVars, historyVars
<1>2. FloorsAreReached'
  BY <1>1, TypeFacts DEF Freshness, FloorsAreReached
<1>3. LoadsAreFresh'
  BY <1>1, TypeFacts DEF Freshness, LoadsAreFresh, FreshFor, TypeOK
<1>4. SettledAreFresh'
  BY <1>1, TypeFacts DEF Freshness, SettledAreFresh, FreshFor, Stored
<1> QED
  BY <1>2, <1>3, <1>4 DEF Freshness

\* Publishing moves what is stored from what the owner read, never backwards.
LEMMA PublishFreshness ==
  ASSUME IInv, TypeOK', Wiring', NEW c \in Caller, Publish(c)
  PROVE  Freshness'
<1> DEFINE e == held[c]
           g == got[c]
           q == key[c]
<1> USE DEF IInv
<1>1. /\ pc[c] = "loaded" /\ Owner(c) /\ e \in Entry /\ q \in Key /\ g \in Result
      /\ pc' = [pc EXCEPT ![c] = "idle"]
      /\ held' = [held EXCEPT ![c] = None]
      /\ heap' = [heap EXCEPT ![e] = Settled(e, g)]
      /\ asked' = [asked EXCEPT ![c] = 0]
      /\ got' = [got EXCEPT ![c] = Ok(0)]
      /\ \A k \in Key : \/ newest'[k] = newest[k] /\ (Stored(k)' => StoredValue(k)' <= newest[k])
                        \/ newest'[k] = StoredValue(k)' /\ Stored(k)'
      /\ UNCHANGED <<key, version, floor>>
  BY TypeFacts, NumberFacts DEF Publish, Return, Owner, Wiring, HoldersAreBusy,
     Stored, StoredValue, TypeOK
<1>2. Settled(e, g).err = g.err /\ (g.err = "none" => Settled(e, g).value = g.value)
  BY <1>1, TypeFacts DEF Settled, TypeOK
<1>3. \A k \in Key : entries'[k] = entries[k] \/ entries'[k] = None
  BY <1>1, TypeFacts DEF Publish, AfterLoad
<1>4. g.err = "none" => FreshFor(e, q, g.value)
  BY <1>1 DEF Freshness, LoadsAreFresh
<1>5. \A k \in Key : entries[k] = e => k = q
  BY <1>1 DEF Wiring, MapIsKeyed
<1> HIDE DEF e, g, q
\* Every stored value of the new state, with its new history.
<1>6. ASSUME NEW k \in Key, Stored(k)'
      PROVE  /\ StoredValue(k)' \in Nat /\ StoredValue(k)' <= version[k]
             /\ floor[k] <= StoredValue(k)' /\ newest'[k] <= StoredValue(k)'
             /\ heap'[entries'[k]].err = "none"
  <2>1. entries'[k] = entries[k] /\ entries[k] \in Entry
    BY <1>3, <1>6, TypeFacts DEF Stored
  <2>2. heap'[entries'[k]].err = "none"
    BY <1>6 DEF Wiring, FailuresAreNotKept
  <2>3. CASE entries[k] = e
    <3>1. k = q /\ g.err = "none" /\ StoredValue(k)' = g.value
      BY <1>1, <1>2, <1>5, <2>1, <2>2, <2>3, TypeFacts DEF StoredValue
    <3>2. FreshFor(e, k, g.value)
      BY <1>4, <3>1
    <3> QED
      BY <1>1, <1>6, <2>2, <2>3, <3>1, <3>2, NumberFacts DEF FreshFor, Result
  <2>4. CASE entries[k] # e
    <3>1. Stored(k) /\ StoredValue(k)' = heap[entries[k]].value /\ heap[entries[k]].err = "none"
      BY <1>1, <1>6, <2>1, <2>2, <2>4, TypeFacts DEF Stored, StoredValue
    <3>2. FreshFor(entries[k], k, heap[entries[k]].value)
      BY <3>1 DEF Freshness, SettledAreFresh
    <3> QED
      BY <1>1, <1>6, <2>1, <2>2, <3>1, <3>2, NumberFacts DEF FreshFor
  <2> QED
    BY <2>3, <2>4
<1>7. \A k \in Key : newest'[k] = newest[k] \/ Stored(k)'
  BY <1>1
<1>8. FloorsAreReached'
  BY <1>1, <1>6, <1>7, TypeFacts, NumberFacts DEF Freshness, FloorsAreReached, TypeOK
\* An entry that is in the map and still open has no new history.
<1>9. ASSUME NEW f \in Entry, NEW k \in Key, NEW v \in Nat, FreshFor(f, k, v),
             Stored(k)' /\ entries'[k] = f => StoredValue(k)' = v
      PROVE  FreshFor(f, k, v)'
  <2>1. entries'[k] = f => floor[k] <= v /\ newest'[k] <= v
    BY <1>3, <1>6, <1>7, <1>9, TypeFacts DEF FreshFor
  <2>2. \A d \in Caller : held'[d] = f => held[d] = f /\ asked'[d] = asked[d]
    BY <1>1, TypeFacts DEF TypeOK
  <2> QED
    BY <1>1, <1>9, <2>1, <2>2 DEF FreshFor
<1>10. ASSUME NEW d \in Caller, pc'[d] = "loaded", got'[d].err = "none"
       PROVE  FreshFor(held[d], key[d], got[d].value)'
  <2>1. /\ d # c /\ pc[d] = "loaded" /\ got'[d] = got[d] /\ held'[d] = held[d]
        /\ held[d] \in Entry /\ key[d] \in Key /\ Owner(d)'
    BY <1>1, <1>10, TypeFacts DEF Wiring, HoldersAreBusy, Owner
  <2>2. FreshFor(held[d], key[d], got[d].value)
    BY <1>10, <2>1 DEF Freshness, LoadsAreFresh
  <2>3. ~(Stored(key[d])' /\ entries'[key[d]] = held[d])
    <3>1. ~heap'[held[d]].loaded
      BY <2>1 DEF Wiring, OwnersAreUnsettled
    <3>2. Stored(key[d])' => heap'[entries'[key[d]]].loaded
      BY <1>1 DEF Stored
    <3> QED
      BY <3>1, <3>2
  <2> QED
    BY <1>1, <1>9, <2>1, <2>2, <2>3, NumberFacts DEF FreshFor
<1>11. ASSUME NEW d \in Caller, pc'[d] = "waiting", heap'[held'[d]].loaded,
              heap'[held'[d]].err = "none"
       PROVE  FreshFor(held[d], key[d], heap[held[d]].value)'
  <2>1. d # c /\ pc[d] = "waiting" /\ held'[d] = held[d] /\ held[d] \in Entry /\ key[d] \in Key
    BY <1>1, <1>11, TypeFacts DEF Wiring, HoldersAreBusy
  <2>2. /\ heap'[held[d]].value \in Nat
        /\ FreshFor(held[d], key[d], heap'[held[d]].value)
    <3>1. CASE held[d] = e
      <4>1. key[d] = q
        BY <1>1, <2>1, <3>1, TypeFacts DEF Wiring, EntriesAreKeyed, e, q
      <4>2. heap'[held[d]].value = g.value /\ g.err = "none"
        BY <1>1, <1>2, <1>11, <2>1, <3>1, TypeFacts
      <4> QED
        BY <1>1, <1>4, <3>1, <4>1, <4>2 DEF Result
    <3>2. CASE held[d] # e
      <4>1. heap'[held[d]] = heap[held[d]]
        BY <1>1, <2>1, <3>2, TypeFacts
      <4>2. FreshFor(held[d], key[d], heap[held[d]].value)
        BY <1>11, <2>1, <4>1 DEF Freshness, SettledAreFresh
      <4> QED
        BY <2>1, <4>1, <4>2, NumberFacts
    <3> QED
      BY <3>1, <3>2
  <2>3. Stored(key[d])' /\ entries'[key[d]] = held[d]
          => StoredValue(key[d])' = heap'[held[d]].value
    BY <1>1 DEF StoredValue
  <2> QED
    BY <1>1, <1>9, <2>1, <2>2, <2>3 DEF FreshFor
<1>12. ASSUME NEW k \in Key, Stored(k)'
       PROVE  FreshFor(entries[k], k, heap[entries[k]].value)'
  <2>1. \A d \in Caller : held'[d] = entries'[k] => asked'[d] <= StoredValue(k)'
    <3> SUFFICES ASSUME NEW d \in Caller, held'[d] = entries'[k]
                 PROVE  asked'[d] <= StoredValue(k)'
      OBVIOUS
    <3>1. /\ pc'[d] # "idle" /\ key'[d] = k
      BY <1>12, TypeFacts DEF Wiring, HoldersAreBusy, MapIsKeyed, Stored
    <3>2. asked'[d] <= floor'[k]
      BY <1>8, <3>1 DEF FloorsAreReached
    <3> QED
      BY <1>1, <1>6, <1>12, <3>2, NumberFacts DEF TypeOK
  <2> QED
    BY <1>1, <1>6, <1>12, <2>1 DEF FreshFor, StoredValue
<1> QED
  BY <1>8, <1>10, <1>11, <1>12 DEF Freshness, LoadsAreFresh, SettledAreFresh

\* A waiter that leaves changes nothing the others compare.
LEMMA LeaveFreshness ==
  ASSUME IInv, TypeOK', NEW c \in Caller, Wake(c) \/ GiveUp(c)
  PROVE  Freshness'
<1> USE DEF IInv
<1>1. /\ pc[c] = "waiting"
      /\ pc' = [pc EXCEPT ![c] = "idle"]
      /\ held' = [held EXCEPT ![c] = None]
      /\ asked' = [asked EXCEPT ![c] = 0]
      /\ got' = [got EXCEPT ![c] = Ok(0)]
      /\ UNCHANGED <<entries, heap, key, version, floor, newest>>
  BY DEF Wake, GiveUp, Return, cacheVars
<1>2. FloorsAreReached'
  BY <1>1, TypeFacts DEF Freshness, FloorsAreReached, TypeOK
<1>3. ASSUME NEW f \in Entry, NEW k, NEW v, FreshFor(f, k, v) PROVE FreshFor(f, k, v)'
  BY <1>1, <1>3, TypeFacts DEF FreshFor, TypeOK
<1>4. LoadsAreFresh'
  BY <1>1, <1>3, TypeFacts DEF Freshness, LoadsAreFresh, FreshFor, Wiring,
     HoldersAreBusy, TypeOK
<1>5. SettledAreFresh'
  BY <1>1, <1>3, TypeFacts DEF Freshness, SettledAreFresh, FreshFor, Stored, Wiring,
     HoldersAreBusy, TypeOK
<1> QED
  BY <1>2, <1>4, <1>5 DEF Freshness

\* Nothing that is joinable survives an invalidation, so a higher floor binds
\* no load that began below it.
LEMMA DropFreshness ==
  ASSUME IInv, TypeOK', entries' = DropAll, floor' = version,
         UNCHANGED <<heap, version, readerVars, newest>>
  PROVE  Freshness'
<1> USE DEF IInv, readerVars
<1>1. \A k \in Key : entries'[k] = None
  BY DEF DropAll
<1>2. FloorsAreReached'
  <2>1. \A c \in Caller : pc[c] # "idle" => asked[c] <= version[key[c]]
    BY TypeFacts, NumberFacts DEF Freshness, FloorsAreReached
  <2> QED
    BY <2>1, NumberFacts DEF Freshness, FloorsAreReached
<1>3. ASSUME NEW f \in Entry, NEW k \in Key, NEW v, FreshFor(f, k, v)
      PROVE  FreshFor(f, k, v)'
  BY <1>1, <1>3 DEF FreshFor
<1>4. LoadsAreFresh'
  BY <1>3, TypeFacts DEF Freshness, LoadsAreFresh, FreshFor, Wiring, HoldersAreBusy
<1>5. SettledAreFresh'
  BY <1>1, <1>3, TypeFacts DEF Freshness, SettledAreFresh, FreshFor, Stored, Wiring,
     HoldersAreBusy
<1> QED
  BY <1>2, <1>4, <1>5 DEF Freshness

\* GitHub's data only moves forward.
LEMMA ChangeFreshness ==
  ASSUME IInv, TypeOK', NEW q \in Key, version' = [version EXCEPT ![q] = @ + 1],
         UNCHANGED <<entries, heap, readerVars, floor, newest>>
  PROVE  Freshness'
<1> USE DEF IInv, readerVars
<1>1. \A k \in Key : version[k] <= version'[k] /\ version[k] \in Nat /\ version'[k] \in Nat
  BY NumberFacts DEF TypeOK
<1>2. FloorsAreReached'
  BY <1>1, NumberFacts DEF Freshness, FloorsAreReached
<1>3. ASSUME NEW f, NEW k \in Key, NEW v \in Nat, FreshFor(f, k, v)
      PROVE  FreshFor(f, k, v)'
  BY <1>1, <1>3 DEF FreshFor
<1>4. LoadsAreFresh'
  BY <1>3, TypeFacts, NumberFacts DEF Freshness, LoadsAreFresh, FreshFor
<1>5. SettledAreFresh'
  BY <1>3, TypeFacts, NumberFacts DEF Freshness, SettledAreFresh, FreshFor, Stored,
     Wiring, HoldersAreBusy
<1> QED
  BY <1>2, <1>4, <1>5 DEF Freshness

\* What changes neither values nor floors keeps every comparison.
LEMMA SameFreshness ==
  ASSUME Freshness,
         UNCHANGED <<entries, heap, version, floor, newest, pc, key, held, got, asked>>
  PROVE  Freshness'
BY DEF Freshness, FloorsAreReached, LoadsAreFresh, SettledAreFresh, FreshFor, Stored

\* Every step keeps what is stored and what is loading above the floors.
LEMMA FreshnessStep == IInv /\ TypeOK' /\ Wiring' /\ [Next]_vars => Freshness'
<1> SUFFICES ASSUME IInv, TypeOK', Wiring', [Next]_vars PROVE Freshness'
  OBVIOUS
<1>1. ASSUME NEW c \in Caller, NEW k \in Key, NEW t \in {now, now + 1},
             Join(c, k, t) \/ \E e \in Entry : Claim(c, k, t, e)
      PROVE  Freshness'
  BY <1>1, JoinFreshness, ClaimFreshness
<1>2. ASSUME NEW c \in Caller, Finishing(c) \/ GiveUp(c) PROVE Freshness'
  BY <1>2, ReadFreshness, FailFreshness, PublishFreshness, LeaveFreshness DEF Finishing
<1>3. ASSUME NEW c \in Caller, CancelCtx(c) PROVE Freshness'
  BY <1>3, SameFreshness DEF CancelCtx, cacheVars, historyVars, IInv
<1>4. ASSUME NEW w \in Writer, (\E k \in Key : WriteSend(w, k)) \/ WriteFails(w)
      PROVE  Freshness'
  BY <1>4, SameFreshness DEF WriteSend, WriteFails, cacheVars, readerVars,
     historyVars, IInv
<1>5. ASSUME NEW w \in Writer, WriteCommits(w) PROVE Freshness'
  <2>1. wkey[w] \in Key
    BY DEF IInv, TypeOK
  <2> QED
    BY <1>5, <2>1, ChangeFreshness DEF WriteCommits, cacheVars, historyVars
<1>6. ASSUME NEW w \in Writer, WriteReturns(w) PROVE Freshness'
  BY <1>6, DropFreshness DEF WriteReturns
<1>7. CASE Invalidate
  BY <1>7, DropFreshness DEF Invalidate
<1>8. ASSUME NEW k \in Key, RemoteChange(k) PROVE Freshness'
  BY <1>8, ChangeFreshness DEF RemoteChange, cacheVars, historyVars
<1>9. CASE Tick
  BY <1>9, SameFreshness DEF Tick, cacheVars, readerVars, historyVars, IInv
<1>10. CASE UNCHANGED vars
  BY <1>10, SameFreshness DEF vars, cacheVars, readerVars, historyVars, IInv
<1> QED
  BY <1>1, <1>2, <1>3, <1>4, <1>5, <1>6, <1>7, <1>8, <1>9, <1>10 DEF Next

-----------------------------------------------------------------------------
(* The theorems. *)

\* The inductive argument, once for the theorems.
LEMMA Invariance == Spec => []IInv
<1>1. Init => IInv
  BY TypeInit, WiringInit, FreshnessInit DEF IInv
<1>2. IInv /\ [Next]_vars => IInv'
  <2> SUFFICES ASSUME IInv, [Next]_vars PROVE IInv'
    OBVIOUS
  <2>1. TypeOK'
    BY TypeStep DEF IInv, Wiring
  <2>2. Wiring'
    BY <2>1, WiringStep DEF IInv
  <2>3. Freshness'
    BY <2>1, <2>2, FreshnessStep
  <2> QED
    BY <2>1, <2>2, <2>3 DEF IInv
<1> QED
  BY <1>1, <1>2, PTL DEF Spec

\* Every variable of the cache keeps its type.
THEOREM TypeCorrect == Spec => []TypeOK
<1>1. IInv => TypeOK
  BY DEF IInv
<1> QED
  BY <1>1, Invariance, PTL

\* What the cache stores under a key only moves forward, however loads,
\* expiry and invalidations interleave.
THEOREM StoredForward == Spec => []StoredNeverGoesBack
<1>1. IInv => StoredNeverGoesBack
  <2> SUFFICES ASSUME IInv, NEW k \in Key, Stored(k) PROVE StoredValue(k) >= newest[k]
    BY DEF StoredNeverGoesBack
  <2>1. entries[k] \in Entry /\ heap[entries[k]].err = "none"
    BY TypeFacts DEF IInv, Wiring, FailuresAreNotKept, Stored
  <2>2. FreshFor(entries[k], k, heap[entries[k]].value)
    BY <2>1 DEF IInv, Freshness, SettledAreFresh
  <2> QED
    BY <2>1, <2>2, NumberFacts DEF IInv, FreshFor, StoredValue
<1> QED
  BY <1>1, Invariance, PTL

\* No waiter is left behind: an entry somebody waits on is settled or has an
\* owner, also once it has been dropped from the map.
THEOREM WaitersOwned == Spec => []WaitersHaveAnOwner
<1>1. IInv => WaitersHaveAnOwner
  BY DEF IInv, Wiring
<1> QED
  BY <1>1, Invariance, PTL

\* A failed load is never left where a lookup would find it.
THEOREM FailuresDropped == Spec => []FailuresAreNotKept
<1>1. IInv => FailuresAreNotKept
  BY DEF IInv, Wiring
<1> QED
  BY <1>1, Invariance, PTL

\* The three together, for any callers, writers, keys and lifetimes (cache.go's
\* getOrLoad).
THEOREM Sound == Spec => []CacheIsSound
  BY TypeCorrect, WaitersOwned, FailuresDropped, PTL DEF CacheIsSound

\* A call ends in one of three ways.
LEMMA WaysToReturn ==
  ASSUME TypeOK, [Next]_vars, NEW c \in Caller, Returns(c)
  PROVE  Publish(c) \/ Wake(c) \/ GiveUp(c)
<1> USE TypeFacts DEF Returns
<1>1. ASSUME NEW d \in Caller, NEW k \in Key, NEW t \in {now, now + 1},
             Join(d, k, t) \/ \E e \in Entry : Claim(d, k, t, e)
      PROVE  FALSE
  BY <1>1 DEF Join, Claim
<1>2. ASSUME NEW d \in Caller, LoadReads(d) \/ \E e \in Failures : LoadFails(d, e)
      PROVE  FALSE
  BY <1>2 DEF LoadReads, LoadFails
<1>3. ASSUME NEW d \in Caller, Publish(d) \/ Wake(d) \/ GiveUp(d) PROVE d = c
  BY <1>3 DEF Publish, Wake, GiveUp, Return
<1>4. ASSUME UNCHANGED pc PROVE FALSE
  BY <1>4
<1>5. ASSUME NEW d \in Caller, CancelCtx(d) PROVE UNCHANGED pc
  BY <1>5 DEF CancelCtx
<1>6. ASSUME NEW w \in Writer,
             \/ \E k \in Key : WriteSend(w, k)
             \/ WriteCommits(w) \/ WriteReturns(w) \/ WriteFails(w)
      PROVE  UNCHANGED pc
  BY <1>6 DEF WriteSend, WriteCommits, WriteReturns, WriteFails, readerVars
<1>7. Invalidate \/ Tick \/ (\E k \in Key : RemoteChange(k)) \/ UNCHANGED vars
        => UNCHANGED pc
  BY DEF Invalidate, Tick, RemoteChange, vars, readerVars
<1> QED
  BY <1>1, <1>2, <1>3, <1>4, <1>5, <1>6, <1>7 DEF Next, Finishing

\* What a read is answered with lies between the floor it began with and what
\* GitHub holds now; a read that gets no value gets one of the failures.
LEMMA RepliesAreFresh ==
  ASSUME IInv, [Next]_vars, NEW c \in Caller, Returns(c)
  PROVE  /\ reply'.to = c
         /\ \/ /\ reply' = [to |-> c, err |-> "none", value |-> reply'.value]
               /\ reply'.value \in Nat
               /\ asked[c] <= reply'.value /\ reply'.value <= version[key[c]]
            \/ \E x \in Failures : reply' = [to |-> c, err |-> x, value |-> 0]
<1> USE DEF IInv
<1>1. CASE Publish(c)
  <2>1. /\ reply' = [to |-> c, err |-> got[c].err,
                      value |-> IF got[c].err = "none" THEN got[c].value ELSE 0]
        /\ pc[c] = "loaded"
    BY <1>1 DEF Publish, Return
  <2>2. got[c].err = "none" => FreshFor(held[c], key[c], got[c].value)
    BY <2>1 DEF Freshness, LoadsAreFresh
  <2>3. got[c].err # "none" => got[c].err \in Failures
    BY TypeFacts DEF Result
  <2> QED
    BY <2>1, <2>2, <2>3, NumberFacts DEF FreshFor
<1>2. CASE Wake(c)
  <2> DEFINE e == heap[held[c]]
  <2>1. pc[c] = "waiting" /\ held[c] \in Entry /\ e.loaded
    BY <1>2, TypeFacts DEF Wake, Wiring, HoldersAreBusy
  <2>2. CASE e.err = "none"
    <3>1. reply' = [to |-> c, err |-> "none", value |-> e.value]
      BY <1>2, <2>2 DEF Wake, Return, Ok
    <3>2. FreshFor(held[c], key[c], e.value)
      BY <2>1, <2>2 DEF Freshness, SettledAreFresh
    <3> QED
      BY <2>1, <3>1, <3>2, NumberFacts DEF FreshFor
  <2>3. CASE e.err # "none"
    <3>1. reply' = [to |-> c, err |-> e.err, value |-> 0] /\ e.err \in Failures
      BY <1>2, <2>1, <2>3 DEF Wake, Return, Err, TypeOK
    <3> QED
      BY <3>1
  <2> QED
    BY <2>2, <2>3
<1>3. CASE GiveUp(c)
  BY <1>3 DEF GiveUp, Return, Err, Failures
<1> QED
  BY <1>1, <1>2, <1>3, WaysToReturn

\* A read that starts after an invalidation never answers from before it.
THEOREM ReadsAreFresh == Spec => ReadsSeeInvalidations
<1>1. IInv /\ [Next]_vars =>
        [\A c \in Caller : Answers(c) => reply'.value >= asked[c]]_vars
  <2> SUFFICES ASSUME IInv, [Next]_vars, NEW c \in Caller, Answers(c)
               PROVE  reply'.value >= asked[c]
    OBVIOUS
  <2>1. Returns(c) /\ reply'.err = "none" /\ asked[c] \in Nat
    BY NumberFacts DEF Answers, IInv
  <2>2. \A x \in Failures : x # "none"
    BY DEF Failures
  <2> QED
    BY <2>1, <2>2, RepliesAreFresh
<1> QED
  BY <1>1, Invariance, PTL DEF Spec, ReadsSeeInvalidations

\* A load that comes back settles its own entry and no other.
THEOREM OwnersKeepToTheirEntry == Spec => ReturnsTouchOnlyTheirOwnEntry
<1>1. IInv /\ [Next]_vars =>
        [\A c \in Caller : Owner(c) /\ Returns(c) =>
           \A k \in Key : entries[k] # held[c] => entries'[k] = entries[k]]_vars
  <2> SUFFICES ASSUME IInv, [Next]_vars, NEW c \in Caller, Owner(c), Returns(c),
                      NEW k \in Key, entries[k] # held[c]
               PROVE  entries'[k] = entries[k]
    OBVIOUS
  <2>1. Publish(c)
    BY WaysToReturn DEF IInv, Owner, Wake, GiveUp
  <2> QED
    BY <2>1, TypeFacts DEF IInv, Publish, AfterLoad
<1> QED
  BY <1>1, Invariance, PTL DEF Spec, ReturnsTouchOnlyTheirOwnEntry

\* A load that lookups can join stays joinable until it is back.
THEOREM SingleFlight == Spec => InFlightStays
<1>1. IInv /\ [Next]_vars =>
        [\A c \in Caller : Owner(c) /\ Owner(c)' /\ entries[key[c]] = held[c] =>
           entries'[key[c]] = held[c] \/ entries' = [k \in Key |-> None]]_vars
  <2> SUFFICES ASSUME IInv, [Next]_vars, NEW c \in Caller, Owner(c), Owner(c)',
                      entries[key[c]] = held[c]
               PROVE  entries'[key[c]] = held[c] \/ entries' = DropAll
    BY DEF DropAll
  <2> USE TypeFacts DEF IInv
  <2>1. held[c] \in Entry /\ key[c] \in Key /\ ~heap[held[c]].loaded
    BY DEF Owner, Wiring, HoldersAreBusy, OwnersAreUnsettled
  <2>2. \A t : Swept(t)[key[c]] = held[c] /\ Servable(held[c], t)
    BY <2>1 DEF Swept, Servable, Expired
  <2>3. ASSUME NEW d \in Caller, NEW k \in Key, NEW t \in {now, now + 1}, Join(d, k, t)
        PROVE  entries'[key[c]] = held[c]
    BY <2>2, <2>3 DEF Join
  <2>4. ASSUME NEW d \in Caller, NEW k \in Key, NEW t \in {now, now + 1},
               NEW e \in Entry, Claim(d, k, t, e)
        PROVE  entries'[key[c]] = held[c]
    <3>1. k # key[c]
      BY <2>2, <2>4 DEF Claim
    <3> QED
      BY <2>1, <2>2, <2>4, <3>1 DEF Claim, Swept
  <2>5. ASSUME NEW d \in Caller, Publish(d) PROVE entries'[key[c]] = held[c]
    <3>1. d # c /\ held[d] # held[c]
      <4>1. d # c
        BY <2>5 DEF Publish, Return, Owner
      <4> QED
        BY <2>1, <2>5, <4>1 DEF Publish, Owner, Wiring, EntriesAreKeyed
    <3> QED
      BY <2>1, <2>5, <3>1 DEF Publish, AfterLoad
  <2>6. ASSUME NEW d \in Caller,
               \/ LoadReads(d) \/ (\E e \in Failures : LoadFails(d, e))
               \/ Wake(d) \/ GiveUp(d) \/ CancelCtx(d)
        PROVE  entries' = entries
    BY <2>6 DEF LoadReads, LoadFails, Wake, GiveUp, CancelCtx, cacheVars
  <2>7. ASSUME NEW w \in Writer,
               \/ \E k \in Key : WriteSend(w, k)
               \/ WriteCommits(w) \/ WriteReturns(w) \/ WriteFails(w)
        PROVE  entries' = entries \/ entries' = DropAll
    BY <2>7 DEF WriteSend, WriteCommits, WriteReturns, WriteFails, cacheVars
  <2>8. Invalidate \/ Tick \/ (\E k \in Key : RemoteChange(k)) \/ UNCHANGED vars
          => entries' = entries \/ entries' = DropAll
    BY DEF Invalidate, Tick, RemoteChange, vars, cacheVars
  <2> QED
    BY <2>3, <2>4, <2>5, <2>6, <2>7, <2>8 DEF Next, Finishing
<1> QED
  BY <1>1, Invariance, PTL DEF Spec, InFlightStays

\* Whoever waits looked the key up before what it waits on expires, if that is
\* settled, and no later than now if it is not.
InTime ==
  \A c \in Caller : pc[c] = "waiting" =>
    /\ begun[c] <= now
    /\ heap[held[c]].loaded /\ heap[held[c]].err = "none" =>
         begun[c] < heap[held[c]].expires

\* Nothing that leaves the entries, the lookups and the order of time alone matters.
LEMMA SameTimes ==
  ASSUME IInv, InTime, UNCHANGED <<heap, held, begun>>, now' \in {now, now + 1},
         \A c \in Caller : pc'[c] = "waiting" => pc[c] = "waiting"
  PROVE  InTime'
<1>1. now \in Nat /\ begun \in [Caller -> Nat]
  BY DEF IInv, TypeOK
<1>2. \A c \in Caller : pc[c] = "waiting" => begun[c] <= now'
  BY <1>1 DEF InTime
<1> QED
  BY <1>2 DEF InTime

\* An entry that is joined is in flight or has not expired; one that is settled
\* expires later than now, when all its waiters have looked it up; and one that is
\* claimed anew has no waiter.
LEMMA TimesStep == IInv /\ InTime /\ [Next]_vars => InTime'
<1> SUFFICES ASSUME IInv, InTime, [Next]_vars PROVE InTime'
  OBVIOUS
<1> USE TypeFacts DEF IInv
<1>a. now \in Nat /\ begun \in [Caller -> Nat]
      /\ \A e \in Entry : heap[e].expires \in Nat
  BY DEF TypeOK
<1>b. \A c \in Caller : pc[c] # "idle" => held[c] \in Entry
  BY DEF Wiring, HoldersAreBusy
<1>1. ASSUME NEW c \in Caller, NEW k \in Key, NEW t \in {now, now + 1}, Join(c, k, t)
      PROVE  InTime'
  <2> DEFINE e == Swept(now)[k]
  <2>1. e # None /\ ~Expired(e, t) /\ e \in Entry
    BY <1>1 DEF Join, Servable, Swept
  <2> HIDE DEF e
  <2>2. heap[e].loaded => t < heap[e].expires
    BY <1>a, <2>1 DEF Expired
  <2>3. /\ pc' = [pc EXCEPT ![c] = "waiting"] /\ held' = [held EXCEPT ![c] = e]
        /\ begun' = [begun EXCEPT ![c] = t] /\ heap' = heap /\ now' = t
    BY <1>1 DEF Join, Lookup, e
  <2> QED
    BY <1>a, <1>b, <2>1, <2>2, <2>3 DEF InTime
<1>2. ASSUME NEW c \in Caller, NEW k \in Key, NEW t \in {now, now + 1},
             NEW e \in Entry, Claim(c, k, t, e)
      PROVE  InTime'
  <2>1. /\ pc' = [pc EXCEPT ![c] = "loading"] /\ held' = [held EXCEPT ![c] = e]
        /\ begun' = [begun EXCEPT ![c] = t] /\ heap' = [heap EXCEPT ![e] = Claimed]
        /\ now' = t /\ \A d \in Caller : held[d] # e
    BY <1>2 DEF Claim, Lookup, Unreferenced
  <2> QED
    BY <1>a, <1>b, <2>1 DEF InTime
<1>3. ASSUME NEW c \in Caller, Publish(c)
      PROVE  InTime'
  <2>1. /\ pc' = [pc EXCEPT ![c] = "idle"] /\ held' = [held EXCEPT ![c] = None]
        /\ begun' = [begun EXCEPT ![c] = 0] /\ now' = now
        /\ heap' = [heap EXCEPT ![held[c]] = Settled(held[c], got[c])]
    BY <1>3 DEF Publish, Return
  <2>2. Settled(held[c], got[c]).err = "none"
          => Settled(held[c], got[c]).expires = now + TTL
    BY <1>a, <1>b, <1>3 DEF Settled, Publish, TypeOK
  <2> QED
    BY <1>a, <1>b, <2>1, <2>2 DEF InTime
<1>4. ASSUME NEW c \in Caller, Wake(c) \/ GiveUp(c)
      PROVE  InTime'
  <2>1. /\ pc' = [pc EXCEPT ![c] = "idle"] /\ held' = [held EXCEPT ![c] = None]
        /\ begun' = [begun EXCEPT ![c] = 0] /\ now' = now /\ heap' = heap
    BY <1>4 DEF Wake, GiveUp, Return, cacheVars
  <2> QED
    BY <1>a, <1>b, <2>1 DEF InTime
<1>5. ASSUME NEW c \in Caller,
             LoadReads(c) \/ (\E e \in Failures : LoadFails(c, e)) \/ CancelCtx(c)
      PROVE  InTime'
  BY <1>5, SameTimes DEF LoadReads, LoadFails, CancelCtx, cacheVars
<1>6. ASSUME NEW w \in Writer,
             \/ \E k \in Key : WriteSend(w, k)
             \/ WriteCommits(w) \/ WriteReturns(w) \/ WriteFails(w)
      PROVE  InTime'
  BY <1>6, SameTimes
     DEF WriteSend, WriteCommits, WriteReturns, WriteFails, cacheVars, readerVars
<1>7. CASE Invalidate \/ (\E k \in Key : RemoteChange(k)) \/ Tick \/ UNCHANGED vars
  BY <1>7, SameTimes DEF Invalidate, RemoteChange, Tick, vars, cacheVars, readerVars
<1> QED
  BY <1>1, <1>2, <1>3, <1>4, <1>5, <1>6, <1>7 DEF Next, Finishing

\* A value that a lookup found stored, or that it waited for, was inside its TTL at
\* that lookup, although the answer may come later (cache.go's getOrLoad).
THEOREM ServedInTime == Spec => NotServedPastExpiry
<1>1. Init => InTime
  BY DEF Init, InTime
<1>2. IInv /\ InTime /\ [Next]_vars =>
        [\A c \in Caller : pc[c] = "waiting" /\ Answers(c) =>
           begun[c] < heap[held[c]].expires]_vars
  <2> SUFFICES ASSUME IInv, InTime, [Next]_vars,
                      NEW c \in Caller, pc[c] = "waiting", Answers(c)
               PROVE  begun[c] < heap[held[c]].expires
    OBVIOUS
  <2>1. Returns(c) /\ reply'.err = "none"
    BY DEF Answers
  <2>2. Wake(c)
    <3>1. ~Publish(c)
      BY DEF Publish
    <3>2. ~GiveUp(c)
      BY <2>1 DEF GiveUp, Return, Err
    <3> QED
      BY <2>1, <3>1, <3>2, WaysToReturn DEF IInv
  <2>3. heap[held[c]].loaded /\ heap[held[c]].err = "none"
    BY <2>1, <2>2 DEF Wake, Return, Err, Ok
  <2> QED
    BY <2>3 DEF InTime
<1> QED
  BY <1>1, <1>2, TimesStep, Invariance, PTL DEF Spec, NotServedPastExpiry

-----------------------------------------------------------------------------
(* The cache implements ReadThrough. *)

Call == [c \in Caller |-> IF pc[c] = "idle" THEN [busy |-> FALSE]
                          ELSE [busy |-> TRUE, key |-> key[c], need |-> asked[c]]]

\* A lookup, joined or claimed, is a call that begins for the reader.
LEMMA LookupRefines ==
  ASSUME IInv, NEW c \in Caller, NEW k \in Key, NEW t \in {now, now + 1},
         NEW e \in Entry, Lookup(c, k, t, e),
         pc' = [pc EXCEPT ![c] = "waiting"] \/ pc' = [pc EXCEPT ![c] = "loading"]
  PROVE  RT!Begin(c, k)
<1> USE TypeFacts DEF IInv
<1>1. Call[c] = RT!Idle
  BY DEF Lookup, Call, RT!Idle
<1>2. Call' = [Call EXCEPT ![c] = RT!Read(k, floor[k])]
  BY DEF Lookup, Call, RT!Read, TypeOK
<1> QED
  BY <1>1, <1>2 DEF Lookup, Call, RT!Begin, RT!Silent, Silent, historyVars

\* A return is the reader's answer, fresh enough for what it asked.
LEMMA ReturnRefines ==
  ASSUME IInv, [Next]_vars, NEW c \in Caller, Publish(c) \/ Wake(c) \/ GiveUp(c)
  PROVE  (RT!Answer(c) /\ Call[c] # RT!Idle) \/ RT!Fail(c)
<1> USE TypeFacts DEF IInv
<1>1. /\ Returns(c)
      /\ pc' = [pc EXCEPT ![c] = "idle"]
      /\ UNCHANGED <<key, version, floor>>
      /\ asked' = [asked EXCEPT ![c] = 0]
  BY DEF Returns, Publish, Wake, GiveUp, Return
<1>2. /\ Call[c] = [busy |-> TRUE, key |-> key[c], need |-> asked[c]]
      /\ Call[c] # RT!Idle
  BY <1>1 DEF Returns, Call, RT!Idle
<1>3. Call' = [Call EXCEPT ![c] = RT!Idle]
  BY <1>1 DEF Call, RT!Idle, TypeOK
<1>4. CASE /\ reply' = [to |-> c, err |-> "none", value |-> reply'.value]
           /\ reply'.value \in Nat
           /\ asked[c] <= reply'.value /\ reply'.value <= version[key[c]]
  <2>1. reply'.value \in Call[c].need .. version[Call[c].key]
    BY <1>2, <1>4, NumberFacts
  <2> HIDE DEF IInv
  <2>2. RT!Answer(c)
    BY <1>1, <1>2, <1>3, <1>4, <2>1 DEF RT!Answer, RT!Finish, RT!Ok, Call
  <2> QED
    BY <1>2, <2>2
<1>5. ASSUME NEW x \in Failures, reply' = [to |-> c, err |-> x, value |-> 0]
      PROVE  RT!Fail(c)
  <2>1. RT!Finish(c, RT!Err(x))
    BY <1>1, <1>2, <1>3, <1>5 DEF RT!Finish, RT!Err, Call
  <2> QED
    BY <2>1 DEF RT!Fail, RT!Failures, Failures
<1> QED
  BY <1>1, <1>4, <1>5, RepliesAreFresh

\* Every other step shows a reader nothing, a change or an invalidation.
LEMMA QuietRefines ==
  ASSUME IInv, reply' = Silent, UNCHANGED <<key, asked>>,
         \A c \in Caller : pc'[c] = "idle" <=> pc[c] = "idle"
  PROVE  /\ UNCHANGED <<version, floor>> => RT!Quiet
         /\ \A k \in Key : version' = [version EXCEPT ![k] = @ + 1] /\ floor' = floor
                             => RT!Change(k)
         /\ version' = version /\ floor' = version => RT!Invalidate
<1>1. Call' = Call
  BY DEF Call
<1> QED
  BY <1>1 DEF Call, RT!Quiet, RT!Change, RT!Invalidate, RT!Silent, Silent

\* The cache implements what the store promises its readers.
THEOREM Implements == Spec => ReadThroughSpec
<1>1. Init => RT!Init
  BY DEF Init, RT!Init, RT!Idle, RT!Silent, Silent
<1>2. IInv /\ [Next]_vars => [RT!Next]_(RT!vars)
  <2> SUFFICES ASSUME IInv, [Next]_vars PROVE [RT!Next]_(RT!vars)
    OBVIOUS
  <2>1. ASSUME NEW c \in Caller, NEW k \in Key, NEW t \in {now, now + 1}, Join(c, k, t)
        PROVE  RT!Next
    <3>1. Swept(now)[k] \in Entry
      BY <2>1, TypeFacts DEF IInv, Join, Servable, Swept
    <3>2. RT!Begin(c, k)
      BY <2>1, <3>1, LookupRefines DEF Join
    <3> QED
      BY <3>2 DEF RT!Next
  <2>2. ASSUME NEW c \in Caller, NEW k \in Key, NEW t \in {now, now + 1},
               NEW e \in Entry, Claim(c, k, t, e)
        PROVE  RT!Next
    <3>1. RT!Begin(c, k)
      BY <2>2, LookupRefines DEF Claim
    <3> QED
      BY <3>1 DEF RT!Next
  <2>3. ASSUME NEW c \in Caller, Publish(c) \/ Wake(c) \/ GiveUp(c) PROVE RT!Next
    BY <2>3, ReturnRefines DEF RT!Next, Call
  <2>4. ASSUME NEW c \in Caller,
               LoadReads(c) \/ (\E e \in Failures : LoadFails(c, e)) \/ CancelCtx(c)
        PROVE  RT!Next
    <3>1. RT!Quiet
      BY <2>4, QuietRefines, TypeFacts DEF IInv, LoadReads, LoadFails, CancelCtx, historyVars
    <3> QED
      BY <3>1 DEF RT!Next
  <2>5. ASSUME NEW w \in Writer, (\E k \in Key : WriteSend(w, k)) \/ WriteFails(w)
        PROVE  RT!Next
    <3>1. RT!Quiet
      BY <2>5, QuietRefines DEF WriteSend, WriteFails, readerVars, historyVars
    <3> QED
      BY <3>1 DEF RT!Next
  <2>6. ASSUME NEW w \in Writer, WriteCommits(w) PROVE RT!Next
    <3>1. wkey[w] \in Key /\ RT!Change(wkey[w])
      BY <2>6, QuietRefines DEF WriteCommits, readerVars, historyVars, IInv, TypeOK
    <3> QED
      BY <3>1 DEF RT!Next
  <2>7. ASSUME NEW w \in Writer, WriteReturns(w) PROVE RT!Next
    <3>1. RT!Invalidate
      BY <2>7, QuietRefines DEF WriteReturns, readerVars
    <3> QED
      BY <3>1 DEF RT!Next
  <2>8. CASE Invalidate
    <3>1. RT!Invalidate
      BY <2>8, QuietRefines DEF Invalidate, readerVars
    <3> QED
      BY <3>1 DEF RT!Next
  <2>9. ASSUME NEW k \in Key, RemoteChange(k) PROVE RT!Next
    <3>1. RT!Change(k)
      BY <2>9, QuietRefines DEF RemoteChange, readerVars, historyVars
    <3> QED
      BY <3>1 DEF RT!Next
  <2>10. CASE Tick
    <3>1. RT!Quiet
      BY <2>10, QuietRefines DEF Tick, readerVars, historyVars
    <3> QED
      BY <3>1 DEF RT!Next
  <2>11. CASE UNCHANGED vars
    BY <2>11 DEF vars, readerVars, historyVars, RT!vars
  <2> QED
    BY <2>1, <2>2, <2>3, <2>4, <2>5, <2>6, <2>7, <2>8, <2>9, <2>10, <2>11
       DEF Next, Finishing
<1> QED
  BY <1>1, <1>2, Invariance, PTL DEF Spec, ReadThroughSpec, RT!Spec
=============================================================================
