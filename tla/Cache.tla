------------------------------- MODULE Cache -------------------------------
(***************************************************************************)
(* The read-through cache every store method goes through                  *)
(* (internal/store/cache.go), the loads it collapses, and the writes that  *)
(* empty it (internal/store/rest.go). A step is what one goroutine does    *)
(* under the cache's mutex, or one thing that happens to a request while   *)
(* no goroutine holds it. The values are the versions of a key on GitHub.  *)
(***************************************************************************)
EXTENDS Integers

CONSTANTS Key,         \* cache keys
          Caller,      \* goroutines inside a read method
          Writer,      \* goroutines inside Merge, ClosePR, Approve...
          Entry,       \* the cacheEntry objects
          None,        \* "not in the map", "no entry"
          TTL,         \* newCache's ttl, in ticks
          MaxNow,      \* bound: the clock stops here
          MaxVersion   \* bound: a key changes this many times on GitHub

ASSUME KeyAssumption == Key # {}
ASSUME NoneAssumption == None \notin Entry
ASSUME TTLAssumption == TTL \in Nat \ {0}
ASSUME BoundAssumption == MaxNow \in Nat /\ MaxVersion \in Nat

VARIABLES
  now,       \* the cache's clock
  version,   \* version[k]: what GitHub would answer for k
  entries,   \* cache.entries
  heap,      \* the cacheEntry objects: what each points at
  pc, key,   \* where a caller is in getOrLoad, and for which key
  held,      \* the entry a caller claimed or waits on
  got,       \* what an owner's load returned
  canceled,  \* the caller's ctx is done
  reply,     \* what getOrLoad returned in the last step, if it did
  wpc, wkey, \* where a writer is, and what it writes
  floor,     \* history: version at the last invalidation
  newest,    \* history: the newest value stored for k so far
  asked,     \* history: floor[key] when the caller looked the key up
  begun      \* history: the time of that lookup

readerVars == <<pc, key, held, got, canceled, asked, begun>>
writerVars == <<wpc, wkey>>
cacheVars  == <<entries, heap>>
historyVars == <<floor, newest>>
vars == <<now, version, cacheVars, readerVars, writerVars, historyVars, reply>>

Failures == {"failed", "canceled"}
Ok(v) == [err |-> "none", value |-> v]
Err(e) == [err |-> e, value |-> 0]
Silent == [to |-> None, err |-> "none", value |-> 0]

\* A claimed entry: ready is open and expires is still the zero time.
Claimed == [err |-> "none", value |-> 0, expires |-> 0, loaded |-> FALSE]

Init == /\ now = 0
        /\ version = [k \in Key |-> 0]
        /\ entries = [k \in Key |-> None]
        /\ heap = [e \in Entry |-> Claimed]
        /\ pc = [c \in Caller |-> "idle"]
        /\ key = [c \in Caller |-> CHOOSE k \in Key : TRUE]
        /\ held = [c \in Caller |-> None]
        /\ got = [c \in Caller |-> Ok(0)]
        /\ canceled = [c \in Caller |-> FALSE]
        /\ reply = Silent
        /\ wpc = [w \in Writer |-> "idle"]
        /\ wkey = [w \in Writer |-> CHOOSE k \in Key : TRUE]
        /\ floor = [k \in Key |-> 0]
        /\ newest = [k \in Key |-> 0]
        /\ asked = [c \in Caller |-> 0]
        /\ begun = [c \in Caller |-> 0]

-----------------------------------------------------------------------------
(* Looking a key up. *)

\* Mutant: an entry that is served at its expiry.
ExpiredLate(e, t) == heap[e].loaded /\ t > heap[e].expires

Expired(e, t) == heap[e].loaded /\ t >= heap[e].expires

\* sweepLocked at time t.
Swept(t) == [k \in Key |-> IF entries[k] # None /\ Expired(entries[k], t)
                           THEN None ELSE entries[k]]

\* An in-flight entry is joined, a live one is served.
Servable(e, t) == e # None /\ ~Expired(e, t)

\* An entry object nothing points at once k is claimed anew: the allocator's
\* next one.
Unreferenced(e, k) == /\ \A j \in Key \ {k} : entries[j] # e
                      /\ \A c \in Caller : held[c] # e

\* What both outcomes of a lookup do. The clock is read twice under the lock,
\* by the sweep and by the test of the entry, and may advance in between.
Lookup(c, k, t, e) ==
  /\ pc[c] = "idle"
  /\ t \in {now, now + 1} /\ t <= MaxNow
  /\ now' = t
  /\ key' = [key EXCEPT ![c] = k]
  /\ held' = [held EXCEPT ![c] = e]
  /\ asked' = [asked EXCEPT ![c] = floor[k]]
  /\ begun' = [begun EXCEPT ![c] = t]
  /\ reply' = Silent
  /\ UNCHANGED <<version, got, canceled, writerVars, historyVars>>

Join(c, k, t) ==
  LET e == Swept(now)[k] IN
  /\ Servable(e, t)
  /\ Lookup(c, k, t, e)
  /\ pc' = [pc EXCEPT ![c] = "waiting"]
  /\ entries' = Swept(now)
  /\ UNCHANGED heap

Claim(c, k, t, e) ==
  /\ ~Servable(Swept(now)[k], t)
  /\ Unreferenced(e, k)
  /\ Lookup(c, k, t, e)
  /\ pc' = [pc EXCEPT ![c] = "loading"]
  /\ entries' = [Swept(now) EXCEPT ![k] = e]
  /\ heap' = [heap EXCEPT ![e] = Claimed]

-----------------------------------------------------------------------------
(* The load, outside the lock: rate limiter, request, response. *)

\* GitHub reads the key; the response is on its way.
LoadReads(c) == /\ pc[c] = "loading"
                /\ pc' = [pc EXCEPT ![c] = "loaded"]
                /\ got' = [got EXCEPT ![c] = Ok(version[key[c]])]
                /\ reply' = Silent
                /\ UNCHANGED <<now, version, cacheVars, key, held, canceled,
                               asked, begun, writerVars, historyVars>>

\* The limiter, the request or the response fails; a done ctx is one reason.
LoadFails(c, e) == /\ pc[c] = "loading" \/ (pc[c] = "loaded" /\ got[c].err = "none")
                   /\ e = "canceled" => canceled[c]
                   /\ pc' = [pc EXCEPT ![c] = "loaded"]
                   /\ got' = [got EXCEPT ![c] = Err(e)]
                   /\ reply' = Silent
                   /\ UNCHANGED <<now, version, cacheVars, key, held, canceled,
                                  asked, begun, writerVars, historyVars>>

\* The call ends and its locals go; an error comes with the zero value.
Return(c, a) == /\ pc' = [pc EXCEPT ![c] = "idle"]
                /\ held' = [held EXCEPT ![c] = None]
                /\ got' = [got EXCEPT ![c] = Ok(0)]
                /\ canceled' = [canceled EXCEPT ![c] = FALSE]
                /\ asked' = [asked EXCEPT ![c] = 0]
                /\ begun' = [begun EXCEPT ![c] = 0]
                /\ reply' = [to |-> c, err |-> a.err,
                             value |-> IF a.err = "none" THEN a.value ELSE 0]
                /\ UNCHANGED <<now, version, key, writerVars, floor>>

\* What a lookup of k would find settled in the map.
Stored(k) == entries[k] # None /\ heap[entries[k]].loaded
StoredValue(k) == heap[entries[k]].value

\* Mutant: a failure that never closes ready.
SettledOnSuccess(e, g) == IF g.err = "none"
                          THEN [err |-> "none", value |-> g.value,
                                expires |-> now + TTL, loaded |-> TRUE]
                          ELSE [heap[e] EXCEPT !.err = g.err]

\* What an owner leaves in its entry when the load is back.
Settled(e, g) == IF g.err = "none"
                 THEN [err |-> "none", value |-> g.value,
                       expires |-> now + TTL, loaded |-> TRUE]
                 ELSE [heap[e] EXCEPT !.err = g.err, !.loaded = TRUE]

\* Mutants: the load stores its entry again, a failed one stays in the map, and
\* a failure drops whatever the key holds by now.
AfterLoadStoring(k, e, g) == [entries EXCEPT ![k] = IF g.err = "none" THEN e ELSE None]
AfterLoadKeeping(k, e, g) == entries
AfterLoadUnchecked(k, e, g) == IF g.err # "none"
                               THEN [entries EXCEPT ![k] = None] ELSE entries

\* A failure leaves nothing behind, unless the key is someone else's by now.
AfterLoad(k, e, g) == IF g.err # "none" /\ entries[k] = e
                      THEN [entries EXCEPT ![k] = None] ELSE entries

\* The owner takes the lock again, settles the entry and closes ready.
Publish(c) == /\ pc[c] = "loaded"
              /\ heap' = [heap EXCEPT ![held[c]] = Settled(held[c], got[c])]
              /\ entries' = AfterLoad(key[c], held[c], got[c])
              /\ Return(c, got[c])
              /\ newest' = [k \in Key |->
                   IF Stored(k)' /\ StoredValue(k)' > newest[k]
                   THEN StoredValue(k)' ELSE newest[k]]

\* ready is closed: the owner's result is the waiter's, its error included.
Wake(c) == /\ pc[c] = "waiting"
           /\ heap[held[c]].loaded
           /\ LET e == heap[held[c]] IN
              Return(c, IF e.err = "none" THEN Ok(e.value) ELSE Err(e.err))
           /\ UNCHANGED <<cacheVars, newest>>

\* The waiter's own ctx is done. Both cases of the select may be ready.
GiveUp(c) == /\ pc[c] = "waiting" /\ canceled[c]
             /\ Return(c, Err("canceled"))
             /\ UNCHANGED <<cacheVars, newest>>

\* A route is closed while its read is running.
CancelCtx(c) == /\ pc[c] # "idle" /\ ~canceled[c]
                /\ canceled' = [canceled EXCEPT ![c] = TRUE]
                /\ reply' = Silent
                /\ UNCHANGED <<now, version, cacheVars, pc, key, held, got,
                               asked, begun, writerVars, historyVars>>

-----------------------------------------------------------------------------
(* Writes, invalidation and the world outside. *)

\* Mutant: an invalidation spares the loads that are running.
DropSettled == [k \in Key |-> IF Stored(k) THEN None ELSE entries[k]]

\* invalidate: every entry goes, in-flight or not.
DropAll == [k \in Key |-> None]

Invalidate == /\ entries' = DropAll
              /\ floor' = version
              /\ reply' = Silent
              /\ UNCHANGED <<now, version, heap, readerVars, writerVars, newest>>

WriteSend(w, k) == /\ wpc[w] = "idle"
                   /\ wpc' = [wpc EXCEPT ![w] = "sent"]
                   /\ wkey' = [wkey EXCEPT ![w] = k]
                   /\ reply' = Silent
                   /\ UNCHANGED <<now, version, cacheVars, readerVars, historyVars>>

WriteCommits(w) == /\ wpc[w] = "sent"
                   /\ version[wkey[w]] < MaxVersion
                   /\ wpc' = [wpc EXCEPT ![w] = "committed"]
                   /\ version' = [version EXCEPT ![wkey[w]] = @ + 1]
                   /\ reply' = Silent
                   /\ UNCHANGED <<now, cacheVars, readerVars, wkey, historyVars>>

\* The client call returned nil: the cache is emptied before the caller knows.
WriteReturns(w) == /\ wpc[w] = "committed"
                   /\ wpc' = [wpc EXCEPT ![w] = "idle"]
                   /\ entries' = DropAll
                   /\ floor' = version
                   /\ reply' = Silent
                   /\ UNCHANGED <<now, version, heap, readerVars, wkey, newest>>

\* An error, whether or not GitHub applied the write: the cache stays.
WriteFails(w) == /\ wpc[w] \in {"sent", "committed"}
                 /\ wpc' = [wpc EXCEPT ![w] = "idle"]
                 /\ reply' = Silent
                 /\ UNCHANGED <<now, version, cacheVars, readerVars, wkey, historyVars>>

RemoteChange(k) == /\ version[k] < MaxVersion
                   /\ version' = [version EXCEPT ![k] = @ + 1]
                   /\ reply' = Silent
                   /\ UNCHANGED <<now, cacheVars, readerVars, writerVars, historyVars>>

Tick == /\ now < MaxNow
        /\ now' = now + 1
        /\ reply' = Silent
        /\ UNCHANGED <<version, cacheVars, readerVars, writerVars, historyVars>>

Finishing(c) == \/ LoadReads(c)
                \/ \E e \in Failures : LoadFails(c, e)
                \/ Publish(c)
                \/ Wake(c)

Next ==
  \/ \E c \in Caller, k \in Key, t \in {now, now + 1} :
       \/ Join(c, k, t)
       \/ \E e \in Entry : Claim(c, k, t, e)
  \/ \E c \in Caller : Finishing(c) \/ GiveUp(c) \/ CancelCtx(c)
  \/ \E w \in Writer : \/ \E k \in Key : WriteSend(w, k)
                       \/ WriteCommits(w) \/ WriteReturns(w) \/ WriteFails(w)
  \/ Invalidate
  \/ \E k \in Key : RemoteChange(k)
  \/ Tick

Spec == Init /\ [][Next]_vars

\* Both transports bound a request by 15 seconds and a goroutine that can run
\* runs, so a load comes back, an owner publishes and a waiter wakes.
FairSpec == Spec /\ \A c \in Caller : WF_vars(Finishing(c))

-----------------------------------------------------------------------------
(* Properties. *)

Result == [err : {"none"} \cup Failures, value : Nat]

TypeOK ==
  /\ now \in Nat
  /\ version \in [Key -> Nat] /\ floor \in [Key -> Nat] /\ newest \in [Key -> Nat]
  /\ entries \in [Key -> Entry \cup {None}]
  /\ heap \in [Entry -> [err : {"none"} \cup Failures, value : Nat,
                         expires : Nat, loaded : BOOLEAN]]
  /\ pc \in [Caller -> {"idle", "waiting", "loading", "loaded"}]
  /\ key \in [Caller -> Key]
  /\ held \in [Caller -> Entry \cup {None}]
  /\ got \in [Caller -> Result]
  /\ canceled \in [Caller -> BOOLEAN]
  /\ reply \in [to : Caller \cup {None}, err : {"none"} \cup Failures, value : Nat]
  /\ wpc \in [Writer -> {"idle", "sent", "committed"}]
  /\ wkey \in [Writer -> Key]
  /\ asked \in [Caller -> Nat] /\ begun \in [Caller -> Nat]

Owner(c) == pc[c] \in {"loading", "loaded"}

\* getOrLoad returns to c in this step, with or without an error.
Returns(c) == pc[c] # "idle" /\ pc'[c] = "idle"
Answers(c) == Returns(c) /\ reply'.to = c /\ reply'.err = "none"

\* A read that starts after a write returned, or after the interface
\* invalidated the store, never answers from before it: not from a stored
\* entry, not from a load that was already running. (cache.go, invalidate)
ReadsSeeInvalidations ==
  [][\A c \in Caller : Answers(c) => reply'.value >= asked[c]]_vars

\* A slow first response never overwrites a fresh one: what the cache stores
\* under a key only moves forward. (cache.go, the comment of type cache)
StoredNeverGoesBack ==
  \A k \in Key : Stored(k) => StoredValue(k) >= newest[k]

\* A failed load is not served to anybody who looks the key up later.
FailuresAreNotKept ==
  \A k \in Key : Stored(k) => heap[entries[k]].err = "none"

\* Whoever waits on an entry that is still in flight waits for a goroutine
\* that is running its load, also after the entry left the map.
WaitersHaveAnOwner ==
  \A c \in Caller : pc[c] = "waiting" /\ ~heap[held[c]].loaded =>
    \E o \in Caller : Owner(o) /\ held[o] = held[c] /\ key[o] = key[c]

\* The cache is sound in every state: what it holds is of its type, and the two
\* hazards of a failure and of a dropped entry are kept out.
CacheIsSound == TypeOK /\ FailuresAreNotKept /\ WaitersHaveAnOwner

\* Single flight: a load that lookups can join stays joinable until it is
\* back or everything is dropped, so no lookup starts a second one.
InFlightStays ==
  [][\A c \in Caller :
       Owner(c) /\ Owner(c)' /\ entries[key[c]] = held[c] =>
         entries'[key[c]] = held[c] \/ entries' = [k \in Key |-> None]]_vars

\* A load that comes back settles its own entry and no other: one that was
\* dropped meanwhile stores nothing, and does not evict its successor.
ReturnsTouchOnlyTheirOwnEntry ==
  [][\A c \in Caller : Owner(c) /\ Returns(c) =>
       \A k \in Key : entries[k] # held[c] => entries'[k] = entries[k]]_vars

\* A value that a lookup found stored was inside its TTL at that lookup,
\* although the answer may come later.
NotServedPastExpiry ==
  [][\A c \in Caller :
       pc[c] = "waiting" /\ Answers(c) =>
         begun[c] < heap[held[c]].expires]_vars

\* Every read comes back.
EveryReadReturns == \A c \in Caller : pc[c] # "idle" ~> pc[c] = "idle"

\* The cache implements what the store promises its readers.
RT == INSTANCE ReadThrough WITH
        call <- [c \in Caller |->
                   IF pc[c] = "idle" THEN [busy |-> FALSE]
                   ELSE [busy |-> TRUE, key |-> key[c], need |-> asked[c]]]
ReadThroughSpec == RT!Spec
=============================================================================
