---------------------------- MODULE ReadThrough ----------------------------
(***************************************************************************)
(* What the store promises a reader (internal/store/store.go: "Reads may   *)
(* be served from cache; writes invalidate it", "Invalidate drops every    *)
(* cached read, so the next call refetches"), with no cache, no lock and   *)
(* no request in sight: a register per key that a reader may find out of   *)
(* date, but never older than the last invalidation before its call.       *)
(***************************************************************************)
EXTENDS Naturals

CONSTANTS Key,      \* what is read: one cache key of the store
          Caller,   \* the goroutines that call a read method
          None      \* nobody

VARIABLES version,  \* version[k]: the value GitHub holds for k
          floor,    \* floor[k]: the value it held at the last invalidation
          call,     \* call[c]: the read c is inside, or Idle
          reply     \* the answer given in the last step, if any

vars == <<version, floor, call, reply>>

Idle == [busy |-> FALSE]
Read(k, need) == [busy |-> TRUE, key |-> k, need |-> need]

Ok(v) == [err |-> "none", value |-> v]
Silent == [to |-> None, err |-> "none", value |-> 0]
Failures == {"failed", "canceled"}
Err(e) == [err |-> e, value |-> 0]

Init == /\ version = [k \in Key |-> 0]
        /\ floor = [k \in Key |-> 0]
        /\ call = [c \in Caller |-> Idle]
        /\ reply = Silent

\* The data changes on GitHub: someone else's write, or this program's.
Change(k) == /\ version' = [version EXCEPT ![k] = @ + 1]
             /\ reply' = Silent
             /\ UNCHANGED <<floor, call>>

\* A write returned, or the interface asked for fresh data.
Invalidate == /\ floor' = version
              /\ reply' = Silent
              /\ UNCHANGED <<version, call>>

Begin(c, k) == /\ call[c] = Idle
               /\ call' = [call EXCEPT ![c] = Read(k, floor[k])]
               /\ reply' = Silent
               /\ UNCHANGED <<version, floor>>

Finish(c, a) == /\ call[c] # Idle
                /\ call' = [call EXCEPT ![c] = Idle]
                /\ reply' = [to |-> c, err |-> a.err, value |-> a.value]
                /\ UNCHANGED <<version, floor>>

\* A value no older than the floor the call began with.
Answer(c) == \E v \in call[c].need .. version[call[c].key] : Finish(c, Ok(v))

Fail(c) == \E e \in Failures : Finish(c, Err(e))

\* Nothing a reader can see happens; the last reply has been taken.
Quiet == reply' = Silent /\ UNCHANGED <<version, floor, call>>

Next == \/ Quiet
        \/ \E k \in Key : Change(k)
        \/ Invalidate
        \/ \E c \in Caller : \/ \E k \in Key : Begin(c, k)
                             \/ call[c] # Idle /\ Answer(c)
                             \/ Fail(c)

Spec == Init /\ [][Next]_vars
=============================================================================
