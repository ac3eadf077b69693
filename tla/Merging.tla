------------------------------- MODULE Merging -------------------------------
(***************************************************************************)
(* Merging and closing a pull request: the gate that offers it             *)
(* (internal/ui/prdetails.go), the chooser and the confirmations           *)
(* (internal/ui/merge.go, internal/overlay), and the writes they lead to.  *)
(*                                                                         *)
(* Every key that opens, swaps or closes something does it with a message  *)
(* of its own, and messages arrive in any order: a chooser closes at once, *)
(* its confirmation opens later, and keys pressed in between go to         *)
(* whatever is on top by then.                                             *)
(*                                                                         *)
(* Abstractions: one details screen is on the stack at a time (Routes has  *)
(* the pushes pressed twice); what the screen loads besides the gate is    *)
(* left out, and so is what a finished write makes it load again; the      *)
(* permission of the viewer on a repository does not change; saving a new  *)
(* default touches nothing but the configuration file.                     *)
(***************************************************************************)
EXTENDS Integers, Sequences, FiniteSetsExt

CONSTANTS
  PR,          \* pull requests, of any repository
  None,
  Number,      \* the number each has in its repository
  Writable,    \* those the viewer may merge or close
  Options,     \* the merge methods, in the order the chooser cycles through
  Configured,  \* the default the program was started with
  MaxAsks,     \* bound: dialogs asked for
  MaxCycles,   \* bound: changes of the default
  MaxOut       \* bound: pops, or gates of one pull request, out at once

Method == {Options[i] : i \in 1..Len(Options)}

ASSUME PRAssumption     == None \notin PR /\ Writable \subseteq PR /\ Number \in [PR -> Nat]
ASSUME FinitePRs        == IsFiniteSet(PR)
ASSUME MethodAssumption ==
  /\ Options \in Seq(STRING)
  /\ Configured \in Method
  /\ "close" \notin Method
ASSUME BoundAssumption  == MaxAsks \in Nat /\ MaxCycles \in Nat /\ MaxOut \in Nat

\* What a confirmation is about to do, and the two kinds of dialog.  A chooser
\* shows one default and holds the one it was opened with, which Enter takes.
How == Method \cup {"close"}
Chooser(p, m, d) == [kind |-> "chooser", pr |-> p, shows |-> m, submits |-> d]
Confirm(p, h) == [kind |-> "confirm", pr |-> p, how |-> h]
Overlay == [kind : {"chooser"}, pr : PR, shows : Method, submits : Method]
             \cup [kind : {"confirm"}, pr : PR, how : How]

\* The messages on their way to the root, and the writes, which are goroutines
\* like any other command, on their way to GitHub.
Push(o) == [kind |-> "push", overlay |-> o]
Replace(o) == [kind |-> "replace", overlay |-> o]
Gate(p) == [kind |-> "gate", pr |-> p]
Default(m) == [kind |-> "default", how |-> m]
Write(p, h) == [kind |-> "write", pr |-> p, how |-> h]
Pop == [kind |-> "pop"]
DialogMessage == [kind : {"push", "replace"}, overlay : Overlay]
WriteMessage == [kind : {"write"}, pr : PR, how : How]
Message == DialogMessage \cup WriteMessage \cup [kind : {"gate"}, pr : PR]
             \cup [kind : {"default"}, how : Method] \cup {Pop}

VARIABLES
  shown,     \* the pull request whose details are on the route stack, or None
  above,     \* another route is on top of it
  canWrite,  \* gate.CanWrite of that screen
  method,    \* its mergeMethod
  overlays,  \* the modal stack, the top one last
  mail,      \* how many of each message are out
  asks,      \* dialogs asked for so far
  cycles,    \* changes of the default so far
  written    \* merges and closes that reached GitHub

route == <<shown, above, canWrite, method>>
history == <<asks, cycles, written>>
vars == <<route, overlays, mail, history>>

----------------------------------------------------------------------------

OnTop == shown # None /\ ~above
Top == overlays[Len(overlays)]
TopIs(kind) == overlays # <<>> /\ Top.kind = kind
Popped == SubSeq(overlays, 1, Len(overlays) - 1)

Send(m) == mail' = [mail EXCEPT ![m] = @ + 1]
Receive(m) == mail[m] > 0 /\ mail' = [mail EXCEPT ![m] = @ - 1]

\* nextDefault: the option after this one, around the end.
NextDefault(m) ==
  LET at == CHOOSE i \in 1..Len(Options) : Options[i] = m
  IN Options[(at % Len(Options)) + 1]

Init ==
  /\ shown = None /\ above = FALSE /\ canWrite = FALSE /\ method = Configured
  /\ overlays = <<>>
  /\ mail = [m \in Message |-> 0]
  /\ asks = 0 /\ cycles = 0 /\ written = 0

----------------------------------------------------------------------------
(* The route: keys reach it while no dialog is open.                       *)

\* The push of a details screen arrives: the gate is asked for with the
\* program's context, so leaving the screen does not take the question back.
Open(p) ==
  /\ shown = None /\ mail[Gate(p)] < MaxOut
  /\ shown' = p /\ above' = FALSE /\ canWrite' = FALSE /\ method' = Configured
  /\ Send(Gate(p))
  /\ UNCHANGED <<overlays, history>>

\* Esc.
Back ==
  /\ OnTop /\ overlays = <<>> /\ mail[Pop] < MaxOut
  /\ Send(Pop)
  /\ UNCHANGED <<route, overlays, history>>

PopArrives ==
  /\ Receive(Pop)
  /\ above' = FALSE
  /\ shown' = IF above THEN shown ELSE None
  /\ UNCHANGED <<canWrite, method, overlays, history>>

\* Help or the switcher over the details, and back to them or to the root.
Cover ==
  /\ OnTop /\ overlays = <<>>
  /\ above' = TRUE
  /\ UNCHANGED <<shown, canWrite, method, overlays, mail, history>>
Uncover ==
  /\ above /\ overlays = <<>>
  /\ above' = FALSE /\ shown' \in {shown, None}
  /\ UNCHANGED <<canWrite, method, overlays, mail, history>>

\* m and C: a dialog is offered once the gate has answered, and opened by a
\* message.
MayAsk == OnTop /\ overlays = <<>> /\ canWrite /\ asks < MaxAsks
Ask(o) ==
  /\ asks' = asks + 1
  /\ Send(Push(o))
  /\ UNCHANGED <<route, overlays, cycles, written>>
AskMerge == MayAsk /\ Ask(Chooser(shown, method, method))
AskClose == MayAsk /\ Ask(Confirm(shown, "close"))

----------------------------------------------------------------------------
(* The dialogs: the top one has the keyboard.                              *)

\* A key that closes the chooser and leads to the confirmation of h.
Choose(h) ==
  /\ overlays' = Popped
  /\ Send(Replace(Confirm(Top.pr, h)))
  /\ UNCHANGED <<route, history>>

Pick(m) == TopIs("chooser") /\ Choose(m)
Submit == TopIs("chooser") /\ Choose(Top.submits)

\* d: the chooser shows the next default, and the route on screen is told.
Cycle ==
  /\ TopIs("chooser") /\ cycles < MaxCycles
  /\ overlays' = [overlays EXCEPT ![Len(overlays)].shows = NextDefault(@)]
  /\ cycles' = cycles + 1
  /\ Send(Default(NextDefault(Top.shows)))
  /\ UNCHANGED <<route, asks, written>>

\* Mutant: the confirmation stays open while its write runs.
YesStaying ==
  /\ TopIs("confirm")
  /\ Send(Write(Top.pr, Top.how))
  /\ UNCHANGED <<route, overlays, history>>

\* y: the dialog closes and the write starts.
Yes ==
  /\ TopIs("confirm")
  /\ overlays' = Popped
  /\ Send(Write(Top.pr, Top.how))
  /\ UNCHANGED <<route, history>>

\* n or Esc, on either dialog.
Cancel ==
  /\ overlays # <<>>
  /\ overlays' = Popped
  /\ UNCHANGED <<route, mail, history>>

----------------------------------------------------------------------------
(* The messages.                                                           *)

PushArrives(o) ==
  /\ Receive(Push(o))
  /\ overlays' = Append(overlays, o)
  /\ UNCHANGED <<route, history>>

\* The topmost dialog is swapped, whichever it is by now.
ReplaceArrives(o) ==
  /\ Receive(Replace(o))
  /\ overlays' = Append(Popped, o)
  /\ UNCHANGED <<route, history>>

\* Mutant: an answer is taken for one about the screen it finds.
GateAnyArrives(p) ==
  /\ Receive(Gate(p))
  /\ \E allowed \in BOOLEAN :
       /\ allowed => p \in Writable
       /\ canWrite' = IF OnTop THEN allowed ELSE canWrite
  /\ UNCHANGED <<shown, above, method, overlays, history>>

\* A permission that cannot be read is one the viewer does not have.
GateArrives(p) ==
  /\ Receive(Gate(p))
  /\ \E allowed \in BOOLEAN :
       /\ allowed => p \in Writable
       /\ canWrite' = IF OnTop /\ Number[shown] = Number[p] THEN allowed ELSE canWrite
  /\ UNCHANGED <<shown, above, method, overlays, history>>

DefaultArrives(m) ==
  /\ Receive(Default(m))
  /\ method' = IF OnTop THEN m ELSE method
  /\ UNCHANGED <<shown, above, canWrite, overlays, history>>

\* GitHub does it or refuses; the screen, if it is there, says which.
WriteArrives(p, h) ==
  /\ Receive(Write(p, h))
  /\ written' = written + 1
  /\ UNCHANGED <<route, overlays, asks, cycles>>

Next ==
  \/ Back \/ PopArrives \/ Cover \/ Uncover \/ AskMerge \/ AskClose
  \/ Submit \/ Cycle \/ Yes \/ Cancel
  \/ \E m \in Method : Pick(m) \/ DefaultArrives(m)
  \/ \E o \in Overlay : PushArrives(o) \/ ReplaceArrives(o)
  \/ \E p \in PR : Open(p) \/ GateArrives(p)
  \/ \E p \in PR, h \in How : WriteArrives(p, h)

Spec == Init /\ [][Next]_vars

----------------------------------------------------------------------------

\* Every variable has its type.
TypeOK ==
  /\ shown \in PR \cup {None} /\ above \in BOOLEAN
  /\ canWrite \in BOOLEAN /\ method \in Method
  /\ overlays \in Seq(Overlay)
  /\ mail \in [Message -> Nat]
  /\ asks \in 0..MaxAsks /\ cycles \in 0..MaxCycles /\ written \in Nat

\* A write is offered only on a pull request the viewer may write to: the gate
\* "fails closed: a permission that cannot be established is not offered"
\* (prdetails.go:113-117).
FailsClosed == shown # None /\ canWrite => shown \in Writable

\* The pull requests a write may be offered on.  An answer names a number and no
\* repository (prdetails.go:430-433), so they are the writable ones and those that
\* have the number of a writable one in another repository.
Admitted == {p \in PR : \E q \in Writable : Number[q] = Number[p]}
AdmittedByNumber == shown # None /\ canWrite => shown \in Admitted

\* A write is offered only where the viewer may write or where the number is that of
\* a pull request he may write to, late answers about closed screens included; and
\* whatever dialogs are open or on their way, and whatever writes are, each is for a
\* pull request it could be offered on, although the dialog may open over another
\* screen, and the write may land after both are gone (merge.go:11-15).
WritesWereAdmitted ==
  /\ AdmittedByNumber
  /\ \A i \in 1..Len(overlays) : overlays[i].pr \in Admitted
  /\ \A m \in DialogMessage : mail[m] > 0 => m.overlay.pr \in Admitted
  /\ \A m \in WriteMessage : mail[m] > 0 => m.pr \in Admitted

\* A key pressed once leads to one write at most, whatever opens, swaps or
\* closes in between: every write done or under way, and every dialog that can
\* still lead to one, goes back to a key of its own.
OutOf(messages) == SumFunctionOnSet(mail, {m \in messages : mail[m] > 0})
OneWritePerAsk ==
  Len(overlays) + OutOf(DialogMessage) + OutOf(WriteMessage) + written <= asks

----------------------------------------------------------------------------
(* What is promised. *)

\* What a dialog or a write is about.
PurposeOf(h) == IF h = "close" THEN "close" ELSE "merge"
About(o) == <<o.pr, IF o.kind = "chooser" THEN "merge" ELSE PurposeOf(o.how)>>

\* Where a question can be: a dialog open, a dialog on its way, a write on its way.
Question == PR \X {"merge", "close"}
Carrying(dialogs) == {Push(o) : o \in dialogs} \cup {Replace(o) : o \in dialogs}
MergeDialogs(p) ==
  {Chooser(p, m, d) : m \in Method, d \in Method} \cup {Confirm(p, m) : m \in Method}
ToMerge(p) == Carrying(MergeDialogs(p)) \cup {Write(p, m) : m \in Method}
ToClose(p) == Carrying({Confirm(p, "close")}) \cup {Write(p, "close")}
Leading == [q \in Question |-> IF q[2] = "close" THEN ToClose(q[1]) ELSE ToMerge(q[1])]
OpenDialogs(q) == {i \in DOMAIN overlays : About(overlays[i]) = q}
Unanswered(q) == Cardinality(OpenDialogs(q)) + OutOf(Leading[q])

\* The dialogs and the messages between them ask before every write: it is for the
\* pull request that a key was pressed on, and does what that key asked for (the
\* target captured by the command, merge.go:11-15).
Asking == INSTANCE Consent WITH
            Askable <- Admitted,
            open <- [q \in Question |-> Unanswered(q)]
ConsentSpec == Asking!Spec
=============================================================================
