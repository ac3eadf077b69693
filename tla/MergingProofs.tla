---------------------------- MODULE MergingProofs ----------------------------
(***************************************************************************)
(* Proofs about Merging: however late answers, dialogs and writes arrive,  *)
(* a write is for a pull request that a key was pressed on, and that the   *)
(* viewer may write to or that shares its number with one.                 *)
(*                                                                         *)
(* Every action changes the stack of dialogs by one of its ends and the    *)
(* mail by one message, so two lemmas about sending and receiving and two  *)
(* about the stack carry the proof from action to action.                  *)
(***************************************************************************)
EXTENDS Merging, SequenceTheorems, SetTheorems, TLAPS

\* The two halves of WritesWereAdmitted.
DialogsAllowed == \A i \in 1..Len(overlays) : overlays[i].pr \in Admitted
MailAllowed ==
  /\ \A m \in DialogMessage : mail[m] > 0 => m.overlay.pr \in Admitted
  /\ \A m \in WriteMessage : mail[m] > 0 => m.pr \in Admitted

\* A dialog is offered by the gate, so its pull request is allowed as long as
\* the gate is right, and what a dialog sends is for its own pull request.
IInv == TypeOK /\ AdmittedByNumber /\ DialogsAllowed /\ MailAllowed

----------------------------------------------------------------------------
(* Messages, mail and the stack. *)

\* What is sent is a message, and of which kind.
LEMMA Messages ==
  /\ \A o \in Overlay : /\ Push(o) \in DialogMessage /\ Push(o).overlay = o
                        /\ Replace(o) \in DialogMessage /\ Replace(o).overlay = o
                        /\ Push(o) \notin WriteMessage /\ Replace(o) \notin WriteMessage
  /\ \A p \in PR, h \in How : /\ Write(p, h) \in WriteMessage /\ Write(p, h).pr = p
                              /\ Write(p, h) \notin DialogMessage
  /\ \A p \in PR : /\ Gate(p) \in Message
                   /\ Gate(p) \notin DialogMessage \cup WriteMessage
  /\ \A m \in Method : /\ Default(m) \in Message
                       /\ Default(m) \notin DialogMessage \cup WriteMessage
  /\ Pop \in Message /\ Pop \notin DialogMessage \cup WriteMessage
  /\ DialogMessage \cup WriteMessage \subseteq Message
<1>1. \A o \in Overlay : /\ Push(o) \in DialogMessage /\ Push(o).overlay = o
                         /\ Replace(o) \in DialogMessage /\ Replace(o).overlay = o
                         /\ Push(o) \notin WriteMessage /\ Replace(o) \notin WriteMessage
  BY DEF Push, Replace, DialogMessage, WriteMessage
<1>2. \A p \in PR, h \in How : /\ Write(p, h) \in WriteMessage /\ Write(p, h).pr = p
                               /\ Write(p, h) \notin DialogMessage
  BY DEF Write, DialogMessage, WriteMessage
<1>3. \A p \in PR : /\ Gate(p) \in Message
                    /\ Gate(p) \notin DialogMessage \cup WriteMessage
  BY DEF Gate, Message, DialogMessage, WriteMessage
<1>4. \A m \in Method : /\ Default(m) \in Message
                        /\ Default(m) \notin DialogMessage \cup WriteMessage
  BY DEF Default, Message, DialogMessage, WriteMessage
<1>5. Pop \in Message /\ Pop \notin DialogMessage \cup WriteMessage
  BY DEF Pop, Message, DialogMessage, WriteMessage
<1>6. DialogMessage \cup WriteMessage \subseteq Message
  BY DEF Message
<1> QED
  BY <1>1, <1>2, <1>3, <1>4, <1>5, <1>6

\* The dialogs that keys build are dialogs, each for the pull request named.
LEMMA Dialogs ==
  ASSUME NEW p \in PR
  PROVE  /\ \A m, d \in Method : Chooser(p, m, d) \in Overlay /\ Chooser(p, m, d).pr = p
         /\ \A h \in How : Confirm(p, h) \in Overlay /\ Confirm(p, h).pr = p
  BY DEF Chooser, Confirm, Overlay

\* Sending an allowed message, or one that leads to no write.
LEMMA Sending ==
  ASSUME mail \in [Message -> Nat], MailAllowed, NEW m \in Message, Send(m),
         m \in DialogMessage => m.overlay.pr \in Admitted,
         m \in WriteMessage => m.pr \in Admitted
  PROVE  mail' \in [Message -> Nat] /\ MailAllowed'
<1>1. mail' = [mail EXCEPT ![m] = @ + 1]
  BY DEF Send
<1>2. mail' \in [Message -> Nat] /\ \A n \in Message : n # m => mail'[n] = mail[n]
  BY <1>1
<1>3. ASSUME NEW n \in DialogMessage, mail'[n] > 0 PROVE n.overlay.pr \in Admitted
  BY <1>2, <1>3, Messages DEF MailAllowed
<1>4. ASSUME NEW n \in WriteMessage, mail'[n] > 0 PROVE n.pr \in Admitted
  BY <1>2, <1>4, Messages DEF MailAllowed
<1> QED
  BY <1>2, <1>3, <1>4 DEF MailAllowed

\* Receiving adds nothing.
LEMMA Receiving ==
  ASSUME mail \in [Message -> Nat], MailAllowed, NEW m \in Message, Receive(m)
  PROVE  mail' \in [Message -> Nat] /\ MailAllowed'
<1>1. mail[m] > 0 /\ mail' = [mail EXCEPT ![m] = @ - 1]
  BY DEF Receive
<1>2. mail' \in [Message -> Nat] /\ \A n \in Message : mail'[n] > 0 => mail[n] > 0
  BY <1>1
<1> QED
  BY <1>2, Messages DEF MailAllowed

\* The dialog on top is one of them.
LEMMA TopDialog ==
  ASSUME TypeOK, DialogsAllowed, overlays # <<>>
  PROVE  Top \in Overlay /\ Top.pr \in Admitted /\ Top.pr \in PR
<1>1. overlays \in Seq(Overlay) /\ Len(overlays) \in 1..Len(overlays)
  BY EmptySeq, LenProperties DEF TypeOK
<1>2. Top \in Overlay /\ Top.pr \in Admitted
  BY <1>1 DEF Top, DialogsAllowed
<1> QED
  BY <1>2 DEF Overlay

\* A stack without its top, and that with another dialog on it.
LEMMA Stack ==
  ASSUME TypeOK, DialogsAllowed
  PROVE  /\ overlays' = Popped => overlays' \in Seq(Overlay) /\ DialogsAllowed'
         /\ \A o \in Overlay : o.pr \in Admitted =>
              /\ overlays' = Append(overlays, o) =>
                   overlays' \in Seq(Overlay) /\ DialogsAllowed'
              /\ overlays' = Append(Popped, o) =>
                   overlays' \in Seq(Overlay) /\ DialogsAllowed'
<1>1. overlays \in Seq(Overlay) /\ Len(overlays) \in Nat
  BY DEF TypeOK
<1>2. /\ Popped \in Seq(Overlay)
      /\ Len(Popped) \in 0..Len(overlays)
      /\ \A i \in 1..Len(Popped) : Popped[i] = overlays[i]
  BY <1>1 DEF Popped
<1>3. \A i \in 1..Len(Popped) : Popped[i].pr \in Admitted
  BY <1>1, <1>2 DEF DialogsAllowed
<1>4. overlays' = Popped => overlays' \in Seq(Overlay) /\ DialogsAllowed'
  BY <1>2, <1>3 DEF DialogsAllowed
<1>5. ASSUME NEW o \in Overlay, o.pr \in Admitted, overlays' = Append(overlays, o)
      PROVE  overlays' \in Seq(Overlay) /\ DialogsAllowed'
  <2>1. /\ overlays' \in Seq(Overlay) /\ Len(overlays') = Len(overlays) + 1
        /\ overlays'[Len(overlays) + 1] = o
        /\ \A i \in 1..Len(overlays) : overlays'[i] = overlays[i]
    BY <1>1, <1>5
  <2> QED
    BY <1>1, <1>5, <2>1 DEF DialogsAllowed
<1>6. ASSUME NEW o \in Overlay, o.pr \in Admitted, overlays' = Append(Popped, o)
      PROVE  overlays' \in Seq(Overlay) /\ DialogsAllowed'
  <2>1. /\ overlays' \in Seq(Overlay) /\ Len(overlays') = Len(Popped) + 1
        /\ overlays'[Len(Popped) + 1] = o
        /\ \A i \in 1..Len(Popped) : overlays'[i] = Popped[i]
    BY <1>2, <1>6
  <2> QED
    BY <1>2, <1>3, <1>6, <2>1 DEF DialogsAllowed
<1> QED
  BY <1>4, <1>5, <1>6

\* The option after an option is an option.
LEMMA Cycling ==
  ASSUME NEW m \in Method
  PROVE  NextDefault(m) \in Method
<1>1. Options \in Seq(STRING) /\ Len(Options) \in Nat
  BY MethodAssumption
<1>2. PICK i \in 1..Len(Options) : Options[i] = m
  BY DEF Method
<1> DEFINE at == CHOOSE j \in 1..Len(Options) : Options[j] = m
<1>3. at \in 1..Len(Options)
  BY <1>2
<1>4. (at % Len(Options)) + 1 \in 1..Len(Options)
  <2>1. Len(Options) \in Nat \ {0} /\ at \in Nat
    BY <1>1, <1>3
  <2>2. at % Len(Options) \in 0..Len(Options) - 1
    BY <2>1
  <2> QED
    BY <2>1, <2>2
<1> HIDE DEF at
<1>5. Options[(at % Len(Options)) + 1] \in Method
  BY <1>4 DEF Method
<1> QED
  BY <1>5 DEF NextDefault, at

----------------------------------------------------------------------------
(* The invariant. *)

LEMMA InitInv == Init => IInv
<1> SUFFICES ASSUME Init PROVE IInv
  OBVIOUS
<1>1. TypeOK
  <2>1. method \in Method
    BY MethodAssumption DEF Init
  <2>2. mail \in [Message -> Nat] /\ overlays \in Seq(Overlay)
    BY DEF Init
  <2>3. asks \in 0..MaxAsks /\ cycles \in 0..MaxCycles /\ written \in Nat
    BY BoundAssumption DEF Init
  <2>4. shown \in PR \cup {None} /\ above \in BOOLEAN /\ canWrite \in BOOLEAN
    BY DEF Init
  <2> QED
    BY <2>1, <2>2, <2>3, <2>4 DEF TypeOK
<1>2. AdmittedByNumber /\ DialogsAllowed
  BY DEF Init, AdmittedByNumber, DialogsAllowed
<1>3. MailAllowed
  BY Messages DEF Init, MailAllowed
<1> QED
  BY <1>1, <1>2, <1>3 DEF IInv

\* What a step that leaves dialogs and mail in order has to show of the rest.
RouteTypes ==
  /\ shown \in PR \cup {None} /\ above \in BOOLEAN
  /\ canWrite \in BOOLEAN /\ method \in Method
HistoryTypes == asks \in 0..MaxAsks /\ cycles \in 0..MaxCycles /\ written \in Nat

LEMMA Parts ==
  ASSUME RouteTypes', HistoryTypes', AdmittedByNumber',
         overlays' \in Seq(Overlay) /\ DialogsAllowed',
         mail' \in [Message -> Nat] /\ MailAllowed'
  PROVE  IInv'
  BY DEF IInv, TypeOK, RouteTypes, HistoryTypes

\* What does not change stays in order.
LEMMA Unchanged ==
  ASSUME IInv
  PROVE  /\ UNCHANGED route => RouteTypes' /\ AdmittedByNumber'
         /\ UNCHANGED history => HistoryTypes'
         /\ UNCHANGED overlays => overlays' \in Seq(Overlay) /\ DialogsAllowed'
         /\ UNCHANGED mail => mail' \in [Message -> Nat] /\ MailAllowed'
         /\ RouteTypes /\ HistoryTypes
<1>1. RouteTypes /\ HistoryTypes
  BY DEF IInv, TypeOK, RouteTypes, HistoryTypes
<1>2. UNCHANGED route => RouteTypes' /\ AdmittedByNumber'
  BY <1>1 DEF IInv, AdmittedByNumber, RouteTypes, route
<1>3. UNCHANGED history => HistoryTypes'
  BY <1>1 DEF HistoryTypes, history
<1>4. UNCHANGED overlays => overlays' \in Seq(Overlay) /\ DialogsAllowed'
  BY DEF IInv, TypeOK, DialogsAllowed
<1>5. UNCHANGED mail => mail' \in [Message -> Nat] /\ MailAllowed'
  BY DEF IInv, TypeOK, MailAllowed
<1> QED
  BY <1>1, <1>2, <1>3, <1>4, <1>5

\* A dialog for the screen, opened by m or C.
LEMMA AskInv ==
  ASSUME IInv, MayAsk, NEW o \in Overlay, o.pr = shown, Ask(o)
  PROVE  IInv'
<1>1. shown \in Admitted
  BY DEF IInv, MayAsk, OnTop, AdmittedByNumber
<1>2. mail' \in [Message -> Nat] /\ MailAllowed'
  BY <1>1, Sending, Messages DEF Ask, IInv, TypeOK
<1>3. UNCHANGED route /\ UNCHANGED overlays
  BY DEF Ask
<1>4. HistoryTypes'
  BY BoundAssumption DEF Ask, MayAsk, IInv, TypeOK, HistoryTypes
<1> QED
  BY <1>2, <1>3, <1>4, Unchanged, Parts

\* A key that closes the chooser.
LEMMA ChooseInv ==
  ASSUME IInv, TopIs("chooser"), NEW h \in How, Choose(h)
  PROVE  IInv'
<1>1. Top.pr \in PR /\ Top.pr \in Admitted
  BY TopDialog DEF IInv, TopIs
<1>2. Confirm(Top.pr, h) \in Overlay /\ Confirm(Top.pr, h).pr \in Admitted
  BY <1>1, Dialogs
<1>3. mail' \in [Message -> Nat] /\ MailAllowed'
  BY <1>2, Sending, Messages DEF Choose, IInv, TypeOK
<1>4. overlays' \in Seq(Overlay) /\ DialogsAllowed'
  BY Stack DEF Choose, IInv
<1>5. UNCHANGED route /\ UNCHANGED history
  BY DEF Choose
<1> QED
  BY <1>3, <1>4, <1>5, Unchanged, Parts

\* The default a chooser holds is a method.
LEMMA ChooserMethods ==
  ASSUME IInv, TopIs("chooser")
  PROVE  /\ Top \in [kind : {"chooser"}, pr : PR, shows : Method, submits : Method]
         /\ overlays # <<>>
<1>1. Top \in Overlay
  BY TopDialog DEF IInv, TopIs
<1>2. Top.kind = "chooser" /\ overlays # <<>>
  BY DEF TopIs
<1> QED
  BY <1>1, <1>2 DEF Overlay

LEMMA CycleInv ==
  ASSUME IInv, Cycle
  PROVE  IInv'
<1>1. /\ Top \in [kind : {"chooser"}, pr : PR, shows : Method, submits : Method]
      /\ overlays # <<>>
  BY ChooserMethods DEF Cycle
<1>2. NextDefault(Top.shows) \in Method
  BY <1>1, Cycling
<1>3. mail' \in [Message -> Nat] /\ MailAllowed'
  BY <1>2, Sending, Messages DEF Cycle, IInv, TypeOK
<1>4. overlays' \in Seq(Overlay) /\ DialogsAllowed'
  <2>1. overlays \in Seq(Overlay) /\ Len(overlays) \in 1..Len(overlays)
    BY <1>1, EmptySeq, LenProperties DEF IInv, TypeOK
  <2> DEFINE o == [Top EXCEPT !.shows = NextDefault(Top.shows)]
  <2>2. o \in Overlay /\ o.pr = Top.pr
    BY <1>1, <1>2 DEF Overlay
  <2>3. overlays' = [overlays EXCEPT ![Len(overlays)] = o]
    BY <2>1 DEF Cycle, Top
  <2> HIDE DEF o
  <2>4. /\ overlays' \in Seq(Overlay) /\ Len(overlays') = Len(overlays)
        /\ \A i \in 1..Len(overlays) :
             overlays'[i] = IF i = Len(overlays) THEN o ELSE overlays[i]
    BY <2>1, <2>2, <2>3
  <2>5. Top.pr \in Admitted
    BY <1>1, TopDialog DEF IInv
  <2> QED
    BY <2>2, <2>4, <2>5 DEF IInv, DialogsAllowed
<1>5. UNCHANGED route
  BY DEF Cycle
<1>6. HistoryTypes'
  BY BoundAssumption DEF Cycle, IInv, TypeOK, HistoryTypes
<1> QED
  BY <1>3, <1>4, <1>5, <1>6, Unchanged, Parts

LEMMA YesInv ==
  ASSUME IInv, Yes
  PROVE  IInv'
<1>1. Top \in Overlay /\ Top.pr \in Admitted /\ Top.pr \in PR
  BY TopDialog DEF IInv, Yes, TopIs
<1>2. Top.how \in How
  BY <1>1 DEF Yes, TopIs, Overlay
<1>3. mail' \in [Message -> Nat] /\ MailAllowed'
  <2>1. /\ Write(Top.pr, Top.how) \in WriteMessage
        /\ Write(Top.pr, Top.how) \notin DialogMessage
        /\ Write(Top.pr, Top.how).pr \in Admitted
        /\ Write(Top.pr, Top.how) \in Message
    BY <1>1, <1>2, Messages
  <2> QED
    BY <2>1, Sending DEF Yes, IInv, TypeOK
<1>4. overlays' \in Seq(Overlay) /\ DialogsAllowed'
  BY Stack DEF Yes, IInv
<1>5. UNCHANGED route /\ UNCHANGED history
  BY DEF Yes
<1> QED
  BY <1>3, <1>4, <1>5, Unchanged, Parts

\* A dialog arrives, on top of the stack or in place of its top.
LEMMA ArrivalInv ==
  ASSUME IInv, NEW o \in Overlay, PushArrives(o) \/ ReplaceArrives(o)
  PROVE  IInv'
<1>1. PICK m \in {Push(o), Replace(o)} : Receive(m)
  BY DEF PushArrives, ReplaceArrives
<1>2. m \in Message /\ m \in DialogMessage /\ m.overlay = o /\ mail[m] > 0
  BY <1>1, Messages DEF Receive
<1>3. o.pr \in Admitted
  BY <1>2 DEF IInv, MailAllowed
<1>4. mail' \in [Message -> Nat] /\ MailAllowed'
  BY <1>1, <1>2, Receiving DEF IInv, TypeOK
<1>5. overlays' \in Seq(Overlay) /\ DialogsAllowed'
  BY <1>3, Stack DEF PushArrives, ReplaceArrives, IInv
<1>6. UNCHANGED route /\ UNCHANGED history
  BY DEF PushArrives, ReplaceArrives
<1> QED
  BY <1>4, <1>5, <1>6, Unchanged, Parts

\* The answer of the gate has the number of the pull request on screen, or is
\* not taken: a yes means that one of this number may be written to.
LEMMA GateInv ==
  ASSUME IInv, NEW p \in PR, GateArrives(p)
  PROVE  IInv'
<1>1. PICK allowed \in BOOLEAN :
        /\ allowed => p \in Writable
        /\ canWrite' = IF OnTop /\ Number[shown] = Number[p] THEN allowed ELSE canWrite
  BY DEF GateArrives
<1>2. UNCHANGED <<shown, above, method, overlays, history>>
  BY DEF GateArrives
<1>3. mail' \in [Message -> Nat] /\ MailAllowed'
  BY Receiving, Messages DEF GateArrives, IInv, TypeOK
<1>4. RouteTypes'
  <2>1. RouteTypes
    BY Unchanged
  <2>2. canWrite' \in BOOLEAN
    BY <1>1, <2>1, Zenon DEF RouteTypes
  <2> QED
    BY <1>2, <2>1, <2>2 DEF RouteTypes
<1>5. AdmittedByNumber'
  <2>1. CASE OnTop /\ Number[shown] = Number[p]
    <3>1. shown \in PR
      BY <2>1 DEF OnTop, IInv, TypeOK
    <3>2. p \in Writable => shown \in Admitted
      BY <2>1, <3>1 DEF Admitted
    <3> QED
      BY <1>1, <1>2, <2>1, <3>2 DEF AdmittedByNumber
  <2>2. CASE ~(OnTop /\ Number[shown] = Number[p])
    BY <1>1, <1>2, <2>2 DEF AdmittedByNumber, IInv
  <2> QED
    BY <2>1, <2>2
<1>6. UNCHANGED overlays /\ UNCHANGED history
  BY <1>2
<1> QED
  BY <1>3, <1>4, <1>5, <1>6, Unchanged, Parts

\* Screens come and go; a new one has asked nothing yet.
LEMMA RouteInv ==
  ASSUME IInv, Back \/ PopArrives \/ Cover \/ Uncover \/ (\E p \in PR : Open(p))
  PROVE  IInv'
<1>1. UNCHANGED overlays /\ UNCHANGED history
  BY DEF Back, PopArrives, Cover, Uncover, Open
<1>2. RouteTypes' /\ AdmittedByNumber'
  <2>1. CASE Back \/ PopArrives \/ Cover \/ Uncover
    BY <2>1, PRAssumption, Unchanged
       DEF Back, PopArrives, Cover, Uncover, route, IInv, AdmittedByNumber, RouteTypes
  <2>2. ASSUME NEW p \in PR, Open(p) PROVE RouteTypes' /\ AdmittedByNumber'
    BY <2>2, MethodAssumption DEF Open, AdmittedByNumber, RouteTypes
  <2> QED
    BY <2>1, <2>2
<1>3. mail' \in [Message -> Nat] /\ MailAllowed'
  <2>1. CASE Back
    BY <2>1, Sending, Messages DEF Back, IInv, TypeOK
  <2>2. CASE PopArrives
    BY <2>2, Receiving, Messages DEF PopArrives, IInv, TypeOK
  <2>3. CASE Cover \/ Uncover
    BY <2>3, Unchanged DEF Cover, Uncover
  <2>4. ASSUME NEW p \in PR, Open(p) PROVE mail' \in [Message -> Nat] /\ MailAllowed'
    <3>1. Gate(p) \in Message /\ Gate(p) \notin DialogMessage \cup WriteMessage /\ Send(Gate(p))
      BY <2>4, Messages DEF Open
    <3> QED
      BY <3>1, Sending DEF IInv, TypeOK
  <2> QED
    BY <2>1, <2>2, <2>3, <2>4
<1> QED
  BY <1>1, <1>2, <1>3, Unchanged, Parts

LEMMA NextInv ==
  ASSUME IInv, [Next]_vars
  PROVE  IInv'
<1>1. CASE Back \/ PopArrives \/ Cover \/ Uncover \/ (\E p \in PR : Open(p))
  BY <1>1, RouteInv
<1>2. CASE AskMerge \/ AskClose
  <2>1. shown \in PR /\ method \in Method /\ "close" \in How
    BY <1>2 DEF AskMerge, AskClose, MayAsk, OnTop, IInv, TypeOK, How
  <2> QED
    BY <1>2, <2>1, Dialogs, AskInv DEF AskMerge, AskClose
<1>3. CASE Submit
  <2>1. Top.submits \in How
    BY <1>3, ChooserMethods DEF Submit, How
  <2> QED
    BY <1>3, <2>1, ChooseInv DEF Submit
<1>4. ASSUME NEW m \in Method, Pick(m) PROVE IInv'
  BY <1>4, ChooseInv DEF Pick, How
<1>5. CASE Cycle
  BY <1>5, CycleInv
<1>6. CASE Yes
  BY <1>6, YesInv
<1>7. CASE Cancel
  <2>1. overlays' \in Seq(Overlay) /\ DialogsAllowed'
    BY <1>7, Stack DEF Cancel, IInv
  <2>2. UNCHANGED route /\ UNCHANGED mail /\ UNCHANGED history
    BY <1>7 DEF Cancel
  <2> QED
    BY <2>1, <2>2, Unchanged, Parts
<1>8. ASSUME NEW m \in Method, DefaultArrives(m) PROVE IInv'
  <2>1. mail' \in [Message -> Nat] /\ MailAllowed'
    BY <1>8, Receiving, Messages DEF DefaultArrives, IInv, TypeOK
  <2>2. RouteTypes' /\ AdmittedByNumber'
    BY <1>8, Unchanged DEF DefaultArrives, RouteTypes, AdmittedByNumber, IInv
  <2>3. UNCHANGED overlays /\ UNCHANGED history
    BY <1>8 DEF DefaultArrives
  <2> QED
    BY <2>1, <2>2, <2>3, Unchanged, Parts
<1>9. ASSUME NEW o \in Overlay, PushArrives(o) \/ ReplaceArrives(o) PROVE IInv'
  BY <1>9, ArrivalInv
<1>10. ASSUME NEW p \in PR, GateArrives(p) PROVE IInv'
  BY <1>10, GateInv
<1>11. ASSUME NEW p \in PR, NEW h \in How, WriteArrives(p, h) PROVE IInv'
  <2>1. mail' \in [Message -> Nat] /\ MailAllowed'
    <3>1. Write(p, h) \in Message /\ Receive(Write(p, h))
      BY <1>11, Messages DEF WriteArrives
    <3> QED
      BY <3>1, Receiving DEF IInv, TypeOK
  <2>2. UNCHANGED route /\ UNCHANGED overlays
    BY <1>11 DEF WriteArrives
  <2>3. HistoryTypes'
    BY <1>11 DEF WriteArrives, HistoryTypes, IInv, TypeOK
  <2> QED
    BY <2>1, <2>2, <2>3, Unchanged, Parts
<1>12. CASE UNCHANGED vars
  <2>1. UNCHANGED route /\ UNCHANGED overlays /\ UNCHANGED mail /\ UNCHANGED history
    BY <1>12 DEF vars
  <2> QED
    BY <2>1, Unchanged, Parts
<1> QED
  BY <1>1, <1>2, <1>3, <1>4, <1>5, <1>6, <1>7, <1>8, <1>9, <1>10, <1>11, <1>12 DEF Next

----------------------------------------------------------------------------
(* Types, whatever the numbers of the pull requests are. *)

LEMMA TopTypes ==
  ASSUME TypeOK, overlays # <<>>
  PROVE  /\ Top \in Overlay /\ Top.pr \in PR
         /\ Top.kind = "chooser" => Top.shows \in Method /\ Top.submits \in Method
         /\ Top.kind = "confirm" => Top.how \in How
<1>1. overlays \in Seq(Overlay) /\ Len(overlays) \in 1..Len(overlays)
  BY EmptySeq, LenProperties DEF TypeOK
<1>2. Top \in Overlay
  BY <1>1 DEF Top
<1> QED
  BY <1>2 DEF Overlay

LEMMA StackTypes ==
  ASSUME TypeOK
  PROVE  /\ Len(overlays) \in Nat
         /\ Popped \in Seq(Overlay) /\ Len(Popped) \in Nat
         /\ Len(Popped) = IF overlays = <<>> THEN 0 ELSE Len(overlays) - 1
         /\ \A o \in Overlay :
              /\ Append(overlays, o) \in Seq(Overlay)
              /\ Len(Append(overlays, o)) = Len(overlays) + 1
              /\ Append(Popped, o) \in Seq(Overlay)
              /\ Len(Append(Popped, o)) = Len(Popped) + 1
<1>1. overlays \in Seq(Overlay) /\ Len(overlays) \in Nat
  BY DEF TypeOK
<1>2. overlays # <<>> => Len(overlays) > 0
  BY <1>1, EmptySeq
<1>3. /\ Popped \in Seq(Overlay) /\ Len(Popped) \in Nat
      /\ Len(Popped) = IF overlays = <<>> THEN 0 ELSE Len(overlays) - 1
  BY <1>1, <1>2 DEF Popped
<1> QED
  BY <1>1, <1>3

LEMMA MailTypes ==
  ASSUME TypeOK
  PROVE  \A m \in Message : Send(m) \/ Receive(m) => mail' \in [Message -> Nat]
  BY DEF TypeOK, Send, Receive

\* Every key and every message leaves every variable with its type.
LEMMA TypeStep == TypeOK /\ [Next]_vars => TypeOK'
<1> SUFFICES ASSUME TypeOK, [Next]_vars PROVE TypeOK'
  OBVIOUS
<1>t. RouteTypes /\ HistoryTypes
  BY DEF TypeOK, RouteTypes, HistoryTypes
<1>r. UNCHANGED route => RouteTypes'
  BY <1>t DEF RouteTypes, route
<1>h. UNCHANGED history => HistoryTypes'
  BY <1>t DEF HistoryTypes, history
<1>o. UNCHANGED overlays => overlays' \in Seq(Overlay)
  BY DEF TypeOK
<1>m. UNCHANGED mail => mail' \in [Message -> Nat]
  BY DEF TypeOK
<1>q. ASSUME RouteTypes', HistoryTypes', overlays' \in Seq(Overlay), mail' \in [Message -> Nat]
      PROVE  TypeOK'
  BY <1>q DEF TypeOK, RouteTypes, HistoryTypes
<1>1. CASE Back \/ PopArrives \/ Cover \/ Uncover
  <2>1. RouteTypes'
    BY <1>1, <1>t, <1>r, PRAssumption
       DEF Back, PopArrives, Cover, Uncover, RouteTypes, route
  <2>2. mail' \in [Message -> Nat]
    BY <1>1, <1>m, MailTypes, Messages DEF Back, PopArrives, Cover, Uncover
  <2>3. UNCHANGED overlays /\ UNCHANGED history
    BY <1>1 DEF Back, PopArrives, Cover, Uncover
  <2> QED
    BY <2>1, <2>2, <2>3, <1>h, <1>o, <1>q
<1>2. ASSUME NEW o \in Overlay, MayAsk, Ask(o) PROVE TypeOK'
  <2>1. mail' \in [Message -> Nat]
    <3>1. Push(o) \in Message /\ Send(Push(o))
      BY <1>2, Messages DEF Ask
    <3> QED
      BY <3>1, MailTypes
  <2>2. HistoryTypes' /\ UNCHANGED route /\ UNCHANGED overlays
    BY <1>2, <1>t, BoundAssumption DEF Ask, MayAsk, HistoryTypes
  <2> QED
    BY <2>1, <2>2, <1>r, <1>o, <1>q
<1>3. CASE AskMerge \/ AskClose
  <2>1. shown \in PR /\ method \in Method /\ "close" \in How
    BY <1>3 DEF AskMerge, AskClose, MayAsk, OnTop, TypeOK, How
  <2> QED
    BY <1>2, <1>3, <2>1, Dialogs DEF AskMerge, AskClose
<1>4. ASSUME NEW h \in How, TopIs("chooser"), Choose(h) PROVE TypeOK'
  <2>1. Confirm(Top.pr, h) \in Overlay
    BY <1>4, TopTypes, Dialogs DEF TopIs
  <2>2. mail' \in [Message -> Nat]
    <3>1. /\ Replace(Confirm(Top.pr, h)) \in Message
          /\ Send(Replace(Confirm(Top.pr, h)))
      BY <1>4, <2>1, Messages DEF Choose
    <3> QED
      BY <3>1, MailTypes
  <2> QED
    BY <1>4, <2>2, StackTypes, <1>r, <1>h, <1>q DEF Choose
<1>5. ASSUME NEW m \in Method, Pick(m) PROVE TypeOK'
  BY <1>4, <1>5 DEF Pick, How
<1>6. CASE Submit
  BY <1>4, <1>6, TopTypes DEF Submit, How, TopIs
<1>7. CASE Cycle
  <2>1. overlays # <<>> /\ Top.kind = "chooser" /\ NextDefault(Top.shows) \in Method
    BY <1>7, TopTypes, Cycling DEF Cycle, TopIs
  <2>2. mail' \in [Message -> Nat]
    <3>1. Default(NextDefault(Top.shows)) \in Message /\ Send(Default(NextDefault(Top.shows)))
      BY <1>7, <2>1, Messages DEF Cycle
    <3> QED
      BY <3>1, MailTypes
  <2>3. overlays' \in Seq(Overlay)
    <3>1. overlays \in Seq(Overlay) /\ Len(overlays) \in 1..Len(overlays)
      BY <2>1, EmptySeq, LenProperties DEF TypeOK
    <3> DEFINE o == [Top EXCEPT !.shows = NextDefault(Top.shows)]
    <3>2. o \in Overlay
      BY <2>1, TopTypes DEF Overlay
    <3>3. overlays' = [overlays EXCEPT ![Len(overlays)] = o]
      BY <1>7, <3>1 DEF Cycle, Top
    <3> HIDE DEF o
    <3> QED
      BY <3>1, <3>2, <3>3
  <2>4. HistoryTypes' /\ UNCHANGED route
    BY <1>7, <1>t, BoundAssumption DEF Cycle, HistoryTypes
  <2> QED
    BY <2>2, <2>3, <2>4, <1>r, <1>q
<1>8. CASE Yes
  <2>1. Write(Top.pr, Top.how) \in Message /\ Send(Write(Top.pr, Top.how))
    BY <1>8, TopTypes, Messages DEF Yes, TopIs
  <2>2. mail' \in [Message -> Nat]
    BY <2>1, MailTypes
  <2> QED
    BY <1>8, <2>2, StackTypes, <1>r, <1>h, <1>q DEF Yes
<1>9. CASE Cancel
  BY <1>9, StackTypes, <1>r, <1>h, <1>m, <1>q DEF Cancel
<1>10. ASSUME NEW m \in Method, DefaultArrives(m) PROVE TypeOK'
  <2>1. mail' \in [Message -> Nat]
    BY <1>10, MailTypes, Messages DEF DefaultArrives
  <2>2. RouteTypes' /\ UNCHANGED overlays /\ UNCHANGED history
    BY <1>10, <1>t DEF DefaultArrives, RouteTypes
  <2> QED
    BY <2>1, <2>2, <1>h, <1>o, <1>q
<1>11. ASSUME NEW o \in Overlay, PushArrives(o) \/ ReplaceArrives(o) PROVE TypeOK'
  <2>1. mail' \in [Message -> Nat]
    <3>1. PICK m \in {Push(o), Replace(o)} : Receive(m)
      BY <1>11 DEF PushArrives, ReplaceArrives
    <3> QED
      BY <3>1, Messages, MailTypes
  <2> QED
    BY <1>11, <2>1, StackTypes, <1>r, <1>h, <1>q DEF PushArrives, ReplaceArrives
<1>12. ASSUME NEW p \in PR, Open(p) \/ GateArrives(p) PROVE TypeOK'
  <2>1. mail' \in [Message -> Nat]
    <3>1. Gate(p) \in Message /\ (Send(Gate(p)) \/ Receive(Gate(p)))
      BY <1>12, Messages DEF Open, GateArrives
    <3> QED
      BY <3>1, MailTypes
  <2>2. CASE Open(p)
    BY <2>1, <2>2, MethodAssumption, <1>h, <1>o, <1>q DEF Open, RouteTypes
  <2>3. CASE GateArrives(p)
    <3>1. canWrite' \in BOOLEAN
      BY <2>3, <1>t, Zenon DEF GateArrives, RouteTypes
    <3>2. RouteTypes' /\ UNCHANGED overlays /\ UNCHANGED history
      BY <2>3, <1>t, <3>1 DEF GateArrives, RouteTypes
    <3> QED
      BY <2>1, <3>2, <1>h, <1>o, <1>q
  <2> QED
    BY <1>12, <2>2, <2>3
<1>13. ASSUME NEW p \in PR, NEW h \in How, WriteArrives(p, h) PROVE TypeOK'
  <2>1. Write(p, h) \in Message /\ Receive(Write(p, h))
    BY <1>13, Messages DEF WriteArrives
  <2>2. mail' \in [Message -> Nat]
    BY <2>1, MailTypes
  <2>3. HistoryTypes' /\ UNCHANGED route /\ UNCHANGED overlays
    BY <1>13, <1>t DEF WriteArrives, HistoryTypes
  <2> QED
    BY <2>2, <2>3, <1>r, <1>o, <1>q
<1>14. CASE UNCHANGED vars
  BY <1>14, <1>r, <1>h, <1>o, <1>m, <1>q DEF vars
<1> QED
  BY <1>1, <1>3, <1>5, <1>6, <1>7, <1>8, <1>9, <1>10, <1>11, <1>12, <1>13, <1>14 DEF Next

----------------------------------------------------------------------------
(* One write for each key.  The mail is counted over the messages of a kind, *)
(* which are finitely many, and the types hold whatever the numbers are.     *)

LEMMA FiniteKinds == IsFiniteSet(DialogMessage) /\ IsFiniteSet(WriteMessage)
<1>1. IsFiniteSet(Method) /\ IsFiniteSet(How)
  <2>1. Len(Options) \in Nat
    BY MethodAssumption
  <2>2. IsFiniteSet(1..Len(Options))
    BY <2>1, FS_Interval
  <2> DEFINE f == [i \in 1..Len(Options) |-> Options[i]]
  <2>3. f \in Surjection(1..Len(Options), Method)
    BY DEF Surjection, Method
  <2>4. IsFiniteSet(Method)
    BY <2>2, <2>3, FS_Surjection
  <2> QED
    BY <2>4, FS_AddElement DEF How
<1>2. ASSUME NEW S, IsFiniteSet(S)
      PROVE  IsFiniteSet(PR \X S)
  BY <1>2, FinitePRs, FS_Product
<1>3. IsFiniteSet(WriteMessage)
  <2> DEFINE f == [x \in PR \X How |-> Write(x[1], x[2])]
  <2>1. f \in Surjection(PR \X How, WriteMessage)
    <3>1. \A m \in WriteMessage : m.pr \in PR /\ m.how \in How /\ m = f[<<m.pr, m.how>>]
      BY DEF WriteMessage, Write
    <3>2. \A x \in PR \X How : f[x] \in WriteMessage
      BY DEF WriteMessage, Write
    <3> QED
      BY <3>1, <3>2 DEF Surjection
  <2> QED
    BY <1>1, <1>2, <2>1, FS_Surjection
<1>4. IsFiniteSet(Overlay)
  <2> DEFINE choosers == [kind : {"chooser"}, pr : PR, shows : Method, submits : Method]
             confirms == [kind : {"confirm"}, pr : PR, how : How]
             C == PR \X (Method \X Method)
             f == [x \in C |-> Chooser(x[1], x[2][1], x[2][2])]
             g == [x \in PR \X How |-> Confirm(x[1], x[2])]
  <2>1. f \in Surjection(C, choosers)
    <3>1. \A o \in choosers : /\ <<o.pr, <<o.shows, o.submits>>>> \in C
                              /\ o = f[<<o.pr, <<o.shows, o.submits>>>>]
      BY DEF Chooser
    <3>2. \A x \in C : f[x] \in choosers
      BY DEF Chooser
    <3> QED
      BY <3>1, <3>2 DEF Surjection
  <2>2. g \in Surjection(PR \X How, confirms)
    <3>1. \A o \in confirms : o.pr \in PR /\ o.how \in How /\ o = g[<<o.pr, o.how>>]
      BY DEF Confirm
    <3>2. \A x \in PR \X How : g[x] \in confirms
      BY DEF Confirm
    <3> QED
      BY <3>1, <3>2 DEF Surjection
  <2>3. IsFiniteSet(C)
    BY <1>1, <1>2, FS_Product
  <2>4. IsFiniteSet(choosers)
    BY <2>1, <2>3, FS_Surjection
  <2>5. IsFiniteSet(confirms)
    BY <1>1, <1>2, <2>2, FS_Surjection
  <2> QED
    BY <2>4, <2>5, FS_Union DEF Overlay
<1>5. IsFiniteSet(DialogMessage)
  <2> DEFINE K == {"push", "replace"}
             f == [x \in K \X Overlay |-> [kind |-> x[1], overlay |-> x[2]]]
  <2>1. f \in Surjection(K \X Overlay, DialogMessage)
    <3>1. \A m \in DialogMessage : /\ m.kind \in K /\ m.overlay \in Overlay
                                   /\ m = f[<<m.kind, m.overlay>>]
      BY DEF DialogMessage
    <3>2. \A x \in K \X Overlay : f[x] \in DialogMessage
      BY DEF DialogMessage
    <3>3. f \in [K \X Overlay -> DialogMessage]
      BY <3>2
    <3> HIDE DEF f, K
    <3>4. \A m \in DialogMessage : \E x \in K \X Overlay : f[x] = m
      BY <3>1
    <3> QED
      BY <3>3, <3>4 DEF Surjection
  <2>2. IsFiniteSet(K)
    <3>1. IsFiniteSet({"push"} \cup {"replace"})
      BY FS_AddElement, FS_Singleton
    <3> QED
      BY <3>1
  <2> QED
    BY <1>4, <2>1, <2>2, FS_Product, FS_Surjection
<1> QED
  BY <1>3, <1>5

\* Messages of which none is out count for nothing.
LEMMA AllCount ==
  ASSUME mail \in [Message -> Nat], NEW M, M \subseteq Message, IsFiniteSet(M)
  PROVE  OutOf(M) = SumFunctionOnSet(mail, M)
<1>1. {m \in M : mail[m] > 0} = {m \in M : mail[m] # 0}
  OBVIOUS
<1>2. \A m \in M : mail[m] \in Int
  OBVIOUS
<1> QED
  BY <1>1, <1>2, SumOfSupport DEF OutOf

\* A message sent is one more of its kind, and a message received one less.
Of(m, messages) == IF m \in messages THEN 1 ELSE 0

LEMMA Counting ==
  ASSUME mail \in [Message -> Nat], NEW M, M \subseteq Message, IsFiniteSet(M)
  PROVE  /\ OutOf(M) \in Nat
         /\ UNCHANGED mail => OutOf(M)' = OutOf(M)
         /\ \A m \in Message :
              /\ Send(m) => OutOf(M)' = OutOf(M) + Of(m, M)
              /\ Receive(m) => OutOf(M)' = OutOf(M) - Of(m, M)
<1>1. OutOf(M) \in Nat /\ OutOf(M) = SumFunctionOnSet(mail, M)
  BY AllCount, SumIsANatural
<1>2. ASSUME NEW m \in Message, NEW d \in {-1, 1}, mail' = [mail EXCEPT ![m] = @ + d],
             mail' \in [Message -> Nat]
      PROVE  OutOf(M)' = OutOf(M) + d * Of(m, M)
  <2>1. /\ mail'[m] = mail[m] + d /\ \A n \in Message : n # m => mail'[n] = mail[n]
        /\ \A n \in Message : mail[n] \in Int /\ mail'[n] \in Int
        /\ OutOf(M)' = SumFunctionOnSet(mail', M)
    <3>1. {n \in M : mail'[n] > 0} = {n \in M : mail'[n] # 0}
      BY <1>2
    <3>2. \A n \in M : mail'[n] \in Int
      BY <1>2
    <3>3. OutOf(M)' = SumFunctionOnSet(mail', M)
      BY <3>1, <3>2, SumOfSupport DEF OutOf
    <3> QED
      BY <1>2, <3>3
  <2>2. CASE m \in M
    <3>1. SumFunctionOnSet(mail', M) = SumFunctionOnSet(mail, M) + (mail'[m] - mail[m])
      BY <2>1, <2>2, SumOfOneChanged
    <3> QED
      BY <1>1, <2>1, <2>2, <3>1 DEF Of
  <2>3. CASE m \notin M
    <3>1. SumFunctionOnSet(mail', M) = SumFunctionOnSet(mail, M)
      BY <2>1, <2>3, SumOfTheSame
    <3> QED
      BY <1>1, <2>1, <2>3, <3>1 DEF Of
  <2> QED
    BY <2>2, <2>3
<1>3. ASSUME NEW m \in Message
      PROVE  /\ Send(m) => OutOf(M)' = OutOf(M) + Of(m, M)
             /\ Receive(m) => OutOf(M)' = OutOf(M) - Of(m, M)
  <2>1. Send(m) => OutOf(M)' = OutOf(M) + 1 * Of(m, M)
    <3>1. Send(m) => mail' = [mail EXCEPT ![m] = @ + 1] /\ mail' \in [Message -> Nat]
      BY DEF Send
    <3> QED
      BY <1>2, <3>1
  <2>2. Receive(m) => OutOf(M)' = OutOf(M) + (-1) * Of(m, M)
    <3>1. Receive(m) => mail' = [mail EXCEPT ![m] = @ + (-1)] /\ mail' \in [Message -> Nat]
      <4> SUFFICES ASSUME Receive(m)
                   PROVE  mail' = [mail EXCEPT ![m] = @ + (-1)] /\ mail' \in [Message -> Nat]
        OBVIOUS
      <4>1. mail[m] \in Nat /\ mail[m] > 0 /\ mail' = [mail EXCEPT ![m] = mail[m] - 1]
        BY DEF Receive
      <4>2. mail[m] - 1 \in Nat /\ mail[m] - 1 = mail[m] + (-1)
        BY <4>1
      <4> QED
        BY <4>1, <4>2
    <3> QED
      BY <1>2, <3>1
  <2>3. Of(m, M) \in Nat
    BY DEF Of
  <2> QED
    BY <1>1, <2>1, <2>2, <2>3
<1> QED
  BY <1>1, <1>3 DEF OutOf

\* What is counted: dialogs open, dialogs on their way, writes on their way.
LEMMA Counts ==
  ASSUME TypeOK
  PROVE  /\ OutOf(DialogMessage) \in Nat /\ OutOf(WriteMessage) \in Nat
         /\ UNCHANGED mail => /\ OutOf(DialogMessage)' = OutOf(DialogMessage)
                              /\ OutOf(WriteMessage)' = OutOf(WriteMessage)
         /\ \A m \in Message :
              /\ Send(m) =>
                   /\ OutOf(DialogMessage)' = OutOf(DialogMessage) + Of(m, DialogMessage)
                   /\ OutOf(WriteMessage)' = OutOf(WriteMessage) + Of(m, WriteMessage)
              /\ Receive(m) =>
                   /\ OutOf(DialogMessage)' = OutOf(DialogMessage) - Of(m, DialogMessage)
                   /\ OutOf(WriteMessage)' = OutOf(WriteMessage) - Of(m, WriteMessage)
<1>1. mail \in [Message -> Nat]
  BY DEF TypeOK
<1>2. DialogMessage \subseteq Message /\ WriteMessage \subseteq Message
  BY Messages
<1> QED
  BY <1>1, <1>2, FiniteKinds, Counting

\* A key that asks adds one to both sides; every later step moves what it
\* started one place on, or takes it away.
LEMMA OneWriteStep ==
  ASSUME TypeOK, OneWritePerAsk, [Next]_vars
  PROVE  OneWritePerAsk'
<1> DEFINE D == OutOf(DialogMessage)
           W == OutOf(WriteMessage)
<1>t. /\ Len(overlays) \in Nat /\ D \in Nat /\ W \in Nat /\ written \in Nat /\ asks \in Nat
      /\ Len(overlays) + D + W + written <= asks
  BY StackTypes, Counts, BoundAssumption DEF TypeOK, OneWritePerAsk
<1>o. ASSUME NEW m \in Message, m \notin DialogMessage \cup WriteMessage, Send(m) \/ Receive(m)
      PROVE  D' = D /\ W' = W
  BY <1>o, <1>t, Counts DEF Of
<1>g. ASSUME NEW m \in DialogMessage
      PROVE  /\ Send(m) => D' = D + 1 /\ W' = W
             /\ Receive(m) => D' = D - 1 /\ W' = W
  <2>1. m \in Message /\ m \notin WriteMessage
    BY Messages DEF DialogMessage, WriteMessage
  <2>2. Of(m, DialogMessage) = 1 /\ Of(m, WriteMessage) = 0
    BY <2>1 DEF Of
  <2> QED
    BY <1>t, <2>1, <2>2, Counts
<1>w. ASSUME NEW p \in PR, NEW h \in How
      PROVE  /\ Send(Write(p, h)) => D' = D /\ W' = W + 1
             /\ Receive(Write(p, h)) => D' = D /\ W' = W - 1
  <2>1. /\ Write(p, h) \in Message
        /\ Of(Write(p, h), WriteMessage) = 1 /\ Of(Write(p, h), DialogMessage) = 0
    BY Messages DEF Of
  <2> QED
    BY <1>t, <2>1, Counts
<1>u. UNCHANGED mail => D' = D /\ W' = W
  BY Counts
<1>q. ASSUME Len(overlays') + D' + W' + written' <= asks'
      PROVE  OneWritePerAsk'
  BY <1>q DEF OneWritePerAsk
<1> HIDE DEF D, W
<1>1. CASE Back \/ PopArrives \/ Cover \/ Uncover
  <2>1. D' = D /\ W' = W
    BY <1>1, <1>o, <1>u, Messages DEF Back, PopArrives, Cover, Uncover
  <2>2. UNCHANGED overlays /\ UNCHANGED history
    BY <1>1 DEF Back, PopArrives, Cover, Uncover
  <2> QED
    BY <2>1, <2>2, <1>t, <1>q DEF history
<1>2. ASSUME NEW o \in Overlay, Ask(o) PROVE OneWritePerAsk'
  <2>1. D' = D + 1 /\ W' = W
    BY <1>2, <1>g, Messages DEF Ask
  <2> QED
    BY <1>2, <2>1, <1>t, <1>q DEF Ask
<1>3. CASE AskMerge \/ AskClose
  <2>1. shown \in PR /\ method \in Method /\ "close" \in How
    BY <1>3 DEF AskMerge, AskClose, MayAsk, OnTop, TypeOK, How
  <2> QED
    BY <1>2, <1>3, <2>1, Dialogs DEF AskMerge, AskClose
<1>4. ASSUME NEW h \in How, TopIs("chooser"), Choose(h) PROVE OneWritePerAsk'
  <2>1. Confirm(Top.pr, h) \in Overlay
    BY <1>4, TopTypes, Dialogs DEF TopIs
  <2>2. D' = D + 1 /\ W' = W
    BY <1>4, <2>1, <1>g, Messages DEF Choose
  <2>3. Len(overlays') = Len(overlays) - 1
    BY <1>4, StackTypes DEF Choose, TopIs
  <2> QED
    BY <1>4, <2>2, <2>3, <1>t, <1>q DEF Choose, history
<1>5. ASSUME NEW m \in Method, Pick(m) PROVE OneWritePerAsk'
  BY <1>4, <1>5 DEF Pick, How
<1>6. CASE Submit
  BY <1>4, <1>6, TopTypes DEF Submit, How, TopIs
<1>7. CASE Cycle
  <2>1. NextDefault(Top.shows) \in Method
    BY <1>7, TopTypes, Cycling DEF Cycle, TopIs
  <2>2. D' = D /\ W' = W
    BY <1>7, <2>1, <1>o, Messages DEF Cycle
  <2>3. Len(overlays') = Len(overlays)
    BY <1>7 DEF Cycle, TypeOK
  <2> QED
    BY <1>7, <2>2, <2>3, <1>t, <1>q DEF Cycle
<1>8. CASE Yes
  <2>1. D' = D /\ W' = W + 1
    BY <1>8, <1>w, TopTypes DEF Yes, TopIs
  <2>2. Len(overlays') = Len(overlays) - 1
    BY <1>8, StackTypes DEF Yes, TopIs
  <2> QED
    BY <1>8, <2>1, <2>2, <1>t, <1>q DEF Yes, history
<1>9. CASE Cancel
  <2>1. Len(overlays') = Len(overlays) - 1
    BY <1>9, StackTypes DEF Cancel
  <2> QED
    BY <1>9, <2>1, <1>u, <1>t, <1>q DEF Cancel, history
<1>10. ASSUME NEW m \in Method, DefaultArrives(m) PROVE OneWritePerAsk'
  <2>1. D' = D /\ W' = W
    BY <1>10, <1>o, Messages DEF DefaultArrives
  <2> QED
    BY <1>10, <2>1, <1>t, <1>q DEF DefaultArrives, history
<1>11. ASSUME NEW o \in Overlay, PushArrives(o) \/ ReplaceArrives(o) PROVE OneWritePerAsk'
  <2>1. D' = D - 1 /\ W' = W
    BY <1>11, <1>g, Messages DEF PushArrives, ReplaceArrives
  <2>2. Len(overlays') \in Nat /\ Len(overlays') <= Len(overlays) + 1
    BY <1>11, StackTypes DEF PushArrives, ReplaceArrives
  <2>3. UNCHANGED history
    BY <1>11 DEF PushArrives, ReplaceArrives
  <2> QED
    BY <2>1, <2>2, <2>3, <1>t, <1>q DEF history
<1>12. ASSUME NEW p \in PR, Open(p) \/ GateArrives(p) PROVE OneWritePerAsk'
  <2>1. D' = D /\ W' = W
    BY <1>12, <1>o, Messages DEF Open, GateArrives
  <2>2. UNCHANGED overlays /\ UNCHANGED history
    BY <1>12 DEF Open, GateArrives
  <2> QED
    BY <2>1, <2>2, <1>t, <1>q DEF history
<1>13. ASSUME NEW p \in PR, NEW h \in How, WriteArrives(p, h) PROVE OneWritePerAsk'
  <2>1. D' = D /\ W' = W - 1
    BY <1>13, <1>w DEF WriteArrives
  <2> QED
    BY <1>13, <2>1, <1>t, <1>q DEF WriteArrives
<1>14. CASE UNCHANGED vars
  BY <1>14, <1>u, <1>t, <1>q DEF vars, history
<1> QED
  BY <1>1, <1>3, <1>5, <1>6, <1>7, <1>8, <1>9, <1>10, <1>11, <1>12, <1>13, <1>14 DEF Next

\* Before the first key there is nothing to count.
LEMMA OneWriteInit == Init => OneWritePerAsk
<1> SUFFICES ASSUME Init PROVE OneWritePerAsk
  OBVIOUS
<1>1. ASSUME NEW M, M \subseteq Message, IsFiniteSet(M) PROVE OutOf(M) = 0
  <2>1. \A m \in M : mail[m] = 0
    BY <1>1 DEF Init
  <2> QED
    BY <1>1, <2>1, AllCount, SumOfNothing DEF Init
<1>2. OutOf(DialogMessage) = 0 /\ OutOf(WriteMessage) = 0
  BY <1>1, Messages, FiniteKinds
<1> QED
  BY <1>2 DEF Init, OneWritePerAsk

----------------------------------------------------------------------------
(* Asking before every write.  A question is counted where it is: at the      *)
(* dialogs that are open, and at the messages that carry a dialog or a write. *)
(* A step moves one of them from a place to another, or takes it away.        *)

Same(q, r) == IF q = r THEN 1 ELSE 0
AboutIn(s, q) == {i \in DOMAIN s : About(s[i]) = q}

\* What dialogs and writes are about.
LEMMA Abouts ==
  /\ \A o \in Overlay : About(o) \in Question /\ About(o)[1] = o.pr
  /\ \A p \in PR, h \in How : <<p, PurposeOf(h)>> \in Question
  /\ \A p \in PR, h \in How : About(Confirm(p, h)) = <<p, PurposeOf(h)>>
  /\ \A p \in PR, m, d \in Method : About(Chooser(p, m, d)) = <<p, "merge">>
  /\ \A m \in Method : PurposeOf(m) = "merge"
<1>1. \A h \in How : PurposeOf(h) \in {"merge", "close"}
  BY DEF PurposeOf
<1>2. \A m \in Method : PurposeOf(m) = "merge"
  BY MethodAssumption DEF PurposeOf
<1>3. \A o \in Overlay : About(o) \in Question /\ About(o)[1] = o.pr
  BY <1>1 DEF About, Question, Overlay
<1>4. \A p \in PR, h \in How : About(Confirm(p, h)) = <<p, PurposeOf(h)>>
  BY DEF About, Confirm
<1>5. \A p \in PR, m, d \in Method : About(Chooser(p, m, d)) = <<p, "merge">>
  BY DEF About, Chooser
<1> QED
  BY <1>1, <1>2, <1>3, <1>4, <1>5 DEF Question

\* The messages that can lead to a write of one kind are finitely many.
LEMMA LeadingIsFinite ==
  ASSUME NEW q \in Question
  PROVE  /\ Leading[q] \subseteq Message /\ IsFiniteSet(Leading[q])
         /\ \A m : m \in Leading[q] <=>
              \/ m \in DialogMessage /\ About(m.overlay) = q
              \/ m \in WriteMessage /\ <<m.pr, PurposeOf(m.how)>> = q
<1> DEFINE D == {m \in DialogMessage : About(m.overlay) = q}
           W == {m \in WriteMessage : <<m.pr, PurposeOf(m.how)>> = q}
<1>1. Leading[q] = D \cup W
  <2>1. PICK p \in PR, purpose \in {"merge", "close"} : q = <<p, purpose>>
    BY DEF Question
  <2>2. Leading[q] = IF purpose = "close" THEN ToClose(p) ELSE ToMerge(p)
    BY <2>1 DEF Leading
  <2>3. \A dialogs : dialogs \subseteq Overlay =>
          \A m : m \in Carrying(dialogs) <=> m \in DialogMessage /\ m.overlay \in dialogs
    <3>1. ASSUME NEW dialogs, dialogs \subseteq Overlay, NEW m \in Carrying(dialogs)
          PROVE  m \in DialogMessage /\ m.overlay \in dialogs
      BY <3>1, Messages DEF Carrying
    <3>2. ASSUME NEW dialogs, NEW m \in DialogMessage, m.overlay \in dialogs
          PROVE  m \in Carrying(dialogs)
      BY <3>2 DEF Carrying, DialogMessage, Push, Replace
    <3> QED
      BY <3>1, <3>2
  <2>4. ASSUME NEW m \in DialogMessage
        PROVE  m.overlay \in Overlay
    BY DEF DialogMessage
  <2>5. ASSUME NEW m \in WriteMessage
        PROVE  m.pr \in PR /\ m.how \in How /\ m = Write(m.pr, m.how)
    BY DEF WriteMessage, Write
  <2>6. \A h \in How : /\ Confirm(p, h) \in Overlay /\ Write(p, h) \in WriteMessage
                       /\ Write(p, h).pr = p /\ Write(p, h).how = h
    BY Dialogs, Messages DEF Write
  <2>7. "close" \in How /\ Method \subseteq How
    BY DEF How
  <2>8. \A o \in Overlay :
          \/ \E m, d \in Method : o = Chooser(o.pr, m, d)
          \/ \E h \in How : o = Confirm(o.pr, h)
    BY DEF Overlay, Chooser, Confirm
  <2>9. CASE purpose = "close"
    <3>1. Leading[q] \subseteq D \cup W
      <4>1. ToClose(p) = Carrying({Confirm(p, "close")}) \cup {Write(p, "close")}
        BY DEF ToClose
      <4>2. About(Confirm(p, "close")) = q /\ <<p, PurposeOf("close")>> = q
        BY <2>1, <2>7, <2>9, Abouts DEF PurposeOf
      <4> QED
        BY <2>2, <2>3, <2>6, <2>7, <2>9, <4>1, <4>2
    <3>2. ASSUME NEW m \in D PROVE m \in Leading[q]
      <4>1. m \in DialogMessage /\ m.overlay \in Overlay /\ About(m.overlay) = q
        BY <2>4
      <4>2. m.overlay.pr = p
        BY <2>1, <4>1, Abouts
      <4>3. m.overlay = Confirm(p, "close")
        BY <2>1, <2>8, <2>9, <4>1, <4>2, Abouts DEF How
      <4> QED
        BY <2>2, <2>3, <2>6, <2>7, <2>9, <4>1, <4>3 DEF ToClose
    <3>3. ASSUME NEW m \in W PROVE m \in Leading[q]
      <4>1. m \in WriteMessage /\ m.pr = p /\ PurposeOf(m.how) = "close"
        BY <2>1, <2>9
      <4>2. m.how = "close"
        BY <4>1, <2>5, Abouts DEF How
      <4> QED
        BY <2>2, <2>5, <2>9, <4>1, <4>2 DEF ToClose
    <3> QED
      BY <3>1, <3>2, <3>3
  <2>10. CASE purpose = "merge"
    <3>0. /\ MergeDialogs(p) \subseteq Overlay
          /\ \A o \in MergeDialogs(p) : About(o) = q
      BY <2>1, <2>7, <2>10, Abouts, Dialogs DEF MergeDialogs
    <3>1. Leading[q] \subseteq D \cup W
      <4>1. ASSUME NEW m \in Carrying(MergeDialogs(p)) PROVE m \in D
        BY <2>3, <3>0
      <4>2. ASSUME NEW h \in Method PROVE Write(p, h) \in W
        BY <2>1, <2>6, <2>7, <2>10, Abouts
      <4> QED
        BY <2>2, <2>10, <4>1, <4>2 DEF ToMerge
    <3>2. ASSUME NEW m \in D PROVE m \in Leading[q]
      <4>1. m \in DialogMessage /\ m.overlay \in Overlay /\ About(m.overlay) = q
        BY <2>4
      <4>2. m.overlay.pr = p
        BY <2>1, <4>1, Abouts
      <4>3. \/ \E n, d \in Method : m.overlay = Chooser(p, n, d)
            \/ \E h \in Method : m.overlay = Confirm(p, h)
        BY <2>1, <2>8, <2>10, <4>1, <4>2, Abouts DEF How, PurposeOf
      <4> QED
        <5>1. m.overlay \in MergeDialogs(p)
          BY <4>3 DEF MergeDialogs
        <5> QED
          BY <2>2, <2>3, <2>10, <3>0, <4>1, <5>1 DEF ToMerge
    <3>3. ASSUME NEW m \in W PROVE m \in Leading[q]
      <4>1. m \in WriteMessage /\ m.pr = p /\ PurposeOf(m.how) = "merge"
        BY <2>1, <2>10
      <4>2. m.how \in Method
        BY <4>1, <2>5 DEF How, PurposeOf
      <4> QED
        BY <2>2, <2>5, <2>10, <4>1, <4>2 DEF ToMerge
    <3> QED
      BY <3>1, <3>2, <3>3
  <2> QED
    BY <2>9, <2>10
<1>2. D \subseteq DialogMessage /\ W \subseteq WriteMessage
  OBVIOUS
<1>3. IsFiniteSet(D) /\ IsFiniteSet(W)
  BY <1>2, FiniteKinds, FS_Subset
<1>4. \A m : m \in Leading[q] <=>
        \/ m \in DialogMessage /\ About(m.overlay) = q
        \/ m \in WriteMessage /\ <<m.pr, PurposeOf(m.how)>> = q
  BY <1>1
<1> HIDE DEF D, W
<1>5. Leading[q] \subseteq Message
  BY <1>1, <1>2, Messages
<1>6. IsFiniteSet(Leading[q])
  BY <1>1, <1>3, FS_Union
<1> QED
  BY <1>4, <1>5, <1>6

\* Which question a message counts for.
LEMMA MessagesCount ==
  ASSUME NEW q \in Question
  PROVE  /\ \A o \in Overlay : /\ Of(Push(o), Leading[q]) = Same(About(o), q)
                               /\ Of(Replace(o), Leading[q]) = Same(About(o), q)
         /\ \A p \in PR, h \in How :
              Of(Write(p, h), Leading[q]) = Same(<<p, PurposeOf(h)>>, q)
         /\ \A m : m \notin DialogMessage \cup WriteMessage => Of(m, Leading[q]) = 0
<1>1. ASSUME NEW o \in Overlay, NEW m \in {Push(o), Replace(o)}
      PROVE  Of(m, Leading[q]) = Same(About(o), q)
  <2>1. m \in DialogMessage /\ m \notin WriteMessage /\ m.overlay = o
    BY <1>1, Messages
  <2> QED
    BY <2>1, LeadingIsFinite DEF Of, Same
<1>2. ASSUME NEW p \in PR, NEW h \in How
      PROVE  Of(Write(p, h), Leading[q]) = Same(<<p, PurposeOf(h)>>, q)
  <2>1. /\ Write(p, h) \in WriteMessage /\ Write(p, h) \notin DialogMessage
        /\ Write(p, h).pr = p /\ Write(p, h).how = h
    BY Messages DEF Write
  <2> QED
    BY <2>1, LeadingIsFinite DEF Of, Same
<1>3. \A m : m \notin DialogMessage \cup WriteMessage => Of(m, Leading[q]) = 0
  BY LeadingIsFinite DEF Of
<1> QED
  BY <1>1, <1>2, <1>3

\* A stack with one dialog more counts that dialog.
LEMMA OneMoreDialog ==
  ASSUME NEW s \in Seq(Overlay), NEW t \in Seq(Overlay), Len(t) = Len(s) + 1,
         \A i \in 1..Len(s) : t[i] = s[i], NEW q
  PROVE  /\ Cardinality(AboutIn(s, q)) \in Nat
         /\ Cardinality(AboutIn(t, q)) =
              Cardinality(AboutIn(s, q)) + Same(About(t[Len(t)]), q)
<1>1. Len(s) \in Nat /\ DOMAIN s = 1..Len(s) /\ DOMAIN t = 1..(Len(s) + 1)
  OBVIOUS
<1>2. AboutIn(s, q) \subseteq 1..Len(s) /\ Len(t) \notin AboutIn(s, q)
  BY <1>1 DEF AboutIn
<1>3. IsFiniteSet(AboutIn(s, q)) /\ Cardinality(AboutIn(s, q)) \in Nat
  <2>1. IsFiniteSet(1..Len(s))
    BY <1>1, FS_Interval
  <2> QED
    BY <1>2, <2>1, FS_Subset, FS_CardinalityType
<1>4. CASE About(t[Len(t)]) = q
  <2>1. AboutIn(t, q) = AboutIn(s, q) \cup {Len(t)}
    BY <1>1, <1>4 DEF AboutIn
  <2> QED
    BY <1>2, <1>3, <1>4, <2>1, FS_AddElement DEF Same
<1>5. CASE About(t[Len(t)]) # q
  <2>1. AboutIn(t, q) = AboutIn(s, q)
    BY <1>1, <1>5 DEF AboutIn
  <2> QED
    BY <1>3, <1>5, <2>1 DEF Same
<1> QED
  BY <1>3, <1>4, <1>5

\* What is done to the stack, and what that does to the questions open on it.
LEMMA DialogsCount ==
  ASSUME TypeOK, NEW q \in Question
  PROVE  /\ Cardinality(OpenDialogs(q)) \in Nat
         /\ UNCHANGED overlays =>
              Cardinality(OpenDialogs(q))' = Cardinality(OpenDialogs(q))
         /\ overlays # <<>> /\ overlays' = Popped =>
              Cardinality(OpenDialogs(q))' =
                Cardinality(OpenDialogs(q)) - Same(About(Top), q)
         /\ \A o \in Overlay :
              /\ overlays' = Append(overlays, o) =>
                   Cardinality(OpenDialogs(q))' =
                     Cardinality(OpenDialogs(q)) + Same(About(o), q)
              /\ overlays # <<>> /\ overlays' = Append(Popped, o) =>
                   Cardinality(OpenDialogs(q))' =
                     Cardinality(OpenDialogs(q)) - Same(About(Top), q) + Same(About(o), q)
<1>1. /\ OpenDialogs(q) = AboutIn(overlays, q)
      /\ OpenDialogs(q)' = AboutIn(overlays', q)
  BY DEF OpenDialogs, AboutIn
<1>2. overlays \in Seq(Overlay) /\ Len(overlays) \in Nat
  BY DEF TypeOK
<1>3. ASSUME NEW s \in Seq(Overlay), NEW o \in Overlay
      PROVE  /\ Cardinality(AboutIn(s, q)) \in Nat
             /\ Cardinality(AboutIn(Append(s, o), q)) =
                  Cardinality(AboutIn(s, q)) + Same(About(o), q)
  <2>1. /\ Append(s, o) \in Seq(Overlay) /\ Len(Append(s, o)) = Len(s) + 1
        /\ \A i \in 1..Len(s) : Append(s, o)[i] = s[i]
        /\ Append(s, o)[Len(s) + 1] = o
    OBVIOUS
  <2> DEFINE t == Append(s, o)
  <2>2. t \in Seq(Overlay) /\ Len(t) = Len(s) + 1 /\ t[Len(t)] = o
        /\ \A i \in 1..Len(s) : t[i] = s[i]
    BY <2>1
  <2> HIDE DEF t
  <2>3. /\ Cardinality(AboutIn(s, q)) \in Nat
        /\ Cardinality(AboutIn(t, q)) =
             Cardinality(AboutIn(s, q)) + Same(About(t[Len(t)]), q)
    BY <2>2, OneMoreDialog
  <2> QED
    BY <2>2, <2>3 DEF t
<1>4. ASSUME overlays # <<>>
      PROVE  /\ Popped \in Seq(Overlay)
             /\ Cardinality(AboutIn(Popped, q)) \in Nat
             /\ Cardinality(AboutIn(overlays, q)) =
                  Cardinality(AboutIn(Popped, q)) + Same(About(Top), q)
  <2>1. Len(overlays) > 0
    BY <1>2, <1>4, EmptySeq
  <2>2. Popped \in Seq(Overlay) /\ Len(overlays) = Len(Popped) + 1
    BY <1>2, <1>4, StackTypes
  <2>3. \A i \in 1..Len(Popped) : overlays[i] = Popped[i]
    <3>1. Popped = SubSeq(overlays, 1, Len(overlays) - 1)
      BY DEF Popped
    <3> HIDE DEF Popped
    <3> QED
      BY <1>2, <2>1, <3>1
  <2> QED
    BY <1>2, <2>2, <2>3, OneMoreDialog DEF Top
<1>5. Same(About(Top), q) \in Nat /\ \A o \in Overlay : Same(About(o), q) \in Nat
  BY DEF Same
<1>6. Cardinality(AboutIn(overlays, q)) \in Nat
  <2>1. AboutIn(overlays, q) \subseteq 1..Len(overlays)
    BY <1>2 DEF AboutIn
  <2>2. IsFiniteSet(1..Len(overlays))
    BY <1>2, FS_Interval
  <2> QED
    BY <2>1, <2>2, FS_Subset, FS_CardinalityType
<1>7. UNCHANGED overlays => Cardinality(OpenDialogs(q))' = Cardinality(OpenDialogs(q))
  BY DEF OpenDialogs
<1>8. overlays # <<>> /\ overlays' = Popped =>
        Cardinality(OpenDialogs(q))' = Cardinality(OpenDialogs(q)) - Same(About(Top), q)
  BY <1>1, <1>4, <1>5, <1>6
<1>9. ASSUME NEW o \in Overlay, overlays' = Append(overlays, o)
      PROVE  Cardinality(OpenDialogs(q))' = Cardinality(OpenDialogs(q)) + Same(About(o), q)
  BY <1>1, <1>2, <1>3, <1>9
<1>10. ASSUME NEW o \in Overlay, overlays # <<>>, overlays' = Append(Popped, o)
       PROVE  Cardinality(OpenDialogs(q))' =
                Cardinality(OpenDialogs(q)) - Same(About(Top), q) + Same(About(o), q)
  BY <1>1, <1>3, <1>4, <1>5, <1>6, <1>10
<1> QED
  BY <1>1, <1>6, <1>7, <1>8, <1>9, <1>10

\* A question counted is one on the stack or one in a message.
LEMMA QuestionsCount ==
  ASSUME TypeOK, NEW q \in Question
  PROVE  /\ Unanswered(q) = Cardinality(OpenDialogs(q)) + OutOf(Leading[q])
         /\ Unanswered(q)' = Cardinality(OpenDialogs(q))' + OutOf(Leading[q])'
         /\ Cardinality(OpenDialogs(q)) \in Nat /\ OutOf(Leading[q]) \in Nat
         /\ UNCHANGED mail => OutOf(Leading[q])' = OutOf(Leading[q])
         /\ \A m \in Message :
              /\ Send(m) => OutOf(Leading[q])' = OutOf(Leading[q]) + Of(m, Leading[q])
              /\ Receive(m) => OutOf(Leading[q])' = OutOf(Leading[q]) - Of(m, Leading[q])
<1>1. mail \in [Message -> Nat]
  BY DEF TypeOK
<1>2. Leading[q] \subseteq Message /\ IsFiniteSet(Leading[q])
  BY LeadingIsFinite
<1>3. /\ OutOf(Leading[q]) \in Nat
      /\ UNCHANGED mail => OutOf(Leading[q])' = OutOf(Leading[q])
      /\ \A m \in Message :
           /\ Send(m) => OutOf(Leading[q])' = OutOf(Leading[q]) + Of(m, Leading[q])
           /\ Receive(m) => OutOf(Leading[q])' = OutOf(Leading[q]) - Of(m, Leading[q])
  BY <1>1, <1>2, Counting
<1>4. Cardinality(OpenDialogs(q)) \in Nat
  BY DialogsCount
<1>5. Unanswered(q) = Cardinality(OpenDialogs(q)) + OutOf(Leading[q])
  BY DEF Unanswered
<1>6. Unanswered(q)' = Cardinality(OpenDialogs(q))' + OutOf(Leading[q])'
  BY DEF Unanswered
<1> QED
  BY <1>3, <1>4, <1>5, <1>6

\* What a step can do to the questions: nothing, one more of a kind, or one less.
NoneMoves ==
  (\A r \in Question : Unanswered(r)' = Unanswered(r)) /\ UNCHANGED <<asks, written>>
OneMore(q) ==
  /\ \A r \in Question : Unanswered(r)' = Unanswered(r) + Same(q, r)
  /\ asks' = asks + 1 /\ UNCHANGED written
OneLess(q) ==
  /\ Unanswered(q) > 0
  /\ \A r \in Question : Unanswered(r)' = Unanswered(r) - Same(q, r)
  /\ UNCHANGED asks /\ (UNCHANGED written \/ written' = written + 1)

\* The dialog on top is counted, and so is a message that is out.
LEMMA TopIsCounted ==
  ASSUME TypeOK, overlays # <<>>
  PROVE  Cardinality(OpenDialogs(About(Top))) > 0
<1>1. overlays \in Seq(Overlay) /\ Len(overlays) \in Nat /\ Len(overlays) \in 1..Len(overlays)
  BY EmptySeq, LenProperties DEF TypeOK
<1>2. Len(overlays) \in OpenDialogs(About(Top))
  BY <1>1 DEF OpenDialogs, Top
<1>3. OpenDialogs(About(Top)) \subseteq 1..Len(overlays)
  BY <1>1 DEF OpenDialogs
<1>4. IsFiniteSet(1..Len(overlays))
  BY <1>1, FS_Interval
<1>5. IsFiniteSet(OpenDialogs(About(Top)))
  BY <1>3, <1>4, FS_Subset
<1> QED
  BY <1>2, <1>5, FS_EmptySet, FS_CardinalityType

LEMMA MessageIsCounted ==
  ASSUME TypeOK, NEW q \in Question, NEW m \in Leading[q], mail[m] > 0
  PROVE  OutOf(Leading[q]) > 0
<1>1. /\ IsFiniteSet(Leading[q])
      /\ \A n \in Leading[q] : mail[n] \in Nat /\ mail[n] \in Int
  BY LeadingIsFinite DEF TypeOK
<1>2. /\ IsFiniteSet(Leading[q] \ {m})
      /\ \A n \in Leading[q] \ {m} : mail[n] \in Nat
  BY <1>1, FS_RemoveElement
<1>3. SumFunctionOnSet(mail, Leading[q] \ {m}) \in Nat
  BY <1>2, SumIsANatural
<1>4. SumFunctionOnSet(mail, Leading[q]) = mail[m] + SumFunctionOnSet(mail, Leading[q] \ {m})
  BY <1>1, SumWithout
<1> QED
  BY <1>1, <1>3, <1>4, AllCount, LeadingIsFinite DEF TypeOK

\* A chooser that shows another default is about what it was about.
LEMMA CycleKeeps ==
  ASSUME TypeOK, Cycle
  PROVE  \A q \in Question : OpenDialogs(q)' = OpenDialogs(q)
<1>1. overlays # <<>> /\ Top.kind = "chooser" /\ Top \in Overlay /\ Top.shows \in Method
  BY TopTypes DEF Cycle, TopIs
<1>2. overlays \in Seq(Overlay) /\ Len(overlays) \in 1..Len(overlays)
  BY <1>1, EmptySeq, LenProperties DEF TypeOK
<1> DEFINE o == [Top EXCEPT !.shows = NextDefault(Top.shows)]
<1>3. About(o) = About(Top)
  BY <1>1 DEF About, Overlay
<1>4. overlays' = [overlays EXCEPT ![Len(overlays)] = o]
  BY <1>2 DEF Cycle, Top
<1> HIDE DEF o
<1>5. DOMAIN overlays' = DOMAIN overlays
  BY <1>4
<1>6. \A i \in DOMAIN overlays : About(overlays'[i]) = About(overlays[i])
  BY <1>2, <1>3, <1>4 DEF Top
<1> QED
  BY <1>5, <1>6 DEF OpenDialogs

\* Every key and every message asks about the pull request on screen, which the gate
\* allows, or withdraws a question or acts on it, or none of these.
LEMMA QuestionStep ==
  ASSUME TypeOK, [Next]_vars
  PROVE  \/ NoneMoves
         \/ \E q \in Question : OneLess(q) \/ (MayAsk /\ q[1] = shown /\ OneMore(q))
<1> DEFINE C(q) == Cardinality(OpenDialogs(q))
           L(q) == OutOf(Leading[q])
<1> DEFINE Goal ==
      \/ NoneMoves
      \/ \E q \in Question : OneLess(q) \/ (MayAsk /\ q[1] = shown /\ OneMore(q))
<1> SUFFICES Goal
  OBVIOUS
<1>c. \A q \in Question :
        /\ Unanswered(q) = C(q) + L(q) /\ Unanswered(q)' = C(q)' + L(q)'
        /\ C(q) \in Nat /\ L(q) \in Nat /\ Unanswered(q) \in Nat
  BY QuestionsCount
<1>l. \A q \in Question : \A m \in Message :
        /\ Send(m) => L(q)' = L(q) + Of(m, Leading[q])
        /\ Receive(m) => L(q)' = L(q) - Of(m, Leading[q])
  BY QuestionsCount
<1>m. UNCHANGED mail => \A q \in Question : L(q)' = L(q)
  BY QuestionsCount
<1>o. UNCHANGED overlays => \A q \in Question : C(q)' = C(q)
  BY DialogsCount
<1>n. ASSUME NEW m \in Message, m \notin DialogMessage \cup WriteMessage, Send(m) \/ Receive(m)
      PROVE  \A q \in Question : L(q)' = L(q)
  <2>1. \A q \in Question : Of(m, Leading[q]) = 0
    BY <1>n, MessagesCount
  <2> QED
    BY <1>c, <1>l, <1>n, <2>1
<1>d. ASSUME NEW o \in Overlay, NEW q \in Question
      PROVE  /\ Same(About(o), q) \in Nat
             /\ Send(Push(o)) \/ Send(Replace(o)) => L(q)' = L(q) + Same(About(o), q)
             /\ Receive(Push(o)) \/ Receive(Replace(o)) => L(q)' = L(q) - Same(About(o), q)
  <2>1. Push(o) \in Message /\ Replace(o) \in Message
    BY Messages
  <2>2. Of(Push(o), Leading[q]) = Same(About(o), q) /\ Of(Replace(o), Leading[q]) = Same(About(o), q)
    BY MessagesCount
  <2>3. Same(About(o), q) \in Nat
    BY DEF Same
  <2> QED
    BY <1>l, <2>1, <2>2, <2>3
<1>w. ASSUME NEW p \in PR, NEW h \in How, NEW q \in Question
      PROVE  /\ Same(<<p, PurposeOf(h)>>, q) \in Nat
             /\ Send(Write(p, h)) => L(q)' = L(q) + Same(<<p, PurposeOf(h)>>, q)
             /\ Receive(Write(p, h)) => L(q)' = L(q) - Same(<<p, PurposeOf(h)>>, q)
  <2>1. Write(p, h) \in Message
    BY Messages
  <2>2. Of(Write(p, h), Leading[q]) = Same(<<p, PurposeOf(h)>>, q)
    BY MessagesCount
  <2>3. Same(<<p, PurposeOf(h)>>, q) \in Nat
    BY DEF Same
  <2> QED
    BY <1>l, <2>1, <2>2, <2>3
<1>i. \A q, r : Same(q, r) \in Nat /\ Same(q, q) = 1
  BY DEF Same
<1> HIDE DEF C, L
<1>s. ASSUME \A q \in Question : C(q)' + L(q)' = C(q) + L(q), UNCHANGED <<asks, written>>
      PROVE  Goal
  BY <1>c, <1>s DEF NoneMoves
<1>a. ASSUME NEW q \in Question, UNCHANGED asks, UNCHANGED written \/ written' = written + 1,
             \A r \in Question : C(r)' + L(r)' = C(r) + L(r) - Same(q, r), C(q) + L(q) > 0
      PROVE  Goal
  <2>1. \A r \in Question : Unanswered(r)' = Unanswered(r) - Same(q, r)
    BY <1>a, <1>c, <1>i
  <2>2. Unanswered(q) > 0
    BY <1>a, <1>c
  <2> QED
    BY <1>a, <2>1, <2>2 DEF OneLess
<1> HIDE DEF Goal
<1>1. CASE Back \/ PopArrives \/ Cover \/ Uncover \/ (\E p \in PR : Open(p) \/ GateArrives(p))
  <2>1. \A q \in Question : L(q)' = L(q)
    BY <1>1, <1>n, <1>m, Messages
       DEF Back, PopArrives, Cover, Uncover, Open, GateArrives
  <2>2. UNCHANGED overlays /\ UNCHANGED history
    BY <1>1 DEF Back, PopArrives, Cover, Uncover, Open, GateArrives
  <2> QED
    BY <2>1, <2>2, <1>o, <1>s DEF history
<1>2. ASSUME NEW o \in Overlay, o.pr = shown, MayAsk, Ask(o)
      PROVE  Goal
  <2>1. About(o) \in Question /\ About(o)[1] = shown
    BY <1>2, Abouts
  <2>2. \A q \in Question : L(q)' = L(q) + Same(About(o), q) /\ C(q)' = C(q)
    BY <1>2, <1>d, <1>o DEF Ask
  <2>3. \A q \in Question : Unanswered(q)' = Unanswered(q) + Same(About(o), q)
    BY <2>2, <1>c, <1>i
  <2>4. asks' = asks + 1 /\ UNCHANGED written
    BY <1>2 DEF Ask
  <2> QED
    BY <1>2, <2>1, <2>3, <2>4 DEF Goal, OneMore
<1>3. CASE AskMerge \/ AskClose
  <2>1. shown \in PR /\ method \in Method /\ "close" \in How
    BY <1>3 DEF AskMerge, AskClose, MayAsk, OnTop, TypeOK, How
  <2> QED
    BY <1>2, <1>3, <2>1, Dialogs DEF AskMerge, AskClose
<1>4. ASSUME NEW m \in Method, TopIs("chooser"), Choose(m)
      PROVE  Goal
  <2>1. /\ Top \in Overlay /\ Top.pr \in PR /\ m \in How
        /\ Confirm(Top.pr, m) \in Overlay /\ overlays # <<>>
    BY <1>4, TopTypes, Dialogs DEF TopIs, How
  <2>2. About(Top) = About(Confirm(Top.pr, m))
    BY <1>4, <2>1, Abouts DEF About, TopIs
  <2>3. \A q \in Question : L(q)' = L(q) + Same(About(Top), q)
    BY <1>4, <2>1, <2>2, <1>d DEF Choose
  <2>4. \A q \in Question : C(q)' = C(q) - Same(About(Top), q)
    BY <1>4, <2>1, DialogsCount DEF Choose, C
  <2>5. UNCHANGED <<asks, written>>
    BY <1>4 DEF Choose, history
  <2> QED
    BY <2>3, <2>4, <2>5, <1>c, <1>i, <1>s
<1>5. ASSUME NEW m \in Method, Pick(m) PROVE Goal
  BY <1>4, <1>5 DEF Pick
<1>6. CASE Submit
  BY <1>4, <1>6, TopTypes DEF Submit, TopIs
<1>7. CASE Cycle
  <2>1. overlays # <<>> /\ Top.kind = "chooser" /\ NextDefault(Top.shows) \in Method
    BY <1>7, TopTypes, Cycling DEF Cycle, TopIs
  <2>2. \A q \in Question : L(q)' = L(q)
    BY <1>7, <2>1, <1>n, Messages DEF Cycle
  <2>3. \A q \in Question : OpenDialogs(q)' = OpenDialogs(q)
    BY <1>7, CycleKeeps
  <2>4. UNCHANGED <<asks, written>>
    BY <1>7 DEF Cycle
  <2> QED
    BY <2>2, <2>3, <2>4, <1>s DEF C
<1>8. CASE Yes
  <2>1. /\ Top \in Overlay /\ Top.pr \in PR /\ Top.how \in How /\ overlays # <<>>
        /\ About(Top) = <<Top.pr, PurposeOf(Top.how)>>
    BY <1>8, TopTypes DEF Yes, TopIs, About
  <2>2. \A q \in Question : L(q)' = L(q) + Same(About(Top), q)
    BY <1>8, <2>1, <1>w DEF Yes
  <2>3. \A q \in Question : C(q)' = C(q) - Same(About(Top), q)
    BY <1>8, <2>1, DialogsCount DEF Yes, C
  <2>4. UNCHANGED <<asks, written>>
    BY <1>8 DEF Yes, history
  <2> QED
    BY <2>2, <2>3, <2>4, <1>c, <1>i, <1>s
<1>9. CASE Cancel
  <2>1. Top \in Overlay /\ About(Top) \in Question /\ overlays # <<>>
    BY <1>9, TopTypes, Abouts DEF Cancel
  <2>2. \A q \in Question : C(q)' = C(q) - Same(About(Top), q) /\ L(q)' = L(q)
    BY <1>9, <2>1, <1>m, DialogsCount DEF Cancel, C
  <2>3. C(About(Top)) > 0
    BY <2>1, TopIsCounted DEF C
  <2>4. UNCHANGED <<asks, written>>
    BY <1>9 DEF Cancel, history
  <2> QED
    BY <2>1, <2>2, <2>3, <2>4, <1>c, <1>i, <1>a
<1>10. ASSUME NEW m \in Method, DefaultArrives(m) PROVE Goal
  <2>1. \A q \in Question : L(q)' = L(q)
    BY <1>10, <1>n, Messages DEF DefaultArrives
  <2> QED
    BY <1>10, <2>1, <1>o, <1>s DEF DefaultArrives, history
<1>11. ASSUME NEW o \in Overlay, PushArrives(o) \/ ReplaceArrives(o)
       PROVE  Goal
  <2>1. \A q \in Question : L(q)' = L(q) - Same(About(o), q)
    BY <1>11, <1>d DEF PushArrives, ReplaceArrives
  <2>2. UNCHANGED <<asks, written>>
    BY <1>11 DEF PushArrives, ReplaceArrives, history
  <2>3. CASE overlays' = Append(overlays, o)
    <3>1. \A q \in Question : C(q)' = C(q) + Same(About(o), q)
      BY <2>3, DialogsCount DEF C
    <3> QED
      BY <2>1, <2>2, <3>1, <1>c, <1>i, <1>s
  <2>4. CASE overlays # <<>> /\ overlays' = Append(Popped, o)
    <3>1. \A q \in Question : C(q)' = C(q) - Same(About(Top), q) + Same(About(o), q)
      BY <2>4, DialogsCount DEF C
    <3>2. About(Top) \in Question /\ C(About(Top)) > 0
      BY <2>4, TopTypes, Abouts, TopIsCounted DEF C
    <3> QED
      BY <2>1, <2>2, <3>1, <3>2, <1>c, <1>i, <1>a
  <2>5. overlays = <<>> => Popped = overlays
    BY DEF Popped
  <2> QED
    BY <1>11, <2>3, <2>4, <2>5 DEF PushArrives, ReplaceArrives
<1>12. ASSUME NEW p \in PR, NEW h \in How, WriteArrives(p, h)
       PROVE  Goal
  <2> DEFINE q == <<p, PurposeOf(h)>>
  <2>1. q \in Question
    BY Abouts
  <2>2. \A r \in Question : L(r)' = L(r) - Same(q, r)
    BY <1>12, <1>w DEF WriteArrives
  <2>3. UNCHANGED overlays /\ UNCHANGED asks /\ written' = written + 1
    BY <1>12 DEF WriteArrives
  <2>4. L(q) > 0
    <3>1. Write(p, h) \in Leading[q]
      BY <2>1, Messages, LeadingIsFinite DEF Write
    <3>2. mail[Write(p, h)] > 0
      BY <1>12 DEF WriteArrives, Receive
    <3> QED
      BY <2>1, <3>1, <3>2, MessageIsCounted DEF L
  <2> HIDE DEF q
  <2> QED
    BY <2>1, <2>2, <2>3, <2>4, <1>c, <1>i, <1>o, <1>a
<1>13. CASE UNCHANGED vars
  BY <1>13, <1>m, <1>o, <1>s DEF vars, history
<1> QED
  BY <1>1, <1>3, <1>5, <1>6, <1>7, <1>8, <1>9, <1>10, <1>11, <1>12, <1>13 DEF Next

\* Nothing has been asked when the program starts.
LEMMA NoQuestions == Init => [q \in Question |-> Unanswered(q)] = [q \in Question |-> 0]
<1> SUFFICES ASSUME Init, NEW q \in Question PROVE Unanswered(q) = 0
  OBVIOUS
<1>1. IsFiniteSet(Leading[q]) /\ \A m \in Leading[q] : mail[m] = 0
  BY LeadingIsFinite DEF Init
<1>2. OutOf(Leading[q]) = 0
  BY <1>1, AllCount, LeadingIsFinite, SumOfNothing DEF Init
<1>3. OpenDialogs(q) = {}
  BY DEF OpenDialogs, Init
<1> QED
  BY <1>2, <1>3, FS_EmptySet DEF Unanswered

\* The same questions as functions, which is how Consent has them.
LEMMA OpenQuestions ==
  ASSUME TypeOK, NEW q \in Question, NEW open,
         open = [r \in Question |-> Unanswered(r)]
  PROVE  /\ NoneMoves => [r \in Question |-> Unanswered(r)'] = open
         /\ OneMore(q) => [r \in Question |-> Unanswered(r)'] = [open EXCEPT ![q] = @ + 1]
         /\ OneLess(q) => [r \in Question |-> Unanswered(r)'] = [open EXCEPT ![q] = @ - 1]
         /\ OneLess(q) => open[q] > 0
<1>1. \A r \in Question : open[r] \in Nat /\ open[r] = Unanswered(r)
  BY QuestionsCount
<1>2. NoneMoves => [r \in Question |-> Unanswered(r)'] = open
  BY DEF NoneMoves
<1>3. ASSUME OneMore(q)
      PROVE  [r \in Question |-> Unanswered(r)'] = [open EXCEPT ![q] = @ + 1]
  <2>1. \A r \in Question : Unanswered(r)' = IF r = q THEN open[q] + 1 ELSE open[r]
    BY <1>1, <1>3 DEF OneMore, Same
  <2>2. [open EXCEPT ![q] = @ + 1] =
          [r \in Question |-> IF r = q THEN open[q] + 1 ELSE open[r]]
    OBVIOUS
  <2> QED
    BY <2>1, <2>2
<1>4. ASSUME OneLess(q)
      PROVE  [r \in Question |-> Unanswered(r)'] = [open EXCEPT ![q] = @ - 1]
  <2>1. \A r \in Question : Unanswered(r)' = IF r = q THEN open[q] - 1 ELSE open[r]
    BY <1>1, <1>4 DEF OneLess, Same
  <2>2. [open EXCEPT ![q] = @ - 1] =
          [r \in Question |-> IF r = q THEN open[q] - 1 ELSE open[r]]
    OBVIOUS
  <2> QED
    BY <2>1, <2>2
<1> QED
  BY <1>1, <1>2, <1>3, <1>4 DEF OneLess

----------------------------------------------------------------------------
(* The theorems. *)

\* Every variable keeps its type, whatever numbers pull requests have.
THEOREM TypeCorrect == Spec => []TypeOK
<1>1. Init => TypeOK
  BY InitInv DEF IInv
<1> QED
  BY <1>1, TypeStep, PTL DEF Spec

\* A key pressed once leads to one write at most, whatever opens, swaps or
\* closes while its dialogs are on their way (merge.go:119-150, overlay.go).
THEOREM OneWrite == Spec => []OneWritePerAsk
<1>1. TypeOK /\ OneWritePerAsk /\ [Next]_vars => OneWritePerAsk'
  BY OneWriteStep
<1> QED
  BY OneWriteInit, TypeCorrect, <1>1, PTL DEF Spec

\* The invariant holds, whatever numbers the pull requests have.
THEOREM Invariance == Spec => []IInv
<1>1. IInv /\ [Next]_vars => IInv'
  BY NextInv
<1> QED
  BY InitInv, <1>1, PTL DEF Spec

\* A write is offered only on a pull request that the viewer may write to, or that
\* shares its number with such a one of another repository, however late the answers
\* about other screens come: all that the gate's test gives, which compares numbers
\* alone (prdetails.go:430-433).
THEOREM GateOpensByNumber == Spec => []AdmittedByNumber
<1>1. IInv => AdmittedByNumber
  BY DEF IInv
<1> QED
  BY <1>1, Invariance, PTL

\* Every dialog and every write, at any point of its way, is for a pull request
\* that a write could be offered on, that is for one the viewer may write to or one
\* that shares its number with such a one (merge.go:11-15, prdetails.go:430-433).
THEOREM WritesAdmitted == Spec => []WritesWereAdmitted
<1>1. IInv => WritesWereAdmitted
  BY DEF IInv, DialogsAllowed, MailAllowed, WritesWereAdmitted
<1> QED
  BY <1>1, Invariance, PTL

\* Consent where everything may be asked about: what it says of the questions alone.
Answering == INSTANCE Consent WITH
               Askable <- PR,
               open <- [q \in Question |-> Unanswered(q)]

\* Whatever the numbers are, a write is for the pull request that a key was pressed on
\* and does what that key asked for, one write for each key at most: the dialogs, the
\* stack they open on and the messages between them ask first (merge.go:11-15).
THEOREM WritesAnswerQuestions == Spec => Answering!Spec
<1>1. Init => Answering!Init
  BY NoQuestions
     DEF Init, Answering!Init, Answering!Question, Answering!Purpose, Question
<1>2. TypeOK /\ [Next]_vars => [Answering!Next]_(Answering!vars)
  <2> SUFFICES ASSUME TypeOK, [Next]_vars
               PROVE  [Answering!Next]_(Answering!vars)
    OBVIOUS
  <2>1. CASE NoneMoves
    <3>1. [q \in Question |-> Unanswered(q)'] = [q \in Question |-> Unanswered(q)]
      BY <2>1 DEF NoneMoves
    <3> QED
      BY <2>1, <3>1 DEF NoneMoves, Answering!vars
  <2>2. ASSUME NEW q \in Question, OneLess(q) PROVE Answering!Next
    <3>1. Answering!Withdraw(q) \/ Answering!Act(q)
      BY <2>2, OpenQuestions DEF OneLess, Answering!Withdraw, Answering!Act
    <3> QED
      BY <3>1 DEF Answering!Next, Answering!Question, Answering!Purpose, Question
  <2>3. ASSUME NEW q \in Question, OneMore(q) PROVE Answering!Next
    <3>1. q[1] \in PR
      BY DEF Question
    <3>2. Answering!Ask(q)
      BY <2>3, <3>1, OpenQuestions DEF OneMore, Answering!Ask
    <3> QED
      BY <3>2 DEF Answering!Next, Answering!Question, Answering!Purpose, Question
  <2> QED
    BY <2>1, <2>2, <2>3, QuestionStep
<1> QED
  BY <1>1, <1>2, TypeCorrect, PTL DEF Spec, Answering!Spec

\* And no key asks about a pull request that could not be offered, its own permission
\* or that of one with its number: the merge and close dialogs implement Consent.
THEOREM MergingAsksFirst == Spec => ConsentSpec
<1>1. Init => Asking!Init
  BY NoQuestions
     DEF Init, Asking!Init, Asking!Question, Asking!Purpose, Question
<1>2. IInv /\ [Next]_vars => [Asking!Next]_(Asking!vars)
  <2> SUFFICES ASSUME IInv, [Next]_vars
               PROVE  [Asking!Next]_(Asking!vars)
    OBVIOUS
  <2>0. TypeOK
    BY DEF IInv
  <2>1. CASE NoneMoves
    <3>1. [q \in Question |-> Unanswered(q)'] = [q \in Question |-> Unanswered(q)]
      BY <2>1 DEF NoneMoves
    <3> QED
      BY <2>1, <3>1 DEF NoneMoves, Asking!vars
  <2>2. ASSUME NEW q \in Question, OneLess(q) PROVE Asking!Next
    <3>1. Asking!Withdraw(q) \/ Asking!Act(q)
      BY <2>0, <2>2, OpenQuestions DEF OneLess, Asking!Withdraw, Asking!Act
    <3> QED
      BY <3>1 DEF Asking!Next, Asking!Question, Asking!Purpose, Question
  <2>3. ASSUME NEW q \in Question, MayAsk, q[1] = shown, OneMore(q) PROVE Asking!Next
    <3>1. q[1] \in Admitted
      BY <2>3 DEF MayAsk, OnTop, IInv, AdmittedByNumber
    <3>2. Asking!Ask(q)
      BY <2>0, <2>3, <3>1, OpenQuestions DEF OneMore, Asking!Ask
    <3> QED
      BY <3>2 DEF Asking!Next, Asking!Question, Asking!Purpose, Question
  <2> QED
    BY <2>0, <2>1, <2>2, <2>3, QuestionStep
<1> QED
  BY <1>1, <1>2, Invariance, PTL DEF Spec, ConsentSpec, Asking!Spec
=============================================================================
