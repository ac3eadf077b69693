------------------------------- MODULE Overlay -------------------------------
(***************************************************************************)
(* The stack of dialogs and the messages that reach it whatever dialog is  *)
(* on top (internal/overlay).  The top of the stack is its last element.   *)
(***************************************************************************)
EXTENDS SequencesExt

Push(dialog) == [kind |-> "push", dialog |-> dialog]
Replace(dialog) == [kind |-> "replace", dialog |-> dialog]
CloseAll == [kind |-> "close-all"]

\* Stack.Update: what a message makes of the stack; a replacement of nothing is a
\* push.
Received(stack, m) ==
  IF m.kind = "close-all" THEN <<>>
  ELSE IF m.kind = "push" \/ stack = <<>> THEN Append(stack, m.dialog)
  ELSE Append(Front(stack), m.dialog)
=============================================================================
