------------------------------ MODULE KeySpec -------------------------------
(***************************************************************************)
(* What the keyboard promises: characters reach the program in the order   *)
(* they were typed, each once; one typed while Room are unread is          *)
(* discarded.                                                              *)
(***************************************************************************)
EXTENDS Integers, Sequences

CONSTANTS Characters, Room

VARIABLES
  unread,   \* typed, not yet returned
  given     \* what the last step returned

promised == <<unread, given>>

Type(c) == /\ unread' = IF Len(unread) < Room THEN Append(unread, c) ELSE unread
           /\ given' = <<>>

Take == /\ unread # <<>>
        /\ given' = <<Head(unread)>>
        /\ unread' = Tail(unread)

Else == given' = <<>> /\ UNCHANGED unread

Init == unread = <<>> /\ given = <<>>
Next == (\E c \in Characters : Type(c)) \/ Take \/ Else

Spec == Init /\ [][Next]_promised
=============================================================================
