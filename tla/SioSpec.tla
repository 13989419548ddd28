------------------------------ MODULE SioSpec -------------------------------
(***************************************************************************)
(* What the serial driver promises: two character streams.  Received       *)
(* characters reach the readers in order, those that come when BufSize     *)
(* are unread are dropped; written characters go to the transmitter in     *)
(* order, with CR in front of LF, each when it is free for the next.       *)
(***************************************************************************)
EXTENDS Integers, Sequences

CONSTANTS Chars, BufSize, Strings, Lengths

VARIABLES
  unread,     \* received, not yet read
  readers,    \* how many processes wait for a character
  given,      \* the characters the last step gave to a reader
  unsent,     \* written, not yet handed to the transmitter
  busy,       \* the transmitter has work
  txd,        \* the characters the last step handed to the transmitter
  broken      \* the promise is off

specVars == <<unread, readers, given, unsent, busy, txd, broken>>

CR == "CR"
LF == "LF"

Receive(ch) ==
  LET c == IF ch = CR THEN LF ELSE ch
  IN  /\ IF readers > 0
         THEN given' = <<c>> /\ readers' = readers - 1 /\ UNCHANGED unread
         ELSE /\ unread' = IF Len(unread) < BufSize THEN Append(unread, c) ELSE unread
              /\ given' = <<>>
              /\ UNCHANGED readers
      /\ txd' = <<>>
      /\ UNCHANGED <<unsent, busy, broken>>

Read(n) ==
  LET k == IF n < Len(unread) THEN n ELSE Len(unread)
  IN  /\ given' = SubSeq(unread, 1, k)
      /\ unread' = SubSeq(unread, k + 1, Len(unread))
      /\ txd' = <<>>
      /\ UNCHANGED <<readers, unsent, busy, broken>>

Wait == /\ unread = <<>>
        /\ readers' = readers + 1
        /\ given' = <<>> /\ txd' = <<>>
        /\ UNCHANGED <<unread, unsent, busy, broken>>

\* The characters cs join the stream; an idle transmitter gets the first.
Put(cs) ==
  /\ IF busy
     THEN txd' = <<>> /\ unsent' = unsent \o cs /\ UNCHANGED busy
     ELSE txd' = <<Head(cs)>> /\ unsent' = Tail(cs) /\ busy' = TRUE
  /\ given' = <<>>
  /\ UNCHANGED <<unread, readers, broken>>

WriteChar(ch)  == Put(IF ch = LF THEN <<CR, LF>> ELSE <<ch>>)

\* A whole buffer; what does not fit is refused.
WriteBuffer(s) ==
  LET room == BufSize - Len(unsent) + IF busy THEN 0 ELSE 1
      n    == IF Len(s) < room THEN Len(s) ELSE room
      cs   == SubSeq(s, 1, n)
  IN  Put(IF busy \/ Head(cs) # LF THEN cs ELSE <<CR>> \o cs)

Transmitted ==
  /\ busy
  /\ IF unsent # <<>>
     THEN txd' = <<Head(unsent)>> /\ unsent' = Tail(unsent) /\ UNCHANGED busy
     ELSE txd' = <<>> /\ busy' = FALSE /\ UNCHANGED unsent
  /\ given' = <<>>
  /\ UNCHANGED <<unread, readers, broken>>

Init == /\ unread = <<>> /\ unsent = <<>> /\ given = <<>> /\ txd = <<>>
        /\ readers = 0 /\ busy = FALSE /\ broken = FALSE

Next ==
  \/ broken'
  \/ \E ch \in Chars : Receive(ch) \/ WriteChar(ch)
  \/ \E n \in Lengths : Read(n)
  \/ Wait \/ Transmitted
  \/ \E s \in Strings : WriteBuffer(s)
  \/ given' = <<>> /\ txd' = <<>> /\ UNCHANGED <<unread, readers, unsent, busy, broken>>

Spec == Init /\ [][Next]_specVars
=============================================================================
