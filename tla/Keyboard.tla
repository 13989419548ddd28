------------------------------ MODULE Keyboard ------------------------------
(***************************************************************************)
(* The keyboard of lib/c_io.c: the interrupt handler that translates scan  *)
(* codes and puts characters into a circular buffer, and c_getchar, which  *)
(* the shell (cakesh, the one reader) calls with interrupts on and which   *)
(* echoes through c_putchar.  The handler runs with interrupts off, in one *)
(* step, between any two steps of c_getchar.                               *)
(*                                                                         *)
(* Pointers into the buffer are indices.  The polling branch of c_getchar, *)
(* for callers with interrupts off, has no caller and is left out.         *)
(***************************************************************************)
EXTENDS Screen

CONSTANTS
  Shell,       \* the process that reads
  C_BUFSIZE,   \* the size of the buffer
  Codes        \* the scan codes that arrive

ASSUME KeyboardAssumption ==
  /\ Shell \in Procs
  /\ C_BUFSIZE \in Nat \ {0}
  /\ Codes \subseteq 0 .. 255

VARIABLES
  input_buffer,            \* __c_input_buffer
  next_char, next_space,   \* __c_next_char, __c_next_space
  shift, ctrl_mask,        \* the modifiers
  given                    \* what the last step returned to the reader

keyVars == <<input_buffer, next_char, next_space, shift, ctrl_mask>>
vars    == <<screenVars, keyVars, given>>

EOT == 4
Undefined == 255

\* scan_code: the keys a, d, F1 and Enter stand for all, each with its
\* character without and with Shift.
scan_code ==
  [s \in 0 .. 1 |-> [code \in 0 .. 127 |->
     CASE code = 28 -> NL
       [] code = 30 -> IF s = 1 THEN 65 ELSE 97
       [] code = 32 -> IF s = 1 THEN 68 ELSE 100
       [] OTHER     -> Undefined]]

\* code & ctrl_mask: the mask is 0xff or 0x1f.
Masked(c) == c % (ctrl_mask + 1)

\* __c_increment.
Increment(i) == IF i + 1 >= C_BUFSIZE THEN 0 ELSE i + 1

\* Fault: characters are stored in any case.
AlwaysRoom == TRUE

\* "Store character only if there's room".
HasRoom == Increment(next_space) # next_char

Store(c) ==
  IF HasRoom
  THEN /\ input_buffer' = [input_buffer EXCEPT ![next_space] = Masked(c)]
       /\ next_space' = Increment(next_space)
  ELSE UNCHANGED <<input_buffer, next_space>>

\* __c_input_scan_code.  A character read from the table is an int between
\* 0 and 255, '\377' is a char and negative: "code != '\377'" always holds.
ScanCode(code) ==
  /\ shift' = IF code \in {42, 54} THEN 1 ELSE IF code \in {170, 182} THEN 0 ELSE shift
  /\ ctrl_mask' = IF code = 29 THEN 31 ELSE IF code = 157 THEN 255 ELSE ctrl_mask
  /\ IF code < 128 /\ code \notin {42, 54, 29}
     THEN Store(scan_code[shift][code])
     ELSE UNCHANGED <<input_buffer, next_space>>

\* __c_keyboard_isr.
KeyboardIsr ==
  /\ left.codes > 0
  /\ \E code \in Codes : ScanCode(code)
  /\ left' = [left EXCEPT !.codes = @ - 1] /\ given' = <<>>
  /\ UNCHANGED <<next_char, curr_x, curr_y, cells, pc, ch, tmp, printers, text>>

-----------------------------------------------------------------------------
Stay == UNCHANGED <<curr_x, curr_y, cells, tmp, left, text>>

\* c_getchar: the call,
Getchar ==
  /\ pc[Shell] = "idle"
  /\ Goto(Shell, "poll")
  /\ given' = <<>>
  /\ Stay /\ UNCHANGED <<ch, printers, keyVars>>

\* Fault: the test is the wrong way round.
NeverEmpty == next_char # next_space

\* the loop that waits while the buffer is empty,
IsEmpty == next_char = next_space
Poll ==
  /\ pc[Shell] = "poll"
  /\ Goto(Shell, IF IsEmpty THEN "poll" ELSE "fetch")
  /\ given' = <<>>
  /\ Stay /\ UNCHANGED <<ch, printers, keyVars>>

\* the read of the character,
Fetch ==
  /\ pc[Shell] = "fetch"
  /\ ch' = [ch EXCEPT ![Shell] = input_buffer[next_char]]
  /\ Goto(Shell, "take")
  /\ given' = <<>>
  /\ Stay /\ UNCHANGED <<printers, keyVars>>

\* and the pointer's move, which frees the cell.  All but EOT are echoed.
Take ==
  /\ pc[Shell] = "take"
  /\ next_char' = Increment(next_char)
  /\ given' = <<ch[Shell]>>
  /\ IF ch[Shell] = EOT THEN Goto(Shell, "idle") /\ UNCHANGED <<ch, printers>>
                        ELSE Calls(Shell, ch[Shell])
  /\ Stay /\ UNCHANGED <<input_buffer, next_space, shift, ctrl_mask>>

\* c_input_queue.
c_input_queue ==
  LET n == next_space - next_char IN IF n < 0 THEN n + C_BUFSIZE ELSE n

Prints(p) == (Putc(p) \/ Putchar(p)) /\ given' = <<>> /\ UNCHANGED keyVars

Init ==
  /\ ScreenInit
  /\ input_buffer = [i \in 0 .. C_BUFSIZE - 1 |-> 0]
  /\ next_char = 0 /\ next_space = 0
  /\ shift = 0 /\ ctrl_mask = 255
  /\ given = <<>>

Next == \/ KeyboardIsr
        \/ Getchar \/ Poll \/ Fetch \/ Take
        \/ \E p \in Procs : Prints(p)

\* The clock preempts a process and the scheduler runs it again.
Fairness == /\ WF_vars(Poll \/ Fetch \/ Take)
            /\ \A p \in Procs : WF_vars(Putchar(p) /\ given' = <<>> /\ UNCHANGED keyVars)

Spec     == Init /\ [][Next]_vars
FairSpec == Spec /\ Fairness
-----------------------------------------------------------------------------
\* No key is lost, repeated or reordered by an interrupt in the middle of
\* c_getchar, and c_input_queue is the number of unread ones.
Keys == INSTANCE KeySpec WITH
          Characters <- 0 .. 255, Room <- C_BUFSIZE - 1,
          unread <- [i \in 1 .. c_input_queue |->
                       input_buffer[(next_char + i - 1) % C_BUFSIZE]]
KeepsKeys == Keys!Spec

\* c_getchar returns once a character has been typed.
KeyDelivered == pc[Shell] = "poll" /\ c_input_queue > 0 ~> given # <<>>

\* A process that prints gets out of c_putchar, its loop over the rest of a
\* line included, once the others have stopped pushing the cursor back.
PutcharReturns == \A p \in Procs : pc[p] = "check" ~> pc[p] = "idle"
=============================================================================
