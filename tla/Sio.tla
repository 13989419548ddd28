-------------------------------- MODULE Sio ---------------------------------
(***************************************************************************)
(* The serial driver, kernel/sio.c: its two character buffers with their   *)
(* pointers, the "sending" flag and the interrupt enable register, driven  *)
(* by _sys_readc and _sys_writec from one side and by the UART's           *)
(* interrupts from the other.  Every operation and every event of the ISR  *)
(* runs with interrupts off.                                               *)
(*                                                                         *)
(* Pointers are indices into their buffer.  An access outside it has no    *)
(* defined outcome, and when more characters are counted than the buffer   *)
(* holds some have been overwritten: either sets "overrun", and the model  *)
(* stops there.                                                            *)
(***************************************************************************)
EXTENDS Integers, Sequences, FiniteSetsExt

CONSTANTS
  Chars,         \* what arrives on the line and what processes write
  BufSize,       \* BUF_SIZE, of either buffer
  MaxReaders,    \* bound: processes that can wait in _reading
  Strings,       \* what _sio_writes is called with; no caller in the kernel
  Lengths        \* the lengths of _sio_reads; 1 stands for _sio_readc

ASSUME SioAssumption ==
  /\ BufSize \in Nat \ {0}
  /\ MaxReaders \in Nat
  /\ Lengths \subseteq Nat \ {0}
  /\ Strings \subseteq Seq(Chars) \ {<<>>}

CR == "CR"
LF == "LF"
Empty == "none"     \* a cell never written, a transmitter with no character

VARIABLES
  inbuffer, inlast, innext, incount,      \* _inbuffer and its pointers
  outbuffer, outlast, outnext, outcount,  \* _outbuffer and its pointers
  sending,      \* _sending
  ier,          \* _ier: the interrupts that are enabled
  readers,      \* the length of the queue _reading
  thr,          \* the character in the UART's transmit register (external)
  given,        \* the characters the last step gave to a reader
  txd,          \* the characters the last step wrote to UA4_TXD
  overrun       \* a buffer no longer holds what it should

inVars  == <<inbuffer, inlast, innext, incount, readers>>
outVars == <<outbuffer, outlast, outnext, outcount, sending, ier, thr>>
sioVars == <<inVars, outVars, given, txd, overrun>>

Cells == 0 .. BufSize - 1

\* Fault: the interrupt is not enabled.
EnablesNothing(which) == UNCHANGED ier

\* _sio_enable and _sio_disable, and __outb to the transmit register.
sio_enable(which)  == ier' = ier \cup which
sio_disable(which) == ier' = ier \ which

-----------------------------------------------------------------------------
(***************************************************************************)
(* Input.                                                                  *)
(***************************************************************************)

\* RX event with a reader waiting: CR is mapped to LF and handed over.
Mapped(ch) == IF ch = CR THEN LF ELSE ch
RxHandOver ==
  \E ch \in Chars :
    /\ ~overrun /\ "RX" \in ier /\ readers > 0
    /\ readers' = readers - 1
    /\ given' = <<Mapped(ch)>> /\ txd' = <<>>
    /\ UNCHANGED <<inbuffer, inlast, innext, incount, outVars, overrun>>

\* RX event with nobody waiting: stored if there is room.
RxStore ==
  \E ch \in Chars :
    /\ ~overrun /\ "RX" \in ier /\ readers = 0
    /\ incount < BufSize
    /\ IF inlast \in Cells THEN inbuffer' = [inbuffer EXCEPT ![inlast] = Mapped(ch)]
                           ELSE UNCHANGED inbuffer
    /\ overrun' = (inlast \notin Cells)
    /\ inlast' = inlast + 1 /\ incount' = incount + 1
    /\ given' = <<>> /\ txd' = <<>>
    /\ UNCHANGED <<innext, readers, outVars>>

\* ... and ignored otherwise.
RxIgnore ==
  /\ ~overrun /\ "RX" \in ier /\ readers = 0
  /\ incount >= BufSize
  /\ given' = <<>> /\ txd' = <<>>
  /\ UNCHANGED <<inVars, outVars, overrun>>

\* _sio_readc and _sio_reads: at most n characters, and the pointers are
\* reset when the buffer has become empty.  The wrap test of _sio_reads
\* compares with ">", so it never fires for a pointer inside the buffer.
Reads ==
  \E n \in Lengths :
    /\ ~overrun /\ incount > 0
    /\ LET k == IF n < incount THEN n ELSE incount
           taken == innext .. innext + k - 1
       IN  /\ overrun' = ~(taken \subseteq Cells)
           /\ given' = [i \in 1 .. k |-> IF innext + i - 1 \in Cells
                                         THEN inbuffer[innext + i - 1] ELSE Empty]
           /\ incount' = incount - k
           /\ IF k = incount THEN innext' = 0 /\ inlast' = 0
                             ELSE innext' = innext + k /\ UNCHANGED inlast
    /\ txd' = <<>>
    /\ UNCHANGED <<inbuffer, readers, outVars>>

\* _sio_readc returns -1: _sys_readc puts the caller on _reading.
ReadcWaits ==
  /\ ~overrun /\ incount = 0 /\ readers < MaxReaders
  /\ readers' = readers + 1
  /\ given' = <<>> /\ txd' = <<>>
  /\ UNCHANGED <<inbuffer, inlast, innext, incount, outVars, overrun>>

-----------------------------------------------------------------------------
(***************************************************************************)
(* Output.                                                                 *)
(***************************************************************************)

\* cs are stored from outlast on, without wrapping, and not counted against
\* the size of the buffer.
StoreOut(cs) ==
  LET cells == outlast .. outlast + Len(cs) - 1
  IN  /\ overrun' = (~(cells \subseteq Cells) \/ outcount + Len(cs) > BufSize)
      /\ outbuffer' = [i \in Cells |-> IF i \in cells THEN cs[i - outlast + 1]
                                                      ELSE outbuffer[i]]
      /\ outlast' = outlast + Len(cs)
      /\ outcount' = outcount + Len(cs)

\* Fault: LF is not mapped.
NoCarriageReturn(ch) == <<ch>>

\* _sio_writec: LF becomes CR LF.  If nothing is being sent the first
\* character goes to the UART and the transmit interrupt is enabled.
CRLF(ch) == IF ch = LF THEN <<CR, LF>> ELSE <<ch>>
Writec ==
  \E ch \in Chars :
    /\ ~overrun
    /\ IF sending
       THEN StoreOut(CRLF(ch)) /\ txd' = <<>> /\ UNCHANGED <<thr, ier>>
       ELSE /\ StoreOut(Tail(CRLF(ch)))
            /\ txd' = <<Head(CRLF(ch))>> /\ thr' = Head(CRLF(ch))
            /\ sio_enable({"TX"})
    /\ sending' = TRUE
    /\ given' = <<>>
    /\ UNCHANGED <<inVars, outnext>>

\* _sio_writes: the characters, all but the first if nothing is being sent,
\* are stored with wrapping as long as fewer than BUF_SIZE are counted; then
\* _sio_writec sends the first.
Fitting(n) == Min({n, BufSize - outcount})
Writes ==
  \E s \in Strings :
    /\ ~overrun
    /\ LET rest   == IF sending THEN s ELSE Tail(s)
           n      == Fitting(Len(rest))
           end    == IF n > 0 THEN (outlast + n) % BufSize ELSE outlast
           behind == IF sending THEN <<>> ELSE Tail(CRLF(Head(s)))
           stored == [i \in Cells |->
                        LET j == (i - outlast) % BufSize
                        IN  IF j < n THEN rest[j + 1] ELSE outbuffer[i]]
       IN  /\ overrun' = \/ n > 0 /\ outlast \notin Cells
                         \/ behind # <<>> /\ end \notin Cells
                         \/ outcount + n + Len(behind) > BufSize
           /\ outlast' = end + Len(behind)
           /\ outcount' = outcount + n + Len(behind)
           /\ outbuffer' = IF behind = <<>> \/ end \notin Cells THEN stored
                           ELSE [stored EXCEPT ![end] = LF]
           /\ IF sending
              THEN txd' = <<>> /\ UNCHANGED <<thr, ier>>
              ELSE /\ txd' = <<Head(CRLF(Head(s)))>> /\ thr' = Head(CRLF(Head(s)))
                   /\ sio_enable({"TX"})
    /\ sending' = TRUE
    /\ given' = <<>>
    /\ UNCHANGED <<inVars, outnext>>

\* Fault: the sequence ends when the last character has been handed over.
TxEndsEarly ==
  /\ ~overrun /\ "TX" \in ier /\ thr = Empty
  /\ sending /\ outcount > 0
  /\ txd' = <<outbuffer[outnext]>> /\ thr' = outbuffer[outnext]
  /\ outnext' = (outnext + 1) % BufSize
  /\ outcount' = outcount - 1 /\ sending' = (outcount > 1)
  /\ given' = <<>>
  /\ UNCHANGED <<inVars, outbuffer, outlast, ier, overrun>>

\* The wrap of _outnext.
Wrapped(i) == IF i + 1 >= BufSize THEN 0 ELSE i + 1

\* TX event with something to send; outnext wraps.
TxNext ==
  /\ ~overrun /\ "TX" \in ier /\ thr = Empty
  /\ sending /\ outcount > 0
  /\ overrun' = (outnext \notin Cells)
  /\ LET ch == IF outnext \in Cells THEN outbuffer[outnext] ELSE Empty
     IN  txd' = <<ch>> /\ thr' = ch
  /\ outnext' = Wrapped(outnext)
  /\ outcount' = outcount - 1
  /\ given' = <<>>
  /\ UNCHANGED <<inVars, outbuffer, outlast, sending, ier>>

\* TX event with nothing left: the pointers are reset.
TxDone ==
  /\ ~overrun /\ "TX" \in ier /\ thr = Empty
  /\ ~(sending /\ outcount > 0)
  /\ outcount' = 0 /\ outlast' = 0 /\ outnext' = 0
  /\ sending' = FALSE
  /\ sio_disable({"TX"})
  /\ given' = <<>> /\ txd' = <<>>
  /\ UNCHANGED <<inVars, outbuffer, thr, overrun>>

\* The UART has put the character on the line (external).
LineSends ==
  /\ ~overrun /\ thr # Empty
  /\ thr' = Empty
  /\ given' = <<>> /\ txd' = <<>>
  /\ UNCHANGED <<inVars, outbuffer, outlast, outnext, outcount, sending, ier, overrun>>

Overrun == overrun /\ UNCHANGED sioVars

\* _sio_init, and _sio_enable(SIO_RX) at the end of _init.
Init ==
  /\ inbuffer = [i \in Cells |-> Empty] /\ outbuffer = [i \in Cells |-> Empty]
  /\ inlast = 0 /\ innext = 0 /\ incount = 0
  /\ outlast = 0 /\ outnext = 0 /\ outcount = 0
  /\ sending = FALSE /\ ier = {"RX"}
  /\ readers = 0 /\ thr = Empty
  /\ given = <<>> /\ txd = <<>> /\ overrun = FALSE

Next == \/ RxHandOver \/ RxStore \/ RxIgnore \/ Reads \/ ReadcWaits
        \/ Writec \/ Writes \/ TxNext \/ TxDone \/ LineSends \/ Overrun

\* The UART sends what it is given, and its transmit interrupt, once
\* pending, is held by the PIC until it is taken.
Spec     == Init /\ [][Next]_sioVars
FairSpec == Spec /\ WF_sioVars(LineSends) /\ WF_sioVars(TxNext \/ TxDone)
-----------------------------------------------------------------------------
\* The characters in the buffers, in order.
Unread == [i \in 1 .. incount |-> inbuffer[innext + i - 1]]
Unsent == [i \in 1 .. outcount |-> outbuffer[(outnext + i - 1) % BufSize]]

\* Until a buffer overruns the driver is the two streams of SioSpec: nothing
\* is lost, repeated or reordered on the way.
Streams == INSTANCE SioSpec WITH
             unread <- IF overrun THEN <<>> ELSE Unread,
             unsent <- IF overrun THEN <<>> ELSE Unsent,
             busy <- sending, broken <- overrun
KeepsStreams == Streams!Spec

\* Characters that wait to be sent are never stranded: there is a transmit
\* sequence, whose interrupt will fetch them.
NothingStranded == outcount > 0 => sending /\ "TX" \in ier

\* The transmitter is never handed a character while it holds another.
TransmitterFree == [][txd' # <<>> => thr = Empty]_sioVars

\* Every transmit sequence comes to its end, if processes stop writing.
SequenceEnds ==
  <>[][~(Writec \/ Writes)]_sioVars => <>[](~sending \/ overrun)
=============================================================================
