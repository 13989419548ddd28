------------------------------- MODULE Printf -------------------------------
(***************************************************************************)
(* Formatted output of lib/c_io.c, on top of the console: c_printf prints  *)
(* through c_putchar, character by character and among the keyboard's      *)
(* interrupts; c_printf_at writes at a place and leaves the cursor alone.  *)
(* Only what the format string makes of its arguments is modelled here.    *)
(*                                                                         *)
(* A format is a sequence of items: plain characters, and directives with  *)
(* the alignment, fill and width that were parsed.  Arguments are ints of  *)
(* 32 bits (which TLC's integers are), or strings.                         *)
(***************************************************************************)
EXTENDS Keyboard

CONSTANTS
  Printer,  \* the process that calls c_printf
  Jobs(_)   \* bound: the calls, [fmt, args, at, x, y], next to a workload

VARIABLES
  job,         \* the call
  item, ap,    \* the next item of the format, and of the arguments
  fx, fy,      \* where c_printf_at goes on
  queue,       \* what is left of the item's characters
  out          \* history: everything the items came to

fmtVars     == <<job, item, ap, fx, fy, queue, out>>
consoleVars == <<vars, fmtVars>>

\* Characters of a format or an argument: the null byte ends both.
Bytes == 1 .. 255

Char(c) == [conv |-> "char", ch |-> c]
Directive(conv, leftadjust, zero, width) ==
  [conv |-> conv, left |-> leftadjust, zero |-> zero, width |-> width]
Items == [conv : {"char"}, ch : Bytes]
           \cup [conv : STRING \ {"char"}, left : BOOLEAN, zero : BOOLEAN, width : Nat]

\* The conversions that take an argument; others print nothing and take none.
Conversions == {"c", "d", "s", "x", "o"}

\* The number of an item's argument: one more than those taken before it.
ArgumentOf(fmt, i) == 1 + Cardinality({j \in 1 .. i - 1 : fmt[j].conv \in Conversions})

MinInt == -2147483647 - 1
MaxInt == 2147483647

\* A call passes, for every directive, an argument of its type.
ASSUME PrinterAssumption ==
  /\ Printer \in Procs
  /\ \A w \in Workloads : \A j \in Jobs(w) :
       /\ j.fmt \in Seq(Items) /\ j.at \in BOOLEAN /\ j.x \in Nat /\ j.y \in Nat
       /\ \A i \in DOMAIN j.fmt :
            j.fmt[i].conv \in Conversions =>
              j.args[ArgumentOf(j.fmt, i)]
                \in (CASE j.fmt[i].conv = "c" -> Bytes
                       [] j.fmt[i].conv = "s" -> Seq(Bytes)
                       [] OTHER               -> MinInt .. MaxInt)

Digit(d) == IF d < 10 THEN 48 + d ELSE 55 + d
Minus == 45

\* Fault: the least integer's last digit is what C makes of it.
RawDigit(v) == Digit(0) + (IF v < 0 THEN -8 ELSE v % 10)

\* cvtdec0, of a natural number or of the least integer, which has no
\* opposite: its quotient is negative, and both halves are given instead.
Quotient(v)  == IF v < 0 THEN 214748364 ELSE v \div 10
LastDigit(v) == Digit(0) + (IF v < 0 THEN 8 ELSE v % 10)
cvtdec0[v \in Int] ==
  (IF Quotient(v) = 0 THEN <<>> ELSE cvtdec0[Quotient(v)]) \o <<LastDigit(v)>>

Negated(v) == IF v = MinInt THEN v ELSE -v
cvtdec(v)  == IF v < 0 THEN <<Minus>> \o cvtdec0[Negated(v)] ELSE cvtdec0[v]

\* The digits from the first that is not zero, or the last one.
Significant(digits) ==
  LET n     == Len(digits)
      first == CHOOSE i \in 1 .. n :
                 /\ digits[i] # 0 \/ i = n
                 /\ \A j \in 1 .. i - 1 : digits[j] = 0
  IN  [i \in 1 .. 1 + n - first |-> Digit(digits[first + i - 1])]

\* cvthex.
cvthex(v) == Significant([i \in 1 .. 8 |-> (v \div 16^(8 - i)) % 16])

\* cvtoct.  The first digit is two bits, by a signed shift: 6 or 7 for 2 or
\* 3.  The value is shifted by three all the same, so that bit 29 is lost;
\* each other digit is taken one bit too low, and the last has two bits left.
OctalDigit(v, i) == CASE i = 1       -> (v \div 2^30) % 8
                      [] i \in 2 .. 10 -> (v \div 2^(32 - 3 * i)) % 8
                      [] i = 11      -> 2 * (v % 4)
cvtoct(v) == Significant([i \in 1 .. 11 |-> OctalDigit(v, i)])

Converted(conv, arg) ==
  CASE conv = "c" -> <<arg>>
    [] conv = "d" -> cvtdec(arg)
    [] conv = "s" -> arg
    [] conv = "x" -> cvthex(arg)
    [] conv = "o" -> cvtoct(arg)

\* padstr.
Padded(d, s) ==
  LET extra == d.width - Len(s)
      fill  == [i \in 1 .. extra |-> IF d.zero THEN Digit(0) ELSE Blank]
  IN  IF d.left THEN s \o fill ELSE fill \o s

\* c_putchar_at: what is a newline but for its highest bit erases the rest of
\* the line, of the region or beside it.
Erases(c) == c % 128 = NL
PutcharAt(x, y, c) ==
  LET limit == CASE x > scroll_max_x -> max_x
                 [] x \in scroll_min_x .. scroll_max_x -> scroll_max_x
                 [] OTHER -> scroll_min_x - 1
  IN  IF ~Erases(c) THEN Written(x, y, c)
      ELSE [r \in 0 .. max_y |-> [k \in 0 .. max_x |->
              IF r = y /\ k \in x .. limit THEN Blank ELSE cells[r][k]]]

-----------------------------------------------------------------------------
Item == job.fmt[item]
Free == queue = <<>> /\ pc[Printer] = "idle"

Emits(s) == queue' = s /\ out' = out \o s /\ item' = item + 1
Aside    == UNCHANGED <<vars, job, fx, fy>>

\* __c_do_printf: a plain character,
Plain ==
  /\ Free /\ item <= Len(job.fmt) /\ Item.conv = "char"
  /\ Emits(<<Item.ch>>)
  /\ UNCHANGED ap /\ Aside

\* a directive,
Directs ==
  /\ Free /\ item <= Len(job.fmt) /\ Item.conv \in Conversions
  /\ Emits(Padded(Item, Converted(Item.conv, job.args[ap])))
  /\ ap' = ap + 1 /\ Aside

\* and a letter it does not know.
Skips ==
  /\ Free /\ item <= Len(job.fmt) /\ Item.conv \notin Conversions \cup {"char"}
  /\ Emits(<<>>)
  /\ UNCHANGED ap /\ Aside

\* The characters go to c_putchar,
PutsOn ==
  /\ queue # <<>> /\ pc[Printer] = "idle" /\ ~job.at
  /\ Calls(Printer, queue[1])
  /\ queue' = Tail(queue) /\ given' = <<>>
  /\ UNCHANGED <<curr_x, curr_y, cells, tmp, left, text, keyVars, job, item, ap, fx, fy, out>>

\* or to a place; a plain newline or return starts a line there.
LineEnds == job.fmt[item - 1].conv = "char" /\ queue[1] \in {NL, CR}

\* Fault: padstr drops what pad returns.
PadForgets == IF LineEnds THEN scroll_min_x ELSE IF queue[1] = Blank THEN fx ELSE fx + 1

NewX == IF LineEnds THEN scroll_min_x ELSE fx + 1

PutsAt ==
  /\ queue # <<>> /\ job.at
  /\ cells' = PutcharAt(fx, fy, queue[1])
  /\ fx' = NewX
  /\ fy' = IF LineEnds /\ queue[1] = NL THEN fy + 1 ELSE fy
  /\ queue' = Tail(queue) /\ given' = <<>>
  /\ UNCHANGED <<curr_x, curr_y, pc, ch, tmp, left, printers, text, keyVars, job, item, ap, out>>

ConsoleInit ==
  /\ Init
  /\ job \in Jobs(left)
  /\ item = 1 /\ ap = 1 /\ fx = job.x /\ fy = job.y
  /\ queue = <<>> /\ out = <<>>

ConsoleNext == \/ Next /\ UNCHANGED fmtVars
               \/ Plain \/ Directs \/ Skips \/ PutsOn \/ PutsAt

ConsoleSpec == ConsoleInit /\ [][ConsoleNext]_consoleVars /\ Fairness
-----------------------------------------------------------------------------
\* Digits, read from the left: a number of the base's, negated so that the
\* least integer is one too.
DigitOf(c) == IF c < 58 THEN c - 48 ELSE c - 55
Value(s, base) ==
  LET read[k \in 0 .. Len(s)] == IF k = 0 THEN 0 ELSE read[k - 1] * base - DigitOf(s[k])
  IN  read[Len(s)]

NoLeadingZero(s) == Len(s) = 1 \/ (Len(s) > 1 /\ s[1] # Digit(0))

\* What a reader of the text s takes it for.  Hexadecimal and octal texts
\* are those of the 32 bits; they are read in two parts, each small enough.
Bits(s, base, n, arg) ==
  LET m == IF Len(s) > n THEN Len(s) - n ELSE 0
  IN  /\ -Value(SubSeq(s, m + 1, Len(s)), base) = arg % base^n
      /\ -Value(SubSeq(s, 1, m), base) = (arg \div base^n) % (2^16 * (2^16 \div base^n))
Reads(conv, s, arg) ==
  CASE conv = "c" -> s = <<arg>>
    [] conv = "s" -> s = arg
    [] conv = "d" -> IF arg < 0 THEN s # <<>> /\ s[1] = Minus /\ NoLeadingZero(Tail(s))
                                       /\ Value(Tail(s), 10) = arg
                                ELSE NoLeadingZero(s) /\ -Value(s, 10) = arg
    [] conv = "x" -> NoLeadingZero(s) /\ Bits(s, 16, 4, arg)
    [] conv = "o" -> NoLeadingZero(s) /\ Bits(s, 8, 5, arg)

Fills(s, d) == \A i \in DOMAIN s : s[i] = (IF d.zero THEN Digit(0) ELSE Blank)

\* A field q of directive d, whose text reads as arg: as wide as asked for, or
\* as the text, with the fill on the side opposite to the alignment.
Shows(d, q, arg) ==
  \E n \in 0 .. Len(q) :
    LET k == Len(q) - n
    IN  /\ k > 0 => Len(q) = d.width
        /\ Len(q) >= d.width
        /\ Fills(IF d.left THEN SubSeq(q, n + 1, n + k) ELSE SubSeq(q, 1, k), d)
        /\ Reads(d.conv, IF d.left THEN SubSeq(q, 1, n) ELSE SubSeq(q, k + 1, k + n), arg)

Printing(S, i) == i = item /\ item' = i + 1 /\ job.fmt[i].conv \in S

\* Every directive but an octal one (cvtoct makes 16 of 7) prints its own
\* argument, whatever precedes it in the format, as a text of which the
\* reader gets that value back, at the boundaries of the 32 bits too, in a
\* field of the right width (__c_do_printf, padstr, cvtdec and cvthex).
PrintsArguments ==
  [][\A i \in DOMAIN job.fmt :
       Printing(Conversions \ {"o"}, i) =>
         Shows(job.fmt[i], queue', job.args[ArgumentOf(job.fmt, i)])]_fmtVars

\* c_io.h:82, "The remainder of the screen does not scroll and may be used
\* to display data you do not want to move": however the printers
\* interleave, and however far past the edge they push the cursor, what is
\* not printed at a place is written inside the region.
OutsideUntouched == [][~job.at => OutsideKept]_screenVars

\* A line printed at a place starts there and is cut off at the edge of the
\* screen: it leaves no gap, wraps nowhere, and never scrolls.  A line has no
\* newline, no return, and nothing c_putchar_at takes for a newline.
Done == item > Len(job.fmt) /\ queue = <<>>
AtShowsLine ==
  Done /\ job.at /\ (\A i \in DOMAIN out : ~Erases(out[i]) /\ out[i] # CR) =>
    \A y \in 0 .. max_y, x \in 0 .. max_x :
      cells[y][x] = IF y = job.y /\ x - job.x + 1 \in DOMAIN out
                    THEN out[x - job.x + 1] ELSE Before
=============================================================================
