------------------------------- MODULE Screen -------------------------------
(***************************************************************************)
(* The scrolling output of lib/c_io.c.  Processes call c_putchar with      *)
(* interrupts on and without a lock, so their steps interleave at every    *)
(* load and store of the cursor; the code is compiled without              *)
(* optimisation, where "curr_x += 1" is a load and a store.  A message     *)
(* printed by an interrupt handler is a printer whose steps happen to      *)
(* follow each other.                                                      *)
(*                                                                         *)
(* Writing one cell is one step, and so is c_scroll (copying the lines, or *)
(* erasing the region and moving the cursor to its top): no property tells *)
(* a half copied screen from a copied one.                                 *)
(* Characters are their codes, attributes and the hardware cursor are left *)
(* out.                                                                    *)
(***************************************************************************)
EXTENDS Integers, SequencesExt

CONSTANTS
  Procs,          \* the processes that print
  Columns, Rows,  \* SCREEN_X_SIZE and SCREEN_Y_SIZE
  TopRow,         \* the first line that scrolls; _init gives 7
  Texts,          \* what processes print
  Workloads       \* bound: how much each process prints and how much is
                  \* typed, [prints |-> [Procs -> Nat], codes |-> Nat]

ASSUME ScreenAssumption ==
  /\ Columns \in Nat \ {0} /\ Rows \in Nat \ {0} /\ TopRow \in Nat
  /\ \A w \in Workloads : w.prints \in [Procs -> Nat] /\ w.codes \in Nat

VARIABLES
  curr_x, curr_y,  \* the cursor
  cells,           \* video memory: cells[y][x]
  pc,              \* where each process is in c_putchar (or c_getchar)
  ch,              \* its argument
  tmp,             \* the value it has loaded
  left,            \* bound: what is left of the workload
  printers,        \* history: who has printed
  text             \* history: what was printed, while by one process only

screenVars == <<curr_x, curr_y, cells, pc, ch, tmp, left, printers, text>>

NL == 10
CR == 13
Blank == 32

max_x == Columns - 1
max_y == Rows - 1

\* bound, and what c_setscroll(0, TopRow, 99, 99) makes of its arguments.
bound(min, value, max) == LET low == IF value < min THEN min ELSE value
                          IN  IF low > max THEN max ELSE low
scroll_min_x == bound(0, 0, max_x)
scroll_min_y == bound(0, TopRow, max_y)
scroll_max_x == bound(scroll_min_x, 99, max_x)
scroll_max_y == bound(scroll_min_y, 99, max_y)

InRegion(x, y) == /\ x \in scroll_min_x .. scroll_max_x
                  /\ y \in scroll_min_y .. scroll_max_y

\* __c_putchar_at: nothing is written off the screen.
Written(x, y, c) ==
  IF x <= max_x /\ y <= max_y THEN [cells EXCEPT ![y][x] = c] ELSE cells

\* c_clearscroll.
Cleared ==
  [y \in 0 .. max_y |-> [x \in 0 .. max_x |->
     IF InRegion(x, y) THEN Blank ELSE cells[y][x]]]

\* Fault: the line above the region is moved with it.
ScrollsTooMuch(lines) ==
  [y \in 0 .. max_y |-> [x \in 0 .. max_x |->
     IF y + lines <= scroll_max_y THEN cells[y + lines][x] ELSE Blank]]

\* c_scroll of fewer lines than the region has.
Scrolled(lines) ==
  [y \in 0 .. max_y |-> [x \in 0 .. max_x |->
     IF ~InRegion(x, y) THEN cells[y][x]
     ELSE IF y + lines <= scroll_max_y THEN cells[y + lines][x] ELSE Blank]]

-----------------------------------------------------------------------------
(***************************************************************************)
(* c_putchar.                                                              *)
(***************************************************************************)

Goto(p, label) == pc' = [pc EXCEPT ![p] = label]

\* The call; its first step reads the cursor.
Calls(p, c) ==
  /\ ch' = [ch EXCEPT ![p] = c]
  /\ Goto(p, "check")
  /\ printers' = printers \cup {p}

Returns(p) ==
  /\ Goto(p, "idle")
  /\ text' = IF printers = {p} THEN Append(text, ch[p]) ELSE <<>>

\* A process prints a character of its own.
Putc(p) ==
  /\ pc[p] = "idle" /\ left.prints[p] > 0
  /\ \E c \in Texts : Calls(p, c)
  /\ left' = [left EXCEPT !.prints[p] = @ - 1]
  /\ UNCHANGED <<curr_x, curr_y, cells, tmp, text>>

\* The case of the switch.
Case(c) == IF c = NL THEN "erase" ELSE IF c = CR THEN "home" ELSE "put"

Check(p) ==
  /\ pc[p] = "check"
  /\ Goto(p, IF curr_y > scroll_max_y THEN "scroll" ELSE Case(ch[p]))
  /\ UNCHANGED <<curr_x, curr_y, cells, ch, tmp, left, printers, text>>

\* c_scroll( curr_y - scroll_max_y ): unsigned, the cursor read again.
Word == 2^16    \* stands for 2^32
Scroll(p) ==
  /\ pc[p] = "scroll"
  /\ LET lines == (curr_y - scroll_max_y) % Word
     IN  IF lines > scroll_max_y - scroll_min_y
         THEN cells' = Cleared /\ curr_x' = scroll_min_x /\ curr_y' = scroll_min_y
         ELSE cells' = Scrolled(lines) /\ UNCHANGED <<curr_x, curr_y>>
  /\ Goto(p, "settle")
  /\ UNCHANGED <<ch, tmp, left, printers, text>>

\* Fault: the cursor stays below the region.
SettlesNowhere(p) ==
  /\ pc[p] = "settle"
  /\ Goto(p, Case(ch[p]))
  /\ UNCHANGED <<curr_x, curr_y, cells, ch, tmp, left, printers, text>>

\* curr_y = scroll_max_y.
Settle(p) ==
  /\ pc[p] = "settle"
  /\ curr_y' = scroll_max_y
  /\ Goto(p, Case(ch[p]))
  /\ UNCHANGED <<curr_x, cells, ch, tmp, left, printers, text>>

\* The character, and later one step to the right.
Put(p) ==
  /\ pc[p] = "put"
  /\ cells' = Written(curr_x, curr_y, ch[p])
  /\ Goto(p, "load_x")
  /\ UNCHANGED <<curr_x, curr_y, ch, tmp, left, printers, text>>

\* The loop over the rest of the line.
Erase(p) ==
  /\ pc[p] = "erase"
  /\ IF curr_x <= scroll_max_x
     THEN cells' = Written(curr_x, curr_y, Blank) /\ Goto(p, "load_x")
     ELSE Goto(p, "home") /\ UNCHANGED cells
  /\ UNCHANGED <<curr_x, curr_y, ch, tmp, left, printers, text>>

LoadX(p) ==
  /\ pc[p] = "load_x"
  /\ tmp' = [tmp EXCEPT ![p] = curr_x]
  /\ Goto(p, "store_x")
  /\ UNCHANGED <<curr_x, curr_y, cells, ch, left, printers, text>>

\* Fault: the value is stored as it was loaded.
StoresBack(p) ==
  /\ pc[p] = "store_x"
  /\ curr_x' = tmp[p]
  /\ Goto(p, IF ch[p] = NL THEN "erase" ELSE "wrap")
  /\ UNCHANGED <<curr_y, cells, ch, tmp, left, printers, text>>

StoreX(p) ==
  /\ pc[p] = "store_x"
  /\ curr_x' = tmp[p] + 1
  /\ Goto(p, IF ch[p] = NL THEN "erase" ELSE "wrap")
  /\ UNCHANGED <<curr_y, cells, ch, tmp, left, printers, text>>

\* Past the edge of the region the cursor moves to the next line.
Wrap(p) ==
  /\ pc[p] = "wrap"
  /\ IF curr_x > scroll_max_x THEN Goto(p, "home") /\ UNCHANGED text ELSE Returns(p)
  /\ UNCHANGED <<curr_x, curr_y, cells, ch, tmp, left, printers>>

Home(p) ==
  /\ pc[p] = "home"
  /\ curr_x' = scroll_min_x
  /\ IF ch[p] = CR THEN Returns(p) ELSE Goto(p, "load_y") /\ UNCHANGED text
  /\ UNCHANGED <<curr_y, cells, ch, tmp, left, printers>>

LoadY(p) ==
  /\ pc[p] = "load_y"
  /\ tmp' = [tmp EXCEPT ![p] = curr_y]
  /\ Goto(p, "store_y")
  /\ UNCHANGED <<curr_x, curr_y, cells, ch, left, printers, text>>

StoreY(p) ==
  /\ pc[p] = "store_y"
  /\ curr_y' = tmp[p] + 1
  /\ Returns(p)
  /\ UNCHANGED <<curr_x, cells, ch, tmp, left, printers>>

Putchar(p) == \/ Check(p) \/ Scroll(p) \/ Settle(p) \/ Put(p) \/ Erase(p)
              \/ LoadX(p) \/ StoreX(p) \/ Wrap(p) \/ Home(p) \/ LoadY(p) \/ StoreY(p)

\* c_io_init and c_setscroll.  Nothing clears the screen: it holds what was
\* there before, and above the region what c_puts_at has written.
Before == 0
ScreenInit ==
  /\ curr_x = scroll_min_x /\ curr_y = scroll_min_y
  /\ cells = [y \in 0 .. max_y |-> [x \in 0 .. max_x |-> Before]]
  /\ pc = [p \in Procs |-> "idle"] /\ ch = [p \in Procs |-> Before]
  /\ tmp = [p \in Procs |-> 0]
  /\ left \in Workloads
  /\ printers = {} /\ text = <<>>

-----------------------------------------------------------------------------
\* A step writes inside the region only.
OutsideKept ==
  \A y \in 0 .. max_y, x \in 0 .. max_x : ~InRegion(x, y) => cells'[y][x] = cells[y][x]

\* The text on an endless sheet, whose first lines are the region as it was.
\* A line is added when something is printed below the last one.
Typed(sheet, c) ==
  LET y       == sheet.y
      old     == IF y > Len(sheet.lines) THEN [x \in 0 .. max_x |-> Blank]
                                         ELSE sheet.lines[y]
      line    == [x \in 0 .. max_x |-> CASE c = NL /\ x >= sheet.x -> Blank
                                         [] c \notin {NL, CR} /\ x = sheet.x -> c
                                         [] OTHER -> old[x]]
      ends    == (c = NL) \/ (c # CR /\ sheet.x = max_x)
  IN  [x     |-> IF ends \/ c = CR THEN 0 ELSE sheet.x + 1,
       y     |-> IF ends THEN y + 1 ELSE y,
       lines |-> SubSeq(sheet.lines, 1, y - 1) \o <<line>>
                   \o SubSeq(sheet.lines, y + 1, Len(sheet.lines))]

RegionLines == 1 + scroll_max_y - scroll_min_y
Page(t) ==
  LET typed[k \in 0 .. Len(t)] ==
        IF k = 0
        THEN [x |-> 0, y |-> 1,
              lines |-> [i \in 1 .. RegionLines |-> [x \in 0 .. max_x |-> Before]]]
        ELSE Typed(typed[k - 1], t[k])
  IN  typed[Len(t)]
Sheet(t) == Page(t).lines

\* A process that prints alone sees the last lines of its text.
ShowsText ==
  Cardinality(printers) = 1 /\ (\A p \in Procs : pc[p] = "idle") =>
    \A i \in 1 .. RegionLines :
      cells[scroll_min_y + i - 1] = Sheet(text)[Len(Sheet(text)) - RegionLines + i]

\* "If we're off the bottom of the screen, scroll the window" (c_io.c:165):
\* no process scrolls the window while the cursor is above the bottom line.
ScrollsOnlyAtBottom ==
  \A p \in Procs : pc[p] = "scroll" => curr_y >= scroll_max_y
=============================================================================
