---------------------------- MODULE ConsoleProofs ----------------------------
(***************************************************************************)
(* The console, for any number of processes, any screen and any buffer:    *)
(* what typing promises, what scrolling output leaves alone, and what is   *)
(* read in formatted output.                                               *)
(***************************************************************************)
EXTENDS Printf, SequenceTheorems, FiniteSetTheorems, NaturalsInduction, TLAPS

\* The constants, one by one.
LEMMA Constants ==
  /\ C_BUFSIZE \in Nat \ {0} /\ Columns \in Nat \ {0} /\ Rows \in Nat \ {0}
  /\ TopRow \in Nat
  /\ Shell \in Procs /\ Printer \in Procs
BY ScreenAssumption, KeyboardAssumption, PrinterAssumption

-----------------------------------------------------------------------------
(***************************************************************************)
(* The circular buffer.                                                    *)
(***************************************************************************)
Slots == 0..(C_BUFSIZE - 1)

Elsewhere == {"idle", "check", "scroll", "settle", "erase", "put", "load_x", "store_x",
              "wrap", "home", "load_y", "store_y"}
Labels == Elsewhere \cup {"poll", "fetch", "take"}

KeyTypes ==
  /\ pc \in [Procs -> Labels] /\ DOMAIN ch = Procs
  /\ next_char \in Slots /\ next_space \in Slots
  /\ input_buffer \in [Slots -> 0..255]
  /\ shift \in {0, 1} /\ ctrl_mask \in {31, 255}

\* Between its test and its move of the pointer, c_getchar has a character
\* that no interrupt takes from it.
Held ==
  /\ pc[Shell] \in {"fetch", "take"} => next_char # next_space
  /\ pc[Shell] = "take" => ch[Shell] = input_buffer[next_char]

\* The slot x places after another, in a circle.
LEMMA Around ==
  ASSUME NEW B \in Nat \ {0}, NEW x \in 0..(2 * B - 1)
  PROVE  x % B = (IF x < B THEN x ELSE x - B)
<1>1. CASE x < B
  BY <1>1
<1>2. CASE x >= B
  <2> DEFINE r == x - B
  <2>1. r \in 0..(B - 1) /\ x = 1 * B + r
    BY <1>2
  <2>2. r % B = r
    BY <2>1
  <2> HIDE DEF r
  <2>3. (1 * B + r) % B = r
    BY <2>1, <2>2, SMTT(30)
  <2>4. x % B = r
    BY <2>1, <2>3
  <2> QED BY <1>2, <2>4 DEF r
<1> QED BY <1>1, <1>2

\* __c_increment goes to the next slot, in a circle.
LEMMA IncrementIs ==
  ASSUME NEW s \in Slots
  PROVE  Increment(s) \in Slots /\ Increment(s) = (IF s = C_BUFSIZE - 1 THEN 0 ELSE s + 1)
BY Constants DEF Slots, Increment

\* What the scan code table and the mask give is a byte.
LEMMA StoredIs ==
  ASSUME KeyTypes, NEW code \in 0..127
  PROVE  Masked(scan_code[shift][code]) \in 0..255
<1> DEFINE c == scan_code[shift][code]
<1>1. c \in {10, 65, 97, 68, 100, 255}
  <2>1. c = (CASE code = 28 -> NL
               [] code = 30 -> IF shift = 1 THEN 65 ELSE 97
               [] code = 32 -> IF shift = 1 THEN 68 ELSE 100
               [] OTHER     -> Undefined)
    <3>1. shift \in 0..1
      BY DEF KeyTypes
    <3> QED BY <3>1 DEF scan_code
  <2> QED BY <2>1 DEF NL, Undefined
<1> HIDE DEF c
<1> DEFINE m == ctrl_mask + 1
<1>2. m \in 1..256
  BY DEF KeyTypes
<1> HIDE DEF m
<1>3. c % m \in 0..(m - 1)
  BY <1>1, <1>2
<1>4. c % m \in 0..255
  BY <1>2, <1>3
<1> QED BY <1>4 DEF Masked, c, m

\* A scan code stores at most one byte, where there is room.
LEMMA ScanCodeIs ==
  ASSUME KeyTypes, NEW code \in Codes, ScanCode(code)
  PROVE  /\ shift' \in {0, 1} /\ ctrl_mask' \in {31, 255}
         /\ \/ UNCHANGED <<input_buffer, next_space>>
            \/ \E c \in 0..255 :
                 /\ HasRoom
                 /\ input_buffer' = [input_buffer EXCEPT ![next_space] = c]
                 /\ next_space' = Increment(next_space)
            \/ ~HasRoom /\ UNCHANGED <<input_buffer, next_space>>
<1>1. code \in 0..255
  BY KeyboardAssumption
<1>2. shift' \in {0, 1} /\ ctrl_mask' \in {31, 255}
  BY DEF KeyTypes, ScanCode
<1>3. CASE code < 128
  <2>1. code \in 0..127
    BY <1>1, <1>3
  <2>2. Masked(scan_code[shift][code]) \in 0..255
    BY <2>1, StoredIs
  <2> QED BY <2>2, <1>2 DEF ScanCode, Store
<1>4. CASE ~(code < 128)
  BY <1>2, <1>4 DEF ScanCode
<1> QED BY <1>3, <1>4

\* A process that goes elsewhere leaves the others where they are.
LEMMA ElsewhereKept ==
  ASSUME KeyTypes, NEW p \in Procs, NEW l \in Elsewhere,
         pc' = [pc EXCEPT ![p] = l],
         ch' = ch \/ \E c : ch' = [ch EXCEPT ![p] = c]
  PROVE  /\ pc' \in [Procs -> Labels] /\ DOMAIN ch' = Procs
         /\ pc'[Shell] \in {"fetch", "take"} =>
              pc'[Shell] = pc[Shell] /\ ch'[Shell] = ch[Shell]
<1>1. pc' \in [Procs -> Labels]
  BY DEF KeyTypes, Labels
<1>2. DOMAIN ch' = Procs
  BY DEF KeyTypes
<1>3. CASE p = Shell
  <2>1. pc'[Shell] = l
    BY <1>3 DEF KeyTypes
  <2> QED BY <1>1, <1>2, <2>1 DEF Elsewhere
<1>4. CASE p # Shell
  <2>1. pc'[Shell] = pc[Shell]
    BY <1>4, Constants DEF KeyTypes
  <2>2. ch'[Shell] = ch[Shell]
    BY <1>4, Constants DEF KeyTypes
  <2> QED BY <1>1, <1>2, <2>1, <2>2
<1> QED BY <1>3, <1>4

\* Printing is not about keys: it leaves the buffer alone, and c_getchar
\* where it is.
LEMMA PrintingAside ==
  ASSUME KeyTypes, Held,
         \/ \E p \in Procs : Prints(p)
         \/ Plain \/ Directs \/ Skips \/ PutsOn \/ PutsAt
         \/ UNCHANGED consoleVars
  PROVE  /\ KeyTypes' /\ Held' /\ UNCHANGED keyVars
         /\ given' = <<>> \/ UNCHANGED given
<1> USE Constants
<1>1. SUFFICES /\ UNCHANGED keyVars /\ (given' = <<>> \/ UNCHANGED given)
               /\ pc' \in [Procs -> Labels] /\ DOMAIN ch' = Procs
               /\ pc'[Shell] \in {"fetch", "take"} =>
                    pc'[Shell] = pc[Shell] /\ ch'[Shell] = ch[Shell]
  BY DEF KeyTypes, Held, keyVars
<1>2. ASSUME NEW p \in Procs, Prints(p)
      PROVE  /\ UNCHANGED keyVars /\ (given' = <<>> \/ UNCHANGED given)
             /\ pc' \in [Procs -> Labels] /\ DOMAIN ch' = Procs
             /\ pc'[Shell] \in {"fetch", "take"} =>
                  pc'[Shell] = pc[Shell] /\ ch'[Shell] = ch[Shell]
  <2>1. UNCHANGED keyVars /\ given' = <<>>
    BY <1>2 DEF Prints
  <2>2. CASE Putc(p)
    <3>1. PICK c : ch' = [ch EXCEPT ![p] = c] /\ pc' = [pc EXCEPT ![p] = "check"]
      BY <2>2 DEF Putc, Calls, Goto
    <3> DEFINE l == "check"
    <3>2. l \in Elsewhere
      BY DEF Elsewhere
    <3>3. pc' = [pc EXCEPT ![p] = l] /\ \E x : ch' = [ch EXCEPT ![p] = x]
      BY <3>1
    <3> HIDE DEF l
    <3> QED BY <2>1, <3>2, <3>3, ElsewhereKept
  <2>3. CASE Putchar(p)
    <3>1. UNCHANGED ch
      BY <2>3 DEF Putchar, Check, Scroll, Settle, Put, Erase, LoadX, StoreX, Wrap, Home,
                  LoadY, StoreY
    <3>2. PICK l \in Elsewhere : pc' = [pc EXCEPT ![p] = l]
      BY <2>3 DEF Putchar, Check, Scroll, Settle, Put, Erase, LoadX, StoreX, Wrap, Home,
                  LoadY, StoreY, Goto, Returns, Case, Elsewhere
    <3>4. pc' = [pc EXCEPT ![p] = l] /\ ch' = ch
      BY <3>1, <3>2
    <3> QED BY <2>1, <3>4, ElsewhereKept
  <2> QED BY <1>2, <2>2, <2>3 DEF Prints
<1>3. CASE PutsOn
  <2>1. /\ ch' = [ch EXCEPT ![Printer] = queue[1]] /\ pc' = [pc EXCEPT ![Printer] = "check"]
        /\ UNCHANGED keyVars /\ given' = <<>>
    BY <1>3 DEF PutsOn, Calls, Goto
  <2> DEFINE l == "check"
  <2>2. l \in Elsewhere
    BY DEF Elsewhere
  <2>3. pc' = [pc EXCEPT ![Printer] = l] /\ \E x : ch' = [ch EXCEPT ![Printer] = x]
    BY <2>1
  <2> HIDE DEF l
  <2> QED BY <2>1, <2>2, <2>3, ElsewhereKept
<1>4. CASE Plain \/ Directs \/ Skips \/ UNCHANGED consoleVars
  <2>1. UNCHANGED <<keyVars, given, pc, ch>>
    BY <1>4 DEF Plain, Directs, Skips, Aside, vars, screenVars, consoleVars
  <2> QED BY <2>1 DEF KeyTypes
<1>5. CASE PutsAt
  <2>1. UNCHANGED <<keyVars, pc, ch>> /\ given' = <<>>
    BY <1>5 DEF PutsAt
  <2> QED BY <2>1 DEF KeyTypes
<1> QED BY <1>2, <1>3, <1>4, <1>5

-----------------------------------------------------------------------------
(***************************************************************************)
(* The buffer as a queue.                                                  *)
(***************************************************************************)
Unread == [k \in 1..c_input_queue |-> input_buffer[(next_char + k - 1) % C_BUFSIZE]]

\* The slot of the k-th unread character.
Slot(k) == IF next_char + k - 1 < C_BUFSIZE THEN next_char + k - 1
           ELSE next_char + k - 1 - C_BUFSIZE

\* The k-th slot from a, in the two ways of counting.
LEMMA CircleIs ==
  ASSUME NEW a \in Slots, NEW k \in 1..C_BUFSIZE
  PROVE  (a + k - 1) % C_BUFSIZE =
           (IF a + k - 1 < C_BUFSIZE THEN a + k - 1 ELSE a + k - 1 - C_BUFSIZE)
<1> DEFINE x == a + k - 1
<1>1. x \in 0..(2 * C_BUFSIZE - 1)
  BY Constants DEF Slots
<1> HIDE DEF x
<1>2. x % C_BUFSIZE = IF x < C_BUFSIZE THEN x ELSE x - C_BUFSIZE
  BY <1>1, Around, Constants
<1>3. x = a + k - 1 /\ x - C_BUFSIZE = a + k - 1 - C_BUFSIZE
  BY Constants DEF Slots, x
<1> QED BY <1>2, <1>3, Zenon

\* c_input_queue counts the slots between the pointers; one is never used.
LEMMA UnreadIs ==
  ASSUME KeyTypes
  PROVE  /\ c_input_queue \in 0..(C_BUFSIZE - 1)
         /\ next_char = next_space <=> c_input_queue = 0
         /\ Unread = [k \in 1..c_input_queue |-> input_buffer[Slot(k)]]
         /\ \A k \in 1..c_input_queue : Slot(k) \in Slots /\ Unread[k] = input_buffer[Slot(k)]
         /\ Unread \in Seq(0..255) /\ Len(Unread) = c_input_queue
<1> USE Constants
<1> DEFINE n == c_input_queue
<1>1. n \in 0..(C_BUFSIZE - 1) /\ (next_char = next_space <=> n = 0)
  BY DEF KeyTypes, Slots, c_input_queue
<1>2. \A k \in 1..n : (next_char + k - 1) % C_BUFSIZE = Slot(k) /\ Slot(k) \in Slots
  <2> TAKE k \in 1..n
  <2>1. (next_char + k - 1) % C_BUFSIZE = Slot(k)
    BY <1>1, CircleIs DEF KeyTypes, Slot
  <2>2. Slot(k) \in Slots
    BY <1>1 DEF KeyTypes, Slots, Slot
  <2> QED BY <2>1, <2>2
<1>3. Unread = [k \in 1..n |-> input_buffer[Slot(k)]]
  BY <1>2 DEF Unread
<1>4. \A k \in 1..n : Unread[k] = input_buffer[Slot(k)] /\ input_buffer[Slot(k)] \in 0..255
  BY <1>2, <1>3 DEF KeyTypes
<1>5. Unread \in [1..n -> 0..255] /\ DOMAIN Unread = 1..n
  BY <1>3, <1>4
<1> HIDE DEF n
<1>6. n \in Nat
  BY <1>1
<1>7. Unread \in Seq(0..255)
  BY <1>5, <1>6, SeqDef
<1>8. Len(Unread) = n
  BY <1>5, <1>6, <1>7, LenProperties
<1> QED BY <1>1, <1>2, <1>3, <1>4, <1>7, <1>8 DEF n

\* A stored character is behind the unread ones.
LEMMA StoreAppends ==
  ASSUME KeyTypes, KeyTypes', NEW c \in 0..255,
         HasRoom, UNCHANGED next_char,
         input_buffer' = [input_buffer EXCEPT ![next_space] = c],
         next_space' = Increment(next_space)
  PROVE  c_input_queue < C_BUFSIZE - 1 /\ Unread' = Append(Unread, c)
<1> USE Constants
<1> DEFINE n == c_input_queue
<1>1. /\ n \in 0..(C_BUFSIZE - 1) /\ Unread \in Seq(0..255) /\ Len(Unread) = n
      /\ \A k \in 1..n : Slot(k) \in Slots /\ Unread[k] = input_buffer[Slot(k)]
  BY UnreadIs
<1>3. \A k : Slot(k)' = Slot(k)
  BY DEF Slot
<1>4. next_space' = (IF next_space = C_BUFSIZE - 1 THEN 0 ELSE next_space + 1)
      /\ next_space' # next_char
  BY IncrementIs DEF KeyTypes, HasRoom
<1>5. c_input_queue' = n + 1 /\ n < C_BUFSIZE - 1
  BY <1>4 DEF KeyTypes, Slots, c_input_queue
<1>6. Slot(n + 1) = next_space
  BY <1>4 DEF KeyTypes, Slots, c_input_queue, Slot
<1>7. \A k \in 1..n : Slot(k) # next_space
  BY <1>4 DEF KeyTypes, Slots, c_input_queue, Slot
<1> HIDE DEF n
<1>8. \A k \in 1..n : input_buffer'[Slot(k)] = Unread[k]
  BY <1>1, <1>7 DEF KeyTypes
<1>9. input_buffer'[Slot(n + 1)] = c
  BY <1>6 DEF KeyTypes
<1>10. Append(Unread, c) = [k \in 1..(n + 1) |-> IF k = n + 1 THEN c ELSE Unread[k]]
  <2>1. Append(Unread, c) \in Seq(0..255) /\ Len(Append(Unread, c)) = n + 1
        /\ (\A k \in 1..n : Append(Unread, c)[k] = Unread[k])
        /\ Append(Unread, c)[n + 1] = c
    BY <1>1, AppendProperties
  <2> DEFINE a == Append(Unread, c)
  <2> HIDE DEF a
  <2>2. a \in Seq(0..255) /\ Len(a) = n + 1
    BY <2>1 DEF a
  <2>3. a = [k \in 1..(n + 1) |-> a[k]]
    BY <2>2, SeqDef, LenProperties
  <2>4. \A k \in 1..(n + 1) : a[k] = IF k = n + 1 THEN c ELSE Unread[k]
    BY <1>1, <2>1 DEF a
  <2>5. a = [k \in 1..(n + 1) |-> IF k = n + 1 THEN c ELSE Unread[k]]
    BY <2>3, <2>4
  <2> QED BY <2>5 DEF a
<1>11. \A k \in 1..(n + 1) : input_buffer'[Slot(k)'] = IF k = n + 1 THEN c ELSE Unread[k]
  BY <1>1, <1>3, <1>8, <1>9
<1>2. Unread' = [k \in 1..c_input_queue' |-> input_buffer'[Slot(k)']]
  <2>1. c_input_queue' \in 0..(C_BUFSIZE - 1)
    BY <1>1, <1>5 DEF n
  <2>2. \A k \in 1..c_input_queue' : (next_char' + k - 1) % C_BUFSIZE = Slot(k)'
    BY <2>1, CircleIs DEF KeyTypes, Slot
  <2> QED BY <2>2 DEF Unread
<1>12. Unread' = [k \in 1..(n + 1) |-> IF k = n + 1 THEN c ELSE Unread[k]]
  BY <1>2, <1>5, <1>11 DEF n
<1> QED BY <1>5, <1>10, <1>12 DEF n

\* c_getchar takes the first of the unread characters.
LEMMA TakeShortens ==
  ASSUME KeyTypes, KeyTypes', next_char # next_space,
         UNCHANGED <<input_buffer, next_space>>, next_char' = Increment(next_char)
  PROVE  /\ Unread # <<>> /\ Head(Unread) = input_buffer[next_char]
         /\ Unread' = Tail(Unread)
<1> USE Constants
<1> DEFINE n == c_input_queue
<1>1. /\ n \in 1..(C_BUFSIZE - 1) /\ Unread \in Seq(0..255) /\ Len(Unread) = n
      /\ \A k \in 1..n : Slot(k) \in Slots /\ Unread[k] = input_buffer[Slot(k)]
  BY UnreadIs
<1>3. next_char' = (IF next_char = C_BUFSIZE - 1 THEN 0 ELSE next_char + 1)
  BY IncrementIs DEF KeyTypes
<1>4. c_input_queue' = n - 1
  BY <1>3 DEF KeyTypes, Slots, c_input_queue
<1>5. \A k \in 1..(n - 1) : Slot(k)' = Slot(k + 1)
  BY <1>1, <1>3 DEF KeyTypes, Slots, Slot
<1>6. Slot(1) = next_char
  BY DEF KeyTypes, Slots, Slot
<1> HIDE DEF n
<1>7. Unread # <<>> /\ Head(Unread) = Unread[1]
  <2>1. Unread # <<>>
    BY <1>1, EmptySeq
  <2> QED BY <1>1, <2>1, HeadTailProperties
<1>8. Head(Unread) = input_buffer[next_char]
  BY <1>1, <1>6, <1>7
<1>9. Tail(Unread) = [k \in 1..(n - 1) |-> Unread[k + 1]]
  <2> DEFINE t == Tail(Unread)
  <2>1. t \in Seq(0..255) /\ Len(t) = n - 1 /\ \A k \in 1..(n - 1) : t[k] = Unread[k + 1]
    BY <1>1, <1>7, HeadTailProperties
  <2> HIDE DEF t
  <2>2. t = [k \in 1..(n - 1) |-> t[k]]
    BY <2>1, SeqDef, LenProperties
  <2>3. t = [k \in 1..(n - 1) |-> Unread[k + 1]]
    BY <2>1, <2>2
  <2> QED BY <2>3 DEF t
<1>10. \A k \in 1..(n - 1) : input_buffer'[Slot(k)'] = Unread[k + 1]
  BY <1>1, <1>5
<1>2. Unread' = [k \in 1..c_input_queue' |-> input_buffer'[Slot(k)']]
  <2>1. c_input_queue' \in 0..(C_BUFSIZE - 1)
    BY <1>1, <1>4 DEF n
  <2>2. \A k \in 1..c_input_queue' : (next_char' + k - 1) % C_BUFSIZE = Slot(k)'
    BY <2>1, CircleIs DEF KeyTypes, Slot
  <2> QED BY <2>2 DEF Unread
<1>11. Unread' = [k \in 1..(n - 1) |-> Unread[k + 1]]
  BY <1>2, <1>4, <1>10
<1> QED BY <1>7, <1>8, <1>9, <1>11

-----------------------------------------------------------------------------
(***************************************************************************)
(* Typing and reading, step by step.                                       *)
(***************************************************************************)

\* What leaves the buffer alone leaves the unread characters as they are.
LEMMA UnreadStays ==
  ASSUME UNCHANGED <<input_buffer, next_char, next_space>>
  PROVE  UNCHANGED Unread
BY DEF Unread, c_input_queue

\* Every step of the console keeps the buffer in order, and is one of the
\* keyboard's promise or no step of it.
LEMMA KeysStep ==
  ASSUME KeyTypes, Held, [ConsoleNext]_consoleVars
  PROVE  /\ KeyTypes' /\ Held'
         /\ \/ \E c \in 0..255 :
                 /\ Unread' = IF Len(Unread) < C_BUFSIZE - 1 THEN Append(Unread, c) ELSE Unread
                 /\ given' = <<>>
            \/ /\ Unread # <<>> /\ given' = <<Head(Unread)>> /\ Unread' = Tail(Unread)
            \/ (given' = <<>> \/ UNCHANGED given) /\ UNCHANGED Unread
<1> USE Constants
<1>1. CASE KeyboardIsr
  <2>1. PICK code \in Codes : ScanCode(code)
    BY <1>1 DEF KeyboardIsr
  <2>2. given' = <<>> /\ UNCHANGED <<next_char, pc, ch>>
    BY <1>1 DEF KeyboardIsr
  <2>3. shift' \in {0, 1} /\ ctrl_mask' \in {31, 255}
    BY <2>1, ScanCodeIs
  <2>4. CASE UNCHANGED <<input_buffer, next_space>>
    <3>1. KeyTypes' /\ Held'
      BY <2>2, <2>3, <2>4 DEF KeyTypes, Held
    <3>2. UNCHANGED Unread
      BY <2>2, <2>4, UnreadStays
    <3> QED BY <3>1, <3>2, <2>2
  <2>5. ASSUME NEW c \in 0..255, HasRoom,
               input_buffer' = [input_buffer EXCEPT ![next_space] = c],
               next_space' = Increment(next_space)
        PROVE  /\ KeyTypes' /\ Held'
               /\ Unread' = IF Len(Unread) < C_BUFSIZE - 1 THEN Append(Unread, c) ELSE Unread
    <3>1. KeyTypes'
      BY <2>2, <2>3, <2>5, IncrementIs DEF KeyTypes
    <3>2. Held'
      BY <2>2, <2>5 DEF Held, HasRoom, KeyTypes
    <3>3. c_input_queue < C_BUFSIZE - 1 /\ Unread' = Append(Unread, c)
      BY <2>2, <2>5, <3>1, StoreAppends
    <3>4. Len(Unread) = c_input_queue
      BY UnreadIs
    <3> QED BY <3>1, <3>2, <3>3, <3>4
  <2> QED BY <2>1, <2>2, <2>4, <2>5, ScanCodeIs, ZenonT(30)
<1>2. CASE Getchar \/ Poll \/ Fetch
  <2>1. UNCHANGED keyVars /\ given' = <<>>
    BY <1>2 DEF Getchar, Poll, Fetch
  <2>2. /\ pc' \in [Procs -> Labels] /\ DOMAIN ch' = Procs
        /\ pc'[Shell] \in {"fetch", "take"} => next_char # next_space
        /\ pc'[Shell] = "take" => ch'[Shell] = input_buffer[next_char]
    <3>1. CASE Getchar
      BY <3>1 DEF Getchar, Goto, KeyTypes, Labels
    <3>2. CASE Poll
      BY <3>2 DEF Poll, Goto, KeyTypes, Labels, IsEmpty
    <3>3. CASE Fetch
      BY <3>3 DEF Fetch, Goto, KeyTypes, Held, Labels
    <3> QED BY <1>2, <3>1, <3>2, <3>3
  <2>3. KeyTypes' /\ Held'
    BY <2>1, <2>2 DEF KeyTypes, Held, keyVars
  <2> QED BY <2>1, <2>3, UnreadStays DEF keyVars
<1>3. CASE Take
  <2>1. /\ pc[Shell] = "take" /\ next_char' = Increment(next_char) /\ given' = <<ch[Shell]>>
        /\ UNCHANGED <<input_buffer, next_space, shift, ctrl_mask>>
    BY <1>3 DEF Take
  <2>2. next_char # next_space /\ ch[Shell] = input_buffer[next_char]
    BY <2>1 DEF Held
  <2>3. PICK l \in {"idle", "check"} : pc' = [pc EXCEPT ![Shell] = l]
    BY <1>3 DEF Take, Calls, Goto
  <2>4. DOMAIN ch' = Procs
    BY <1>3 DEF Take, Calls, KeyTypes
  <2>5. KeyTypes' /\ Held'
    BY <2>1, <2>3, <2>4, IncrementIs DEF KeyTypes, Held, Labels, Elsewhere
  <2>6. Unread # <<>> /\ Head(Unread) = input_buffer[next_char] /\ Unread' = Tail(Unread)
    BY <2>1, <2>2, <2>5, TakeShortens
  <2> QED BY <2>1, <2>2, <2>5, <2>6
<1>4. CASE \/ \E p \in Procs : Prints(p)
           \/ Plain \/ Directs \/ Skips \/ PutsOn \/ PutsAt
           \/ UNCHANGED consoleVars
  <2>1. KeyTypes' /\ Held' /\ UNCHANGED keyVars /\ (given' = <<>> \/ UNCHANGED given)
    BY <1>4, PrintingAside
  <2> QED BY <2>1, UnreadStays DEF keyVars
<1> QED BY <1>1, <1>2, <1>3, <1>4 DEF ConsoleNext, Next

\* c_io_init leaves the buffer empty.
LEMMA KeysStart ==
  ASSUME ConsoleInit
  PROVE  KeyTypes /\ Held /\ Unread = <<>> /\ given = <<>>
<1> USE Constants
<1>1. /\ pc = [p \in Procs |-> "idle"] /\ ch = [p \in Procs |-> Before]
      /\ input_buffer = [k \in 0..(C_BUFSIZE - 1) |-> 0]
      /\ next_char = 0 /\ next_space = 0 /\ shift = 0 /\ ctrl_mask = 255 /\ given = <<>>
  BY DEF ConsoleInit, Init, ScreenInit
<1>2. KeyTypes /\ Held
  BY <1>1 DEF KeyTypes, Held, Slots, Labels, Elsewhere
<1>3. Unread \in Seq(0..255) /\ Len(Unread) = 0
  BY <1>1, <1>2, UnreadIs
<1>4. Unread = <<>>
  BY <1>3, EmptySeq
<1> QED BY <1>1, <1>2, <1>4

\* The pointers into the buffer and what c_getchar holds, in every state.
THEOREM KeysInvariant == ConsoleSpec => [](KeyTypes /\ Held)
<1>1. ConsoleInit => KeyTypes /\ Held
  BY KeysStart
<1>2. KeyTypes /\ Held /\ [ConsoleNext]_consoleVars => (KeyTypes /\ Held)'
  BY KeysStep
<1> QED BY <1>1, <1>2, PTL DEF ConsoleSpec

\* The circular buffer of lib/c_io.c keeps the keyboard's promise, for every
\* size of it: however the interrupt handler falls between the steps of
\* c_getchar, characters come in the order they were typed, each once, and
\* one is discarded only when C_BUFSIZE - 1 are unread.
THEOREM BufferKeepsKeys == ConsoleSpec => KeepsKeys
<1>1. ConsoleInit => Keys!Init
  BY KeysStart DEF Keys!Init, Unread
<1>2. KeyTypes /\ Held /\ [ConsoleNext]_consoleVars => [Keys!Next]_Keys!promised
  BY KeysStep DEF Keys!promised, Keys!Next, Keys!Type, Keys!Take, Keys!Else, Unread
<1> QED BY <1>1, <1>2, KeysInvariant, PTL DEF ConsoleSpec, KeepsKeys, Keys!Spec

-----------------------------------------------------------------------------
(***************************************************************************)
(* The part of the screen that does not scroll.                            *)
(***************************************************************************)

\* _init asks for a region up to column 99 and line 99, which is the edge of
\* a screen that is no larger.
ScreenFits == Columns <= 100 /\ Rows <= 100

\* The cursor, and the values processes hold of it, may be far past the edge
\* but are never above or left of the region.
CursorInside ==
  /\ curr_x \in Nat /\ curr_y \in Nat /\ curr_y >= scroll_min_y
  /\ tmp \in [Procs -> Nat]
  /\ \A p \in Procs : pc[p] = "store_y" => tmp[p] >= scroll_min_y

Shape(c) == DOMAIN c = 0..max_y /\ \A y \in 0..max_y : DOMAIN c[y] = 0..max_x

\* What is outside the region in c is as in cells.
SameOutside(c) ==
  \A y \in 0..max_y, x \in 0..max_x : ~InRegion(x, y) => c[y][x] = cells[y][x]

\* On a screen that fits, the region reaches the right and lower edges.
LEMMA RegionIs ==
  ASSUME ScreenFits
  PROVE  /\ scroll_min_x = 0 /\ scroll_max_x = max_x /\ scroll_max_y = max_y
         /\ scroll_min_y \in 0..max_y /\ max_x \in Nat /\ max_y \in Nat
BY Constants DEF ScreenFits, scroll_min_x, scroll_max_x, scroll_min_y, scroll_max_y, bound,
                 max_x, max_y

\* A character is written to the region or not at all.
LEMMA WrittenInside ==
  ASSUME ScreenFits, Shape(cells), NEW x \in Nat, NEW y \in Nat, y >= scroll_min_y, NEW c
  PROVE  Shape(Written(x, y, c)) /\ SameOutside(Written(x, y, c))
<1>1. CASE x <= max_x /\ y <= max_y
  <2>1. InRegion(x, y) /\ y \in 0..max_y /\ x \in 0..max_x
    BY <1>1, RegionIs DEF InRegion
  <2> DEFINE row == [cells[y] EXCEPT ![x] = c]
             w   == [cells EXCEPT ![y] = row]
  <2>2. Written(x, y, c) = w
    BY <1>1 DEF Written
  <2>3. DOMAIN row = 0..max_x /\ \A k \in 0..max_x : k # x => row[k] = cells[y][k]
    BY <2>1 DEF Shape
  <2> HIDE DEF row
  <2>4. DOMAIN w = 0..max_y /\ w[y] = row /\ \A r \in 0..max_y : r # y => w[r] = cells[r]
    BY <2>1 DEF Shape
  <2> HIDE DEF w
  <2>5. Shape(w)
    BY <2>3, <2>4 DEF Shape
  <2>6. SameOutside(w)
    <3> SUFFICES ASSUME NEW r \in 0..max_y, NEW k \in 0..max_x, ~InRegion(k, r)
                 PROVE  w[r][k] = cells[r][k]
      BY DEF SameOutside
    <3>1. CASE r # y
      BY <3>1, <2>4
    <3>2. CASE r = y
      <4>1. k # x
        BY <3>2, <2>1
      <4> QED BY <4>1, <3>2, <2>3, <2>4
    <3> QED BY <3>1, <3>2
  <2> QED BY <2>2, <2>5, <2>6
<1>2. CASE ~(x <= max_x /\ y <= max_y)
  <2>1. Written(x, y, c) = cells
    BY <1>2 DEF Written
  <2> QED BY <2>1 DEF SameOutside
<1> QED BY <1>1, <1>2

\* Scrolling and erasing the region.
LEMMA ScrolledInside ==
  ASSUME NEW lines
  PROVE  /\ Shape(Cleared) /\ SameOutside(Cleared)
         /\ Shape(Scrolled(lines)) /\ SameOutside(Scrolled(lines))
BY DEF Shape, SameOutside, Cleared, Scrolled

\* A step of c_putchar.
LEMMA PutcharInside ==
  ASSUME ScreenFits, KeyTypes, CursorInside, Shape(cells), NEW p \in Procs, Putchar(p)
  PROVE  CursorInside' /\ Shape(cells') /\ SameOutside(cells')
<1> USE Constants
<1>0. /\ scroll_min_x = 0 /\ scroll_max_y = max_y
      /\ scroll_min_y \in 0..max_y /\ max_y \in Nat
  BY RegionIs
<1>1. SameOutside(cells)
  BY DEF SameOutside
<1>2. ASSUME NEW l, l # "store_y", pc' = [pc EXCEPT ![p] = l], UNCHANGED tmp
      PROVE  \A q \in Procs : pc'[q] = "store_y" => tmp'[q] >= scroll_min_y
  <2> TAKE q \in Procs
  <2> HAVE pc'[q] = "store_y"
  <2>1. q # p /\ pc[q] = "store_y"
    BY <1>2 DEF KeyTypes
  <2> QED BY <1>2, <2>1 DEF CursorInside
<1>3. CASE Check(p)
  <2>1. /\ UNCHANGED <<curr_x, curr_y, cells, tmp>>
        /\ \E l : l # "store_y" /\ pc' = [pc EXCEPT ![p] = l]
    BY <1>3 DEF Check, Goto, Case
  <2> QED BY <2>1, <1>1, <1>2 DEF CursorInside
<1>4. CASE Scroll(p)
  <2>1. /\ \/ cells' = Cleared /\ curr_x' = scroll_min_x /\ curr_y' = scroll_min_y
           \/ (\E lines : cells' = Scrolled(lines)) /\ UNCHANGED <<curr_x, curr_y>>
        /\ UNCHANGED tmp /\ pc' = [pc EXCEPT ![p] = "settle"]
    BY <1>4 DEF Scroll, Goto
  <2>2. Shape(cells') /\ SameOutside(cells')
    BY <2>1, ScrolledInside
  <2>3. \A q \in Procs : pc'[q] = "store_y" => tmp'[q] >= scroll_min_y
    BY <2>1, <1>2
  <2>4. curr_x' \in Nat /\ curr_y' \in Nat /\ curr_y' >= scroll_min_y
    BY <2>1, <1>0 DEF CursorInside
  <2> QED BY <2>1, <2>2, <2>3, <2>4 DEF CursorInside
<1>5. CASE Settle(p)
  <2>1. /\ curr_y' = scroll_max_y /\ UNCHANGED <<curr_x, cells, tmp>>
        /\ \E l : l # "store_y" /\ pc' = [pc EXCEPT ![p] = l]
    BY <1>5 DEF Settle, Goto, Case
  <2>2. \A q \in Procs : pc'[q] = "store_y" => tmp'[q] >= scroll_min_y
    BY <2>1, <1>2
  <2> QED BY <2>1, <2>2, <1>0, <1>1 DEF CursorInside
<1>6. CASE Put(p) \/ Erase(p)
  <2>1. /\ UNCHANGED <<curr_x, curr_y, tmp>>
        /\ \E l : l # "store_y" /\ pc' = [pc EXCEPT ![p] = l]
        /\ UNCHANGED cells \/ \E c : cells' = Written(curr_x, curr_y, c)
    BY <1>6 DEF Put, Erase, Goto
  <2>2. Shape(cells') /\ SameOutside(cells')
    BY <2>1, <1>1, WrittenInside DEF CursorInside
  <2>3. \A q \in Procs : pc'[q] = "store_y" => tmp'[q] >= scroll_min_y
    BY <2>1, <1>2
  <2> QED BY <2>1, <2>2, <2>3 DEF CursorInside
<1>7. CASE LoadX(p)
  <2>1. /\ UNCHANGED <<curr_x, curr_y, cells>> /\ tmp' = [tmp EXCEPT ![p] = curr_x]
        /\ pc' = [pc EXCEPT ![p] = "store_x"]
    BY <1>7 DEF LoadX, Goto
  <2>2. tmp' \in [Procs -> Nat]
    BY <2>1 DEF CursorInside
  <2>3. \A q \in Procs : pc'[q] = "store_y" => tmp'[q] >= scroll_min_y
    BY <2>1 DEF CursorInside, KeyTypes
  <2> QED BY <2>1, <2>2, <2>3, <1>1 DEF CursorInside
<1>8. CASE StoreX(p)
  <2>1. /\ curr_x' = tmp[p] + 1 /\ UNCHANGED <<curr_y, cells, tmp>>
        /\ \E l : l # "store_y" /\ pc' = [pc EXCEPT ![p] = l]
    BY <1>8 DEF StoreX, Goto
  <2>2. \A q \in Procs : pc'[q] = "store_y" => tmp'[q] >= scroll_min_y
    BY <2>1, <1>2
  <2> QED BY <2>1, <2>2, <1>1 DEF CursorInside
<1>9. CASE Wrap(p)
  <2>1. /\ UNCHANGED <<curr_x, curr_y, cells, tmp>>
        /\ \E l : l # "store_y" /\ pc' = [pc EXCEPT ![p] = l]
    BY <1>9 DEF Wrap, Goto, Returns
  <2> QED BY <2>1, <1>1, <1>2 DEF CursorInside
<1>10. CASE Home(p)
  <2>1. /\ curr_x' = scroll_min_x /\ UNCHANGED <<curr_y, cells, tmp>>
        /\ \E l : l # "store_y" /\ pc' = [pc EXCEPT ![p] = l]
    BY <1>10 DEF Home, Goto, Returns
  <2>2. \A q \in Procs : pc'[q] = "store_y" => tmp'[q] >= scroll_min_y
    BY <2>1, <1>2
  <2> QED BY <2>1, <2>2, <1>0, <1>1 DEF CursorInside
<1>11. CASE LoadY(p)
  <2>1. /\ UNCHANGED <<curr_x, curr_y, cells>> /\ tmp' = [tmp EXCEPT ![p] = curr_y]
        /\ pc' = [pc EXCEPT ![p] = "store_y"]
    BY <1>11 DEF LoadY, Goto
  <2>2. tmp' \in [Procs -> Nat]
    BY <2>1 DEF CursorInside
  <2>3. \A q \in Procs : pc'[q] = "store_y" => tmp'[q] >= scroll_min_y
    BY <2>1 DEF CursorInside, KeyTypes
  <2> QED BY <2>1, <2>2, <2>3, <1>1 DEF CursorInside
<1>12. CASE StoreY(p)
  <2>1. /\ pc[p] = "store_y" /\ curr_y' = tmp[p] + 1 /\ UNCHANGED <<curr_x, cells, tmp>>
        /\ pc' = [pc EXCEPT ![p] = "idle"]
    BY <1>12 DEF StoreY, Goto, Returns
  <2>2. \A q \in Procs : pc'[q] = "store_y" => tmp'[q] >= scroll_min_y
    BY <2>1, <1>2
  <2>3. curr_y' \in Nat /\ curr_y' >= scroll_min_y
    BY <2>1, <1>0 DEF CursorInside
  <2> QED BY <2>1, <2>2, <2>3, <1>1 DEF CursorInside
<1> QED BY <1>3, <1>4, <1>5, <1>6, <1>7, <1>8, <1>9, <1>10, <1>11, <1>12 DEF Putchar

\* A step of the console.
LEMMA ConsoleInside ==
  ASSUME ScreenFits, KeyTypes, CursorInside, Shape(cells), [ConsoleNext]_consoleVars
  PROVE  /\ CursorInside' /\ Shape(cells')
         /\ ~job.at => SameOutside(cells')
<1> USE Constants
<1>0. SameOutside(cells)
  BY DEF SameOutside
<1>1. ASSUME NEW p \in Procs, NEW l \in Labels, l # "store_y", pc' = [pc EXCEPT ![p] = l],
             UNCHANGED <<curr_x, curr_y, cells, tmp>>
      PROVE  CursorInside' /\ Shape(cells') /\ SameOutside(cells')
  <2>1. \A q \in Procs : pc'[q] = "store_y" => tmp'[q] >= scroll_min_y
    BY <1>1 DEF CursorInside, KeyTypes
  <2> QED BY <2>1, <1>0, <1>1 DEF CursorInside
<1>2. ASSUME NEW p \in Procs, Prints(p)
      PROVE  CursorInside' /\ Shape(cells') /\ SameOutside(cells')
  <2>1. CASE Putc(p)
    <3>1. pc' = [pc EXCEPT ![p] = "check"] /\ UNCHANGED <<curr_x, curr_y, cells, tmp>>
      BY <2>1 DEF Putc, Calls, Goto
    <3> QED BY <3>1, <1>1 DEF Labels, Elsewhere
  <2>2. CASE Putchar(p)
    BY <2>2, PutcharInside
  <2> QED BY <1>2, <2>1, <2>2 DEF Prints
<1>3. CASE KeyboardIsr
  <2>1. UNCHANGED <<curr_x, curr_y, cells, pc, tmp>>
    BY <1>3 DEF KeyboardIsr
  <2> QED BY <2>1, <1>0 DEF CursorInside
<1>4. CASE Getchar \/ Poll \/ Fetch \/ Take
  <2>1. PICK l \in {"poll", "fetch", "take", "idle", "check"} : pc' = [pc EXCEPT ![Shell] = l]
    BY <1>4 DEF Getchar, Poll, Fetch, Take, Calls, Goto
  <2>2. UNCHANGED <<curr_x, curr_y, cells, tmp>>
    BY <1>4 DEF Getchar, Poll, Fetch, Take, Stay
  <2> QED BY <2>1, <2>2, <1>1 DEF Labels, Elsewhere
<1>5. CASE Plain \/ Directs \/ Skips \/ UNCHANGED consoleVars
  <2>1. UNCHANGED <<curr_x, curr_y, cells, pc, tmp>>
    BY <1>5 DEF Plain, Directs, Skips, Aside, vars, screenVars, consoleVars
  <2> QED BY <2>1, <1>0 DEF CursorInside
<1>6. CASE PutsOn
  <2>1. pc' = [pc EXCEPT ![Printer] = "check"] /\ UNCHANGED <<curr_x, curr_y, cells, tmp>>
    BY <1>6 DEF PutsOn, Calls, Goto
  <2> QED BY <2>1, <1>1 DEF Labels, Elsewhere
<1>7. CASE PutsAt
  <2>1. job.at /\ UNCHANGED <<curr_x, curr_y, pc, tmp>> /\ cells' = PutcharAt(fx, fy, queue[1])
    BY <1>7 DEF PutsAt
  <2>2. CursorInside'
    BY <2>1 DEF CursorInside
  <2>3. Shape(cells')
    <3> DEFINE c == queue[1]
    <3>1. CASE Erases(c)
      BY <2>1, <3>1 DEF PutcharAt, Shape
    <3>2. CASE ~Erases(c)
      <4>1. cells' = Written(fx, fy, c)
        BY <2>1, <3>2 DEF PutcharAt
      <4> QED BY <4>1 DEF Written, Shape
    <3> QED BY <3>1, <3>2
  <2> QED BY <2>1, <2>2, <2>3
<1> QED BY <1>2, <1>3, <1>4, <1>5, <1>6, <1>7 DEF ConsoleNext, Next

\* c_setscroll puts the cursor at the top left of the region.
LEMMA InsideStarts ==
  ASSUME ScreenFits, ConsoleInit
  PROVE  CursorInside /\ Shape(cells)
<1>1. /\ curr_x = scroll_min_x /\ curr_y = scroll_min_y
      /\ cells = [y \in 0..max_y |-> [x \in 0..max_x |-> Before]]
      /\ pc = [p \in Procs |-> "idle"] /\ tmp = [p \in Procs |-> 0]
  BY DEF ConsoleInit, Init, ScreenInit
<1>2. Shape(cells)
  BY <1>1 DEF Shape
<1>3. CursorInside
  BY <1>1, RegionIs DEF CursorInside
<1> QED BY <1>2, <1>3

\* The scrolling output leaves the rest of the screen alone, for any number
\* of processes that print at once, any screen of up to a hundred lines and
\* columns, and any region: no interleaving of their loads and stores of the
\* cursor brings it above or left of the region.
THEOREM RestUntouched ==
  ASSUME ScreenFits
  PROVE  ConsoleSpec => OutsideUntouched
<1>1. ConsoleInit => KeyTypes /\ Held /\ CursorInside /\ Shape(cells)
  BY KeysStart, InsideStarts
<1>2. KeyTypes /\ Held /\ CursorInside /\ Shape(cells) /\ [ConsoleNext]_consoleVars
        => (KeyTypes /\ Held /\ CursorInside /\ Shape(cells))'
  <2> SUFFICES ASSUME KeyTypes, Held, CursorInside, Shape(cells), [ConsoleNext]_consoleVars
               PROVE  (KeyTypes /\ Held /\ CursorInside /\ Shape(cells))'
    OBVIOUS
  <2>1. Shape(cells)'
    BY ConsoleInside DEF Shape
  <2> QED BY <2>1, ConsoleInside, KeysStep
<1>3. KeyTypes /\ Held /\ CursorInside /\ Shape(cells) /\ [ConsoleNext]_consoleVars
        => [~job.at => OutsideKept]_screenVars
  BY ConsoleInside DEF OutsideKept, SameOutside
<1> QED BY <1>1, <1>2, <1>3, PTL DEF ConsoleSpec, OutsideUntouched

-----------------------------------------------------------------------------
(***************************************************************************)
(* Formatted output.                                                       *)
(***************************************************************************)

\* A set of numbers that is not empty has a least one.
LEMMA LeastOf ==
  ASSUME NEW S \in SUBSET Nat, S # {}
  PROVE  \E m \in S : \A x \in S : m <= x
<1>1. \E x \in S : \A y \in S : ~(<<y, x>> \in OpToRel(<, Nat))
  BY NatLessThanWellFounded, WFMin
<1>2. PICK x \in S : \A y \in S : ~(<<y, x>> \in OpToRel(<, Nat))
  BY <1>1
<1>3. \A y \in S : x <= y
  <2>1. TAKE y \in S
  <2>2. ~(y < x)
    BY <1>2, <2>1 DEF OpToRel
  <2> QED BY <2>2
<1> QED BY <1>3

\* A number's quotient is smaller, unless both are 0, and what is left is a
\* digit.
LEMMA Tenth ==
  ASSUME NEW v \in Nat
  PROVE  /\ v \div 10 \in Nat /\ v % 10 \in 0 .. 9
         /\ v = (v \div 10) * 10 + (v % 10)
         /\ v # 0 => v \div 10 < v
         /\ v \div 10 # 0 => v \div 10 < v
<1>1. v \div 10 \in Nat /\ v % 10 \in 0 .. 9 /\ v = (v \div 10) * 10 + (v % 10)
  BY SMT
<1> QED BY <1>1

\* The text of a number, with the texts of smaller ones at hand.
Decimal(f, v) == (IF v \div 10 = 0 THEN <<>> ELSE f[v \div 10]) \o <<48 + (v % 10)>>
Decimals(f, n) == DOMAIN f = 0 .. n /\ \A v \in 0 .. n : f[v] = Decimal(f, v)

\* The texts of all numbers up to a bound exist ...
LEMMA DecimalsUpTo ==
  ASSUME NEW n \in Nat
  PROVE  \E f : Decimals(f, n)
<1> DEFINE S == {k \in Nat : ~ \E f : Decimals(f, k)}
<1> SUFFICES ASSUME S # {} PROVE FALSE
  OBVIOUS
<1>1. PICK k \in S : \A x \in S : k <= x
  <2> HIDE DEF S
  <2>1. S \in SUBSET Nat
    BY DEF S
  <2> QED BY <2>1, LeastOf
<1>2. k \in Nat /\ ~ \E f : Decimals(f, k)
  OBVIOUS
<1>3. CASE k = 0
  <2> DEFINE f == [v \in 0 .. 0 |-> <<>> \o <<48 + (v % 10)>>]
  <2>1. ASSUME NEW v \in 0 .. 0 PROVE f[v] = Decimal(f, v)
    <3>1. v = 0 /\ 0 \div 10 = 0
      BY SMT
    <3> QED BY <3>1 DEF Decimal
  <2>2. Decimals(f, 0)
    BY <2>1 DEF Decimals
  <2> QED BY <2>2, <1>2, <1>3
<1>4. CASE k # 0
  <2>1. k - 1 \in Nat /\ k - 1 \notin S
    BY <1>1, <1>2, <1>4
  <2>2. PICK f : Decimals(f, k - 1)
    BY <2>1
  <2> DEFINE g == [v \in 0 .. k |-> IF v = k THEN Decimal(f, k) ELSE f[v]]
  <2>3. ASSUME NEW v \in 0 .. k PROVE Decimal(g, v) = Decimal(f, v)
    <3>1. CASE v \div 10 = 0
      BY <3>1 DEF Decimal
    <3>2. CASE v \div 10 # 0
      <4>1. v \in Nat
        BY <1>2
      <4>2. v \div 10 \in 0 .. k - 1 /\ v \div 10 # k
        BY <1>2, <3>2, <4>1, Tenth
      <4>3. v \div 10 \in 0 .. k
        BY <1>2, <4>2
      <4>4. g[v \div 10] = f[v \div 10]
        BY <4>2, <4>3
      <4> QED BY <4>4 DEF Decimal
    <3> QED BY <3>1, <3>2
  <2>4. ASSUME NEW v \in 0 .. k PROVE g[v] = Decimal(g, v)
    <3>1. CASE v = k
      BY <3>1, <2>3
    <3>2. CASE v # k
      <4>1. v \in 0 .. k - 1
        BY <1>2, <3>2
      <4> QED BY <4>1, <3>2, <2>2, <2>3 DEF Decimals
    <3> QED BY <3>1, <3>2
  <2>5. Decimals(g, k)
    BY <2>4 DEF Decimals
  <2> QED BY <2>5, <1>2
<1> QED BY <1>3, <1>4

\* ... and do not depend on the bound.
LEMMA DecimalsAgree ==
  ASSUME NEW n \in Nat, NEW m \in Nat, NEW f, NEW g, Decimals(f, n), Decimals(g, m),
         NEW v \in Nat, v <= n, v <= m
  PROVE  f[v] = g[v]
<1> DEFINE S == {k \in 0 .. v : f[k] # g[k]}
<1> SUFFICES ASSUME S # {} PROVE FALSE
  OBVIOUS
<1>1. PICK k \in S : \A x \in S : k <= x
  <2>1. S \in SUBSET Nat
    OBVIOUS
  <2> HIDE DEF S
  <2> QED BY <2>1, LeastOf
<1>2. k \in Nat /\ k <= v /\ f[k] # g[k]
  OBVIOUS
<1>3. f[k] = Decimal(f, k) /\ g[k] = Decimal(g, k)
  BY <1>2 DEF Decimals
<1>4. k \div 10 # 0 => f[k \div 10] = g[k \div 10]
  <2> SUFFICES ASSUME k \div 10 # 0 PROVE f[k \div 10] = g[k \div 10]
    OBVIOUS
  <2> DEFINE t == k \div 10
  <2>1. t \in Nat /\ t < k
    BY <1>2, Tenth
  <2> HIDE DEF t
  <2>2. t \in 0 .. v /\ t \notin S
    BY <1>1, <1>2, <2>1
  <2>3. f[t] = g[t]
    BY <2>2
  <2> QED BY <2>3 DEF t
<1> QED BY <1>2, <1>3, <1>4 DEF Decimal

\* The quotient of a number, and what the code gives for a negative one.
LargeTenth == 214748364
\* What cvtdec0 goes on with, and the digit it prints.
LEMMA QuotientOf ==
  ASSUME NEW v \in Int
  PROVE  /\ v >= 0 => Quotient(v) = v \div 10 /\ LastDigit(v) = 48 + (v % 10)
         /\ v < 0 => Quotient(v) = LargeTenth /\ LastDigit(v) = 56
         /\ LargeTenth \in Nat \ {0}
<1>1. v >= 0 => Quotient(v) = v \div 10
  BY SMT DEF Quotient
<1>2. v >= 0 => LastDigit(v) = 48 + (v % 10)
  BY SMT DEF LastDigit, Digit
<1>3. v < 0 => Quotient(v) = LargeTenth /\ LastDigit(v) = 56
  BY SMT DEF Quotient, LargeTenth, LastDigit, Digit
<1>4. LargeTenth \in Nat \ {0}
  BY SMT DEF LargeTenth
<1> QED BY <1>1, <1>2, <1>3, <1>4

\* So cvtdec0 is what its recursion says, for naturals, and for the negative
\* number the code meets.
LEMMA DecimalIs ==
  ASSUME NEW v \in Int
  PROVE  cvtdec0[v] = (IF Quotient(v) = 0 THEN <<>> ELSE cvtdec0[Quotient(v)]) \o <<LastDigit(v)>>
<1> DEFINE D(n) == CHOOSE f : Decimals(f, n)
           step(f, k) == (IF Quotient(k) = 0 THEN <<>> ELSE f[Quotient(k)]) \o <<LastDigit(k)>>
           Is(f) == f = [k \in Int |-> (IF Quotient(k) = 0 THEN <<>> ELSE f[Quotient(k)])
                                         \o <<LastDigit(k)>>]
           F == [k \in Int |-> IF k < 0 THEN D(LargeTenth)[LargeTenth] \o <<LastDigit(k)>>
                                        ELSE D(k)[k]]
<1>1. \A n \in Nat : Decimals(D(n), n)
  BY DecimalsUpTo
<1> HIDE DEF D
<1>2. ASSUME NEW k \in Nat PROVE F[k] = step(F, k)
  <2>1. Quotient(k) = k \div 10 /\ LastDigit(k) = 48 + (k % 10)
    BY QuotientOf
  <2>2. F[k] = D(k)[k] /\ k \in 0 .. k
    OBVIOUS
  <2>3. D(k)[k] = Decimal(D(k), k)
    BY <1>1, <2>2 DEF Decimals
  <2>4. k \div 10 # 0 => D(k)[k \div 10] = F[k \div 10]
    <3> SUFFICES ASSUME k \div 10 # 0 PROVE D(k)[k \div 10] = F[k \div 10]
      OBVIOUS
    <3> DEFINE t == k \div 10
    <3>1. t \in Nat /\ t < k
      BY Tenth
    <3> HIDE DEF t
    <3>2. F[t] = D(t)[t]
      BY <3>1
    <3>3. D(k)[t] = D(t)[t]
      BY <1>1, <3>1, DecimalsAgree
    <3>4. D(k)[t] = F[t]
      BY <3>2, <3>3
    <3> QED BY <3>4 DEF t
  <2> HIDE DEF F
  <2> QED BY <2>1, <2>2, <2>3, <2>4 DEF Decimal
<1>3. LargeTenth \in Nat /\ LargeTenth # 0
  BY QuotientOf
<1>4. ASSUME NEW k \in Int, k < 0 PROVE F[k] = step(F, k)
  <2>1. Quotient(k) = LargeTenth
    BY <1>4, QuotientOf
  <2>2. F[LargeTenth] = D(LargeTenth)[LargeTenth]
    BY <1>3
  <2>3. F[k] = D(LargeTenth)[LargeTenth] \o <<LastDigit(k)>>
    BY <1>4
  <2> HIDE DEF F
  <2> QED BY <1>3, <2>1, <2>2, <2>3
<1>5. Is(F)
  <2>1. \A k \in Int : F[k] = step(F, k)
    <3> SUFFICES ASSUME NEW k \in Int PROVE F[k] = step(F, k)
      OBVIOUS
    <3>1. k < 0 \/ k \in Nat
      OBVIOUS
    <3> HIDE DEF F, step
    <3> QED BY <1>2, <1>4, <3>1
  <2>2. F = [k \in Int |-> F[k]]
    OBVIOUS
  <2> HIDE DEF F
  <2> QED BY <2>1, <2>2, Zenon
<1>6. cvtdec0 = CHOOSE f : Is(f)
  BY DEF cvtdec0
<1> HIDE DEF Is, F
<1>7. Is(cvtdec0)
  BY <1>5, <1>6, Zenon
<1> QED BY <1>7 DEF Is

Ten == 48 .. 57

\* A set of numbers that has 0, or every k whose tenth it has, has them all.
LEMMA ByTenths ==
  ASSUME NEW S \in SUBSET Nat,
         \A v \in Nat : (v \div 10 # 0 => v \div 10 \in S) => v \in S
  PROVE  S = Nat
<1> DEFINE R == Nat \ S
<1> SUFFICES ASSUME R # {} PROVE FALSE
  OBVIOUS
<1>1. PICK k \in R : \A x \in R : k <= x
  <2>1. R \in SUBSET Nat
    OBVIOUS
  <2> HIDE DEF R
  <2> QED BY <2>1, LeastOf
<1>2. k \in Nat /\ k \notin S
  OBVIOUS
<1> DEFINE t == k \div 10
<1>3. t \in Nat /\ (t # 0 => t < k)
  BY <1>2, Tenth
<1>4. t # 0 /\ t \notin S
  BY <1>2
<1> HIDE DEF t
<1>5. t < k /\ t \in R
  BY <1>3, <1>4
<1> QED BY <1>1, <1>2, <1>3, <1>5

\* The text of a number consists of digits, one at least.
LEMMA NaturalText ==
  ASSUME NEW v \in Nat
  PROVE  cvtdec0[v] \in Seq(Ten) /\ Len(cvtdec0[v]) >= 1
<1> DEFINE S == {k \in Nat : cvtdec0[k] \in Seq(Ten) /\ Len(cvtdec0[k]) >= 1}
<1>1. ASSUME NEW k \in Nat, k \div 10 # 0 => k \div 10 \in S
      PROVE  k \in S
  <2> DEFINE t == IF Quotient(k) = 0 THEN <<>> ELSE cvtdec0[Quotient(k)]
             d == <<LastDigit(k)>>
  <2>1. Quotient(k) = k \div 10 /\ LastDigit(k) = 48 + (k % 10) /\ k % 10 \in 0 .. 9
    BY QuotientOf, Tenth
  <2>2. t \in Seq(Ten)
    <3>1. CASE k \div 10 = 0
      BY <2>1, <3>1
    <3>2. CASE k \div 10 # 0
      BY <2>1, <3>2, <1>1
    <3> QED BY <3>1, <3>2
  <2>3. d \in Seq(Ten) /\ Len(d) = 1
    BY <2>1 DEF Ten
  <2>4. cvtdec0[k] = t \o d
    BY DecimalIs
  <2> HIDE DEF t, d
  <2>5. cvtdec0[k] \in Seq(Ten) /\ Len(cvtdec0[k]) = Len(t) + 1 /\ Len(t) \in Nat
    BY <2>2, <2>3, <2>4, ConcatProperties, SMTT(30)
  <2> QED BY <2>5
<1>2. S = Nat
  <2> HIDE DEF S
  <2>1. S \in SUBSET Nat
    BY DEF S
  <2> QED BY <1>1, <2>1, ByTenths
<1> QED BY <1>2

\* It starts with a zero only if it is one.
LEMMA NaturalStart ==
  ASSUME NEW v \in Nat
  PROVE  IF v = 0 THEN Len(cvtdec0[v]) = 1 ELSE cvtdec0[v][1] # 48
<1> DEFINE S == {k \in Nat : k # 0 => cvtdec0[k][1] # 48}
<1>1. ASSUME NEW k \in Nat, k \div 10 # 0 => k \div 10 \in S
      PROVE  k \in S
  <2> SUFFICES ASSUME k # 0 PROVE cvtdec0[k][1] # 48
    OBVIOUS
  <2> DEFINE q == k \div 10
  <2>1. Quotient(k) = q /\ LastDigit(k) = 48 + (k % 10) /\ k % 10 \in 0 .. 9 /\ q \in Nat
        /\ k = q * 10 + (k % 10)
    BY QuotientOf, Tenth
  <2>2. cvtdec0[k] = (IF q = 0 THEN <<>> ELSE cvtdec0[q]) \o <<48 + (k % 10)>>
    <3>1. cvtdec0[k] = (IF Quotient(k) = 0 THEN <<>> ELSE cvtdec0[Quotient(k)])
                         \o <<LastDigit(k)>>
      BY DecimalIs
    <3> HIDE DEF q
    <3> QED BY <2>1, <3>1
  <2>3. q # 0 => cvtdec0[q] \in Seq(Ten) /\ Len(cvtdec0[q]) >= 1 /\ cvtdec0[q][1] # 48
    BY <2>1, <1>1, NaturalText
  <2> HIDE DEF q
  <2>4. CASE q = 0
    <3>1. cvtdec0[k] = <<48 + (k % 10)>> /\ k % 10 # 0
      BY <2>1, <2>2, <2>4
    <3> QED BY <3>1, <2>1
  <2>5. CASE q # 0
    <3> DEFINE t == cvtdec0[q]
               d == <<48 + (k % 10)>>
    <3>1. t \in Seq(Ten) /\ d \in Seq(Ten) /\ Len(t) >= 1 /\ Len(d) = 1
      BY <2>1, <2>3, <2>5 DEF Ten
    <3>2. cvtdec0[k] = t \o d
      BY <2>2, <2>5
    <3> HIDE DEF t, d
    <3>3. Len(t) \in Nat /\ 1 \in 1 .. Len(t) + Len(d)
      BY <3>1, LenProperties
    <3>4. (t \o d)[1] = t[1]
      BY <3>1, <3>3, ConcatProperties
    <3> QED BY <3>2, <3>4, <2>3, <2>5 DEF t
  <2> QED BY <2>4, <2>5
<1>2. S = Nat
  <2> HIDE DEF S
  <2>1. S \in SUBSET Nat
    BY DEF S
  <2> QED BY <1>1, <2>1, ByTenths
<1>3. CASE v = 0
  <2>1. Quotient(0) = 0 /\ LastDigit(0) = 48
    <3>1. 0 \div 10 = 0 /\ 0 % 10 = 0
      BY SMT
    <3> QED BY <3>1, QuotientOf
  <2>2. cvtdec0[0] = <<>> \o <<48>>
    <3>1. cvtdec0[0] = (IF Quotient(0) = 0 THEN <<>> ELSE cvtdec0[Quotient(0)]) \o <<LastDigit(0)>>
      BY DecimalIs
    <3> QED BY <2>1, <3>1
  <2> QED BY <2>2, <1>3
<1> QED BY <1>2, <1>3

-----------------------------------------------------------------------------
(***************************************************************************)
(* Reading a text.                                                         *)
(***************************************************************************)
\* What Value reads exists: k digits of s give f[k].
ReadTo(f, s, b, n) ==
  DOMAIN f = 0 .. n /\ \A k \in 0 .. n : f[k] = IF k = 0 THEN 0 ELSE f[k - 1] * b - DigitOf(s[k])

\* There is such a reading of every text ...
LEMMA ReadExists ==
  ASSUME NEW s, NEW b, NEW n \in Nat
  PROVE  \E f : ReadTo(f, s, b, n)
<1> DEFINE S == {k \in Nat : ~ \E f : ReadTo(f, s, b, k)}
<1> SUFFICES ASSUME S # {} PROVE FALSE
  OBVIOUS
<1>1. PICK k \in S : \A x \in S : k <= x
  <2>1. S \in SUBSET Nat
    OBVIOUS
  <2> HIDE DEF S
  <2> QED BY <2>1, LeastOf
<1>2. k \in Nat /\ ~ \E f : ReadTo(f, s, b, k)
  OBVIOUS
<1>3. CASE k = 0
  <2>1. ReadTo([j \in 0 .. 0 |-> 0], s, b, 0)
    BY DEF ReadTo
  <2> QED BY <2>1, <1>2, <1>3
<1>4. CASE k # 0
  <2>1. k - 1 \in Nat /\ k - 1 \notin S
    BY <1>1, <1>2, <1>4
  <2>2. PICK f : ReadTo(f, s, b, k - 1)
    BY <2>1
  <2> DEFINE g == [j \in 0 .. k |-> IF j = k THEN f[k - 1] * b - DigitOf(s[k]) ELSE f[j]]
  <2>3. ASSUME NEW j \in 0 .. k
        PROVE  g[j] = IF j = 0 THEN 0 ELSE g[j - 1] * b - DigitOf(s[j])
    <3>1. CASE j = k
      <4>1. k - 1 \in 0 .. k /\ k - 1 # k /\ k \in 0 .. k
        BY <1>2, <1>4
      <4>2. g[k - 1] = f[k - 1] /\ g[k] = f[k - 1] * b - DigitOf(s[k])
        BY <4>1
      <4> HIDE DEF g
      <4> QED BY <3>1, <4>2, <1>4
    <3>2. CASE j # k
      <4>1. j \in 0 .. k - 1
        BY <1>2, <3>2
      <4>2. j # 0 => j - 1 \in 0 .. k /\ j - 1 # k
        BY <1>2, <4>1
      <4>3. f[j] = IF j = 0 THEN 0 ELSE f[j - 1] * b - DigitOf(s[j])
        BY <2>2, <4>1 DEF ReadTo
      <4> QED BY <3>2, <4>2, <4>3
    <3> QED BY <3>1, <3>2
  <2>4. ReadTo(g, s, b, k)
    BY <2>3 DEF ReadTo
  <2> QED BY <2>4, <1>2
<1> QED BY <1>3, <1>4

\* ... and the readings of texts that start alike agree so far.
LEMMA ReadAgrees ==
  ASSUME NEW s, NEW t, NEW b, NEW n \in Nat, NEW m \in Nat, NEW f, NEW g,
         ReadTo(f, s, b, n), ReadTo(g, t, b, m),
         n <= m, \A k \in 1 .. n : s[k] = t[k]
  PROVE  f[n] = g[n]
<1> DEFINE S == {k \in 0 .. n : f[k] # g[k]}
<1> SUFFICES ASSUME S # {} PROVE FALSE
  OBVIOUS
<1>1. PICK k \in S : \A x \in S : k <= x
  <2>1. S \in SUBSET Nat
    OBVIOUS
  <2> HIDE DEF S
  <2> QED BY <2>1, LeastOf
<1>2. k \in 0 .. n /\ f[k] # g[k]
  OBVIOUS
<1>3. /\ f[k] = IF k = 0 THEN 0 ELSE f[k - 1] * b - DigitOf(s[k])
      /\ g[k] = IF k = 0 THEN 0 ELSE g[k - 1] * b - DigitOf(t[k])
  BY <1>2 DEF ReadTo
<1>4. k # 0 => k - 1 \in 0 .. n /\ k - 1 \notin S
  BY <1>1, <1>2
<1>5. k # 0 => f[k - 1] = g[k - 1] /\ s[k] = t[k]
  BY <1>2, <1>4
<1> QED BY <1>2, <1>3, <1>5

\* The value of a text is read in one pass.
LEMMA ValueIs ==
  ASSUME NEW s \in Seq(Nat), NEW b
  PROVE  \E f : ReadTo(f, s, b, Len(s)) /\ Value(s, b) = f[Len(s)]
<1> DEFINE L == Len(s)
           Is(f) == f = [k \in 0 .. L |-> IF k = 0 THEN 0 ELSE f[k - 1] * b - DigitOf(s[k])]
           F == CHOOSE f : Is(f)
<1>1. L \in Nat
  BY LenProperties
<1>2. \A f : ReadTo(f, s, b, L) /\ f = [k \in 0 .. L |-> f[k]] => Is(f)
  <2> SUFFICES ASSUME NEW f, ReadTo(f, s, b, L), f = [k \in 0 .. L |-> f[k]] PROVE Is(f)
    OBVIOUS
  <2>1. \A k \in 0 .. L : f[k] = IF k = 0 THEN 0 ELSE f[k - 1] * b - DigitOf(s[k])
    BY DEF ReadTo
  <2> HIDE DEF L
  <2> QED BY <2>1, Zenon
<1>3. PICK f : ReadTo(f, s, b, L)
  BY <1>1, ReadExists
<1> DEFINE g == [k \in 0 .. L |-> f[k]]
<1>4. ReadTo(g, s, b, L) /\ g = [k \in 0 .. L |-> g[k]]
  <2>1. \A k \in 0 .. L : g[k] = f[k] /\ (k # 0 => g[k - 1] = f[k - 1])
    BY <1>1
  <2>2. DOMAIN g = 0 .. L
    OBVIOUS
  <2>3. \A k \in 0 .. L : f[k] = IF k = 0 THEN 0 ELSE f[k - 1] * b - DigitOf(s[k])
    BY <1>3 DEF ReadTo
  <2>4. g = [k \in 0 .. L |-> g[k]]
    OBVIOUS
  <2> HIDE DEF g
  <2>5. \A k \in 0 .. L : g[k] = IF k = 0 THEN 0 ELSE g[k - 1] * b - DigitOf(s[k])
    BY <2>1, <2>3
  <2> QED BY <2>2, <2>4, <2>5 DEF ReadTo
<1>5. Is(F)
  <2>1. Is(g)
    <3> HIDE DEF g, Is
    <3> QED BY <1>2, <1>4
  <2> HIDE DEF Is
  <2> QED BY <2>1, Zenon
<1>6. Value(s, b) = F[L]
  BY DEF Value
<1>7. ReadTo(F, s, b, L)
  <2> HIDE DEF F
  <2> QED BY <1>1, <1>5 DEF ReadTo
<1> QED BY <1>6, <1>7

\* A text without digits has the value 0.
LEMMA ValueOfNone ==
  ASSUME NEW b
  PROVE  Value(<<>>, b) = 0
<1>1. <<>> \in Seq(Nat) /\ Len(<<>>) = 0
  OBVIOUS
<1>2. PICK f : ReadTo(f, <<>>, b, 0) /\ Value(<<>>, b) = f[0]
  BY <1>1, ValueIs
<1> QED BY <1>2 DEF ReadTo

\* One digit more is a step more.
LEMMA ValueOfMore ==
  ASSUME NEW s \in Seq(Nat), NEW b, NEW c \in Nat
  PROVE  Value(s \o <<c>>, b) = Value(s, b) * b - DigitOf(c)
<1> DEFINE t == s \o <<c>>
           n == Len(s)
<1>1. t \in Seq(Nat) /\ Len(t) = n + 1 /\ n \in Nat /\ t[n + 1] = c /\ \A k \in 1 .. n : s[k] = t[k]
  OBVIOUS
<1> HIDE DEF t
<1>2. PICK f : ReadTo(f, s, b, n) /\ Value(s, b) = f[n]
  BY ValueIs
<1> DEFINE m == n + 1
<1>3. PICK g : ReadTo(g, t, b, m) /\ Value(t, b) = g[m]
  BY <1>1, ValueIs
<1>4. n \in Nat /\ m \in Nat /\ n <= m /\ m # 0 /\ m - 1 = n /\ m \in 0 .. m
  BY <1>1
<1>5. t[m] = c
  BY <1>1
<1> HIDE DEF n, m
<1>6. f[n] = g[n]
  <2>1. ReadTo(f, s, b, n) /\ ReadTo(g, t, b, m) /\ n \in Nat /\ m \in Nat /\ n <= m
    BY <1>2, <1>3, <1>4
  <2>2. \A k \in 1 .. n : s[k] = t[k]
    BY <1>1
  <2> QED BY <2>1, <2>2, ReadAgrees
<1>7. g[m] = g[n] * b - DigitOf(c)
  BY <1>3, <1>4, <1>5 DEF ReadTo
<1> QED BY <1>2, <1>3, <1>6, <1>7 DEF t

\* Digits are characters.
LEMMA DigitsAreText ==
  ASSUME NEW t \in Seq(Ten)
  PROVE  t \in Seq(Nat)
<1>1. Ten \subseteq Nat
  BY DEF Ten
<1> QED BY <1>1, SeqMonotonic

\* The text of a natural number has its value, negated.
LEMMA NaturalValue ==
  ASSUME NEW v \in Nat
  PROVE  Value(cvtdec0[v], 10) = -v
<1> DEFINE S == {k \in Nat : Value(cvtdec0[k], 10) = -k}
<1>1. ASSUME NEW k \in Nat, k \div 10 # 0 => k \div 10 \in S
      PROVE  k \in S
  <2> DEFINE q == k \div 10
             r == k % 10
             t == IF q = 0 THEN <<>> ELSE cvtdec0[q]
  <2>1. Quotient(k) = q /\ LastDigit(k) = 48 + r /\ r \in 0 .. 9 /\ q \in Nat
        /\ k = q * 10 + r
    BY QuotientOf, Tenth
  <2>2. q # 0 => Value(cvtdec0[q], 10) = -q
    BY <1>1
  <2> HIDE DEF q, r
  <2>3. cvtdec0[k] = t \o <<48 + r>>
    <3>1. cvtdec0[k] = (IF Quotient(k) = 0 THEN <<>> ELSE cvtdec0[Quotient(k)])
                         \o <<LastDigit(k)>>
      BY DecimalIs
    <3> QED BY <2>1, <3>1, Zenon
  <2>4. t \in Seq(Nat)
    <3>1. q # 0 => cvtdec0[q] \in Seq(Nat)
      BY <2>1, NaturalText, DigitsAreText
    <3> QED BY <3>1
  <2>5. Value(t, 10) = -q
    BY <2>1, <2>2, ValueOfNone
  <2>6. 48 + r \in Nat /\ DigitOf(48 + r) = r
    BY <2>1 DEF DigitOf
  <2> HIDE DEF t
  <2>7. Value(t \o <<48 + r>>, 10) = Value(t, 10) * 10 - DigitOf(48 + r)
    BY <2>4, <2>6, ValueOfMore
  <2>8. Value(cvtdec0[k], 10) = (-q) * 10 - r
    BY <2>3, <2>5, <2>6, <2>7
  <2>9. (-q) * 10 - r = -k
    BY <2>1
  <2> QED BY <2>8, <2>9
<1>2. S = Nat
  <2> HIDE DEF S
  <2>1. S \in SUBSET Nat
    BY DEF S
  <2> QED BY <1>1, <2>1, ByTenths
<1> QED BY <1>2

\* The text of the least integer.
LEMMA LeastText ==
  /\ cvtdec0[MinInt] \in Seq(Ten) /\ Len(cvtdec0[MinInt]) > 1
  /\ cvtdec0[MinInt][1] # 48
  /\ Value(cvtdec0[MinInt], 10) = MinInt
<1> DEFINE t == cvtdec0[LargeTenth]
           d == <<56>>
<1>1. MinInt \in Int /\ MinInt < 0 /\ MinInt = (-LargeTenth) * 10 - 8
  BY SMT DEF MinInt, LargeTenth
<1>2. LargeTenth \in Nat \ {0} /\ Quotient(MinInt) = LargeTenth /\ LastDigit(MinInt) = 56
  BY <1>1, QuotientOf
<1>3. cvtdec0[MinInt] = t \o d
  BY <1>1, <1>2, DecimalIs
<1>4. t \in Seq(Ten) /\ Len(t) >= 1 /\ t[1] # 48 /\ Value(t, 10) = -LargeTenth
  BY <1>2, NaturalText, NaturalStart, NaturalValue
<1> HIDE DEF t
<1>5. d \in Seq(Ten) /\ Len(d) = 1
  BY DEF Ten
<1>6. Len(t) \in Nat /\ 1 \in 1 .. Len(t) + 1
  BY <1>4, LenProperties
<1> HIDE DEF d
<1>7. t \o d \in Seq(Ten) /\ Len(t \o d) = Len(t) + 1 /\ (t \o d)[1] = t[1]
  <2>1. t \o d \in Seq(Ten) /\ Len(t \o d) = Len(t) + Len(d)
    BY <1>4, <1>5, ConcatProperties
  <2>2. \A i \in 1 .. Len(t) + Len(d) : (t \o d)[i] = IF i <= Len(t) THEN t[i] ELSE d[i - Len(t)]
    BY <1>4, <1>5, ConcatProperties
  <2>3. 1 \in 1 .. Len(t) + Len(d) /\ 1 <= Len(t)
    BY <1>4, <1>5, <1>6
  <2>4. (t \o d)[1] = t[1]
    BY <2>2, <2>3
  <2> QED BY <2>1, <2>4, <1>5
<1>8. Value(t \o d, 10) = Value(t, 10) * 10 - DigitOf(56)
  <2>1. t \in Seq(Nat)
    BY <1>4, DigitsAreText
  <2> QED BY <2>1, ValueOfMore DEF d
<1>9. DigitOf(56) = 8
  BY DEF DigitOf
<1>10. Value(t, 10) * 10 - 8 = MinInt
  BY <1>1, <1>2, <1>4
<1> QED BY <1>3, <1>4, <1>6, <1>7, <1>8, <1>9, <1>10

\* The integers of 32 bits.
Int32 == MinInt .. MaxInt
\* The bounds of the integers, which the provers do not compute with.
LEMMA IntIs ==
  ASSUME NEW v \in Int32
  PROVE  v \in Int /\ MinInt \in Int /\ MinInt < 0
<1>1. MinInt \in Int /\ MinInt < 0
  BY SMT DEF MinInt
<1>2. MaxInt \in Int
  BY SMT DEF MaxInt
<1>3. v \in Int
  BY <1>1, <1>2 DEF Int32
<1> QED BY <1>1, <1>3

\* A decimal text is that of its argument.
LEMMA DecimalReads ==
  ASSUME NEW v \in Int32
  PROVE  cvtdec(v) \in Seq(Nat) /\ Reads("d", cvtdec(v), v)
<1>0. v \in Int /\ MinInt < 0 /\ MinInt \in Int
  BY IntIs
<1>1. CASE v >= 0
  <2> DEFINE t == cvtdec0[v]
  <2>1. cvtdec(v) = t
    BY <1>0, <1>1 DEF cvtdec
  <2>2. v \in Nat
    BY <1>0, <1>1
  <2>3. t \in Seq(Ten) /\ Len(t) >= 1 /\ Value(t, 10) = -v
        /\ (IF v = 0 THEN Len(t) = 1 ELSE t[1] # 48)
    BY <2>2, NaturalText, NaturalStart, NaturalValue
  <2> HIDE DEF t
  <2>4. t \in Seq(Nat)
    BY <2>3, DigitsAreText
  <2>5. NoLeadingZero(t)
    <3>1. Len(t) \in Nat /\ Digit(0) = 48
      BY <2>4, LenProperties DEF Digit
    <3>2. CASE v = 0
      BY <2>3, <3>2 DEF NoLeadingZero
    <3>3. CASE v # 0
      <4>1. t[1] # Digit(0)
        BY <2>3, <3>1, <3>3
      <4>2. Len(t) \in Nat /\ Len(t) >= 1
        BY <2>3, <3>1
      <4>3. Len(t) = 1 \/ Len(t) > 1
        BY <4>2
      <4> QED BY <4>1, <4>3 DEF NoLeadingZero
    <3> QED BY <3>2, <3>3
  <2>6. -Value(t, 10) = v
    BY <2>2, <2>3
  <2>7. ~(v < 0)
    BY <2>2
  <2>8. Reads("d", t, v)
    BY <2>5, <2>6, <2>7 DEF Reads
  <2> QED BY <2>1, <2>4, <2>8
<1>2. CASE v < 0
  <2> DEFINE t == cvtdec0[Negated(v)]
             m == <<Minus>>
  <2>1. cvtdec(v) = m \o t
    BY <1>2 DEF cvtdec
  <2>2. t \in Seq(Ten) /\ Len(t) >= 1 /\ t[1] # 48 /\ Value(t, 10) = v
    <3>1. CASE v = MinInt
      <4>1. t = cvtdec0[MinInt]
        BY <3>1 DEF Negated
      <4>2. Len(cvtdec0[MinInt]) \in Nat
        BY LeastText, LenProperties
      <4>3. Len(cvtdec0[MinInt]) >= 1
        BY <4>2, LeastText
      <4> HIDE DEF t
      <4> QED BY <3>1, <4>1, <4>3, LeastText
    <3>2. CASE v # MinInt
      <4> DEFINE w == -v
      <4>1. t = cvtdec0[w]
        BY <3>2 DEF Negated
      <4>2. w \in Nat /\ w # 0 /\ -w = v
        BY <1>0, <1>2
      <4> HIDE DEF w, t
      <4>3. cvtdec0[w] \in Seq(Ten) /\ Len(cvtdec0[w]) >= 1 /\ cvtdec0[w][1] # 48
            /\ Value(cvtdec0[w], 10) = -w
        BY <4>2, NaturalText, NaturalStart, NaturalValue
      <4> QED BY <4>1, <4>2, <4>3
    <3> QED BY <3>1, <3>2
  <2> HIDE DEF t
  <2>3. t \in Seq(Nat) /\ m \in Seq(Nat) /\ Len(m) = 1 /\ m[1] = 45
    BY <2>2, DigitsAreText DEF Minus
  <2>4. Len(t) \in Nat /\ Digit(0) = 48
    BY <2>3, LenProperties DEF Digit
  <2>5. NoLeadingZero(t)
    <3>1. t[1] # Digit(0)
      BY <2>2, <2>4
    <3>2. Len(t) \in Nat /\ Len(t) >= 1
      BY <2>2, <2>4
    <3>3. Len(t) = 1 \/ Len(t) > 1
      BY <3>2
    <3> QED BY <3>1, <3>3 DEF NoLeadingZero
  <2>6. /\ m \o t \in Seq(Nat) /\ m \o t # <<>> /\ (m \o t)[1] = 45 /\ Tail(m \o t) = t
    BY <2>3, <2>4 DEF m
  <2> HIDE DEF m
  <2>7. Reads("d", m \o t, v)
    BY <1>2, <2>2, <2>5, <2>6 DEF Reads, Minus
  <2> QED BY <2>1, <2>6, <2>7
<1> QED BY <1>0, <1>1, <1>2

-----------------------------------------------------------------------------
(***************************************************************************)
(* Hexadecimal and octal texts, from their digits.                         *)
(***************************************************************************)
\* The digits a to c of a number, as text.
Part(D, a, c) == [i \in 1 .. 1 + c - a |-> Digit(D[a + i - 1])]

\* Characters of digits, and back.
LEMMA DigitBack ==
  ASSUME NEW d \in 0 .. 15
  PROVE  Digit(d) \in Nat /\ DigitOf(Digit(d)) = d /\ (d # 0 => Digit(d) # Digit(0))
BY DEF Digit, DigitOf

\* A part of a number's digits, character by character.
LEMMA PartIs ==
  ASSUME NEW D \in Seq(0 .. 15), NEW a \in 1 .. Len(D) + 1, NEW c \in a - 1 .. Len(D)
  PROVE  /\ Part(D, a, c) \in Seq(Nat) /\ Len(Part(D, a, c)) = 1 + c - a
         /\ \A i \in 1 .. 1 + c - a : Part(D, a, c)[i] = Digit(D[a + i - 1])
<1> DEFINE n == 1 + c - a
<1>1. n \in Nat /\ Len(D) \in Nat
  BY LenProperties
<1>2. \A i \in 1 .. n : Digit(D[a + i - 1]) \in Nat
  <2> SUFFICES ASSUME NEW i \in 1 .. n PROVE Digit(D[a + i - 1]) \in Nat
    OBVIOUS
  <2> DEFINE e == a + i - 1
  <2>1. e \in 1 .. Len(D)
    BY <1>1
  <2> HIDE DEF e, n
  <2>2. D[e] \in 0 .. 15
    BY <2>1, ElementOfSeq
  <2>3. Digit(D[e]) \in Nat
    BY <2>2, DigitBack
  <2> QED BY <2>3 DEF e
<1> DEFINE p == [i \in 1 .. n |-> Digit(D[a + i - 1])]
<1>3. Part(D, a, c) = p
  BY DEF Part
<1> HIDE DEF n
<1>4. p \in Seq(Nat) /\ Len(p) = n /\ \A i \in 1 .. n : p[i] = Digit(D[a + i - 1])
  BY <1>1, <1>2
<1> QED BY <1>3, <1>4 DEF n

\* A text and one character more.
LEMMA OneMore ==
  ASSUME NEW s \in Seq(Nat), NEW c \in Nat
  PROVE  /\ s \o <<c>> \in Seq(Nat) /\ Len(s \o <<c>>) = Len(s) + 1
         /\ \A i \in 1 .. Len(s) : (s \o <<c>>)[i] = s[i]
         /\ (s \o <<c>>)[Len(s) + 1] = c
OBVIOUS

\* A part, and the same with the next digit.
LEMMA PartGrows ==
  ASSUME NEW D \in Seq(0 .. 15), NEW a \in 1 .. Len(D), NEW c \in a .. Len(D)
  PROVE  Part(D, a, c) = Part(D, a, c - 1) \o <<Digit(D[c])>> /\ D[c] \in 0 .. 15
<1> DEFINE p == Part(D, a, c)
           q == Part(D, a, c - 1)
           z == Digit(D[c])
           n == 1 + c - a
<1>1. Len(D) \in Nat /\ n \in Nat /\ n >= 1 /\ c \in 1 .. Len(D) /\ a + n - 1 = c /\ a \in Nat
  BY LenProperties
<1>2. p \in Seq(Nat) /\ Len(p) = n /\ \A i \in 1 .. n : p[i] = Digit(D[a + i - 1])
  <2>1. a \in 1 .. Len(D) + 1 /\ c \in a - 1 .. Len(D)
    BY <1>1
  <2> QED BY <2>1, PartIs
<1>3. q \in Seq(Nat) /\ Len(q) = n - 1 /\ \A i \in 1 .. n - 1 : q[i] = Digit(D[a + i - 1])
  <2> DEFINE e == c - 1
  <2>1. a \in 1 .. Len(D) + 1 /\ e \in a - 1 .. Len(D) /\ 1 + e - a = n - 1
    BY <1>1
  <2>2. q = Part(D, a, e)
    OBVIOUS
  <2> HIDE DEF e, q
  <2> QED BY <2>1, <2>2, PartIs
<1>4. D[c] \in 0 .. 15
  BY <1>1
<1>5. z \in Nat
  BY <1>4, DigitBack
<1> HIDE DEF p, q, n
<1> DEFINE r == q \o <<z>>
<1>6. r \in Seq(Nat) /\ Len(r) = n /\ (\A i \in 1 .. n - 1 : r[i] = q[i]) /\ r[n] = z
  <2> HIDE DEF z
  <2>1. Len(q) = n - 1 /\ Len(q) + 1 = n
    BY <1>1, <1>3
  <2>2. /\ r \in Seq(Nat) /\ Len(r) = Len(q) + 1
        /\ \A i \in 1 .. Len(q) : r[i] = q[i]
        /\ r[Len(q) + 1] = z
    BY <1>3, <1>5, OneMore
  <2> HIDE DEF r
  <2> QED BY <2>1, <2>2
<1> HIDE DEF r
<1>7. ASSUME NEW i \in 1 .. n PROVE p[i] = r[i]
  <2>1. CASE i = n
    <3>1. p[n] = Digit(D[a + n - 1])
      BY <1>1, <1>2
    <3> QED BY <3>1, <2>1, <1>1, <1>6
  <2>2. CASE i # n
    <3>1. i \in 1 .. n - 1
      BY <2>2, <1>1
    <3> QED BY <3>1, <1>2, <1>3, <1>6
  <2> QED BY <2>1, <2>2
<1>8. p = r
  BY <1>2, <1>6, <1>7, SeqEqual
<1> QED BY <1>4, <1>8 DEF p, q, r

\* The value of a part.
PartValue(D, b, a, c) == Value(Part(D, a, c), b)

\* One digit more is a step more.
LEMMA PartValueIs ==
  ASSUME NEW D \in Seq(0 .. 15), NEW b, NEW a \in 1 .. Len(D), NEW c \in a .. Len(D)
  PROVE  PartValue(D, b, a, c) = PartValue(D, b, a, c - 1) * b - D[c]
<1> DEFINE q == Part(D, a, c - 1)
           e == c - 1
<1>1. Part(D, a, c) = q \o <<Digit(D[c])>> /\ D[c] \in 0 .. 15
  BY PartGrows
<1>2. q \in Seq(Nat)
  <2>1. Len(D) \in Nat
    BY LenProperties
  <2>2. a \in 1 .. Len(D) + 1 /\ e \in a - 1 .. Len(D) /\ q = Part(D, a, e)
    BY <2>1
  <2> HIDE DEF e, q
  <2> QED BY <2>2, PartIs
<1>3. Digit(D[c]) \in Nat /\ DigitOf(Digit(D[c])) = D[c]
  BY <1>1, DigitBack
<1>4. Value(q \o <<Digit(D[c])>>, b) = Value(q, b) * b - DigitOf(Digit(D[c]))
  BY <1>2, <1>3, ValueOfMore
<1> QED BY <1>1, <1>3, <1>4 DEF PartValue

\* No digits, no value.
LEMMA PartValueStarts ==
  ASSUME NEW D, NEW b, NEW a \in Nat
  PROVE  PartValue(D, b, a, a - 1) = 0
<1>1. 1 .. 1 + (a - 1) - a = {}
  OBVIOUS
<1>2. Part(D, a, a - 1) = <<>>
  BY <1>1 DEF Part
<1> QED BY <1>2, ValueOfNone DEF PartValue

\* Zeros in front add nothing.
LEMMA ZerosAreNothing ==
  ASSUME NEW D \in Seq(0 .. 15), NEW b \in Nat, NEW a \in 1 .. Len(D) + 1,
         NEW c \in a - 1 .. Len(D),
         \A j \in a .. c : D[j] = 0
  PROVE  PartValue(D, b, a, c) = 0
<1> DEFINE S == {k \in a - 1 .. c : PartValue(D, b, a, k) # 0}
<1>0. Len(D) \in Nat /\ a \in Nat /\ a - 1 \in Nat
  BY LenProperties
<1> SUFFICES ASSUME S # {} PROVE FALSE
  BY <1>0
<1>1. PICK k \in S : \A x \in S : k <= x
  <2>1. S \in SUBSET Nat
    BY <1>0
  <2> HIDE DEF S
  <2> QED BY <2>1, LeastOf
<1>2. k \in a - 1 .. c /\ PartValue(D, b, a, k) # 0
  OBVIOUS
<1>3. k # a - 1
  BY <1>0, <1>2, PartValueStarts
<1>4. a \in 1 .. Len(D) /\ k \in a .. Len(D) /\ k \in a .. c
  BY <1>0, <1>2, <1>3
<1>5. PartValue(D, b, a, k) = PartValue(D, b, a, k - 1) * b - D[k] /\ D[k] = 0
  BY <1>4, PartValueIs
<1>6. k - 1 \in a - 1 .. c /\ k - 1 \notin S
  BY <1>1, <1>0, <1>4
<1>7. PartValue(D, b, a, k - 1) = 0
  BY <1>6
<1> QED BY <1>2, <1>5, <1>7

\* Zeros in front of others change nothing.
LEMMA ZerosInFront ==
  ASSUME NEW D \in Seq(0 .. 15), NEW b \in Nat,
         NEW a \in 1 .. Len(D), NEW f \in a .. Len(D), NEW c \in f - 1 .. Len(D),
         \A j \in a .. f - 1 : D[j] = 0
  PROVE  PartValue(D, b, a, c) = PartValue(D, b, f, c)
<1> DEFINE S == {k \in f - 1 .. c : PartValue(D, b, a, k) # PartValue(D, b, f, k)}
<1>0. Len(D) \in Nat /\ a \in Nat /\ f \in Nat /\ f - 1 \in Nat
  BY LenProperties
<1> SUFFICES ASSUME S # {} PROVE FALSE
  BY <1>0
<1>1. PICK k \in S : \A x \in S : k <= x
  <2>1. S \in SUBSET Nat
    BY <1>0
  <2> HIDE DEF S
  <2> QED BY <2>1, LeastOf
<1>2. k \in f - 1 .. c /\ PartValue(D, b, a, k) # PartValue(D, b, f, k)
  OBVIOUS
<1>3. k # f - 1
  <2> DEFINE e == f - 1
  <2>1. a \in 1 .. Len(D) + 1 /\ e \in a - 1 .. Len(D) /\ \A j \in a .. e : D[j] = 0
    BY <1>0
  <2>2. PartValue(D, b, f, e) = 0
    BY <1>0, PartValueStarts
  <2> HIDE DEF e
  <2>3. PartValue(D, b, a, e) = 0
    BY <2>1, ZerosAreNothing
  <2> QED BY <2>2, <2>3, <1>2 DEF e
<1>4. a \in 1 .. Len(D) /\ f \in 1 .. Len(D) /\ k \in a .. Len(D) /\ k \in f .. Len(D)
  BY <1>0, <1>2, <1>3
<1>5. /\ PartValue(D, b, a, k) = PartValue(D, b, a, k - 1) * b - D[k]
      /\ PartValue(D, b, f, k) = PartValue(D, b, f, k - 1) * b - D[k]
  BY <1>4, PartValueIs
<1>6. k - 1 \in f - 1 .. c /\ k - 1 \notin S
  BY <1>1, <1>2, <1>0, <1>4
<1>7. PartValue(D, b, a, k - 1) = PartValue(D, b, f, k - 1)
  BY <1>6
<1> QED BY <1>2, <1>5, <1>7

\* What is printed of a number's digits: those from the first on that is
\* not zero.
LEMMA SignificantIs ==
  ASSUME NEW D \in Seq(0 .. 15), Len(D) >= 1
  PROVE  \E f \in 1 .. Len(D) : /\ D[f] # 0 \/ f = Len(D)
                                /\ \A j \in 1 .. f - 1 : D[j] = 0
                                /\ Significant(D) = Part(D, f, Len(D))
<1> DEFINE n == Len(D)
           First(i) == /\ D[i] # 0 \/ i = n
                       /\ \A j \in 1 .. i - 1 : D[j] = 0
           first == CHOOSE i \in 1 .. n : First(i)
           S == {i \in 1 .. n : D[i] # 0 \/ i = n}
<1>1. n \in Nat /\ n >= 1
  BY LenProperties
<1>2. PICK i \in S : \A x \in S : i <= x
  <2>1. S \in SUBSET Nat /\ n \in S
    BY <1>1
  <2> HIDE DEF S
  <2> QED BY <2>1, LeastOf
<1>3. ASSUME NEW j \in 1 .. i - 1 PROVE D[j] = 0
  <2>1. j \in 1 .. n /\ j \notin S
    BY <1>1, <1>2
  <2> QED BY <2>1
<1>4. i \in 1 .. n /\ First(i)
  BY <1>2, <1>3
<1>5. first \in 1 .. n /\ First(first)
  <2> HIDE DEF First
  <2> QED BY <1>4
<1>6. Significant(D) = Part(D, first, n)
  BY DEF Significant, Part
<1> HIDE DEF first
<1> QED BY <1>5, <1>6

\* A part of a part.
LEMMA PartOfPart ==
  ASSUME NEW D \in Seq(0 .. 15), NEW a \in 1 .. Len(D) + 1, NEW c \in a - 1 .. Len(D),
         NEW i \in 1 .. 2 + c - a, NEW j \in i - 1 .. 1 + c - a
  PROVE  SubSeq(Part(D, a, c), i, j) = Part(D, a + i - 1, a + j - 1)
<1> DEFINE p == Part(D, a, c)
           n == 1 + c - a
           k == a + i - 1
           l == a + j - 1
           t == Part(D, k, l)
           m == 1 + l - k
           u == SubSeq(p, i, j)
<1>1. /\ Len(D) \in Nat /\ n \in Nat /\ a \in Nat /\ i \in Nat /\ j \in Int
      /\ k \in 1 .. Len(D) + 1 /\ l \in k - 1 .. Len(D) /\ m = j - i + 1 /\ m \in Nat
      /\ m = 1 + l - k /\ j <= n
  BY LenProperties
<1>2. p \in Seq(Nat) /\ Len(p) = n /\ \A x \in 1 .. n : p[x] = Digit(D[a + x - 1])
  BY PartIs
<1> HIDE DEF n
<1>3. t \in Seq(Nat) /\ Len(t) = m /\ \A x \in 1 .. m : t[x] = Digit(D[k + x - 1])
  <2> HIDE DEF k, l, m
  <2> QED BY <1>1, PartIs
<1>4. \A x \in 1 .. m : a + (i + x - 1) - 1 = k + x - 1 /\ i + x - 1 \in 1 .. n
  BY <1>1
<1> HIDE DEF p, t, k, l
<1>5. m = (IF i <= j THEN j - i + 1 ELSE 0)
  BY <1>1
<1>6. u \in Seq(Nat) /\ Len(u) = m /\ \A x \in 1 .. m : u[x] = p[i + x - 1]
  <2>1. i \in 1 .. Len(p) + 1 /\ j \in i - 1 .. Len(p) /\ m = j - i + 1
    BY <1>1, <1>2
  <2>2. \A x \in i .. j : p[x] \in Nat
    BY <1>2, <2>1
  <2>3. /\ SubSeq(p, i, j) \in Seq(Nat)
        /\ Len(SubSeq(p, i, j)) = (IF i <= j THEN j - i + 1 ELSE 0)
        /\ \A x \in 1 .. j - i + 1 : SubSeq(p, i, j)[x] = p[i + x - 1]
    <3> HIDE DEF p
    <3> QED BY <1>1, <2>2, SubSeqProperties
  <2> HIDE DEF m
  <2> QED BY <2>1, <2>3, <1>5
<1> HIDE DEF u, m
<1>7. \A x \in 1 .. m : u[x] = t[x]
  BY <1>2, <1>3, <1>4, <1>6
<1>8. u = t
  BY <1>3, <1>6, <1>7, SeqEqual
<1> QED BY <1>8 DEF u, t, p, k, l

\* The low digits of what is printed, and the others, have the values of the
\* low digits and of the others of the number.
LEMMA SplitIs ==
  ASSUME NEW D \in Seq(0 .. 15), Len(D) >= 1, NEW b \in Nat, NEW low \in 1 .. Len(D) - 1,
         NEW s, s = Significant(D)
  PROVE  LET m == IF Len(s) > low THEN Len(s) - low ELSE 0
         IN  /\ s \in Seq(Nat) /\ NoLeadingZero(s)
             /\ Value(SubSeq(s, m + 1, Len(s)), b) = PartValue(D, b, Len(D) - low + 1, Len(D))
             /\ Value(SubSeq(s, 1, m), b) = PartValue(D, b, 1, Len(D) - low)
<1> DEFINE n == Len(D)
           h == n - low
           m == IF Len(s) > low THEN Len(s) - low ELSE 0
<1>0. n \in Nat /\ n >= 1 /\ low \in Nat /\ low >= 1 /\ h \in 1 .. n /\ h + 1 \in 1 .. n
  BY LenProperties
<1>1. PICK f \in 1 .. n : /\ D[f] # 0 \/ f = n
                          /\ \A j \in 1 .. f - 1 : D[j] = 0
                          /\ s = Part(D, f, n)
  BY SignificantIs
<1> DEFINE L == 1 + n - f
<1>2. s \in Seq(Nat) /\ Len(s) = L /\ \A i \in 1 .. L : s[i] = Digit(D[f + i - 1])
  <2> DEFINE e == n
  <2>1. f \in 1 .. Len(D) + 1 /\ e \in f - 1 .. Len(D) /\ L = 1 + e - f /\ s = Part(D, f, e)
    BY <1>0, <1>1
  <2> HIDE DEF e, L
  <2> QED BY <2>1, PartIs, ZenonT(30)
<1>3. L \in Nat /\ L >= 1
  BY <1>0
<1>4. NoLeadingZero(s)
  <2>1. CASE f = n
    BY <2>1, <1>0, <1>2 DEF NoLeadingZero
  <2>2. CASE f # n
    <3>1. D[f] # 0 /\ D[f] \in 0 .. 15 /\ L > 1 /\ f + 1 - 1 = f /\ 1 \in 1 .. L
      BY <2>2, <1>0, <1>1, SMTT(30)
    <3>2. s[1] = Digit(D[f])
      BY <3>1, <1>2
    <3> DEFINE d == D[f]
    <3>3. d \in 0 .. 15 /\ d # 0
      BY <3>1
    <3> HIDE DEF d
    <3>4. Digit(d) # Digit(0)
      BY <3>3, DigitBack
    <3>5. s[1] # Digit(0)
      BY <3>2, <3>4 DEF d
    <3> QED BY <3>1, <3>5, <1>2 DEF NoLeadingZero
  <2> QED BY <2>1, <2>2
<1>5. CASE L > low
  <2>1. m = L - low /\ m \in Nat
    BY <1>2, <1>3, <1>5, <1>0
  <2>2. SubSeq(s, m + 1, L) = Part(D, h + 1, n)
    <3> DEFINE i == m + 1
               e == n
    <3>1. /\ f \in 1 .. Len(D) + 1 /\ e \in f - 1 .. Len(D) /\ s = Part(D, f, e)
          /\ i \in 1 .. 2 + e - f /\ L \in i - 1 .. 1 + e - f
          /\ f + i - 1 = h + 1 /\ f + L - 1 = n
      BY <1>0, <1>1, <2>1, <1>5
    <3> HIDE DEF i, e, L, h
    <3>2. SubSeq(Part(D, f, e), i, L) = Part(D, f + i - 1, f + L - 1)
      BY <3>1, PartOfPart
    <3>3. SubSeq(s, i, L) = Part(D, h + 1, n)
      BY <3>1, <3>2
    <3> QED BY <3>3 DEF i
  <2>3. SubSeq(s, 1, m) = Part(D, f, h)
    <3> DEFINE e == n
               o == 1
    <3>1. /\ f \in 1 .. Len(D) + 1 /\ e \in f - 1 .. Len(D) /\ s = Part(D, f, e)
          /\ o \in 1 .. 2 + e - f /\ m \in o - 1 .. 1 + e - f
          /\ f + o - 1 = f /\ f + m - 1 = h
      BY <1>0, <1>1, <2>1, <1>5
    <3> HIDE DEF m, e, h, o
    <3>2. SubSeq(Part(D, f, e), o, m) = Part(D, f + o - 1, f + m - 1)
      BY <3>1, PartOfPart
    <3>3. SubSeq(s, o, m) = Part(D, f, h)
      BY <3>1, <3>2
    <3> QED BY <3>3 DEF o
  <2>4. PartValue(D, b, 1, h) = PartValue(D, b, f, h)
    <3> DEFINE o == 1
    <3>1. /\ o \in 1 .. Len(D) /\ f \in o .. Len(D) /\ h \in f - 1 .. Len(D)
          /\ \A j \in o .. f - 1 : D[j] = 0
      BY <1>0, <1>1, <1>5
    <3> HIDE DEF o, h
    <3>2. PartValue(D, b, o, h) = PartValue(D, b, f, h)
      BY <3>1, ZerosInFront
    <3> QED BY <3>2 DEF o
  <2> HIDE DEF m, h, L
  <2> QED BY <1>2, <1>4, <2>2, <2>3, <2>4 DEF PartValue, m, h
<1>6. CASE ~(L > low)
  <2>1. m = 0
    BY <1>2, <1>6
  <2>2. SubSeq(s, 1, L) = s
    <3> DEFINE e == n
               o == 1
    <3>1. /\ f \in 1 .. Len(D) + 1 /\ e \in f - 1 .. Len(D) /\ s = Part(D, f, e)
          /\ o \in 1 .. 2 + e - f /\ L \in o - 1 .. 1 + e - f
          /\ f + o - 1 = f /\ f + L - 1 = e
      BY <1>0, <1>1
    <3> HIDE DEF e, L, o
    <3>2. SubSeq(Part(D, f, e), o, L) = Part(D, f + o - 1, f + L - 1)
      BY <3>1, PartOfPart
    <3>3. SubSeq(s, o, L) = s
      BY <3>1, <3>2
    <3> QED BY <3>3 DEF o
  <2>3. SubSeq(s, 1, 0) = <<>>
    BY SubSeqEmpty
  <2>4. PartValue(D, b, h + 1, n) = PartValue(D, b, f, n)
    <3> DEFINE o == h + 1
               e == n
    <3>1. /\ o \in 1 .. Len(D) /\ f \in o .. Len(D) /\ e \in f - 1 .. Len(D)
          /\ \A j \in o .. f - 1 : D[j] = 0
      BY <1>0, <1>1, <1>6
    <3> HIDE DEF o, e
    <3>2. PartValue(D, b, o, e) = PartValue(D, b, f, e)
      BY <3>1, ZerosInFront
    <3> QED BY <3>2 DEF o, e
  <2>5. PartValue(D, b, 1, h) = 0
    <3> DEFINE o == 1
    <3>1. /\ o \in 1 .. Len(D) + 1 /\ h \in o - 1 .. Len(D)
          /\ \A j \in o .. h : D[j] = 0
      BY <1>0, <1>1, <1>6
    <3> HIDE DEF o, h
    <3>2. PartValue(D, b, o, h) = 0
      BY <3>1, ZerosAreNothing
    <3> QED BY <3>2 DEF o
  <2>6. Value(<<>>, b) = 0
    BY ValueOfNone
  <2>7. /\ Value(SubSeq(s, m + 1, Len(s)), b) = PartValue(D, b, h + 1, n)
        /\ Value(SubSeq(s, 1, m), b) = PartValue(D, b, 1, h)
    <3>1. m + 1 = 1
      BY <2>1
    <3> HIDE DEF m, h, L
    <3> QED BY <1>1, <1>2, <2>1, <3>1, <2>2, <2>3, <2>4, <2>5, <2>6 DEF PartValue
  <2> HIDE DEF L
  <2> QED BY <1>2, <1>4, <2>7
<1> QED BY <1>5, <1>6

\* The value of four digits.
LEMMA FourDigits ==
  ASSUME NEW D \in Seq(0 .. 15), NEW b \in Nat, NEW a \in Nat \ {0}, a + 3 <= Len(D)
  PROVE  PartValue(D, b, a, a + 3) = (((-D[a]) * b - D[a + 1]) * b - D[a + 2]) * b - D[a + 3]
<1>1. Len(D) \in Nat
  BY LenProperties
<1> DEFINE P(c) == PartValue(D, b, a, c)
<1>2. ASSUME NEW c \in a .. a + 3 PROVE P(c) = P(c - 1) * b - D[c]
  <2>1. a \in 1 .. Len(D) /\ c \in a .. Len(D)
    BY <1>1
  <2> QED BY <2>1, PartValueIs
<1>3. P(a - 1) = 0
  BY PartValueStarts
<1>4. D[a] \in Int
  BY <1>1
<1> HIDE DEF P
<1>5. P(a) = -D[a]
  <2>1. P(a) = P(a - 1) * b - D[a]
    BY <1>2
  <2>2. 0 * b - D[a] = -D[a]
    BY <1>4
  <2> QED BY <2>1, <2>2, <1>3
<1>6. P(a + 1) = P(a) * b - D[a + 1]
  <2> DEFINE c == a + 1
  <2>1. c \in a .. a + 3 /\ c - 1 = a
    OBVIOUS
  <2> HIDE DEF c
  <2>2. P(c) = P(a) * b - D[c]
    BY <2>1, <1>2
  <2> QED BY <2>2 DEF c
<1>7. P(a + 2) = P(a + 1) * b - D[a + 2]
  <2> DEFINE c == a + 2
             e == a + 1
  <2>1. c \in a .. a + 3 /\ c - 1 = e
    OBVIOUS
  <2> HIDE DEF c, e
  <2>2. P(c) = P(e) * b - D[c]
    BY <2>1, <1>2
  <2> QED BY <2>2 DEF c, e
<1>8. P(a + 3) = P(a + 2) * b - D[a + 3]
  <2> DEFINE c == a + 3
             e == a + 2
  <2>1. c \in a .. a + 3 /\ c - 1 = e
    OBVIOUS
  <2> HIDE DEF c, e
  <2>2. P(c) = P(e) * b - D[c]
    BY <2>1, <1>2
  <2> QED BY <2>2 DEF c, e
<1>9. P(a + 3) = (((-D[a]) * b - D[a + 1]) * b - D[a + 2]) * b - D[a + 3]
  BY <1>5, <1>6, <1>7, <1>8
<1> QED BY <1>9 DEF P

\* Shifting by four bits at a time.
LEMMA Nibbles ==
  ASSUME NEW v \in Int
  PROVE  /\ 16^0 = 1 /\ v \div 16^0 = v /\ v \div 16^1 = v \div 16
         /\ v \div 16^2 = (v \div 16^1) \div 16 /\ v \div 16^3 = (v \div 16^2) \div 16
         /\ v \div 16^4 = (v \div 16^3) \div 16 /\ v \div 16^5 = (v \div 16^4) \div 16
         /\ v \div 16^6 = (v \div 16^5) \div 16 /\ v \div 16^7 = (v \div 16^6) \div 16
BY SMT

\* Four hexadecimal digits are sixteen bits.
LEMMA FourNibbles ==
  ASSUME NEW v \in Int, NEW q1 \in Int, NEW q2 \in Int, NEW q3 \in Int,
         q1 = v \div 16, q2 = q1 \div 16, q3 = q2 \div 16
  PROVE  (((-(q3 % 16)) * 16 - (q2 % 16)) * 16 - (q1 % 16)) * 16 - (v % 16) = -(v % 16^4)
BY SMT

\* A hexadecimal text is that of its argument's 32 bits.
LEMMA HexReads ==
  ASSUME NEW v \in Int
  PROVE  cvthex(v) \in Seq(Nat) /\ Reads("x", cvthex(v), v)
<1> DEFINE q(k) == v \div 16^k
           D == [i \in 1 .. 8 |-> (v \div 16^(8 - i)) % 16]
           s == cvthex(v)
<1>1. ASSUME NEW k \in 0 .. 7 PROVE q(k) \in Int
  <2>1. 16^0 \in Nat \ {0} /\ 16^1 \in Nat \ {0} /\ 16^2 \in Nat \ {0} /\ 16^3 \in Nat \ {0}
        /\ 16^4 \in Nat \ {0} /\ 16^5 \in Nat \ {0} /\ 16^6 \in Nat \ {0} /\ 16^7 \in Nat \ {0}
    BY SMT
  <2> DEFINE w == 16^k
  <2>2. w \in Nat \ {0}
    <3>1. k = 0 \/ k = 1 \/ k = 2 \/ k = 3 \/ k = 4 \/ k = 5 \/ k = 6 \/ k = 7
      OBVIOUS
    <3> QED BY <2>1, <3>1, Zenon
  <2> HIDE DEF w
  <2>3. v \div w \in Int
    BY <2>2
  <2> QED BY <2>3 DEF w
<1>2. ASSUME NEW i \in 1 .. 8 PROVE D[i] = q(8 - i) % 16 /\ D[i] \in 0 .. 15
  <2>1. 8 - i \in 0 .. 7
    OBVIOUS
  <2>2. D[i] = q(8 - i) % 16
    OBVIOUS
  <2> DEFINE w == q(8 - i)
  <2>3. w \in Int
    BY <1>1, <2>1
  <2> HIDE DEF w
  <2>4. w % 16 \in 0 .. 15
    BY <2>3
  <2> QED BY <2>2, <2>4 DEF w
<1>3. D \in Seq(0 .. 15) /\ Len(D) = 8
  <2> DEFINE F(i) == (v \div 16^(8 - i)) % 16
  <2>1. \A i \in 1 .. 8 : F(i) \in 0 .. 15
    BY <1>2
  <2> HIDE DEF F
  <2>2. [i \in 1 .. 8 |-> F(i)] \in Seq(0 .. 15) /\ Len([i \in 1 .. 8 |-> F(i)]) = 8
    BY <2>1
  <2> QED BY <2>2 DEF F
<1>4. s = Significant(D)
  BY DEF cvthex
<1>5. /\ D[1] = q(7) % 16 /\ D[2] = q(6) % 16 /\ D[3] = q(5) % 16 /\ D[4] = q(4) % 16
      /\ D[5] = q(3) % 16 /\ D[6] = q(2) % 16 /\ D[7] = q(1) % 16 /\ D[8] = v % 16
  <2>1. 8 - 1 = 7 /\ 8 - 2 = 6 /\ 8 - 3 = 5 /\ 8 - 4 = 4 /\ 8 - 5 = 3 /\ 8 - 6 = 2 /\ 8 - 7 = 1
        /\ 8 - 8 = 0
    BY SMT
  <2>2. q(0) = v
    BY Nibbles
  <2> HIDE DEF D, q
  <2> QED BY <1>2, <2>1, <2>2
<1> HIDE DEF D, s
<1>6. PartValue(D, 16, 5, 8) = -(v % 16^4)
  <2>1. PartValue(D, 16, 5, 8) = (((-D[5]) * 16 - D[6]) * 16 - D[7]) * 16 - D[8]
    <3> DEFINE a == 5
               b == 16
    <3>1. a \in Nat \ {0} /\ b \in Nat /\ a + 3 <= Len(D)
      BY <1>3
    <3>2. a + 1 = 6 /\ a + 2 = 7 /\ a + 3 = 8
      OBVIOUS
    <3> HIDE DEF a, b
    <3>3. PartValue(D, b, a, a + 3) = (((-D[a]) * b - D[a + 1]) * b - D[a + 2]) * b - D[a + 3]
      BY <1>3, <3>1, FourDigits
    <3> QED BY <3>2, <3>3 DEF a, b
  <2>2. /\ q(1) \in Int /\ q(2) \in Int /\ q(3) \in Int
        /\ q(1) = v \div 16 /\ q(2) = q(1) \div 16 /\ q(3) = q(2) \div 16
    BY <1>1, Nibbles
  <2> HIDE DEF q
  <2>3. (((-(q(3) % 16)) * 16 - (q(2) % 16)) * 16 - (q(1) % 16)) * 16 - (v % 16) = -(v % 16^4)
    BY <2>2, FourNibbles
  <2> QED BY <2>1, <2>3, <1>5, Zenon
<1>7. PartValue(D, 16, 1, 4) = -(q(4) % 16^4)
  <2>1. PartValue(D, 16, 1, 4) = (((-D[1]) * 16 - D[2]) * 16 - D[3]) * 16 - D[4]
    <3> DEFINE a == 1
               b == 16
    <3>1. a \in Nat \ {0} /\ b \in Nat /\ a + 3 <= Len(D)
      BY <1>3
    <3>2. a + 1 = 2 /\ a + 2 = 3 /\ a + 3 = 4
      OBVIOUS
    <3> HIDE DEF a, b
    <3>3. PartValue(D, b, a, a + 3) = (((-D[a]) * b - D[a + 1]) * b - D[a + 2]) * b - D[a + 3]
      BY <1>3, <3>1, FourDigits
    <3> QED BY <3>2, <3>3 DEF a, b
  <2>2. /\ q(4) \in Int /\ q(5) \in Int /\ q(6) \in Int /\ q(7) \in Int
        /\ q(5) = q(4) \div 16 /\ q(6) = q(5) \div 16 /\ q(7) = q(6) \div 16
    BY <1>1, Nibbles
  <2> HIDE DEF q
  <2>3. (((-(q(7) % 16)) * 16 - (q(6) % 16)) * 16 - (q(5) % 16)) * 16 - (q(4) % 16)
          = -(q(4) % 16^4)
    BY <2>2, FourNibbles
  <2> QED BY <2>1, <2>3, <1>5, Zenon
<1>8. /\ s \in Seq(Nat) /\ NoLeadingZero(s)
      /\ LET m == IF Len(s) > 4 THEN Len(s) - 4 ELSE 0
         IN  /\ Value(SubSeq(s, m + 1, Len(s)), 16) = PartValue(D, 16, 5, 8)
             /\ Value(SubSeq(s, 1, m), 16) = PartValue(D, 16, 1, 4)
  <2> DEFINE b == 16
             low == 4
  <2>1. b \in Nat /\ low \in 1 .. Len(D) - 1 /\ Len(D) >= 1
        /\ Len(D) = 8 /\ Len(D) - low + 1 = 5 /\ Len(D) - low = 4
    BY <1>3
  <2> HIDE DEF b, low
  <2>2. LET m == IF Len(s) > low THEN Len(s) - low ELSE 0
         IN  /\ s \in Seq(Nat) /\ NoLeadingZero(s)
             /\ Value(SubSeq(s, m + 1, Len(s)), b) = PartValue(D, b, Len(D) - low + 1, Len(D))
             /\ Value(SubSeq(s, 1, m), b) = PartValue(D, b, 1, Len(D) - low)
    BY <1>3, <1>4, <2>1, SplitIs
  <2> QED BY <2>1, <2>2 DEF b, low
<1>9. Bits(s, 16, 4, v)
  <2>1. 16^4 = 2^16 * (2^16 \div 16^4)
    BY SMT
  <2>2. -(-(v % 16^4)) = v % 16^4 /\ -(-((v \div 16^4) % 16^4)) = (v \div 16^4) % 16^4
    BY SMT
  <2> QED BY <1>6, <1>7, <1>8, <2>1, <2>2, Zenon DEF Bits
<1> QED BY <1>8, <1>9, Zenon DEF Reads, s

\* A digit that cvtoct fetches.
LEMMA OctalDigitIs ==
  ASSUME NEW v \in Int, NEW i \in 1 .. 11
  PROVE  OctalDigit(v, i) \in 0 .. 15
<1>1. CASE i = 1
  <2>1. OctalDigit(v, i) = (v \div 2^30) % 8
    BY <1>1 DEF OctalDigit
  <2> QED BY <2>1, SMT
<1>2. CASE i \in 2 .. 10
  <2> DEFINE k == 32 - 3 * i
             w == 2^k
  <2>1. OctalDigit(v, i) = (v \div w) % 8
    BY <1>2 DEF OctalDigit
  <2>2. w \in Nat \ {0}
    <3>1. /\ 2^26 \in Nat \ {0} /\ 2^23 \in Nat \ {0} /\ 2^20 \in Nat \ {0}
          /\ 2^17 \in Nat \ {0} /\ 2^14 \in Nat \ {0} /\ 2^11 \in Nat \ {0}
          /\ 2^8 \in Nat \ {0} /\ 2^5 \in Nat \ {0} /\ 2^2 \in Nat \ {0}
      BY SMT
    <3>2. k = 26 \/ k = 23 \/ k = 20 \/ k = 17 \/ k = 14 \/ k = 11 \/ k = 8 \/ k = 5 \/ k = 2
      BY <1>2
    <3> QED BY <3>1, <3>2, Zenon
  <2> HIDE DEF w
  <2>3. (v \div w) \in Int
    BY <2>2
  <2>4. (v \div w) % 8 \in 0 .. 15
    BY <2>3
  <2> QED BY <2>1, <2>4
<1>3. CASE i = 11
  <2>1. OctalDigit(v, i) = 2 * (v % 4)
    BY <1>3 DEF OctalDigit
  <2>2. (v % 4) \in 0 .. 3
    OBVIOUS
  <2> QED BY <2>1, <2>2
<1> QED BY <1>1, <1>2, <1>3

\* An octal text is a text.
LEMMA OctalIsText ==
  ASSUME NEW v \in Int
  PROVE  cvtoct(v) \in Seq(Nat)
<1> DEFINE D == [i \in 1 .. 11 |-> OctalDigit(v, i)]
           n == Len(D)
<1>1. D \in Seq(0 .. 15) /\ n = 11
  BY OctalDigitIs
<1>2. cvtoct(v) = Significant(D)
  BY DEF cvtoct
<1> HIDE DEF D
<1>3. PICK f \in 1 .. n : Significant(D) = Part(D, f, n)
  <2>1. D \in Seq(0 .. 15) /\ Len(D) >= 1
    BY <1>1
  <2>2. \E f \in 1 .. Len(D) : Significant(D) = Part(D, f, Len(D))
    BY <2>1, SignificantIs, ZenonT(30)
  <2> QED BY <2>2
<1>4. f \in 1 .. Len(D) + 1 /\ n \in f - 1 .. Len(D)
  BY <1>1
<1> HIDE DEF n
<1>5. Part(D, f, n) \in Seq(Nat)
  BY <1>1, <1>4, PartIs
<1> QED BY <1>2, <1>3, <1>5

-----------------------------------------------------------------------------
(***************************************************************************)
(* Fields and arguments.                                                   *)
(***************************************************************************)
\* What a conversion makes of an argument of its type is a text, and read as
\* that argument, but for the octal ones.
LEMMA ConvertedReads ==
  ASSUME NEW conv \in Conversions, NEW arg,
         arg \in (CASE conv = "c" -> Bytes
                    [] conv = "s" -> Seq(Bytes)
                    [] OTHER      -> MinInt .. MaxInt)
  PROVE  /\ Converted(conv, arg) \in Seq(Nat)
         /\ conv # "o" => Reads(conv, Converted(conv, arg), arg)
<1>1. CASE conv = "c"
  <2>1. arg \in Nat
    BY <1>1 DEF Bytes
  <2>2. Converted(conv, arg) = <<arg>>
    BY <1>1 DEF Converted
  <2>3. <<arg>> \in Seq(Nat)
    BY <2>1
  <2>4. Reads(conv, <<arg>>, arg)
    BY <1>1 DEF Reads
  <2> QED BY <2>2, <2>3, <2>4
<1>2. CASE conv = "s"
  <2>1. arg \in Seq(Nat)
    <3>1. arg \in Seq(Bytes)
      BY <1>2
    <3>2. Bytes \subseteq Nat
      BY DEF Bytes
    <3> QED BY <3>1, <3>2, SeqMonotonic
  <2>2. Converted(conv, arg) = arg
    BY <1>2 DEF Converted
  <2> QED BY <1>2, <2>1, <2>2 DEF Reads
<1>3. CASE conv \in {"d", "x", "o"}
  <2>1. arg \in Int32
    BY <1>3 DEF Int32
  <2>2. arg \in Int
    BY <2>1, IntIs
  <2>3. CASE conv = "d"
    <3>1. Converted(conv, arg) = cvtdec(arg)
      BY <2>3 DEF Converted
    <3> QED BY <2>1, <2>3, <3>1, DecimalReads
  <2>4. CASE conv = "x"
    <3>1. Converted(conv, arg) = cvthex(arg)
      BY <2>4 DEF Converted
    <3> QED BY <2>2, <2>4, <3>1, HexReads
  <2>5. CASE conv = "o"
    <3>1. Converted(conv, arg) = cvtoct(arg)
      BY <2>5 DEF Converted
    <3> QED BY <2>2, <2>5, <3>1, OctalIsText
  <2> QED BY <1>3, <2>3, <2>4, <2>5
<1> QED BY <1>1, <1>2, <1>3 DEF Conversions

\* The two parts of a text put together.
LEMMA PartsBack ==
  ASSUME NEW s \in Seq(Nat), NEW t \in Seq(Nat)
  PROVE  /\ s \o t \in Seq(Nat) /\ Len(s \o t) = Len(s) + Len(t)
         /\ SubSeq(s \o t, 1, Len(s)) = s
         /\ SubSeq(s \o t, Len(s) + 1, Len(s) + Len(t)) = t
<1> DEFINE u == s \o t
           n == Len(s)
           m == Len(t)
           a == SubSeq(u, 1, n)
           z == SubSeq(u, n + 1, n + m)
<1>1. n \in Nat /\ m \in Nat
  BY LenProperties
<1>2. /\ u \in Seq(Nat) /\ Len(u) = n + m
      /\ \A i \in 1 .. n + m : u[i] = IF i <= n THEN s[i] ELSE t[i - n]
  BY ConcatProperties
<1> HIDE DEF u, n, m
<1>3. \A i \in 1 .. n + m : u[i] \in Nat
  BY <1>1, <1>2
<1>4. a \in Seq(Nat) /\ Len(a) = n /\ \A i \in 1 .. n : a[i] = u[i]
  <2>1. \A i \in 1 .. n : u[i] \in Nat
    BY <1>1, <1>3
  <2>2. n - 1 + 1 = n /\ \A i \in 1 .. n : 1 + i - 1 = i
    BY <1>1
  <2>3. /\ a \in Seq(Nat) /\ Len(a) = (IF 1 <= n THEN n - 1 + 1 ELSE 0)
        /\ \A i \in 1 .. n - 1 + 1 : a[i] = u[1 + i - 1]
    BY <1>1, <2>1, SubSeqProperties
  <2> HIDE DEF a
  <2> QED BY <1>1, <2>2, <2>3
<1>5. z \in Seq(Nat) /\ Len(z) = m /\ \A i \in 1 .. m : z[i] = u[n + i]
  <2> DEFINE j == n + 1
             k == n + m
  <2>1. j \in Int /\ k \in Int /\ \A i \in j .. k : u[i] \in Nat
    BY <1>1, <1>3
  <2>2. k - j + 1 = m /\ (m = IF j <= k THEN m ELSE 0) /\ \A i \in 1 .. m : j + i - 1 = n + i
    BY <1>1
  <2>3. z = SubSeq(u, j, k)
    OBVIOUS
  <2> HIDE DEF z, j, k
  <2>4. /\ z \in Seq(Nat) /\ Len(z) = (IF j <= k THEN k - j + 1 ELSE 0)
        /\ \A i \in 1 .. k - j + 1 : z[i] = u[j + i - 1]
    BY <2>1, <2>3, SubSeqProperties
  <2> QED BY <1>1, <2>2, <2>4
<1> HIDE DEF a, z
<1>6. a = s
  <2>1. \A i \in 1 .. n : a[i] = s[i]
    BY <1>1, <1>2, <1>4
  <2> QED BY <1>4, <2>1, SeqEqual DEF n
<1>7. z = t
  <2>1. \A i \in 1 .. m : z[i] = t[i]
    <3> TAKE i \in 1 .. m
    <3> DEFINE e == n + i
    <3>1. e \in 1 .. n + m /\ ~(e <= n) /\ e - n = i /\ z[i] = u[e]
      BY <1>1, <1>5
    <3> HIDE DEF e
    <3>2. u[e] = t[i]
      BY <1>2, <3>1
    <3> QED BY <3>1, <3>2
  <2> QED BY <1>5, <2>1, SeqEqual DEF m
<1> QED BY <1>2, <1>6, <1>7 DEF u, a, z, n, m

\* q is the field of a directive with a text of n characters, s.
Field(d, s, q, n) ==
  LET k == Len(q) - n
  IN  /\ k > 0 => Len(q) = d.width
      /\ Len(q) >= d.width
      /\ Fills(IF d.left THEN SubSeq(q, n + 1, n + k) ELSE SubSeq(q, 1, k), d)
      /\ s = IF d.left THEN SubSeq(q, 1, n) ELSE SubSeq(q, k + 1, k + n)

\* padstr: the field, the fill and the text.
LEMMA PaddedIs ==
  ASSUME NEW d, d.width \in Nat, NEW s \in Seq(Nat), NEW q, q = Padded(d, s)
  PROVE  q \in Seq(Nat) /\ Len(s) \in 0 .. Len(q) /\ Field(d, s, q, Len(s))
<1> DEFINE n == Len(s)
           extra == d.width - n
           c == IF d.zero THEN Digit(0) ELSE Blank
           fill == [i \in 1 .. extra |-> c]
           k == IF extra > 0 THEN extra ELSE 0
<1>1. n \in Nat /\ c \in Nat
  BY LenProperties DEF Digit, Blank
<1>2. k \in Nat /\ 1 .. extra = 1 .. k /\ (k > 0 => n + k = d.width) /\ n + k >= d.width
  BY <1>1
<1> HIDE DEF n, c
<1>3. fill \in Seq(Nat) /\ Len(fill) = k /\ Fills(fill, d)
  <2> HIDE DEF k, extra
  <2>1. fill = [i \in 1 .. k |-> c]
    BY <1>2
  <2>2. [i \in 1 .. k |-> c] \in Seq(Nat) /\ Len([i \in 1 .. k |-> c]) = k
    BY <1>1, <1>2
  <2>3. Fills(fill, d)
    BY DEF Fills, c
  <2> HIDE DEF fill
  <2> QED BY <2>1, <2>2, <2>3
<1>4. q = IF d.left THEN s \o fill ELSE fill \o s
  BY DEF Padded, n, c
<1> HIDE DEF fill, k, extra
<1>5. CASE d.left
  <2>1. q = s \o fill
    BY <1>4, <1>5
  <2>2. /\ q \in Seq(Nat) /\ Len(q) = n + k
        /\ SubSeq(q, 1, n) = s /\ SubSeq(q, n + 1, n + k) = fill
    BY <1>3, <2>1, PartsBack DEF n
  <2>3. Len(q) - n = k /\ n \in 0 .. Len(q) /\ Len(q) \in Nat
    BY <1>1, <1>2, <2>2
  <2>4. k > 0 => Len(q) = d.width
    BY <1>2, <2>2
  <2>5. Len(q) >= d.width
    BY <1>2, <2>2
  <2> QED BY <1>3, <1>5, <2>2, <2>3, <2>4, <2>5 DEF n, Field
<1>6. CASE ~d.left
  <2>1. q = fill \o s
    BY <1>4, <1>6
  <2>2. /\ q \in Seq(Nat) /\ Len(q) = k + n
        /\ SubSeq(q, 1, k) = fill /\ SubSeq(q, k + 1, k + n) = s
    <3>1. /\ fill \o s \in Seq(Nat) /\ Len(fill \o s) = Len(fill) + n
          /\ SubSeq(fill \o s, 1, Len(fill)) = fill
          /\ SubSeq(fill \o s, Len(fill) + 1, Len(fill) + n) = s
      BY <1>3, PartsBack DEF n
    <3> QED BY <1>3, <2>1, <3>1
  <2>3. Len(q) - n = k /\ n \in 0 .. Len(q) /\ Len(q) \in Nat /\ k + n = n + k
    BY <1>1, <1>2, <2>2
  <2>4. k > 0 => Len(q) = d.width
    BY <1>2, <2>2, <2>3
  <2>5. Len(q) >= d.width
    BY <1>2, <2>2, <2>3
  <2> QED BY <1>3, <1>6, <2>2, <2>3, <2>4, <2>5 DEF n, Field
<1> QED BY <1>5, <1>6

-----------------------------------------------------------------------------
(***************************************************************************)
(* What an item prints.                                                    *)
(***************************************************************************)
\* The next argument is the next item's.
ArgumentsInStep ==
  /\ \E w \in Workloads : job \in Jobs(w)
  /\ item \in Nat \ {0} /\ ap = ArgumentOf(job.fmt, item)

\* Every directive takes one argument.
LEMMA ArgumentIs ==
  ASSUME NEW fmt, NEW i \in Nat \ {0}
  PROVE  ArgumentOf(fmt, i + 1) =
           IF fmt[i].conv \in Conversions THEN ArgumentOf(fmt, i) + 1 ELSE ArgumentOf(fmt, i)
<1> DEFINE A == {j \in 1 .. i - 1 : fmt[j].conv \in Conversions}
           B == {j \in 1 .. i + 1 - 1 : fmt[j].conv \in Conversions}
<1>1. i \notin A /\ IsFiniteSet(A) /\ Cardinality(A) \in Nat
  <2>1. IsFiniteSet(1 .. i - 1)
    BY FS_Interval
  <2>2. A \subseteq 1 .. i - 1
    OBVIOUS
  <2>3. IsFiniteSet(A)
    BY <2>1, <2>2, FS_Subset
  <2>4. i \notin A
    OBVIOUS
  <2> QED BY <2>3, <2>4, FS_CardinalityType
<1>2. ArgumentOf(fmt, i) = 1 + Cardinality(A) /\ ArgumentOf(fmt, i + 1) = 1 + Cardinality(B)
  BY DEF ArgumentOf
<1>3. CASE fmt[i].conv \in Conversions
  <2>1. B = A \cup {i}
    BY <1>3
  <2> HIDE DEF A, B
  <2>2. Cardinality(A \cup {i}) = Cardinality(A) + 1
    BY <1>1, FS_AddElement
  <2> QED BY <1>1, <1>2, <1>3, <2>1, <2>2
<1>4. CASE fmt[i].conv \notin Conversions
  <2>1. B = A
    BY <1>4
  <2> HIDE DEF A, B
  <2> QED BY <1>1, <1>2, <1>4, <2>1
<1> QED BY <1>3, <1>4

\* Formatting starts at the first item and the first argument.
LEMMA ArgumentsStart ==
  ASSUME ConsoleInit
  PROVE  ArgumentsInStep
<1>1. job \in Jobs(left) /\ left \in Workloads /\ item = 1 /\ ap = 1
  BY DEF ConsoleInit, Init, ScreenInit
<1>2. ArgumentOf(job.fmt, 1) = 1
  <2>1. {j \in 1 .. 1 - 1 : job.fmt[j].conv \in Conversions} = {}
    OBVIOUS
  <2> QED BY <2>1, FS_EmptySet DEF ArgumentOf
<1> QED BY <1>1, <1>2 DEF ArgumentsInStep

\* Items and arguments go on together; what goes on with an item that takes
\* an argument prints that argument.
LEMMA ArgumentsStep ==
  ASSUME ArgumentsInStep, [ConsoleNext]_consoleVars
  PROVE  /\ ArgumentsInStep'
         /\ job' = job
         /\ \/ item' = item
            \/ item' = item + 1 /\ job.fmt[item].conv \notin Conversions
            \/ item' = item + 1 /\ Directs
<1>1. CASE Plain \/ Skips
  <2>1. /\ item' = item + 1 /\ ap' = ap /\ job' = job
        /\ job.fmt[item].conv \notin Conversions
    BY <1>1 DEF Plain, Skips, Emits, Aside, Item, Conversions
  <2>2. ArgumentOf(job.fmt, item + 1) = ArgumentOf(job.fmt, item)
    BY <2>1, ArgumentIs DEF ArgumentsInStep
  <2> QED BY <2>1, <2>2 DEF ArgumentsInStep
<1>2. CASE Directs
  <2>1. /\ item' = item + 1 /\ ap' = ap + 1 /\ job' = job
        /\ job.fmt[item].conv \in Conversions
    BY <1>2 DEF Directs, Emits, Aside, Item
  <2>2. ArgumentOf(job.fmt, item + 1) = ArgumentOf(job.fmt, item) + 1
    BY <2>1, ArgumentIs DEF ArgumentsInStep
  <2> QED BY <2>1, <2>2, <1>2 DEF ArgumentsInStep
<1>3. CASE (Next /\ UNCHANGED fmtVars) \/ PutsOn \/ PutsAt \/ UNCHANGED consoleVars
  <2>1. UNCHANGED <<job, item, ap>>
    BY <1>3 DEF PutsOn, PutsAt, fmtVars, consoleVars
  <2> QED BY <2>1 DEF ArgumentsInStep
<1> QED BY <1>1, <1>2, <1>3 DEF ConsoleNext

\* A directive prints its argument.
LEMMA DirectPrints ==
  ASSUME ArgumentsInStep, Directs, NEW d, d = job.fmt[item], d.conv # "o",
         NEW q, q = queue'
  PROVE  Shows(d, q, job.args[ArgumentOf(job.fmt, item)])
<1> DEFINE arg == job.args[ArgumentOf(job.fmt, item)]
           s == Converted(d.conv, arg)
<1>1. PICK w \in Workloads : job \in Jobs(w)
  BY DEF ArgumentsInStep
<1>2. /\ item \in Nat \ {0} /\ item <= Len(job.fmt) /\ d.conv \in Conversions
      /\ q = Padded(d, s)
  BY DEF ArgumentsInStep, Directs, Item, Emits
<1>3. job.fmt \in Seq(Items)
  BY <1>1, PrinterAssumption
<1>4. item \in DOMAIN job.fmt /\ d \in Items
  BY <1>2, <1>3
<1>5. d.width \in Nat
  BY <1>2, <1>4 DEF Items, Conversions
<1>6. arg \in (CASE d.conv = "c" -> Bytes
                 [] d.conv = "s" -> Seq(Bytes)
                 [] OTHER        -> MinInt .. MaxInt)
  <2>1. \A i \in DOMAIN job.fmt :
          job.fmt[i].conv \in Conversions =>
            job.args[ArgumentOf(job.fmt, i)]
              \in (CASE job.fmt[i].conv = "c" -> Bytes
                     [] job.fmt[i].conv = "s" -> Seq(Bytes)
                     [] OTHER                 -> MinInt .. MaxInt)
    BY <1>1, PrinterAssumption, Zenon
  <2> QED BY <1>2, <1>4, <2>1, Zenon
<1> HIDE DEF arg
<1>7. s \in Seq(Nat) /\ Reads(d.conv, s, arg)
  BY <1>2, <1>6, ConvertedReads
<1> HIDE DEF s
<1> DEFINE n == Len(s)
<1>8. n \in 0 .. Len(q) /\ Field(d, s, q, n)
  BY <1>2, <1>5, <1>7, PaddedIs
<1> HIDE DEF n
<1> QED BY <1>7, <1>8 DEF arg, Field, Shows

\* Every directive of a format but an octal one prints its own argument, for
\* every format, width and fill, every text and every integer of 32 bits: a
\* reader of the field gets the value back.  What %o prints is not
\* its argument (see cvtoct), but it takes one, so the rest are not shifted.
THEOREM ArgumentsPrinted == ConsoleSpec => PrintsArguments
<1>1. ConsoleInit => ArgumentsInStep
  BY ArgumentsStart
<1>2. ArgumentsInStep /\ [ConsoleNext]_consoleVars => ArgumentsInStep'
  BY ArgumentsStep
<1> DEFINE PrintsOne ==
      \A i \in DOMAIN job.fmt :
        Printing(Conversions \ {"o"}, i) =>
          Shows(job.fmt[i], queue', job.args[ArgumentOf(job.fmt, i)])
<1>3. ArgumentsInStep /\ [ConsoleNext]_consoleVars => [PrintsOne]_fmtVars
  <2> SUFFICES ASSUME ArgumentsInStep, [ConsoleNext]_consoleVars,
                      NEW i \in DOMAIN job.fmt, Printing(Conversions \ {"o"}, i)
               PROVE  Shows(job.fmt[i], queue', job.args[ArgumentOf(job.fmt, i)])
    OBVIOUS
  <2>1. i = item /\ item' = item + 1 /\ job.fmt[i].conv \in Conversions
        /\ job.fmt[i].conv # "o"
    BY DEF Printing
  <2>2. Directs
    <3>1. item' # item
      BY <2>1 DEF ArgumentsInStep
    <3> QED BY <2>1, <3>1, ArgumentsStep
  <2> QED BY <2>1, <2>2, DirectPrints
<1> QED BY <1>1, <1>2, <1>3, PTL DEF ConsoleSpec, PrintsArguments

-----------------------------------------------------------------------------
(***************************************************************************)
(* A line printed at a place.                                              *)
(***************************************************************************)
\* Nothing is typed and no process prints while a line is printed at a place.
Undisturbed ==
  \A w \in Workloads : \A j \in Jobs(w) :
    j.at => w.codes = 0 /\ \A p \in Procs : w.prints[p] = 0

Plainly == \A i \in DOMAIN out : ~Erases(out[i]) /\ out[i] # CR

\* The characters that have been written.
Shown == Len(out) - Len(queue)

\* While a line is printed at a place, nothing else happens, and what has
\* been written of it is there.
Alone ==
  /\ left.codes = 0 /\ \A p \in Procs : left.prints[p] = 0
  /\ pc \in [Procs -> {"idle", "poll"}]
  /\ next_char = next_space /\ printers = {}

LinePrefix ==
  /\ Shape(cells) /\ fx \in Nat /\ fy \in Nat
  /\ out \in Seq(Nat) /\ queue \in Seq(Nat) /\ Shown \in Nat
  /\ \A i \in 1 .. Len(queue) : queue[i] = out[Shown + i]
  /\ Plainly =>
       /\ fx = job.x + Shown /\ fy = job.y
       /\ \A y \in 0 .. max_y, x \in 0 .. max_x :
            cells[y][x] = IF y = job.y /\ x - job.x + 1 \in 1 .. Shown
                          THEN out[x - job.x + 1] ELSE Before

AtLine == job.at => Alone /\ LinePrefix

\* What an item comes to is a text.
LEMMA EmittedIs ==
  ASSUME ArgumentsInStep, Plain \/ Directs \/ Skips
  PROVE  \E s \in Seq(Nat) : Emits(s)
<1>1. PICK w \in Workloads : job \in Jobs(w)
  BY DEF ArgumentsInStep
<1>2. job.fmt \in Seq(Items) /\ item \in DOMAIN job.fmt
  <2>1. job.fmt \in Seq(Items)
    BY <1>1, PrinterAssumption
  <2>2. item \in Nat \ {0} /\ item <= Len(job.fmt)
    BY DEF ArgumentsInStep, Plain, Directs, Skips
  <2> QED BY <2>1, <2>2
<1> DEFINE d == job.fmt[item]
<1>3. d \in Items
  BY <1>2
<1>4. CASE Plain
  <2>1. Emits(<<d.ch>>) /\ d.conv = "char"
    BY <1>4 DEF Plain, Item
  <2> HIDE DEF d
  <2>2. d.ch \in Nat
    BY <1>3, <2>1 DEF Items, Bytes
  <2>3. <<d.ch>> \in Seq(Nat)
    BY <2>2
  <2> QED BY <2>1, <2>3
<1>5. CASE Skips
  <2>1. Emits(<<>>)
    BY <1>5 DEF Skips
  <2>2. <<>> \in Seq(Nat)
    OBVIOUS
  <2> QED BY <2>1, <2>2, Zenon
<1>6. CASE Directs
  <2> DEFINE arg == job.args[ArgumentOf(job.fmt, item)]
             s == Converted(d.conv, arg)
             q == Padded(d, s)
  <2>1. Emits(q) /\ d.conv \in Conversions
    BY <1>6 DEF Directs, Item, ArgumentsInStep
  <2>2. arg \in (CASE d.conv = "c" -> Bytes
                   [] d.conv = "s" -> Seq(Bytes)
                   [] OTHER        -> MinInt .. MaxInt)
    <3>1. \A i \in DOMAIN job.fmt :
            job.fmt[i].conv \in Conversions =>
              job.args[ArgumentOf(job.fmt, i)]
                \in (CASE job.fmt[i].conv = "c" -> Bytes
                       [] job.fmt[i].conv = "s" -> Seq(Bytes)
                       [] OTHER                 -> MinInt .. MaxInt)
      BY <1>1, PrinterAssumption, Zenon
    <3> QED BY <1>2, <2>1, <3>1, Zenon
  <2> HIDE DEF arg, d
  <2>3. s \in Seq(Nat)
    BY <2>1, <2>2, ConvertedReads
  <2>4. d.width \in Nat
    BY <1>3, <2>1 DEF Items, Conversions
  <2> HIDE DEF s
  <2>5. q \in Seq(Nat)
    BY <2>3, <2>4, PaddedIs
  <2> QED BY <2>1, <2>5
<1> QED BY <1>4, <1>5, <1>6

\* A line starts with nothing written.
LEMMA LineStarts ==
  ASSUME Undisturbed, ConsoleInit
  PROVE  AtLine
<1>1. /\ job \in Jobs(left) /\ left \in Workloads
      /\ fx = job.x /\ fy = job.y /\ queue = <<>> /\ out = <<>>
      /\ cells = [y \in 0 .. max_y |-> [x \in 0 .. max_x |-> Before]]
      /\ pc = [p \in Procs |-> "idle"] /\ next_char = 0 /\ next_space = 0
      /\ printers = {}
  BY DEF ConsoleInit, Init, ScreenInit
<1>2. job.x \in Nat /\ job.y \in Nat
  BY <1>1, PrinterAssumption
<1>3. Shape(cells) /\ \A y \in 0 .. max_y, x \in 0 .. max_x : cells[y][x] = Before
  BY <1>1 DEF Shape
<1>4. Shown = 0 /\ out \in Seq(Nat) /\ queue \in Seq(Nat) /\ Len(queue) = 0
  BY <1>1 DEF Shown
<1>5. LinePrefix
  BY <1>1, <1>2, <1>3, <1>4 DEF LinePrefix
<1>6. job.at => Alone
  BY <1>1 DEF Alone, Undisturbed
<1> QED BY <1>5, <1>6 DEF AtLine

\* Only the line's own steps happen.
LEMMA AloneStays ==
  ASSUME Alone, job.at, [ConsoleNext]_consoleVars
  PROVE  /\ Alone' /\ job' = job
         /\ \/ UNCHANGED <<cells, fx, fy, queue, out>>
            \/ (Plain \/ Directs \/ Skips) /\ UNCHANGED <<cells, fx, fy>>
            \/ PutsAt
<1> USE Constants
<1>1. CASE Next /\ UNCHANGED fmtVars
  <2>1. ~KeyboardIsr
    BY DEF Alone, KeyboardIsr
  <2>2. ~Fetch /\ ~Take
    BY DEF Alone, Fetch, Take
  <2>3. \A p \in Procs : ~Prints(p)
    <3> SUFFICES ASSUME NEW p \in Procs, Prints(p) PROVE FALSE
      OBVIOUS
    <3>1. pc[p] \in {"idle", "poll"} /\ left.prints[p] = 0
      BY DEF Alone
    <3>2. ~Putc(p)
      BY <3>1 DEF Putc
    <3>3. ~Putchar(p)
      BY <3>1 DEF Putchar, Check, Scroll, Settle, Put, Erase, LoadX, StoreX, Wrap, Home,
                  LoadY, StoreY
    <3> QED BY <3>2, <3>3 DEF Prints
  <2>4. CASE Getchar
    BY <2>4, <1>1 DEF Getchar, Alone, Goto, Stay, keyVars, fmtVars
  <2>5. CASE Poll
    BY <2>5, <1>1 DEF Poll, IsEmpty, Alone, Goto, Stay, keyVars, fmtVars
  <2> QED BY <1>1, <2>1, <2>2, <2>3, <2>4, <2>5 DEF Next
<1>2. CASE Plain \/ Directs \/ Skips
  BY <1>2 DEF Plain, Directs, Skips, Aside, vars, screenVars, keyVars, Alone
<1>3. CASE PutsOn
  BY <1>3 DEF PutsOn
<1>4. CASE PutsAt
  BY <1>4 DEF PutsAt, Alone, keyVars
<1>5. CASE UNCHANGED consoleVars
  BY <1>5 DEF consoleVars, fmtVars, vars, screenVars, keyVars, Alone
<1> QED BY <1>1, <1>2, <1>3, <1>4, <1>5 DEF ConsoleNext

\* An item adds to what is to be written.
LEMMA LineGrows ==
  ASSUME LinePrefix, job' = job, UNCHANGED <<cells, fx, fy>>, queue = <<>>,
         NEW s \in Seq(Nat), queue' = s, out' = out \o s
  PROVE  LinePrefix'
<1> DEFINE n == Len(out)
           m == Len(s)
<1>1. n \in Nat /\ m \in Nat /\ out \in Seq(Nat) /\ Shown = n /\ Len(queue) = 0
  BY LenProperties DEF LinePrefix, Shown
<1>2. /\ out' \in Seq(Nat) /\ Len(out') = n + m
      /\ \A i \in 1 .. n + m : out'[i] = IF i <= n THEN out[i] ELSE s[i - n]
  BY <1>1, ConcatProperties
<1>3. Shown' = n /\ queue' \in Seq(Nat) /\ Len(queue') = m
  BY <1>1, <1>2 DEF Shown
<1>4. (\A i \in 1 .. m : queue'[i] = out'[n + i]) /\ \A i \in 1 .. n : out'[i] = out[i]
  <2> HIDE DEF n, m
  <2>1. ASSUME NEW i \in 1 .. m PROVE s[i] = out'[n + i]
    <3> DEFINE e == n + i
    <3>1. e \in 1 .. n + m /\ ~(e <= n) /\ e - n = i
      BY <1>1
    <3> HIDE DEF e
    <3>2. out'[e] = s[i]
      BY <1>2, <3>1
    <3> QED BY <3>2 DEF e
  <2>2. ASSUME NEW i \in 1 .. n PROVE out'[i] = out[i]
    <3>1. i \in 1 .. n + m /\ i <= n
      BY <1>1
    <3> QED BY <1>2, <3>1
  <2> QED BY <2>1, <2>2
<1>5. Plainly' => Plainly
  <2>1. DOMAIN out = 1 .. n /\ DOMAIN out' = 1 .. n + m
    BY <1>1, <1>2, LenProperties
  <2>2. 1 .. n \subseteq 1 .. n + m
    BY <1>1
  <2> HIDE DEF n, m
  <2> QED BY <1>4, <2>1, <2>2 DEF Plainly
<1>6. Plainly' => /\ fx' = job'.x + Shown' /\ fy' = job'.y
                  /\ \A y \in 0 .. max_y, x \in 0 .. max_x :
                       cells'[y][x] = IF y = job'.y /\ x - job'.x + 1 \in 1 .. Shown'
                                      THEN out'[x - job'.x + 1] ELSE Before
  <2> HAVE Plainly'
  <2>1. /\ fx = job.x + n /\ fy = job.y
        /\ \A y \in 0 .. max_y, x \in 0 .. max_x :
             cells[y][x] = IF y = job.y /\ x - job.x + 1 \in 1 .. n
                           THEN out[x - job.x + 1] ELSE Before
    BY <1>1, <1>5 DEF LinePrefix
  <2> HIDE DEF n
  <2> QED BY <1>3, <1>4, <2>1
<1>7. Shape(cells)' /\ fx' \in Nat /\ fy' \in Nat
  BY DEF LinePrefix, Shape
<1> HIDE DEF n, m
<1> QED BY <1>1, <1>2, <1>3, <1>4, <1>6, <1>7 DEF LinePrefix

\* A character is written behind the others.
LEMMA LineGoesOn ==
  ASSUME LinePrefix, job.x \in Nat, PutsAt
  PROVE  LinePrefix'
<1> DEFINE n == Len(out)
           m == Len(queue)
           c == queue[1]
           k == Shown
<1>1. /\ out' = out /\ job' = job /\ queue' = Tail(queue) /\ queue # <<>>
      /\ cells' = PutcharAt(fx, fy, c) /\ fx' = NewX
      /\ fy' = IF LineEnds /\ c = NL THEN fy + 1 ELSE fy
  BY DEF PutsAt
<1>2. n \in Nat /\ m \in Nat /\ k \in Nat /\ m >= 1 /\ k = n - m /\ k + 1 \in 1 .. n
  <2>1. queue \in Seq(Nat) /\ out \in Seq(Nat) /\ k \in Nat
    BY DEF LinePrefix
  <2>2. n \in Nat /\ m \in Nat /\ m # 0
    BY <1>1, <2>1, LenProperties, EmptySeq
  <2> QED BY <2>1, <2>2 DEF Shown
<1>3. /\ Tail(queue) \in Seq(Nat) /\ Len(Tail(queue)) = m - 1
      /\ \A i \in 1 .. m - 1 : Tail(queue)[i] = queue[i + 1]
  <2>1. queue \in Seq(Nat)
    BY DEF LinePrefix
  <2> QED BY <1>1, <2>1, HeadTailProperties
<1>4. Shown' = k + 1
  BY <1>1, <1>2, <1>3 DEF Shown
<1>5. c = out[k + 1] /\ \A i \in 1 .. m - 1 : queue'[i] = out[k + 1 + i]
  <2>1. \A i \in 1 .. m : queue[i] = out[k + i]
    BY DEF LinePrefix
  <2> HIDE DEF k, m
  <2>2. 1 \in 1 .. m
    BY <1>2
  <2>3. ASSUME NEW i \in 1 .. m - 1 PROVE queue'[i] = out[k + 1 + i]
    <3> DEFINE e == i + 1
    <3>1. e \in 1 .. m /\ k + e = k + 1 + i
      BY <1>2
    <3>2. queue'[i] = queue[e]
      BY <1>1, <1>3
    <3> HIDE DEF e
    <3>3. queue[e] = out[k + e]
      BY <2>1, <3>1
    <3> QED BY <3>1, <3>2, <3>3
  <2> QED BY <2>1, <2>2, <2>3
<1>6. Shape(cells)' /\ fx' \in Nat /\ fy' \in Nat
  <2>1. Shape(cells) /\ fx \in Nat /\ fy \in Nat
    BY DEF LinePrefix
  <2>2. fx' \in Nat /\ fy' \in Nat
    <3>1. scroll_min_x \in Nat
      BY Constants DEF scroll_min_x, bound, max_x
    <3> QED BY <1>1, <2>1, <3>1 DEF NewX
  <2>3. Shape(PutcharAt(fx, fy, c))
    <3> HIDE DEF c
    <3>1. CASE Erases(c)
      BY <3>1 DEF PutcharAt, Shape
    <3>2. CASE ~Erases(c)
      <4>1. PutcharAt(fx, fy, c) = Written(fx, fy, c)
        BY <3>2 DEF PutcharAt
      <4> QED BY <2>1, <4>1 DEF Written, Shape
    <3> QED BY <3>1, <3>2
  <2> HIDE DEF c
  <2> QED BY <1>1, <2>2, <2>3 DEF Shape
<1>7. Plainly' => /\ fx' = job'.x + Shown' /\ fy' = job'.y
                  /\ \A y \in 0 .. max_y, x \in 0 .. max_x :
                       cells'[y][x] = IF y = job'.y /\ x - job'.x + 1 \in 1 .. Shown'
                                      THEN out'[x - job'.x + 1] ELSE Before
  <2> HAVE Plainly'
  <2>1. /\ fx = job.x + k /\ fy = job.y /\ fx \in Nat /\ fy \in Nat /\ Shape(cells)
        /\ \A y \in 0 .. max_y, x \in 0 .. max_x :
             cells[y][x] = IF y = job.y /\ x - job.x + 1 \in 1 .. k
                           THEN out[x - job.x + 1] ELSE Before
    <3>1. Plainly
      BY <1>1 DEF Plainly
    <3> QED BY <3>1 DEF LinePrefix
  <2>2. ~Erases(c) /\ c \notin {NL, CR}
    <3>1. out \in Seq(Nat)
      BY DEF LinePrefix
    <3>2. k + 1 \in DOMAIN out
      BY <1>2, <3>1, LenProperties
    <3> HIDE DEF k, c
    <3>3. ~Erases(c) /\ c # CR
      BY <1>1, <1>5, <3>2 DEF Plainly
    <3>4. Erases(NL)
      BY DEF Erases, NL
    <3> QED BY <3>3, <3>4
  <2>3. ~LineEnds
    BY <2>2 DEF LineEnds
  <2> HIDE DEF c, k, n, m
  <2>4. cells' = Written(fx, fy, c) /\ fx' = fx + 1 /\ fy' = fy
    BY <1>1, <2>2, <2>3 DEF PutcharAt, NewX
  <2>5. max_x \in Nat /\ max_y \in Nat
    BY Constants DEF max_x, max_y
  <2>6. ASSUME NEW y \in 0 .. max_y, NEW x \in 0 .. max_x
        PROVE  cells'[y][x] = IF y = job.y /\ x - job.x + 1 \in 1 .. k + 1
                              THEN out[x - job.x + 1] ELSE Before
    <3> DEFINE i == x - job.x + 1
    <3>1. cells[y][x] = IF y = job.y /\ i \in 1 .. k THEN out[i] ELSE Before
      BY <2>1
    <3>2. i \in Int /\ (x = fx <=> i = k + 1)
      BY <2>1, <1>2, <2>5
    <3>3. cells'[y][x] = IF y = fy /\ x = fx THEN c ELSE cells[y][x]
      <4>1. CASE fx <= max_x /\ fy <= max_y
        <5>1. cells' = [cells EXCEPT ![fy][fx] = c]
          BY <2>4, <4>1 DEF Written
        <5>2. fx \in 0 .. max_x /\ fy \in 0 .. max_y
          BY <2>1, <2>5, <4>1
        <5> QED BY <2>1, <5>1, <5>2 DEF Shape
      <4>2. CASE ~(fx <= max_x /\ fy <= max_y)
        <5>1. cells' = cells
          BY <2>4, <4>2 DEF Written
        <5>2. ~(y = fy /\ x = fx)
          BY <2>5, <4>2
        <5> QED BY <5>1, <5>2
      <4> QED BY <4>1, <4>2
    <3> HIDE DEF i
    <3>4. CASE y = fy /\ i = k + 1
      <4>1. i \in 1 .. k + 1
        BY <1>2, <3>4
      <4> QED BY <1>5, <2>1, <3>2, <3>3, <3>4, <4>1 DEF i
    <3>5. CASE ~(y = fy /\ i = k + 1)
      <4>1. y = fy => (i \in 1 .. k + 1 <=> i \in 1 .. k)
        BY <1>2, <3>2, <3>5
      <4> QED BY <2>1, <3>1, <3>2, <3>3, <3>5, <4>1 DEF i
    <3> QED BY <3>4, <3>5
  <2>7. fx' = job.x + (k + 1)
    BY <1>2, <2>1, <2>4
  <2> QED BY <1>1, <1>4, <2>1, <2>4, <2>6, <2>7
<1>8. out' \in Seq(Nat) /\ queue' \in Seq(Nat) /\ Shown' \in Nat /\ Len(queue') = m - 1
  BY <1>1, <1>2, <1>3, <1>4 DEF LinePrefix
<1> HIDE DEF k, m
<1>9. \A i \in 1 .. Len(queue') : queue'[i] = out'[Shown' + i]
  BY <1>1, <1>4, <1>5, <1>8
<1> QED BY <1>6, <1>7, <1>8, <1>9 DEF LinePrefix

\* A step of a line that is printed at a place.
LEMMA LineStep ==
  ASSUME ArgumentsInStep, AtLine, [ConsoleNext]_consoleVars
  PROVE  AtLine'
<1>1. job' = job
  BY ArgumentsStep
<1> SUFFICES ASSUME job.at PROVE Alone' /\ LinePrefix'
  BY <1>1 DEF AtLine
<1>2. Alone /\ LinePrefix
  BY DEF AtLine
<1>3. Alone'
  BY <1>2, AloneStays
<1>4. CASE UNCHANGED <<cells, fx, fy, queue, out>>
  BY <1>1, <1>2, <1>3, <1>4 DEF LinePrefix, Shape, Shown, Plainly
<1>5. CASE (Plain \/ Directs \/ Skips) /\ UNCHANGED <<cells, fx, fy>>
  <2>1. queue = <<>>
    BY <1>5 DEF Plain, Directs, Skips, Free
  <2>2. PICK s \in Seq(Nat) : Emits(s)
    BY <1>5, EmittedIs
  <2>3. queue' = s /\ out' = out \o s
    BY <2>2 DEF Emits
  <2> QED BY <1>1, <1>2, <1>3, <1>5, <2>1, <2>3, LineGrows
<1>6. CASE PutsAt
  <2>1. job.x \in Nat
    BY PrinterAssumption DEF ArgumentsInStep
  <2> QED BY <1>2, <1>3, <1>6, <2>1, LineGoesOn
<1> QED BY <1>2, <1>3, <1>4, <1>5, <1>6, AloneStays

\* When it is done, the whole line is there.
LEMMA LineIsThere ==
  ASSUME AtLine
  PROVE  AtShowsLine
<1> SUFFICES ASSUME Done, job.at, Plainly,
                    NEW y \in 0 .. max_y, NEW x \in 0 .. max_x
             PROVE  cells[y][x] = IF y = job.y /\ x - job.x + 1 \in DOMAIN out
                                  THEN out[x - job.x + 1] ELSE Before
  BY DEF AtShowsLine, Plainly
<1>1. LinePrefix /\ queue = <<>>
  BY DEF AtLine, Done
<1>2. out \in Seq(Nat) /\ Shown = Len(out) /\ DOMAIN out = 1 .. Len(out)
  <2>1. out \in Seq(Nat)
    BY <1>1 DEF LinePrefix
  <2>2. Len(out) \in Nat /\ DOMAIN out = 1 .. Len(out) /\ Len(queue) = 0
    BY <1>1, <2>1, LenProperties
  <2> QED BY <2>1, <2>2 DEF Shown
<1> QED BY <1>1, <1>2 DEF LinePrefix

\* A line printed at a place starts there and is cut off at the edge of the
\* screen, for every screen, place and format.
THEOREM LineShown ==
  ASSUME Undisturbed
  PROVE  ConsoleSpec => []AtShowsLine
<1>1. ConsoleInit => ArgumentsInStep /\ AtLine
  BY ArgumentsStart, LineStarts
<1>2. ArgumentsInStep /\ AtLine /\ [ConsoleNext]_consoleVars => (ArgumentsInStep /\ AtLine)'
  BY ArgumentsStep, LineStep
<1>3. AtLine => AtShowsLine
  BY LineIsThere
<1> QED BY <1>1, <1>2, <1>3, PTL DEF ConsoleSpec
-----------------------------------------------------------------------------
(***************************************************************************)
(* The text of a process that prints alone.                                *)
(***************************************************************************)
FirstPage == [x |-> 0, y |-> 1,
              lines |-> [i \in 1 .. RegionLines |-> [x \in 0 .. max_x |-> Before]]]

\* The pages that Page goes through: k characters of t give f[k].
TypedTo(f, t, n) ==
  DOMAIN f = 0 .. n /\ \A k \in 0 .. n : f[k] = IF k = 0 THEN FirstPage ELSE Typed(f[k - 1], t[k])

\* There are such pages,
LEMMA TypedExists ==
  ASSUME NEW t, NEW n \in Nat
  PROVE  \E f : TypedTo(f, t, n)
<1> DEFINE S == {k \in Nat : ~ \E f : TypedTo(f, t, k)}
<1> SUFFICES ASSUME S # {} PROVE FALSE
  OBVIOUS
<1>1. PICK k \in S : \A x \in S : k <= x
  <2>1. S \in SUBSET Nat
    OBVIOUS
  <2> HIDE DEF S
  <2> QED BY <2>1, LeastOf
<1>2. k \in Nat /\ ~ \E f : TypedTo(f, t, k)
  OBVIOUS
<1>3. CASE k = 0
  <2>1. TypedTo([j \in 0 .. 0 |-> FirstPage], t, 0)
    BY DEF TypedTo
  <2> QED BY <2>1, <1>2, <1>3
<1>4. CASE k # 0
  <2>1. k - 1 \in Nat /\ k - 1 \notin S
    BY <1>1, <1>2, <1>4
  <2>2. PICK f : TypedTo(f, t, k - 1)
    BY <2>1
  <2> DEFINE g == [j \in 0 .. k |-> IF j = k THEN Typed(f[k - 1], t[k]) ELSE f[j]]
  <2>3. ASSUME NEW j \in 0 .. k
        PROVE  g[j] = IF j = 0 THEN FirstPage ELSE Typed(g[j - 1], t[j])
    <3>1. CASE j = k
      <4>1. k - 1 \in 0 .. k /\ k - 1 # k /\ k \in 0 .. k
        BY <1>2, <1>4
      <4>2. g[k - 1] = f[k - 1] /\ g[k] = Typed(f[k - 1], t[k])
        BY <4>1
      <4> HIDE DEF g
      <4> QED BY <3>1, <4>2, <1>4
    <3>2. CASE j # k
      <4>1. j \in 0 .. k - 1
        BY <1>2, <3>2
      <4>2. j # 0 => j - 1 \in 0 .. k /\ j - 1 # k
        BY <1>2, <4>1
      <4>3. f[j] = IF j = 0 THEN FirstPage ELSE Typed(f[j - 1], t[j])
        BY <2>2, <4>1 DEF TypedTo
      <4> QED BY <3>2, <4>2, <4>3
    <3> QED BY <3>1, <3>2
  <2>4. TypedTo(g, t, k)
    BY <2>3 DEF TypedTo
  <2> QED BY <2>4, <1>2
<1> QED BY <1>3, <1>4

\* and texts that begin alike have them in common.
LEMMA TypedAgrees ==
  ASSUME NEW s, NEW t, NEW n \in Nat, NEW m \in Nat, NEW f, NEW g,
         TypedTo(f, s, n), TypedTo(g, t, m),
         n <= m, \A k \in 1 .. n : s[k] = t[k]
  PROVE  f[n] = g[n]
<1> DEFINE S == {k \in 0 .. n : f[k] # g[k]}
<1> SUFFICES ASSUME S # {} PROVE FALSE
  OBVIOUS
<1>1. PICK k \in S : \A x \in S : k <= x
  <2>1. S \in SUBSET Nat
    OBVIOUS
  <2> HIDE DEF S
  <2> QED BY <2>1, LeastOf
<1>2. k \in 0 .. n /\ f[k] # g[k]
  OBVIOUS
<1>3. /\ f[k] = IF k = 0 THEN FirstPage ELSE Typed(f[k - 1], s[k])
      /\ g[k] = IF k = 0 THEN FirstPage ELSE Typed(g[k - 1], t[k])
  BY <1>2 DEF TypedTo
<1>4. k # 0 => k - 1 \in 0 .. n /\ k - 1 \notin S
  BY <1>1, <1>2
<1>5. k # 0 => f[k - 1] = g[k - 1] /\ s[k] = t[k]
  BY <1>2, <1>4
<1> QED BY <1>2, <1>3, <1>5

\* Page gives the last of them.
LEMMA PageIs ==
  ASSUME NEW t, Len(t) \in Nat
  PROVE  \E f : TypedTo(f, t, Len(t)) /\ Page(t) = f[Len(t)]
<1> DEFINE L == Len(t)
           Is(f) == f = [k \in 0 .. L |-> IF k = 0 THEN FirstPage ELSE Typed(f[k - 1], t[k])]
           F == CHOOSE f : Is(f)
<1>1. L \in Nat
  OBVIOUS
<1>2. \A f : TypedTo(f, t, L) /\ f = [k \in 0 .. L |-> f[k]] => Is(f)
  <2> SUFFICES ASSUME NEW f, TypedTo(f, t, L), f = [k \in 0 .. L |-> f[k]] PROVE Is(f)
    OBVIOUS
  <2>1. \A k \in 0 .. L : f[k] = IF k = 0 THEN FirstPage ELSE Typed(f[k - 1], t[k])
    BY DEF TypedTo
  <2> HIDE DEF L
  <2> QED BY <2>1, Zenon
<1>3. PICK f : TypedTo(f, t, L)
  BY <1>1, TypedExists
<1> DEFINE g == [k \in 0 .. L |-> f[k]]
<1>4. TypedTo(g, t, L) /\ g = [k \in 0 .. L |-> g[k]]
  <2>1. \A k \in 0 .. L : g[k] = f[k] /\ (k # 0 => g[k - 1] = f[k - 1])
    BY <1>1
  <2>2. DOMAIN g = 0 .. L
    OBVIOUS
  <2>3. \A k \in 0 .. L : f[k] = IF k = 0 THEN FirstPage ELSE Typed(f[k - 1], t[k])
    BY <1>3 DEF TypedTo
  <2>4. g = [k \in 0 .. L |-> g[k]]
    OBVIOUS
  <2> HIDE DEF g
  <2>5. \A k \in 0 .. L : g[k] = IF k = 0 THEN FirstPage ELSE Typed(g[k - 1], t[k])
    BY <2>1, <2>3
  <2> QED BY <2>2, <2>4, <2>5 DEF TypedTo
<1>5. Is(F)
  <2>1. Is(g)
    <3> HIDE DEF g, Is
    <3> QED BY <1>2, <1>4
  <2> HIDE DEF Is
  <2> QED BY <2>1, Zenon
<1>6. Page(t) = F[L]
  BY Zenon DEF Page, FirstPage
<1>7. TypedTo(F, t, L)
  <2> HIDE DEF F
  <2> QED BY <1>1, <1>5 DEF TypedTo
<1> QED BY <1>6, <1>7

\* An empty page.
LEMMA PageStarts ==
  Page(<<>>) = FirstPage
<1>1. Len(<<>>) = 0
  OBVIOUS
<1>2. PICK f : TypedTo(f, <<>>, 0) /\ Page(<<>>) = f[0]
  BY <1>1, PageIs
<1> QED BY <1>2 DEF TypedTo

\* A character more is typed behind the others.
LEMMA PageGrows ==
  ASSUME NEW S, NEW t \in Seq(S), NEW c
  PROVE  Page(Append(t, c)) = Typed(Page(t), c)
<1> DEFINE u == Append(t, c)
           n == Len(t)
           m == n + 1
<1>1. n \in Nat /\ Len(u) = m /\ u[m] = c /\ \A k \in 1 .. n : t[k] = u[k]
  OBVIOUS
<1> HIDE DEF u
<1>2. PICK f : TypedTo(f, t, n) /\ Page(t) = f[n]
  BY <1>1, PageIs
<1>3. PICK g : TypedTo(g, u, m) /\ Page(u) = g[m]
  BY <1>1, PageIs
<1>4. n \in Nat /\ m \in Nat /\ n <= m /\ m # 0 /\ m - 1 = n /\ m \in 0 .. m
  BY <1>1
<1> HIDE DEF n, m
<1>5. f[n] = g[n]
  BY <1>1, <1>2, <1>3, <1>4, TypedAgrees
<1>6. g[m] = Typed(g[n], c)
  BY <1>1, <1>3, <1>4 DEF TypedTo
<1> QED BY <1>2, <1>3, <1>5, <1>6 DEF u

\* A page as far as typing goes: the cursor is on a line or, at its start,
\* below the last one, and not above the lines that a screen shows.
WholeLine(l) == l = [x \in 0 .. max_x |-> l[x]]
PageOk(s) ==
  /\ \E S : s.lines \in Seq(S)
  /\ \A k \in 1 .. Len(s.lines) : WholeLine(s.lines[k])
  /\ s.x \in 0 .. max_x /\ s.y \in Nat
  /\ Len(s.lines) >= RegionLines
  /\ s.y > Len(s.lines) - RegionLines /\ s.y <= Len(s.lines) + 1
  /\ s.y = Len(s.lines) + 1 => s.x = 0

\* Its last lines, the row of these that the cursor is on, and the row on
\* which the next character goes.
Window(s, i, j) == s.lines[Len(s.lines) - RegionLines + i][j]
Row(s)          == s.y - (Len(s.lines) - RegionLines)
NextRow(s)      == IF s.y <= Len(s.lines) THEN Row(s) ELSE RegionLines

\* The screen with that line in sight, before and while c is printed: its
\* columns below k are done.
Sight(s, i, j) ==
  IF s.y <= Len(s.lines) THEN Window(s, i, j)
  ELSE IF i < RegionLines THEN Window(s, i + 1, j) ELSE Blank
Partly(s, c, k, i, j) ==
  IF i = NextRow(s) /\ c = NL /\ s.x <= j /\ j < k THEN Blank
  ELSE IF i = NextRow(s) /\ c \notin {NL, CR} /\ j = s.x /\ j < k THEN c
  ELSE Sight(s, i, j)

Ends(s, c) == c = NL \/ (c # CR /\ s.x = max_x)

\* L with the line l at y.
WithLine(L, y, l) == SubSeq(L, 1, y - 1) \o <<l>> \o SubSeq(L, y + 1, Len(L))

\* One line of a page is replaced, or one is added.
LEMMA Replaced ==
  ASSUME NEW S, NEW L \in Seq(S), NEW y \in 1 .. Len(L) + 1, NEW l
  PROVE  /\ \E T : WithLine(L, y, l) \in Seq(T)
         /\ Len(WithLine(L, y, l)) = IF y <= Len(L) THEN Len(L) ELSE y
         /\ \A k \in 1 .. Len(WithLine(L, y, l)) :
              WithLine(L, y, l)[k] = IF k = y THEN l ELSE L[k]
<1> DEFINE n == Len(L)
           T == S \cup {l}
           A == SubSeq(L, 1, y - 1)
           B == SubSeq(L, y + 1, n)
           C == A \o <<l>>
           M == WithLine(L, y, l)
<1>1. n \in Nat /\ y \in Nat /\ y >= 1 /\ y <= n + 1 /\ L \in Seq(T)
  <2>1. n \in Nat
    BY LenProperties
  <2>2. L \in Seq(T)
    OBVIOUS
  <2> QED BY <2>1, <2>2
<1>2. A \in Seq(T) /\ Len(A) = y - 1 /\ \A k \in 1 .. y - 1 : A[k] = L[k]
  <2>1. 1 \in 1 .. n + 1 /\ y - 1 \in 0 .. n /\ 1 <= n + 1
    BY <1>1
  <2>2. \A k \in 1 .. y - 1 : k \in 1 .. n
    BY <1>1
  <2> HIDE DEF n, T
  <2> QED BY <1>1, <2>1, <2>2 DEF n
<1>3. B \in Seq(T) /\ Len(B) = (IF y <= n THEN n - y ELSE 0)
      /\ \A k \in 1 .. Len(B) : B[k] = L[y + k]
  <2> HIDE DEF T
  <2> QED BY <1>1
<1>9. M = C \o B
  BY DEF WithLine
<1> HIDE DEF A, B, T, M
<1>4. C \in Seq(T) /\ Len(C) = y /\ \A k \in 1 .. y : C[k] = IF k = y THEN l ELSE L[k]
  <2>1. <<l>> \in Seq(T) /\ Len(<<l>>) = 1
    BY DEF T
  <2>2. C \in Seq(T) /\ Len(C) = y - 1 + 1
        /\ \A k \in 1 .. y - 1 + 1 : C[k] = IF k <= y - 1 THEN A[k] ELSE <<l>>[k - (y - 1)]
    BY <1>2, <2>1, ConcatProperties
  <2> HIDE DEF C
  <2>3. ASSUME NEW k \in 1 .. y PROVE C[k] = IF k = y THEN l ELSE L[k]
    <3>1. k \in 1 .. y - 1 + 1 /\ (k <= y - 1 <=> k # y)
      BY <1>1
    <3>2. C[k] = IF k <= y - 1 THEN A[k] ELSE <<l>>[k - (y - 1)]
      BY <2>2, <3>1
    <3>3. CASE k = y
      <4>1. k - (y - 1) = 1 /\ ~(k <= y - 1)
        BY <1>1, <3>3
      <4>2. C[k] = <<l>>[1]
        BY <3>2, <4>1
      <4> QED BY <3>3, <4>2
    <3>4. CASE k # y
      <4>1. k \in 1 .. y - 1 /\ k <= y - 1
        BY <1>1, <3>4
      <4> QED BY <1>2, <3>2, <3>4, <4>1
    <3> QED BY <3>3, <3>4
  <2> QED BY <1>1, <2>2, <2>3
<1> HIDE DEF C
<1>5. M \in Seq(T) /\ Len(M) = y + Len(B)
      /\ \A k \in 1 .. y + Len(B) : M[k] = IF k <= y THEN C[k] ELSE B[k - y]
  <2>1. C \in Seq(T) /\ B \in Seq(T) /\ Len(C) = y
    BY <1>3, <1>4
  <2>2. C \o B \in Seq(T) /\ Len(C \o B) = Len(C) + Len(B)
        /\ \A k \in 1 .. Len(C) + Len(B) :
             (C \o B)[k] = IF k <= Len(C) THEN C[k] ELSE B[k - Len(C)]
    BY <2>1, ConcatProperties
  <2> QED BY <1>9, <2>1, <2>2
<1>7. Len(M) = IF y <= n THEN n ELSE y
  BY <1>1, <1>3, <1>5
<1>8. ASSUME NEW k \in 1 .. Len(M) PROVE M[k] = IF k = y THEN l ELSE L[k]
  <2>1. k \in 1 .. y + Len(B) /\ Len(B) \in Nat
    BY <1>1, <1>3, <1>5, <1>7
  <2>2. CASE k <= y
    <3>1. k \in 1 .. y
      BY <2>2
    <3> QED BY <1>4, <1>5, <2>1, <2>2, <3>1
  <2>3. CASE k > y
    <3> DEFINE e == k - y
    <3>1. e \in 1 .. Len(B) /\ y + e = k
      BY <1>1, <2>1, <2>3
    <3>2. M[k] = B[e]
      BY <1>5, <2>1, <2>3
    <3> HIDE DEF e
    <3>3. B[e] = L[k]
      BY <1>3, <3>1
    <3> QED BY <2>3, <3>2, <3>3, <1>1
  <2> QED BY <1>1, <2>2, <2>3
<1> QED BY <1>5, <1>7, <1>8 DEF M

\* The region, in lines.
LEMMA RegionSize ==
  ASSUME ScreenFits
  PROVE  /\ RegionLines \in Nat \ {0} /\ max_x \in Nat /\ scroll_min_y \in Nat
         /\ scroll_min_x = 0 /\ scroll_max_x = max_x /\ scroll_max_y = max_y
         /\ max_y = scroll_min_y + RegionLines - 1
<1>1. RegionLines = 1 + max_y - scroll_min_y
  BY RegionIs DEF RegionLines
<1> QED BY <1>1, RegionIs

\* Typing a character, as a screen shows it.
LEMMA TypedIs ==
  ASSUME ScreenFits, NEW s, PageOk(s), NEW c
  PROVE  LET t == Typed(s, c)
         IN  /\ PageOk(t)
             /\ Row(t) = NextRow(s) + (IF Ends(s, c) THEN 1 ELSE 0)
             /\ t.x = IF Ends(s, c) \/ c = CR THEN 0 ELSE s.x + 1
             /\ \A i \in 1 .. RegionLines, j \in 0 .. max_x :
                  Window(t, i, j) = Partly(s, c, max_x + 1, i, j)
<1> DEFINE R == RegionLines
           L == s.lines
           n == Len(L)
           y == s.y
           old == IF y > n THEN [x \in 0 .. max_x |-> Blank] ELSE L[y]
           line == [x \in 0 .. max_x |-> CASE c = NL /\ x >= s.x -> Blank
                                           [] c \notin {NL, CR} /\ x = s.x -> c
                                           [] OTHER -> old[x]]
           M == WithLine(L, y, line)
           t == Typed(s, c)
<1>1. R \in Nat \ {0} /\ max_x \in Nat
  BY RegionSize
<1>2. n \in Nat /\ y \in Nat /\ y <= n + 1 /\ n >= R /\ y > n - R /\ s.x \in Nat /\ s.x <= max_x
      /\ (y = n + 1 => s.x = 0)
  BY <1>1, LenProperties DEF PageOk
<1>3. /\ t.x = IF Ends(s, c) \/ c = CR THEN 0 ELSE s.x + 1
      /\ t.y = IF Ends(s, c) THEN y + 1 ELSE y
      /\ t.lines = M
  BY Zenon DEF Typed, Ends, WithLine
<1> HIDE DEF t, line
<1>4. /\ \E T : M \in Seq(T)
      /\ Len(M) = IF y <= n THEN n ELSE y
      /\ \A k \in 1 .. Len(M) : M[k] = IF k = y THEN line ELSE L[k]
  <2>1. PICK S : L \in Seq(S)
    BY DEF PageOk
  <2>2. y \in 1 .. Len(L) + 1
    BY <1>1, <1>2
  <2> HIDE DEF y, L, old
  <2>3. \E T : M \in Seq(T)
    BY <2>1, <2>2, Replaced
  <2>4. Len(M) = IF y <= n THEN n ELSE y
    BY <2>1, <2>2, Replaced
  <2>5. \A k \in 1 .. Len(M) : M[k] = IF k = y THEN line ELSE L[k]
    BY <2>1, <2>2, Replaced
  <2> QED BY <2>3, <2>4, <2>5
<1> HIDE DEF M
<1> DEFINE m == Len(M)
<1>5. m \in Nat /\ m >= n /\ m = (IF y <= n THEN n ELSE n + 1) /\ y <= m /\ Len(t.lines) = m
  BY <1>2, <1>3, <1>4
<1>6. \A k \in 1 .. m : WholeLine(M[k])
  <2> SUFFICES ASSUME NEW k \in 1 .. m PROVE WholeLine(M[k])
    OBVIOUS
  <2>1. CASE k = y
    <3>1. M[k] = line
      BY <1>4, <2>1
    <3>2. WholeLine(line)
      BY DEF line, WholeLine
    <3> QED BY <3>1, <3>2
  <2>2. CASE k # y
    <3>1. M[k] = L[k] /\ k \in 1 .. n
      BY <1>2, <1>4, <1>5, <2>2
    <3> QED BY <3>1 DEF PageOk
  <2> QED BY <2>1, <2>2
<1>7. t.x \in 0 .. max_x
  BY <1>1, <1>2, <1>3 DEF Ends
<1>8. PageOk(t)
  <2>1. \E S : t.lines \in Seq(S)
    BY <1>3, <1>4
  <2>2. \A k \in 1 .. Len(t.lines) : WholeLine(t.lines[k])
    BY <1>3, <1>5, <1>6
  <2>3. t.y \in Nat /\ m >= R /\ t.y > m - R /\ t.y <= m + 1 /\ (t.y = m + 1 => t.x = 0)
    BY <1>1, <1>2, <1>3, <1>5
  <2> QED BY <1>5, <1>7, <2>1, <2>2, <2>3 DEF PageOk
<1>9. Row(t) = NextRow(s) + (IF Ends(s, c) THEN 1 ELSE 0)
  BY <1>1, <1>2, <1>3, <1>5 DEF Row, NextRow
<1>10. ASSUME NEW i \in 1 .. R, NEW j \in 0 .. max_x
       PROVE  Window(t, i, j) = Partly(s, c, max_x + 1, i, j)
  <2> DEFINE k == m - R + i
  <2>1. k \in 1 .. m /\ (k = y <=> i = NextRow(s)) /\ j \in Int /\ j < max_x + 1
    <3>1. NextRow(s) = IF y <= n THEN y - (n - R) ELSE R
      BY DEF NextRow, Row
    <3>2. j \in Int /\ j < max_x + 1
      BY <1>1
    <3> HIDE DEF m, n, y, R
    <3>3. k \in 1 .. m
      BY <1>1, <1>2, <1>5
    <3>4. k = y <=> i = NextRow(s)
      BY <1>1, <1>2, <1>5, <3>1
    <3> QED BY <3>2, <3>3, <3>4
  <2>2. Window(t, i, j) = IF k = y THEN line[j] ELSE L[k][j]
    BY <1>3, <1>4, <1>5, <2>1 DEF Window
  <2>3. k # y => L[k][j] = Sight(s, i, j)
    <3>1. CASE y <= n
      BY <1>5, <3>1 DEF Sight, Window
    <3>2. CASE y = n + 1
      <4>1. k = n - R + (i + 1)
        <5>1. m = n + 1
          BY <1>2, <1>5, <3>2
        <5> HIDE DEF n, m, R
        <5> QED BY <1>1, <1>2, <5>1
      <4>2. k # y => i < R
        BY <1>1, <1>2, <1>5, <3>2, <4>1
      <4> HIDE DEF k
      <4> QED BY <3>2, <4>1, <4>2, <1>2 DEF Sight, Window
    <3> QED BY <1>2, <3>1, <3>2
  <2>4. k = y => old[j] = Sight(s, i, j)
    <3>1. CASE y <= n
      <4> QED BY <1>2, <1>5, <3>1 DEF Sight, Window
    <3>2. CASE y = n + 1
      <4>1. k = y => ~(i < R)
        BY <1>1, <1>2, <1>5, <3>2
      <4> QED BY <3>2, <4>1, <1>2 DEF Sight
    <3> QED BY <1>2, <3>1, <3>2
  <2> HIDE DEF k, old
  <2>5. line[j] = IF c = NL /\ s.x <= j THEN Blank
                  ELSE IF c \notin {NL, CR} /\ j = s.x THEN c ELSE old[j]
    <3>1. j >= s.x <=> s.x <= j
      BY <1>2, <2>1
    <3> QED BY <3>1, <2>1 DEF line, NL, CR
  <2> QED BY <2>1, <2>2, <2>3, <2>4, <2>5 DEF Partly
<1> QED BY <1>3, <1>8, <1>9, <1>10 DEF t

\* The screen v shows the end of the page s, or a character being typed.
ShowsWindow(v, s) ==
  \A i \in 1 .. RegionLines, j \in 0 .. max_x : v[scroll_min_y + i - 1][j] = Window(s, i, j)
ShowsPartly(v, s, c, k) ==
  \A i \in 1 .. RegionLines, j \in 0 .. max_x :
    v[scroll_min_y + i - 1][j] = Partly(s, c, k, i, j)

\* What there is on the screen v at each place l of c_putchar(c), with the
\* cursor at x and y and z loaded from it, when s has been typed.
Away == {"idle", "poll", "fetch", "take"}
Stage(l, v, x, y, z, s, c) ==
  /\ l \in Away \cup {"check", "scroll"} =>
       ShowsWindow(v, s) /\ x = s.x /\ y = scroll_min_y + Row(s) - 1
  /\ l = "scroll" => s.y = Len(s.lines) + 1
  /\ l = "settle" => ShowsPartly(v, s, c, s.x) /\ x = s.x /\ s.y = Len(s.lines) + 1
  /\ l \in {"put", "erase", "load_x", "store_x", "wrap", "home", "load_y", "store_y"} =>
       y = scroll_min_y + NextRow(s) - 1
  /\ l = "put" => c \notin {NL, CR} /\ x = s.x /\ ShowsPartly(v, s, c, x)
  /\ l = "erase" =>
       c = NL /\ x \in Nat /\ s.x <= x /\ x <= max_x + 1 /\ ShowsPartly(v, s, c, x)
  /\ l \in {"load_x", "store_x"} =>
       /\ c # CR /\ x \in Nat /\ s.x <= x /\ x <= max_x /\ (c # NL => x = s.x)
       /\ ShowsPartly(v, s, c, x + 1)
  /\ l = "store_x" => z = x
  /\ l = "wrap" => c \notin {NL, CR} /\ x = s.x + 1 /\ ShowsPartly(v, s, c, x)
  /\ l = "home" => (c # CR => Ends(s, c)) /\ ShowsPartly(v, s, c, max_x + 1)
  /\ l \in {"load_y", "store_y"} =>
       c # CR /\ Ends(s, c) /\ x = 0 /\ ShowsPartly(v, s, c, max_x + 1)
  /\ l = "store_y" => z = y

WholeRows(v) == \A y \in 0 .. max_y : WholeLine(v[y])

\* The numbers of a page.
LEMMA PageNumbers ==
  ASSUME ScreenFits, NEW s, PageOk(s)
  PROVE  /\ Len(s.lines) \in Nat /\ s.y \in Nat /\ s.x \in Nat /\ s.x <= max_x
         /\ Row(s) \in 1 .. RegionLines + 1 /\ NextRow(s) \in 1 .. RegionLines
         /\ Row(s) = RegionLines + 1 <=> s.y = Len(s.lines) + 1
         /\ s.y <= Len(s.lines) => NextRow(s) = Row(s)
         /\ s.y = Len(s.lines) + 1 => NextRow(s) = RegionLines /\ s.x = 0
<1>1. RegionLines \in Nat \ {0} /\ max_x \in Nat
  BY RegionSize
<1>2. Len(s.lines) \in Nat /\ s.y \in Nat /\ s.y <= Len(s.lines) + 1
      /\ Len(s.lines) >= RegionLines /\ s.y > Len(s.lines) - RegionLines /\ s.x \in 0 .. max_x
      /\ (s.y = Len(s.lines) + 1 => s.x = 0)
  BY LenProperties DEF PageOk
<1> QED BY <1>1, <1>2 DEF Row, NextRow

\* Before the character, or a carriage return, changes anything.
LEMMA NothingYet ==
  ASSUME ScreenFits, NEW s, PageOk(s), NEW c, NEW v
  PROVE  /\ s.y <= Len(s.lines) /\ ShowsWindow(v, s) => ShowsPartly(v, s, c, s.x)
         /\ c = CR /\ ShowsPartly(v, s, c, s.x) => ShowsPartly(v, s, c, max_x + 1)
         /\ c \notin {NL, CR} /\ ShowsPartly(v, s, c, s.x + 1) => ShowsPartly(v, s, c, max_x + 1)
<1>1. s.x \in Nat /\ max_x \in Nat /\ s.x <= max_x
  BY PageNumbers, RegionSize
<1>2. ASSUME NEW i, NEW j \in 0 .. max_x
      PROVE  /\ s.y <= Len(s.lines) => Partly(s, c, s.x, i, j) = Window(s, i, j)
             /\ c = CR => Partly(s, c, s.x, i, j) = Partly(s, c, max_x + 1, i, j)
             /\ c \notin {NL, CR} =>
                  Partly(s, c, s.x + 1, i, j) = Partly(s, c, max_x + 1, i, j)
  <2>1. ~(s.x <= j /\ j < s.x) /\ ~(j = s.x /\ j < s.x)
    BY <1>1
  <2>2. j = s.x => j < s.x + 1 /\ j < max_x + 1
    BY <1>1
  <2>3. CR # NL
    BY DEF CR, NL
  <2> QED BY <2>1, <2>2, <2>3 DEF Partly, Sight
<1> QED BY <1>2 DEF ShowsWindow, ShowsPartly

\* Writing on the line.
LEMMA WrittenShows ==
  ASSUME ScreenFits, Shape(cells), WholeRows(cells), NEW n \in 1 .. RegionLines,
         NEW x \in 0 .. max_x, NEW d, NEW v, v = Written(x, scroll_min_y + n - 1, d)
  PROVE  /\ WholeRows(v)
         /\ \A i \in 1 .. RegionLines, j \in 0 .. max_x :
              v[scroll_min_y + i - 1][j] = IF i = n /\ j = x THEN d
                                           ELSE cells[scroll_min_y + i - 1][j]
<1> DEFINE y == scroll_min_y + n - 1
<1>1. /\ RegionLines \in Nat \ {0} /\ max_x \in Nat /\ scroll_min_y \in Nat
      /\ max_y = scroll_min_y + RegionLines - 1
  BY RegionSize
<1>2. y \in 0 .. max_y /\ y <= max_y /\ x <= max_x
  BY <1>1
<1> DEFINE row == [cells[y] EXCEPT ![x] = d]
           w   == [cells EXCEPT ![y] = row]
<1>3. v = w
  BY <1>2 DEF Written
<1>4. row = [k \in 0 .. max_x |-> IF k = x THEN d ELSE cells[y][k]]
  <2>1. WholeLine(cells[y])
    BY <1>2 DEF WholeRows
  <2> QED BY <2>1 DEF WholeLine
<1>5. WholeLine(row) /\ \A k \in 0 .. max_x : row[k] = IF k = x THEN d ELSE cells[y][k]
  <2> HIDE DEF row
  <2> QED BY <1>4 DEF WholeLine
<1> HIDE DEF row
<1>6. w[y] = row /\ \A r \in 0 .. max_y : r # y => w[r] = cells[r]
  BY <1>2 DEF Shape
<1> HIDE DEF w
<1>7. WholeRows(v)
  BY <1>3, <1>5, <1>6 DEF WholeRows
<1>8. ASSUME NEW i \in 1 .. RegionLines, NEW j \in 0 .. max_x
      PROVE  v[scroll_min_y + i - 1][j] = IF i = n /\ j = x THEN d
                                          ELSE cells[scroll_min_y + i - 1][j]
  <2> DEFINE r == scroll_min_y + i - 1
  <2>1. r \in 0 .. max_y /\ (r = y <=> i = n)
    BY <1>1
  <2> HIDE DEF r, y
  <2>2. CASE i = n
    BY <1>3, <1>5, <1>6, <2>1, <2>2 DEF r
  <2>3. CASE i # n
    BY <1>3, <1>6, <2>1, <2>3 DEF r
  <2> QED BY <2>2, <2>3
<1> QED BY <1>7, <1>8

\* c_scroll, when the cursor is below the last line.
LEMMA ScrolledShows ==
  ASSUME ScreenFits, NEW s, PageOk(s), s.y = Len(s.lines) + 1, ShowsWindow(cells, s), NEW c,
         NEW v, \/ v = Scrolled(1) /\ RegionLines > 1
                \/ v = Cleared /\ RegionLines = 1
  PROVE  ShowsPartly(v, s, c, s.x)
<1>1. /\ RegionLines \in Nat \ {0} /\ max_x \in Nat /\ scroll_min_y \in Nat
      /\ max_y = scroll_min_y + RegionLines - 1 /\ scroll_max_y = max_y
      /\ scroll_min_x = 0 /\ scroll_max_x = max_x
  BY RegionSize
<1>2. s.x = 0 /\ ~(s.y <= Len(s.lines))
  BY PageNumbers
<1> SUFFICES ASSUME NEW i \in 1 .. RegionLines, NEW j \in 0 .. max_x
             PROVE  v[scroll_min_y + i - 1][j] = Partly(s, c, s.x, i, j)
  BY DEF ShowsPartly
<1>3. Partly(s, c, s.x, i, j) = IF i < RegionLines THEN Window(s, i + 1, j) ELSE Blank
  <2>1. ~(j < s.x)
    BY <1>1, <1>2
  <2> QED BY <1>2, <2>1 DEF Partly, Sight
<1> DEFINE r == scroll_min_y + i - 1
<1>4. r \in 0 .. max_y /\ InRegion(j, r) /\ (i < RegionLines <=> r + 1 <= scroll_max_y)
  BY <1>1 DEF InRegion
<1>5. CASE v = Scrolled(1)
  <2>1. v[r][j] = IF r + 1 <= scroll_max_y THEN cells[r + 1][j] ELSE Blank
    <3> HIDE DEF r
    <3> QED BY <1>4, <1>5 DEF Scrolled
  <2>2. CASE i < RegionLines
    <3>1. i + 1 \in 1 .. RegionLines /\ r + 1 = scroll_min_y + (i + 1) - 1
      BY <1>1, <2>2
    <3>2. cells[scroll_min_y + (i + 1) - 1][j] = Window(s, i + 1, j)
      BY <3>1 DEF ShowsWindow
    <3> HIDE DEF r
    <3>3. v[r][j] = Window(s, i + 1, j)
      BY <1>4, <2>1, <2>2, <3>1, <3>2
    <3> QED BY <1>3, <2>2, <3>3 DEF r
  <2>3. CASE ~(i < RegionLines)
    <3> HIDE DEF r
    <3>1. v[r][j] = Blank
      BY <1>4, <2>1, <2>3
    <3> QED BY <1>3, <2>3, <3>1 DEF r
  <2> QED BY <2>2, <2>3
<1>6. CASE v = Cleared /\ RegionLines = 1
  <2> HIDE DEF r
  <2>1. v[r][j] = Blank
    BY <1>4, <1>6 DEF Cleared
  <2>2. ~(i < RegionLines)
    BY <1>6
  <2> QED BY <1>3, <2>1, <2>2 DEF r
<1> QED BY <1>5, <1>6

\* A character has been typed when its line is done.
LEMMA TypedShows ==
  ASSUME ScreenFits, NEW s, PageOk(s), NEW c, NEW v, ShowsPartly(v, s, c, max_x + 1),
         NEW x, NEW y, NEW z,
         x = IF Ends(s, c) \/ c = CR THEN 0 ELSE s.x + 1,
         y = scroll_min_y + NextRow(s) - 1 + IF Ends(s, c) THEN 1 ELSE 0
  PROVE  Stage("idle", v, x, y, z, Typed(s, c), c)
<1> DEFINE t == Typed(s, c)
<1>1. /\ Row(t) = NextRow(s) + (IF Ends(s, c) THEN 1 ELSE 0)
      /\ t.x = IF Ends(s, c) \/ c = CR THEN 0 ELSE s.x + 1
      /\ \A i \in 1 .. RegionLines, j \in 0 .. max_x :
           Window(t, i, j) = Partly(s, c, max_x + 1, i, j)
  BY TypedIs
<1> HIDE DEF t
<1>2. ShowsWindow(v, t)
  BY <1>1 DEF ShowsWindow, ShowsPartly
<1>3. NextRow(s) \in Nat /\ scroll_min_y \in Nat
  BY PageNumbers, RegionSize
<1>4. y = scroll_min_y + Row(t) - 1
  BY <1>1, <1>3
<1>5. Stage("idle", v, x, y, z, t, c)
  BY <1>1, <1>2, <1>4 DEF Stage, Away
<1> QED BY <1>5 DEF t

\* The switch.
LEMMA CaseShows ==
  ASSUME ScreenFits, NEW s, PageOk(s), NEW c, NEW v, ShowsPartly(v, s, c, s.x), NEW z,
         NEW y, y = scroll_min_y + NextRow(s) - 1
  PROVE  Stage(Case(c), v, s.x, y, z, s, c)
<1>1. s.x \in Nat /\ max_x \in Nat /\ s.x <= max_x + 1
  BY PageNumbers, RegionSize
<1>2. CASE c = NL
  <2>1. Case(c) = "erase"
    BY <1>2 DEF Case
  <2> QED BY <1>1, <1>2, <2>1 DEF Stage, Away
<1>3. CASE c = CR
  <2>1. Case(c) = "home"
    BY <1>3 DEF Case, NL, CR
  <2>2. ShowsPartly(v, s, c, max_x + 1)
    BY <1>3, NothingYet
  <2> QED BY <1>1, <1>3, <2>1, <2>2 DEF Stage, Away
<1>4. CASE c \notin {NL, CR}
  <2>1. Case(c) = "put"
    BY <1>4 DEF Case
  <2> QED BY <1>1, <1>4, <2>1 DEF Stage, Away
<1> QED BY <1>2, <1>3, <1>4

\* Erasing or writing the cell at the cursor brings the line one column on.
LEMMA CellShows ==
  ASSUME ScreenFits, Shape(cells), WholeRows(cells), NEW s, PageOk(s), NEW c,
         NEW k \in Nat, s.x <= k, k <= max_x, ShowsPartly(cells, s, c, k),
         c # CR, c # NL => k = s.x,
         NEW y, y = scroll_min_y + NextRow(s) - 1,
         NEW v, v = Written(k, y, IF c = NL THEN Blank ELSE c)
  PROVE  ShowsPartly(v, s, c, k + 1) /\ WholeRows(v)
<1>1. /\ s.x \in Nat /\ max_x \in Nat /\ k \in 0 .. max_x
      /\ NextRow(s) \in 1 .. RegionLines
  BY PageNumbers, RegionSize
<1> DEFINE d == IF c = NL THEN Blank ELSE c
<1>2. WholeRows(v)
      /\ \A i \in 1 .. RegionLines, j \in 0 .. max_x :
           v[scroll_min_y + i - 1][j] = IF i = NextRow(s) /\ j = k THEN d
                                        ELSE cells[scroll_min_y + i - 1][j]
  <2> HIDE DEF d
  <2> QED BY <1>1, WrittenShows DEF d
<1>3. ASSUME NEW i \in 1 .. RegionLines, NEW j \in 0 .. max_x
      PROVE  Partly(s, c, k + 1, i, j) = IF i = NextRow(s) /\ j = k THEN d
                                         ELSE Partly(s, c, k, i, j)
  <2>1. j < k + 1 <=> j < k \/ j = k
    BY <1>1
  <2>2. j = k => s.x <= j /\ ~(j < k) /\ j < k + 1
    BY <1>1
  <2>3. c # NL => (j = s.x <=> j = k)
    OBVIOUS
  <2>4. CASE c = NL
    BY <2>1, <2>2, <2>4 DEF Partly
  <2>5. CASE c # NL
    <3>1. c \notin {NL, CR}
      BY <2>5
    <3> QED BY <2>2, <2>3, <2>5, <3>1 DEF Partly
  <2> QED BY <2>4, <2>5
<1> HIDE DEF d
<1> QED BY <1>2, <1>3 DEF ShowsPartly

\* Scrolling keeps whole rows.
LEMMA RowsStayWhole ==
  ASSUME NEW lines
  PROVE  WholeRows(Cleared) /\ WholeRows(Scrolled(lines))
BY DEF WholeRows, WholeLine, Cleared, Scrolled

\* A step of c_putchar, by the only process that prints.
LEMMA PutcharShows ==
  ASSUME ScreenFits, KeyTypes, CursorInside, Shape(cells), WholeRows(cells),
         NEW p \in Procs, printers = {p}, Putchar(p),
         NEW s, PageOk(s), NEW c, c = ch[p],
         Stage(pc[p], cells, curr_x, curr_y, tmp[p], s, c)
  PROVE  /\ WholeRows(cells')
         /\ \/ /\ text' = text /\ pc'[p] \notin Away
               /\ Stage(pc'[p], cells', curr_x', curr_y', tmp'[p], s, c)
            \/ /\ text' = Append(text, c) /\ pc'[p] = "idle"
               /\ Stage("idle", cells', curr_x', curr_y', tmp'[p], Typed(s, c), c)
<1>1. /\ RegionLines \in Nat \ {0} /\ max_x \in Nat /\ scroll_min_y \in Nat
      /\ max_y = scroll_min_y + RegionLines - 1 /\ scroll_max_y = max_y
      /\ scroll_min_x = 0 /\ scroll_max_x = max_x
  BY RegionSize
<1>2. /\ Len(s.lines) \in Nat /\ s.y \in Nat /\ s.x \in Nat /\ s.x <= max_x
      /\ Row(s) \in 1 .. RegionLines + 1 /\ NextRow(s) \in 1 .. RegionLines
      /\ Row(s) = RegionLines + 1 <=> s.y = Len(s.lines) + 1
      /\ s.y <= Len(s.lines) => NextRow(s) = Row(s)
      /\ s.y = Len(s.lines) + 1 => NextRow(s) = RegionLines /\ s.x = 0
      /\ s.y <= Len(s.lines) + 1
  <2>1. s.y <= Len(s.lines) + 1
    BY DEF PageOk
  <2> QED BY <2>1, PageNumbers
<1>3. \A l : pc' = [pc EXCEPT ![p] = l] => pc'[p] = l
  BY DEF KeyTypes
<1>4. Returns(p) => pc'[p] = "idle" /\ text' = Append(text, c)
  BY <1>3 DEF Returns, Goto
<1>5. CASE Check(p)
  <2>1. pc[p] = "check" /\ UNCHANGED <<curr_x, curr_y, cells, tmp, text>>
        /\ pc'[p] = IF curr_y > scroll_max_y THEN "scroll" ELSE Case(c)
    BY <1>3, <1>5 DEF Check, Goto
  <2>2. ShowsWindow(cells, s) /\ curr_x = s.x /\ curr_y = scroll_min_y + Row(s) - 1
    BY <2>1 DEF Stage, Away
  <2>3. curr_y > scroll_max_y <=> s.y = Len(s.lines) + 1
    BY <1>1, <1>2, <2>2, SMTT(30)
  <2>4. CASE curr_y > scroll_max_y
    <3>1. Stage("scroll", cells, curr_x, curr_y, tmp[p], s, c)
      BY <2>2, <2>3, <2>4 DEF Stage, Away
    <3> QED BY <2>1, <2>4, <3>1 DEF Away
  <2>5. CASE ~(curr_y > scroll_max_y)
    <3>1. s.y <= Len(s.lines)
      BY <1>2, <2>3, <2>5
    <3>2. ShowsPartly(cells, s, c, s.x)
      BY <2>2, <3>1, NothingYet
    <3>3. curr_y = scroll_min_y + NextRow(s) - 1
      BY <1>2, <2>2, <3>1
    <3>4. Stage(Case(c), cells, s.x, curr_y, tmp[p], s, c)
      BY <3>2, <3>3, CaseShows
    <3> QED BY <2>1, <2>2, <2>5, <3>4 DEF Case, Away
  <2> QED BY <2>4, <2>5
<1>6. CASE Scroll(p)
  <2> DEFINE lines == (curr_y - scroll_max_y) % Word
  <2>1. /\ pc[p] = "scroll" /\ UNCHANGED <<tmp, text>> /\ pc'[p] = "settle"
        /\ IF lines > scroll_max_y - scroll_min_y
           THEN cells' = Cleared /\ curr_x' = scroll_min_x /\ curr_y' = scroll_min_y
           ELSE cells' = Scrolled(lines) /\ UNCHANGED <<curr_x, curr_y>>
    BY <1>3, <1>6 DEF Scroll, Goto
  <2>2. ShowsWindow(cells, s) /\ curr_x = s.x /\ curr_y = scroll_min_y + Row(s) - 1
        /\ s.y = Len(s.lines) + 1
    BY <2>1 DEF Stage, Away
  <2>3. lines = 1
    <3>1. curr_y - scroll_max_y = 1
      BY <1>1, <1>2, <2>2
    <3>2. 1 % Word = 1
      BY SMT DEF Word
    <3> QED BY <3>1, <3>2
  <2> HIDE DEF lines
  <2>4. \/ cells' = Scrolled(1) /\ RegionLines > 1 /\ curr_x' = curr_x
        \/ cells' = Cleared /\ RegionLines = 1 /\ curr_x' = 0
    BY <1>1, <2>1, <2>3
  <2>5. ShowsPartly(cells', s, c, s.x)
    <3> DEFINE v == cells'
    <3>1. \/ v = Scrolled(1) /\ RegionLines > 1
          \/ v = Cleared /\ RegionLines = 1
      BY <2>4
    <3> HIDE DEF v
    <3>2. ShowsPartly(v, s, c, s.x)
      BY <2>2, <3>1, ScrolledShows
    <3> QED BY <3>2 DEF v
  <2>6. WholeRows(cells')
    BY <2>4, RowsStayWhole
  <2>7. curr_x' = s.x
    BY <1>2, <2>2, <2>4
  <2>8. Stage("settle", cells', curr_x', curr_y', tmp'[p], s, c)
    BY <2>2, <2>5, <2>7 DEF Stage, Away
  <2> QED BY <2>1, <2>6, <2>8 DEF Away
<1>7. CASE Settle(p)
  <2>1. /\ pc[p] = "settle" /\ UNCHANGED <<curr_x, cells, tmp, text>>
        /\ curr_y' = scroll_max_y /\ pc'[p] = Case(c)
    BY <1>3, <1>7 DEF Settle, Goto
  <2>2. ShowsPartly(cells, s, c, s.x) /\ curr_x = s.x /\ s.y = Len(s.lines) + 1
    BY <2>1 DEF Stage, Away
  <2>3. curr_y' = scroll_min_y + NextRow(s) - 1
    BY <1>1, <1>2, <2>1, <2>2
  <2>4. Stage(Case(c), cells, s.x, curr_y', tmp[p], s, c)
    BY <2>2, <2>3, CaseShows
  <2> QED BY <2>1, <2>2, <2>4 DEF Case, Away
<1>8. CASE Put(p)
  <2>1. /\ pc[p] = "put" /\ UNCHANGED <<curr_x, curr_y, tmp, text>>
        /\ cells' = Written(curr_x, curr_y, c) /\ pc'[p] = "load_x"
    BY <1>3, <1>8 DEF Put, Goto
  <2>2. c \notin {NL, CR} /\ curr_x = s.x /\ ShowsPartly(cells, s, c, curr_x)
        /\ curr_y = scroll_min_y + NextRow(s) - 1
    BY <2>1 DEF Stage, Away
  <2>3. ShowsPartly(cells', s, c, curr_x + 1) /\ WholeRows(cells')
    <3> DEFINE v == cells'
    <3>1. v = Written(curr_x, curr_y, IF c = NL THEN Blank ELSE c)
      BY <2>1, <2>2
    <3>2. curr_x \in Nat /\ s.x <= curr_x /\ curr_x <= max_x
      BY <1>1, <1>2, <2>2
    <3> HIDE DEF v
    <3>3. ShowsPartly(v, s, c, curr_x + 1) /\ WholeRows(v)
      BY <2>2, <3>1, <3>2, CellShows
    <3> QED BY <3>3 DEF v
  <2>4. Stage("load_x", cells', curr_x, curr_y, tmp[p], s, c)
    <3>1. curr_x \in Nat /\ s.x <= curr_x /\ curr_x <= max_x /\ c # CR
      BY <1>2, <2>2
    <3> QED BY <2>2, <2>3, <3>1 DEF Stage, Away
  <2> QED BY <2>1, <2>3, <2>4 DEF Away
<1>9. CASE Erase(p)
  <2>1. /\ pc[p] = "erase" /\ UNCHANGED <<curr_x, curr_y, tmp, text>>
        /\ IF curr_x <= max_x
           THEN cells' = Written(curr_x, curr_y, Blank) /\ pc'[p] = "load_x"
           ELSE cells' = cells /\ pc'[p] = "home"
    BY <1>1, <1>3, <1>9 DEF Erase, Goto
  <2>2. /\ c = NL /\ curr_x \in Nat /\ s.x <= curr_x /\ curr_x <= max_x + 1
        /\ ShowsPartly(cells, s, c, curr_x) /\ curr_y = scroll_min_y + NextRow(s) - 1
    BY <2>1 DEF Stage, Away
  <2>3. CASE curr_x <= max_x
    <3>1. ShowsPartly(cells', s, c, curr_x + 1) /\ WholeRows(cells')
      <4> DEFINE v == cells'
      <4>1. v = Written(curr_x, curr_y, IF c = NL THEN Blank ELSE c) /\ c # CR
        BY <2>1, <2>2, <2>3 DEF NL, CR
      <4> HIDE DEF v
      <4>2. ShowsPartly(v, s, c, curr_x + 1) /\ WholeRows(v)
        BY <2>2, <2>3, <4>1, CellShows
      <4> QED BY <4>2 DEF v
    <3>2. Stage("load_x", cells', curr_x, curr_y, tmp[p], s, c)
      BY <2>2, <2>3, <3>1 DEF Stage, Away, NL, CR
    <3> QED BY <2>1, <2>3, <3>1, <3>2 DEF Away
  <2>4. CASE ~(curr_x <= max_x)
    <3>1. curr_x = max_x + 1
      BY <1>1, <2>2, <2>4
    <3>2. Stage("home", cells, curr_x, curr_y, tmp[p], s, c)
      BY <2>2, <3>1 DEF Stage, Away, Ends
    <3> QED BY <2>1, <2>4, <3>2 DEF Away
  <2> QED BY <2>3, <2>4
<1>10. CASE LoadX(p)
  <2>1. /\ pc[p] = "load_x" /\ UNCHANGED <<curr_x, curr_y, cells, text>>
        /\ tmp'[p] = curr_x /\ pc'[p] = "store_x"
    BY <1>3, <1>10 DEF LoadX, Goto, CursorInside
  <2>2. Stage("store_x", cells, curr_x, curr_y, tmp'[p], s, c)
    BY <2>1 DEF Stage, Away
  <2> QED BY <2>1, <2>2 DEF Away
<1>11. CASE StoreX(p)
  <2>1. /\ pc[p] = "store_x" /\ UNCHANGED <<curr_y, cells, tmp, text>>
        /\ curr_x' = tmp[p] + 1 /\ pc'[p] = IF c = NL THEN "erase" ELSE "wrap"
    BY <1>3, <1>11 DEF StoreX, Goto
  <2>2. /\ c # CR /\ curr_x \in Nat /\ s.x <= curr_x /\ curr_x <= max_x
        /\ (c # NL => curr_x = s.x) /\ ShowsPartly(cells, s, c, curr_x + 1)
        /\ tmp[p] = curr_x /\ curr_y = scroll_min_y + NextRow(s) - 1
    BY <2>1 DEF Stage, Away
  <2>3. curr_x' = curr_x + 1 /\ curr_x' \in Nat /\ s.x <= curr_x' /\ curr_x' <= max_x + 1
    <3>1. curr_x' = curr_x + 1
      BY <2>1, <2>2
    <3>2. curr_x \in Nat /\ s.x \in Nat /\ max_x \in Nat /\ s.x <= curr_x /\ curr_x <= max_x
      BY <1>1, <1>2, <2>2
    <3> QED BY <3>1, <3>2
  <2>4. Stage(pc'[p], cells, curr_x', curr_y, tmp[p], s, c)
    BY <2>1, <2>2, <2>3 DEF Stage, Away
  <2> QED BY <2>1, <2>4 DEF Away
<1>12. CASE Wrap(p)
  <2>1. /\ pc[p] = "wrap" /\ UNCHANGED <<curr_x, curr_y, cells, tmp>>
        /\ IF curr_x > max_x THEN pc'[p] = "home" /\ text' = text ELSE Returns(p)
    BY <1>1, <1>3, <1>12 DEF Wrap, Goto
  <2>2. /\ c \notin {NL, CR} /\ curr_x = s.x + 1 /\ ShowsPartly(cells, s, c, curr_x)
        /\ curr_y = scroll_min_y + NextRow(s) - 1
    BY <2>1 DEF Stage, Away
  <2>3. ShowsPartly(cells, s, c, max_x + 1)
    BY <2>2, NothingYet
  <2>4. Ends(s, c) <=> curr_x > max_x
    <3>1. Ends(s, c) <=> s.x = max_x
      BY <2>2 DEF Ends
    <3>2. s.x \in Nat /\ max_x \in Nat /\ s.x <= max_x /\ curr_x = s.x + 1
      BY <1>1, <1>2, <2>2
    <3> QED BY <3>1, <3>2
  <2>5. CASE curr_x > max_x
    <3>1. Stage("home", cells, curr_x, curr_y, tmp[p], s, c)
      BY <2>2, <2>3, <2>4, <2>5 DEF Stage, Away
    <3> QED BY <2>1, <2>5, <3>1 DEF Away
  <2>6. CASE ~(curr_x > max_x)
    <3>1. curr_x = IF Ends(s, c) \/ c = CR THEN 0 ELSE s.x + 1
      BY <2>2, <2>4, <2>6
    <3>2. curr_y = scroll_min_y + NextRow(s) - 1 + IF Ends(s, c) THEN 1 ELSE 0
      BY <1>1, <1>2, <2>2, <2>4, <2>6
    <3>3. Stage("idle", cells, curr_x, curr_y, tmp[p], Typed(s, c), c)
      BY <2>3, <3>1, <3>2, TypedShows
    <3> QED BY <1>4, <2>1, <2>6, <3>3
  <2> QED BY <2>5, <2>6
<1>13. CASE Home(p)
  <2>1. /\ pc[p] = "home" /\ UNCHANGED <<curr_y, cells, tmp>> /\ curr_x' = 0
        /\ IF c = CR THEN Returns(p) ELSE pc'[p] = "load_y" /\ text' = text
    BY <1>1, <1>3, <1>13 DEF Home, Goto
  <2>2. /\ (c # CR => Ends(s, c)) /\ ShowsPartly(cells, s, c, max_x + 1)
        /\ curr_y = scroll_min_y + NextRow(s) - 1
    BY <2>1 DEF Stage, Away
  <2>3. CASE c = CR
    <3>1. ~Ends(s, c)
      BY <2>3 DEF Ends, NL, CR
    <3>2. curr_x' = IF Ends(s, c) \/ c = CR THEN 0 ELSE s.x + 1
      BY <2>1, <2>3
    <3>3. curr_y = scroll_min_y + NextRow(s) - 1 + IF Ends(s, c) THEN 1 ELSE 0
      BY <1>1, <1>2, <2>2, <3>1
    <3>4. Stage("idle", cells, curr_x', curr_y, tmp[p], Typed(s, c), c)
      BY <2>2, <3>2, <3>3, TypedShows
    <3> QED BY <1>4, <2>1, <2>3, <3>4
  <2>4. CASE c # CR
    <3>1. Stage("load_y", cells, curr_x', curr_y, tmp[p], s, c)
      BY <2>1, <2>2, <2>4 DEF Stage, Away
    <3> QED BY <2>1, <2>4, <3>1 DEF Away
  <2> QED BY <2>3, <2>4
<1>14. CASE LoadY(p)
  <2>1. /\ pc[p] = "load_y" /\ UNCHANGED <<curr_x, curr_y, cells, text>>
        /\ tmp'[p] = curr_y /\ pc'[p] = "store_y"
    BY <1>3, <1>14 DEF LoadY, Goto, CursorInside
  <2>2. Stage("store_y", cells, curr_x, curr_y, tmp'[p], s, c)
    BY <2>1 DEF Stage, Away
  <2> QED BY <2>1, <2>2 DEF Away
<1>15. CASE StoreY(p)
  <2>1. /\ pc[p] = "store_y" /\ UNCHANGED <<curr_x, cells, tmp>>
        /\ curr_y' = tmp[p] + 1 /\ Returns(p)
    BY <1>15 DEF StoreY
  <2>2. /\ c # CR /\ Ends(s, c) /\ curr_x = 0 /\ ShowsPartly(cells, s, c, max_x + 1)
        /\ tmp[p] = curr_y /\ curr_y = scroll_min_y + NextRow(s) - 1
    BY <2>1 DEF Stage, Away
  <2>3. curr_x = IF Ends(s, c) \/ c = CR THEN 0 ELSE s.x + 1
    BY <2>2
  <2>4. curr_y' = scroll_min_y + NextRow(s) - 1 + IF Ends(s, c) THEN 1 ELSE 0
    BY <2>1, <2>2
  <2>5. Stage("idle", cells, curr_x, curr_y', tmp[p], Typed(s, c), c)
    BY <2>2, <2>3, <2>4, TypedShows
  <2> QED BY <1>4, <2>1, <2>5
<1> QED BY <1>5, <1>6, <1>7, <1>8, <1>9, <1>10, <1>11, <1>12, <1>13, <1>14, <1>15 DEF Putchar

\* A process that prints alone, or none.
Solo(p) ==
  /\ \A q \in Procs : q # p => pc[q] \in Away
  /\ pc[p] \in Away \/ printers = {p}
  /\ \E S : text \in Seq(S)
  /\ PageOk(Page(text))
  /\ Stage(pc[p], cells, curr_x, curr_y, tmp[p], Page(text), ch[p])

\* While one process prints at most, the screen shows what it printed.
Followed ==
  /\ WholeRows(cells) /\ printers \subseteq Procs /\ IsFiniteSet(printers)
  /\ \A p \in Procs : printers \subseteq {p} => Solo(p)

\* The first page is the screen as it was.
LEMMA FollowedStarts ==
  ASSUME ScreenFits, ConsoleInit
  PROVE  Followed
<1>1. /\ curr_x = scroll_min_x /\ curr_y = scroll_min_y
      /\ cells = [y \in 0 .. max_y |-> [x \in 0 .. max_x |-> Before]]
      /\ pc = [p \in Procs |-> "idle"] /\ printers = {} /\ text = <<>>
  BY DEF ConsoleInit, Init, ScreenInit
<1>2. /\ RegionLines \in Nat \ {0} /\ max_x \in Nat /\ scroll_min_y \in Nat
      /\ max_y = scroll_min_y + RegionLines - 1 /\ scroll_min_x = 0
  BY RegionSize
<1> DEFINE s == FirstPage
           R == RegionLines
           L == [i \in 1 .. R |-> [x \in 0 .. max_x |-> Before]]
<1>3. s.x = 0 /\ s.y = 1 /\ s.lines = L
  BY DEF FirstPage
<1>4. Len(L) = R /\ \E S : L \in Seq(S)
  <2> DEFINE e == [x \in 0 .. max_x |-> Before]
  <2>1. L \in Seq({e})
    <3>1. L = [i \in 1 .. R |-> e]
      OBVIOUS
    <3>2. R \in Nat
      BY <1>2
    <3> HIDE DEF e, L, R
    <3> QED BY <3>1, <3>2
  <2>2. Len(L) = R
    BY <1>2
  <2> HIDE DEF L, e
  <2> QED BY <2>1, <2>2
<1>5. \A k \in 1 .. R : WholeLine(L[k]) /\ \A j \in 0 .. max_x : L[k][j] = Before
  BY DEF WholeLine
<1> HIDE DEF s, L
<1>6. PageOk(s)
  <2>1. \E S : s.lines \in Seq(S)
    BY <1>3, <1>4
  <2> QED BY <1>2, <1>3, <1>4, <1>5, <2>1 DEF PageOk
<1>7. WholeRows(cells) /\ \A y \in 0 .. max_y, x \in 0 .. max_x : cells[y][x] = Before
  BY <1>1 DEF WholeRows, WholeLine
<1>8. Row(s) = 1 /\ ShowsWindow(cells, s)
  <2>1. Row(s) = 1
    BY <1>2, <1>3, <1>4 DEF Row
  <2>2. ASSUME NEW i \in 1 .. R, NEW j \in 0 .. max_x
        PROVE  cells[scroll_min_y + i - 1][j] = Window(s, i, j)
    <3>1. scroll_min_y + i - 1 \in 0 .. max_y /\ R - R + i = i
      BY <1>2
    <3>2. Window(s, i, j) = L[i][j]
      BY <1>3, <1>4, <3>1 DEF Window
    <3> QED BY <1>5, <1>7, <3>1, <3>2
  <2> QED BY <2>1, <2>2 DEF ShowsWindow
<1>9. \A z, c : Stage("idle", cells, curr_x, curr_y, z, s, c)
  BY <1>1, <1>2, <1>3, <1>8 DEF Stage, Away
<1>10. Page(text) = s
  BY <1>1, PageStarts DEF s
<1>11. ASSUME NEW p \in Procs PROVE Solo(p)
  <2>1. (\A q \in Procs : pc[q] \in Away) /\ pc[p] = "idle"
    BY <1>1 DEF Away
  <2>2. \E S : text \in Seq(S)
    <3>1. text \in Seq({})
      BY <1>1
    <3> QED BY <3>1
  <2> QED BY <1>6, <1>9, <1>10, <2>1, <2>2 DEF Solo
<1>12. IsFiniteSet(printers)
  BY <1>1, FS_EmptySet
<1> QED BY <1>1, <1>7, <1>11, <1>12 DEF Followed

\* A call changes no more than the caller's place.
LEMMA CallKeeps ==
  ASSUME KeyTypes, Followed, NEW p \in Procs, pc[p] \in Away,
         NEW l \in Away \cup {"check"}, pc' = [pc EXCEPT ![p] = l],
         \A q \in Procs : q # p => ch'[q] = ch[q],
         printers' = IF l = "check" THEN printers \cup {p} ELSE printers,
         UNCHANGED <<curr_x, curr_y, cells, tmp, text>>
  PROVE  Followed'
<1>1. pc'[p] = l /\ \A q \in Procs : q # p => pc'[q] = pc[q]
  BY DEF KeyTypes
<1>2. WholeRows(cells)' /\ printers' \subseteq Procs /\ IsFiniteSet(printers')
  BY FS_AddElement DEF Followed, WholeRows
<1>3. ASSUME NEW q \in Procs, printers' \subseteq {q} PROVE Solo(q)'
  <2>1. Solo(q) /\ printers \subseteq {q}
    BY <1>3 DEF Followed
  <2>2. l = "check" => p = q /\ printers' = {q}
    BY <1>3
  <2> DEFINE s == Page(text)
  <2>3. Page(text)' = s
    OBVIOUS
  <2> HIDE DEF s
  <2>4. PageOk(s) /\ Stage(pc[q], cells, curr_x, curr_y, tmp[q], s, ch[q])
    BY <2>1 DEF Solo, s
  <2>5. \A r \in Procs : r # q => pc'[r] \in Away
    BY <1>1, <2>1, <2>2 DEF Solo
  <2>6. pc'[q] \in Away \/ printers' = {q}
    <3>1. CASE q = p
      BY <1>1, <2>2, <3>1
    <3>2. CASE q # p
      <4>1. printers' = printers /\ pc'[q] = pc[q]
        BY <1>1, <2>2, <3>2
      <4> QED BY <2>1, <4>1 DEF Solo
    <3> QED BY <3>1, <3>2
  <2>7. Stage(pc'[q], cells, curr_x, curr_y, tmp[q], s, ch'[q])
    <3>1. CASE q = p
      BY <1>1, <2>4, <3>1 DEF Stage, Away
    <3>2. CASE q # p
      BY <1>1, <2>4, <3>2
    <3> QED BY <3>1, <3>2
  <2>8. (\E S : text \in Seq(S))'
    BY <2>1 DEF Solo
  <2>9. Stage(pc'[q], cells', curr_x', curr_y', tmp'[q], Page(text)', ch'[q])
    BY <2>3, <2>4, <2>7
  <2>10. PageOk(Page(text))'
    BY <2>3, <2>4
  <2> QED BY <2>5, <2>6, <2>8, <2>9, <2>10 DEF Solo
<1> QED BY <1>2, <1>3 DEF Followed

\* A step of c_putchar.
LEMMA PutcharKeeps ==
  ASSUME ScreenFits, KeyTypes, CursorInside, Shape(cells), Followed,
         NEW p \in Procs, Putchar(p)
  PROVE  Followed'
<1>1. pc[p] \notin Away
  BY DEF Putchar, Check, Scroll, Settle, Put, Erase, LoadX, StoreX, Wrap, Home, LoadY, StoreY,
         Away
<1>2. UNCHANGED <<printers, ch>> /\ \E l \in Labels : pc' = [pc EXCEPT ![p] = l]
  BY DEF Putchar, Check, Scroll, Settle, Put, Erase, LoadX, StoreX, Wrap, Home, LoadY, StoreY,
         Goto, Returns, Case, Labels, Elsewhere
<1>3. \A q \in Procs : q # p => pc'[q] = pc[q]
  BY <1>2 DEF KeyTypes
<1>4. WholeRows(cells')
  <2>1. WholeRows(cells)
    BY DEF Followed
  <2>2. CASE cells' = cells
    BY <2>1, <2>2
  <2>3. CASE Scroll(p)
    <3>1. cells' = Cleared \/ \E lines : cells' = Scrolled(lines)
      BY <2>3 DEF Scroll
    <3> QED BY <3>1, RowsStayWhole
  <2>4. CASE \E c : cells' = Written(curr_x, curr_y, c)
    <3>1. PICK c : cells' = Written(curr_x, curr_y, c)
      BY <2>4
    <3>2. CASE curr_x <= max_x /\ curr_y <= max_y
      <4> DEFINE row == [cells[curr_y] EXCEPT ![curr_x] = c]
      <4>1. curr_y \in 0 .. max_y
        BY <3>2, Constants DEF CursorInside, max_y
      <4>2. WholeLine(row)
        <5>1. WholeLine(cells[curr_y])
          BY <2>1, <4>1 DEF WholeRows
        <5> QED BY <5>1 DEF WholeLine
      <4>3. cells' = [cells EXCEPT ![curr_y] = row]
        BY <3>1, <3>2 DEF Written
      <4> HIDE DEF row
      <4> QED BY <2>1, <4>1, <4>2, <4>3 DEF WholeRows, Shape
    <3>3. CASE ~(curr_x <= max_x /\ curr_y <= max_y)
      BY <2>1, <3>1, <3>3 DEF Written
    <3> QED BY <3>2, <3>3
  <2> QED
    BY <2>2, <2>3, <2>4
    DEF Putchar, Check, Settle, Put, Erase, LoadX, StoreX, Wrap, Home, LoadY, StoreY
<1>5. ASSUME NEW q \in Procs, printers' \subseteq {q} PROVE Solo(q)'
  <2>1. Solo(q)
    BY <1>2, <1>5 DEF Followed
  <2>2. q = p /\ printers = {p}
    BY <1>1, <1>2, <1>5, <2>1 DEF Solo
  <2> DEFINE s == Page(text)
             c == ch[p]
  <2>3. PageOk(s) /\ Stage(pc[p], cells, curr_x, curr_y, tmp[p], s, c) /\ WholeRows(cells)
    BY <2>1, <2>2 DEF Solo, Followed
  <2>4. PICK S : text \in Seq(S)
    BY <2>1 DEF Solo
  <2>5. \A r \in Procs : r # q => pc'[r] \in Away
    BY <1>3, <2>1, <2>2 DEF Solo
  <2>6. pc'[q] \in Away \/ printers' = {q}
    BY <1>2, <2>2
  <2>7. CASE /\ text' = text
             /\ Stage(pc'[p], cells', curr_x', curr_y', tmp'[p], s, c)
    <3>1. Page(text)' = s
      BY <2>7
    <3>2. (\E T : text \in Seq(T))'
      BY <2>4, <2>7
    <3> HIDE DEF s
    <3>3. /\ PageOk(Page(text))'
          /\ Stage(pc'[q], cells', curr_x', curr_y', tmp'[q], Page(text)', ch'[q])
      BY <1>2, <2>2, <2>3, <2>7, <3>1
    <3> QED BY <2>5, <2>6, <3>2, <3>3 DEF Solo
  <2>8. CASE /\ text' = Append(text, c) /\ pc'[p] = "idle"
             /\ Stage("idle", cells', curr_x', curr_y', tmp'[p], Typed(s, c), c)
    <3>1. Page(text)' = Typed(s, c)
      <4>1. Page(Append(text, c)) = Typed(s, c)
        BY <2>4, PageGrows
      <4> QED BY <2>8, <4>1
    <3>2. (\E T : text \in Seq(T))'
      <4>1. Append(text, c) \in Seq(S \cup {c})
        BY <2>4
      <4> QED BY <2>8, <4>1
    <3> HIDE DEF s
    <3>3. PageOk(Typed(s, c))
      BY <2>3, TypedIs
    <3>4. /\ PageOk(Page(text))'
          /\ Stage(pc'[q], cells', curr_x', curr_y', tmp'[q], Page(text)', ch'[q])
      BY <1>2, <2>2, <2>8, <3>1, <3>3
    <3> QED BY <2>5, <2>6, <3>2, <3>4 DEF Solo
  <2>9. \/ /\ text' = text
           /\ Stage(pc'[p], cells', curr_x', curr_y', tmp'[p], s, c)
        \/ /\ text' = Append(text, c) /\ pc'[p] = "idle"
           /\ Stage("idle", cells', curr_x', curr_y', tmp'[p], Typed(s, c), c)
    <3>1. \A r, d : PageOk(r) /\ d = ch[p] /\ Stage(pc[p], cells, curr_x, curr_y, tmp[p], r, d) =>
            \/ /\ text' = text
               /\ Stage(pc'[p], cells', curr_x', curr_y', tmp'[p], r, d)
            \/ /\ text' = Append(text, d) /\ pc'[p] = "idle"
               /\ Stage("idle", cells', curr_x', curr_y', tmp'[p], Typed(r, d), d)
      BY <2>2, <2>3, PutcharShows
    <3> HIDE DEF s
    <3> QED BY <2>3, <3>1
  <2> QED BY <2>7, <2>8, <2>9
<1>6. printers' \subseteq Procs /\ IsFiniteSet(printers')
  BY <1>2 DEF Followed
<1> QED BY <1>4, <1>5, <1>6 DEF Followed, WholeRows

\* A step of the console, unless it prints at a place.
LEMMA FollowedStep ==
  ASSUME ScreenFits, KeyTypes, CursorInside, Shape(cells), Followed, ~job.at,
         [ConsoleNext]_consoleVars
  PROVE  Followed'
<1> USE Constants
<1>1. ASSUME UNCHANGED <<curr_x, curr_y, cells, pc, ch, tmp, printers, text>> PROVE Followed'
  <2>1. ASSUME NEW q \in Procs PROVE Solo(q)' <=> Solo(q)
    <3>1. Page(text)' = Page(text)
      BY <1>1
    <3> QED BY <1>1, <3>1 DEF Solo
  <2> QED BY <1>1, <2>1 DEF Followed, WholeRows
<1>2. ASSUME NEW p \in Procs, Putc(p) PROVE Followed'
  <2>1. /\ pc' = [pc EXCEPT ![p] = "check"] /\ printers' = printers \cup {p}
        /\ \A q \in Procs : q # p => ch'[q] = ch[q]
    BY <1>2 DEF Putc, Calls, Goto, KeyTypes
  <2>2. pc[p] = "idle" /\ UNCHANGED <<curr_x, curr_y, cells, tmp, text>>
    BY <1>2 DEF Putc
  <2> QED BY <2>1, <2>2, CallKeeps DEF Away
<1>3. CASE PutsOn
  <2>1. /\ pc' = [pc EXCEPT ![Printer] = "check"] /\ printers' = printers \cup {Printer}
        /\ \A q \in Procs : q # Printer => ch'[q] = ch[q]
    BY <1>3 DEF PutsOn, Calls, Goto, KeyTypes
  <2>2. pc[Printer] = "idle" /\ UNCHANGED <<curr_x, curr_y, cells, tmp, text>>
    BY <1>3 DEF PutsOn
  <2> QED BY <2>1, <2>2, CallKeeps DEF Away
<1>4. CASE Getchar \/ Poll \/ Fetch \/ Take
  <2>1. pc[Shell] \in Away /\ UNCHANGED <<curr_x, curr_y, cells, tmp, text>>
    BY <1>4 DEF Getchar, Poll, Fetch, Take, Stay, Away
  <2>2. \A q \in Procs : q # Shell => ch'[q] = ch[q]
    BY <1>4 DEF Getchar, Poll, Fetch, Take, Calls, KeyTypes
  <2>3. PICK l \in Away \cup {"check"} :
          /\ pc' = [pc EXCEPT ![Shell] = l]
          /\ printers' = IF l = "check" THEN printers \cup {Shell} ELSE printers
    BY <1>4 DEF Getchar, Poll, Fetch, Take, Calls, Goto, Away
  <2> QED BY <2>1, <2>2, <2>3, CallKeeps
<1>5. CASE KeyboardIsr \/ Plain \/ Directs \/ Skips \/ UNCHANGED consoleVars
  BY <1>1, <1>5 DEF KeyboardIsr, Plain, Directs, Skips, Aside, vars, screenVars, consoleVars
<1>6. ASSUME NEW p \in Procs, Prints(p) PROVE Followed'
  BY <1>2, <1>6, PutcharKeeps DEF Prints
<1>7. CASE PutsAt
  BY <1>7 DEF PutsAt
<1> QED BY <1>3, <1>4, <1>5, <1>6, <1>7 DEF ConsoleNext, Next

\* What followed text shows.
LEMMA FollowedShows ==
  ASSUME ScreenFits, Followed
  PROVE  ShowsText
<1> SUFFICES ASSUME Cardinality(printers) = 1, \A p \in Procs : pc[p] = "idle",
                    NEW i \in 1 .. RegionLines
             PROVE  cells[scroll_min_y + i - 1]
                      = Sheet(text)[Len(Sheet(text)) - RegionLines + i]
  BY DEF ShowsText
<1>1. PICK p \in Procs : printers = {p}
  <2>1. \E x : printers = {x}
    BY FS_Singleton DEF Followed
  <2> QED BY <2>1 DEF Followed
<1> DEFINE s == Page(text)
           L == s.lines
           k == Len(L) - RegionLines + i
           y == scroll_min_y + i - 1
<1>2. PageOk(s) /\ ShowsWindow(cells, s)
  BY <1>1 DEF Followed, Solo, Stage, Away
<1>3. /\ RegionLines \in Nat \ {0} /\ scroll_min_y \in Nat
      /\ max_y = scroll_min_y + RegionLines - 1
  BY RegionSize
<1>4. Sheet(text) = L
  BY DEF Sheet
<1> HIDE DEF s
<1>5. k \in 1 .. Len(L) /\ y \in 0 .. max_y
  <2>1. Len(L) \in Nat /\ Len(L) >= RegionLines
    BY <1>2, LenProperties DEF PageOk
  <2> QED BY <1>3, <2>1
<1>6. WholeLine(L[k]) /\ WholeLine(cells[y])
  BY <1>2, <1>5 DEF PageOk, Followed, WholeRows
<1>7. \A j \in 0 .. max_x : cells[y][j] = L[k][j]
  BY <1>2 DEF ShowsWindow, Window
<1> HIDE DEF L, k, y
<1>8. cells[y] = L[k]
  BY <1>6, <1>7 DEF WholeLine
<1> QED BY <1>4, <1>8 DEF k, y

\* A process that prints alone sees the end of its text in the region, for
\* every text, any screen that fits and any region: wherever the cursor is,
\* the last line was completed, the region was scrolled in time, and erasing
\* the rest of a line and wrapping at the edge came out as on paper.
THEOREM TextShown ==
  ASSUME ScreenFits, Undisturbed
  PROVE  ConsoleSpec => []ShowsText
<1> DEFINE Inv == /\ KeyTypes /\ Held /\ CursorInside /\ Shape(cells)
                  /\ ArgumentsInStep /\ AtLine /\ (~job.at => Followed)
<1>1. ConsoleInit => Inv
  BY KeysStart, InsideStarts, ArgumentsStart, LineStarts, FollowedStarts
<1>2. Inv /\ [ConsoleNext]_consoleVars => Inv'
  <2> SUFFICES ASSUME Inv, [ConsoleNext]_consoleVars PROVE Inv'
    OBVIOUS
  <2>1. KeyTypes' /\ Held'
    BY KeysStep
  <2>2. CursorInside' /\ Shape(cells)'
    BY ConsoleInside DEF Shape
  <2>3. ArgumentsInStep' /\ job' = job
    BY ArgumentsStep
  <2>4. AtLine'
    BY LineStep
  <2>5. ~job.at => Followed'
    BY FollowedStep
  <2> QED BY <2>1, <2>2, <2>3, <2>4, <2>5
<1>3. Inv => ShowsText
  <2>1. ASSUME Inv, job.at PROVE ShowsText
    <3>1. Cardinality(printers) = 0
      BY <2>1, FS_EmptySet DEF AtLine, Alone
    <3> QED BY <3>1 DEF ShowsText
  <2>2. ASSUME Inv, ~job.at PROVE ShowsText
    BY <2>2, FollowedShows
  <2> QED BY <2>1, <2>2
<1> QED BY <1>1, <1>2, <1>3, PTL DEF ConsoleSpec
=============================================================================
