------------------------------ MODULE SioProofs ------------------------------
(***************************************************************************)
(* The serial driver for buffers of any size: what its pointers and counts *)
(* keep to as long as no buffer overruns, and from that the two streams of *)
(* SioSpec.                                                                *)
(***************************************************************************)
EXTENDS Sio, SequenceTheorems, TLAPS

Any == Chars \cup {CR, LF, Empty}

\* The flag, the interrupt and the transmit register, overrun or not.
Transmitting ==
  /\ sending \in BOOLEAN
  /\ outcount > 0 => sending
  /\ sending => "TX" \in ier
  /\ ~sending => thr = Empty

\* The unread characters lie next to each other.
InOrder ==
  /\ inbuffer \in [Cells -> Any]
  /\ innext \in Nat /\ incount \in Nat
  /\ inlast = innext + incount
  /\ inlast <= BufSize

\* The unsent ones go around the end of the buffer; outlast may stand
\* behind the last cell, with outnext behind it or gone around.
OutOrder ==
  /\ outbuffer \in [Cells -> Any]
  /\ outnext \in Cells /\ outcount \in 0 .. BufSize
  /\ outlast \in 0 .. BufSize
  /\ outlast \in {outnext + outcount, outnext + outcount - BufSize,
                  outnext + outcount + BufSize}

-----------------------------------------------------------------------------
(***************************************************************************)
(* Going around a buffer.                                                  *)
(***************************************************************************)
Turn(i) == IF i < BufSize THEN i ELSE i - BufSize

\* The remainder of an index that has gone around once at most.
LEMMA Around ==
  ASSUME NEW i \in 0 .. 2 * BufSize - 1
  PROVE  i % BufSize = Turn(i) /\ Turn(i) \in Cells
<1> USE SioAssumption
<1>1. CASE i < BufSize
  BY <1>1 DEF Turn, Cells
<1>2. CASE i >= BufSize
  <2>1. i - BufSize \in 0 .. BufSize - 1
    BY <1>2
  <2>2. i % BufSize = i - BufSize
    BY <2>1, <1>2
  <2> QED BY <2>1, <2>2, <1>2 DEF Turn, Cells
<1> QED BY <1>1, <1>2

\* ... and of one that lies before the first cell.
LEMMA Behind ==
  ASSUME NEW i \in -BufSize .. -1
  PROVE  i % BufSize = i + BufSize
<1> USE SioAssumption
<1>1. i + BufSize \in 0 .. BufSize - 1
  OBVIOUS
<1> QED BY <1>1

-----------------------------------------------------------------------------
(***************************************************************************)
(* The two streams as sequences.                                           *)
(***************************************************************************)
Straight(buf, next, count) == [i \in 1 .. count |-> buf[next + i - 1]]
Circular(buf, next, count) == [i \in 1 .. count |-> buf[(next + i - 1) % BufSize]]

\* Characters that lie next to each other.
LEMMA StraightIs ==
  ASSUME NEW buf \in [Cells -> Any], NEW next \in Nat, NEW count \in Nat,
         next + count <= BufSize
  PROVE  /\ Straight(buf, next, count) \in Seq(Any)
         /\ Len(Straight(buf, next, count)) = count
         /\ \A i \in 1 .. count : Straight(buf, next, count)[i] = buf[next + i - 1]
         /\ Straight(buf, next, count) = <<>> <=> count = 0
<1> DEFINE s == Straight(buf, next, count)
<1> USE SioAssumption
<1>1. \A i \in 1 .. count : next + i - 1 \in Cells
  BY DEF Cells
<1>2. s \in [1 .. count -> Any]
  BY <1>1 DEF Straight
<1>3. s \in Seq(Any)
  BY <1>2, SeqDef
<1>4. Len(s) = count
  BY <1>2, <1>3, LenProperties
<1>5. \A i \in 1 .. count : s[i] = buf[next + i - 1]
  BY DEF Straight
<1>6. s = <<>> <=> count = 0
  BY <1>3, <1>4, EmptySeq
<1> QED BY <1>3, <1>4, <1>5, <1>6

\* Characters that go around the end of the buffer.
LEMMA CircularIs ==
  ASSUME NEW buf \in [Cells -> Any], NEW next \in Cells, NEW count \in 0 .. BufSize
  PROVE  /\ Circular(buf, next, count) \in Seq(Any)
         /\ Len(Circular(buf, next, count)) = count
         /\ \A i \in 1 .. count : /\ Circular(buf, next, count)[i] = buf[Turn(next + i - 1)]
                                  /\ Turn(next + i - 1) \in Cells
         /\ Circular(buf, next, count) = <<>> <=> count = 0
<1> DEFINE s == Circular(buf, next, count)
<1> USE SioAssumption
<1>1. \A i \in 1 .. count : next + i - 1 \in 0 .. 2 * BufSize - 1
  BY DEF Cells
<1>2. \A i \in 1 .. count : /\ (next + i - 1) % BufSize = Turn(next + i - 1)
                            /\ Turn(next + i - 1) \in Cells
  BY <1>1, Around
<1>3. s = [i \in 1 .. count |-> buf[Turn(next + i - 1)]]
  BY <1>2 DEF Circular
<1>4. s \in [1 .. count -> Any]
  BY <1>2, <1>3
<1>5. count \in Nat
  OBVIOUS
<1>6. s \in Seq(Any)
  BY <1>4, <1>5, SeqDef
<1>7. Len(s) = count
  BY <1>4, <1>5, <1>6, LenProperties
<1>8. s = <<>> <=> count = 0
  BY <1>6, <1>7, EmptySeq
<1> QED BY <1>2, <1>3, <1>6, <1>7, <1>8

-----------------------------------------------------------------------------
(***************************************************************************)
(* Input.                                                                  *)
(***************************************************************************)

\* The unread characters, before a step and after it.
LEMMA UnreadIs ==
  ASSUME InOrder
  PROVE  /\ Unread \in Seq(Any)
         /\ Len(Unread) = incount
         /\ \A i \in 1 .. incount : Unread[i] = inbuffer[innext + i - 1]
         /\ Unread = <<>> <=> incount = 0
<1>1. /\ inbuffer \in [Cells -> Any] /\ innext \in Nat /\ incount \in Nat
      /\ innext + incount <= BufSize
  BY SioAssumption DEF InOrder
<1>2. Unread = Straight(inbuffer, innext, incount)
  BY DEF Unread, Straight
<1> QED BY <1>1, <1>2, StraightIs

\* The same of the state after a step.
LEMMA UnreadBecomes ==
  ASSUME InOrder'
  PROVE  /\ Unread' \in Seq(Any)
         /\ Len(Unread') = incount'
         /\ \A i \in 1 .. incount' : Unread'[i] = inbuffer'[innext' + i - 1]
         /\ Unread' = <<>> <=> incount' = 0
<1>1. /\ inbuffer' \in [Cells -> Any] /\ innext' \in Nat /\ incount' \in Nat
      /\ innext' + incount' <= BufSize
  BY SioAssumption DEF InOrder, Cells, Any
<1>2. Unread' = Straight(inbuffer', innext', incount')
  BY DEF Unread, Straight
<1> QED BY <1>1, <1>2, StraightIs

\* A character that is stored is the last of the unread ones.
LEMMA StoreAppends ==
  ASSUME InOrder, RxStore, ~overrun'
  PROVE  /\ InOrder'
         /\ \E ch \in Chars : Unread' = Append(Unread, Mapped(ch))
         /\ Len(Unread) < BufSize
<1> USE SioAssumption
<1>1. PICK ch \in Chars :
        /\ incount < BufSize
        /\ inlast \in Cells
        /\ inbuffer' = [inbuffer EXCEPT ![inlast] = Mapped(ch)]
        /\ inlast' = inlast + 1 /\ incount' = incount + 1 /\ innext' = innext
  BY DEF RxStore
<1>2. Mapped(ch) \in Any
  BY DEF Mapped, Any
<1>3. InOrder'
  BY <1>1, <1>2 DEF InOrder, Cells
<1> DEFINE s == Unread
           t == Unread'
<1>4. /\ s \in Seq(Any) /\ Len(s) = incount
      /\ \A i \in 1 .. incount : s[i] = inbuffer[innext + i - 1]
  BY UnreadIs
<1>5. /\ t \in Seq(Any) /\ Len(t) = incount'
      /\ \A i \in 1 .. incount' : t[i] = inbuffer'[innext' + i - 1]
  BY <1>3, UnreadBecomes
<1> HIDE DEF s, t
<1>6. /\ Append(s, Mapped(ch)) \in Seq(Any)
      /\ Len(Append(s, Mapped(ch))) = incount + 1
      /\ \A i \in 1 .. incount : Append(s, Mapped(ch))[i] = s[i]
      /\ Append(s, Mapped(ch))[incount + 1] = Mapped(ch)
  BY <1>2, <1>4, AppendProperties
<1>7. \A i \in 1 .. incount : t[i] = s[i]
  <2> TAKE i \in 1 .. incount
  <2>1. /\ i \in 1 .. incount' /\ innext + i - 1 # inlast
        /\ innext + i - 1 \in Cells
    BY <1>1 DEF InOrder, Cells
  <2> QED BY <2>1, <1>1, <1>4, <1>5 DEF InOrder
<1>8. t[incount + 1] = Mapped(ch)
  <2>1. incount + 1 \in 1 .. incount' /\ innext' + (incount + 1) - 1 = inlast
    BY <1>1 DEF InOrder
  <2> QED BY <2>1, <1>1, <1>5 DEF InOrder
<1>9. Len(t) = Len(Append(s, Mapped(ch)))
  BY <1>1, <1>5, <1>6
<1>10. \A i \in 1 .. Len(t) : t[i] = Append(s, Mapped(ch))[i]
  <2>1. Len(t) = incount + 1 /\ incount \in Nat
    BY <1>1, <1>5 DEF InOrder
  <2> QED BY <2>1, <1>6, <1>7, <1>8
<1>11. t = Append(s, Mapped(ch))
  BY <1>5, <1>6, <1>9, <1>10, SeqEqual
<1>12. Unread = s /\ Unread' = t
  BY DEF s, t
<1> QED BY <1>1, <1>3, <1>4, <1>11, <1>12

\* What is read are the first of the unread ones, and the rest stays.
LEMMA ReadsTake ==
  ASSUME InOrder, Reads, ~overrun'
  PROVE  /\ InOrder'
         /\ \E n \in Lengths :
              LET k == IF n < Len(Unread) THEN n ELSE Len(Unread)
              IN  /\ given' = SubSeq(Unread, 1, k)
                  /\ Unread' = SubSeq(Unread, k + 1, Len(Unread))
<1> USE SioAssumption
<1>1. PICK n \in Lengths :
        LET k == IF n < incount THEN n ELSE incount
            taken == innext .. innext + k - 1
        IN  /\ overrun' = ~(taken \subseteq Cells)
            /\ given' = [i \in 1 .. k |-> IF innext + i - 1 \in Cells
                                          THEN inbuffer[innext + i - 1] ELSE Empty]
            /\ incount' = incount - k
            /\ IF k = incount THEN innext' = 0 /\ inlast' = 0
                              ELSE innext' = innext + k /\ UNCHANGED inlast
  BY DEF Reads
<1> DEFINE k == IF n < incount THEN n ELSE incount
<1>2. k \in 1 .. incount /\ n \in Nat /\ incount \in Nat
  BY DEF InOrder, Reads
<1>3. /\ given' = [i \in 1 .. k |-> IF innext + i - 1 \in Cells
                                    THEN inbuffer[innext + i - 1] ELSE Empty]
      /\ incount' = incount - k
      /\ IF k = incount THEN innext' = 0 /\ inlast' = 0
                        ELSE innext' = innext + k /\ UNCHANGED inlast
  BY <1>1
<1>4. k = IF n < incount THEN n ELSE incount
  OBVIOUS
<1> HIDE DEF k
<1>5. inbuffer' = inbuffer
  BY DEF Reads
<1>6. InOrder'
  BY <1>2, <1>3, <1>5 DEF InOrder
<1> DEFINE s == Unread
           t == Unread'
<1>7. /\ s \in Seq(Any) /\ Len(s) = incount
      /\ \A i \in 1 .. incount : s[i] = inbuffer[innext + i - 1]
  BY UnreadIs
<1>8. /\ t \in Seq(Any) /\ Len(t) = incount'
      /\ \A i \in 1 .. incount' : t[i] = inbuffer'[innext' + i - 1]
  BY <1>6, UnreadBecomes
<1> HIDE DEF s, t
<1>9. \A i \in 1 .. incount : s[i] \in Any
  BY <1>7, ElementOfSeq
<1>10. given' = SubSeq(s, 1, k)
  <2>1. \A i \in 1 .. k : innext + i - 1 \in Cells
    BY <1>2 DEF InOrder, Cells
  <2>2. given' = [i \in 1 .. k |-> s[i]]
    BY <2>1, <1>2, <1>3, <1>7
  <2>3. SubSeq(s, 1, k) = Restrict(s, 1 .. k)
    <3>1. k \in 0 .. Len(s)
      BY <1>2, <1>7
    <3> QED BY <3>1, <1>7, SubSeqRestrict
  <2> QED BY <2>2, <2>3 DEF Restrict
<1>11. t = SubSeq(s, k + 1, incount)
  <2> DEFINE u == SubSeq(s, k + 1, incount)
  <2>1. \A i \in k + 1 .. incount : s[i] \in Any
    BY <1>2, <1>9
  <2>2. /\ u \in Seq(Any)
        /\ Len(u) = IF k + 1 <= incount THEN incount - (k + 1) + 1 ELSE 0
        /\ \A i \in 1 .. incount - (k + 1) + 1 : u[i] = s[k + 1 + i - 1]
    BY <2>1, <1>2, SubSeqProperties
  <2> HIDE DEF u
  <2>3. Len(u) = incount - k
    BY <2>2, <1>2
  <2>4. \A i \in 1 .. incount - k : u[i] = s[k + i]
    BY <2>2, <1>2
  <2>5. Len(t) = incount - k
    BY <1>3, <1>8
  <2>6. \A i \in 1 .. incount - k : t[i] = s[k + i]
    <3> TAKE i \in 1 .. incount - k
    <3>1. innext' = innext + k
      BY <1>2, <1>3
    <3>2. t[i] = inbuffer[innext + k + i - 1]
      BY <3>1, <1>2, <1>3, <1>5, <1>8
    <3>3. k + i \in 1 .. incount /\ innext + k + i - 1 = innext + (k + i) - 1
      BY <1>2 DEF InOrder
    <3> QED BY <3>2, <3>3, <1>7
  <2> QED BY <2>2, <2>3, <2>4, <2>5, <2>6, <1>8, SeqEqual DEF u
<1>12. Unread = s /\ Unread' = t
  BY DEF s, t
<1> QED BY <1>4, <1>6, <1>7, <1>10, <1>11, <1>12

-----------------------------------------------------------------------------
(***************************************************************************)
(* Output.                                                                 *)
(***************************************************************************)

\* The unsent characters, before a step and after it.
LEMMA UnsentIs ==
  ASSUME OutOrder
  PROVE  /\ Unsent \in Seq(Any)
         /\ Len(Unsent) = outcount
         /\ \A i \in 1 .. outcount : /\ Unsent[i] = outbuffer[Turn(outnext + i - 1)]
                                     /\ Turn(outnext + i - 1) \in Cells
         /\ Unsent = <<>> <=> outcount = 0
<1>1. /\ outbuffer \in [Cells -> Any] /\ outnext \in Cells
      /\ outcount \in 0 .. BufSize
  BY DEF OutOrder
<1>2. Unsent = Circular(outbuffer, outnext, outcount)
  BY DEF Unsent, Circular
<1> QED BY <1>1, <1>2, CircularIs

\* The same of the state after a step.
LEMMA UnsentBecomes ==
  ASSUME OutOrder'
  PROVE  /\ Unsent' \in Seq(Any)
         /\ Len(Unsent') = outcount'
         /\ \A i \in 1 .. outcount' : /\ Unsent'[i] = outbuffer'[Turn(outnext' + i - 1)]
                                      /\ Turn(outnext' + i - 1) \in Cells
         /\ Unsent' = <<>> <=> outcount' = 0
<1>1. /\ outbuffer' \in [Cells -> Any] /\ outnext' \in Cells
      /\ outcount' \in 0 .. BufSize
  BY DEF OutOrder, Cells, Any
<1>2. Unsent' = Circular(outbuffer', outnext', outcount')
  BY DEF Unsent, Circular
<1> QED BY <1>1, <1>2, CircularIs

\* When the cells of the unsent characters stay as they are and those after
\* them hold cs, the stream is longer by cs.
LEMMA Joined ==
  ASSUME OutOrder, OutOrder', NEW cs \in Seq(Any),
         outnext' = outnext, outcount' = outcount + Len(cs),
         \A i \in 1 .. outcount :
           outbuffer'[Turn(outnext + i - 1)] = outbuffer[Turn(outnext + i - 1)],
         \A j \in 1 .. Len(cs) : outbuffer'[Turn(outnext + outcount + j - 1)] = cs[j]
  PROVE  Unsent' = Unsent \o cs
<1> DEFINE s == Unsent
           t == Unsent'
<1>1. /\ s \in Seq(Any) /\ Len(s) = outcount
      /\ \A i \in 1 .. outcount : s[i] = outbuffer[Turn(outnext + i - 1)]
  BY UnsentIs
<1>2. /\ t \in Seq(Any) /\ Len(t) = outcount'
      /\ \A i \in 1 .. outcount' : t[i] = outbuffer'[Turn(outnext' + i - 1)]
  BY UnsentBecomes
<1>3. outcount \in Nat /\ outnext \in Nat /\ Len(cs) \in Nat
  BY LenProperties, SioAssumption DEF OutOrder, Cells
<1> HIDE DEF s, t
<1>4. /\ s \o cs \in Seq(Any)
      /\ Len(s \o cs) = outcount + Len(cs)
      /\ \A i \in 1 .. outcount + Len(cs) :
           (s \o cs)[i] = IF i <= outcount THEN s[i] ELSE cs[i - outcount]
  BY <1>1, ConcatProperties
<1>5. \A i \in 1 .. outcount + Len(cs) : t[i] = (s \o cs)[i]
  <2> TAKE i \in 1 .. outcount + Len(cs)
  <2>1. t[i] = outbuffer'[Turn(outnext + i - 1)]
    BY <1>2
  <2>2. CASE i <= outcount
    <3>1. i \in 1 .. outcount
      BY <2>2, <1>3
    <3>2. s[i] = outbuffer[Turn(outnext + i - 1)]
      BY <3>1, <1>1
    <3>3. outbuffer'[Turn(outnext + i - 1)] = outbuffer[Turn(outnext + i - 1)]
      BY <3>1
    <3>4. (s \o cs)[i] = s[i]
      BY <2>2, <1>4
    <3> QED BY <2>1, <3>2, <3>3, <3>4, Zenon
  <2>3. CASE ~(i <= outcount)
    <3>1. i - outcount \in 1 .. Len(cs)
      BY <2>3, <1>3
    <3>2. outnext + outcount + (i - outcount) - 1 = outnext + i - 1
      BY <1>3
    <3>3. outbuffer'[Turn(outnext + i - 1)] = cs[i - outcount]
      BY <3>1, <3>2
    <3> QED BY <2>1, <2>3, <3>3, <1>3, <1>4
  <2> QED BY <2>2, <2>3
<1>6. t = s \o cs
  BY <1>2, <1>4, <1>5, SeqEqual
<1> QED BY <1>6 DEF s, t

\* What StoreOut stores without an overrun joins the stream.
LEMMA StoreOutJoins ==
  ASSUME OutOrder, NEW cs \in Seq(Any), StoreOut(cs), outnext' = outnext, ~overrun'
  PROVE  OutOrder' /\ Unsent' = Unsent \o cs
<1> USE SioAssumption
<1> DEFINE L == Len(cs)
<1>1. /\ outlast .. outlast + L - 1 \subseteq Cells /\ outcount + L <= BufSize
      /\ outbuffer' = [i \in Cells |-> IF i \in outlast .. outlast + L - 1
                                       THEN cs[i - outlast + 1] ELSE outbuffer[i]]
      /\ outlast' = outlast + L /\ outcount' = outcount + L
  <2>1. ~(~(outlast .. outlast + L - 1 \subseteq Cells) \/ outcount + L > BufSize)
    BY Zenon DEF StoreOut
  <2>2. outlast .. outlast + L - 1 \subseteq Cells /\ outcount + L <= BufSize
    BY <2>1, LenProperties DEF OutOrder
  <2> QED BY <2>2 DEF StoreOut
<1>2. L \in Nat /\ \A i \in 1 .. L : cs[i] \in Any
  BY LenProperties, ElementOfSeq
<1> HIDE DEF L
<1>3. outlast \in 0 .. BufSize /\ outcount \in 0 .. BufSize /\ outnext \in 0 .. BufSize - 1
  BY DEF OutOrder, Cells
<1>4. outlast + L <= BufSize
  <2>1. CASE L = 0
    BY <2>1, <1>3
  <2>2. CASE L > 0
    <3>1. outlast + L - 1 \in outlast .. outlast + L - 1
      BY <2>2, <1>2, <1>3
    <3>2. outlast + L - 1 \in Cells
      BY <3>1, <1>1
    <3> QED BY <3>2, <1>2, <1>3 DEF Cells
  <2> QED BY <2>1, <2>2, <1>2
<1>5. outbuffer' \in [Cells -> Any]
  <2>1. \A i \in Cells : i \in outlast .. outlast + L - 1 => i - outlast + 1 \in 1 .. L
    BY <1>2, <1>3 DEF Cells
  <2> QED BY <2>1, <1>1, <1>2 DEF OutOrder
<1>6. OutOrder'
  <2>1. outnext' \in Cells /\ outcount' \in 0 .. BufSize /\ outlast' \in 0 .. BufSize
    BY <1>1, <1>2, <1>3, <1>4 DEF Cells
  <2>2. outlast' \in {outnext' + outcount', outnext' + outcount' - BufSize,
                      outnext' + outcount' + BufSize}
    BY <1>1, <1>2, <1>3 DEF OutOrder
  <2> QED BY <2>1, <2>2, <1>5 DEF OutOrder, Cells, Any
<1>7. \A i \in 1 .. outcount :
        outbuffer'[Turn(outnext + i - 1)] = outbuffer[Turn(outnext + i - 1)]
  <2> TAKE i \in 1 .. outcount
  <2>1. Turn(outnext + i - 1) \in Cells
    BY UnsentIs
  <2>2. Turn(outnext + i - 1) \notin outlast .. outlast + L - 1
    BY <1>1, <1>2, <1>3, <1>4 DEF OutOrder, Turn
  <2> QED BY <2>1, <2>2, <1>1
<1>8. \A j \in 1 .. L : outbuffer'[Turn(outnext + outcount + j - 1)] = cs[j]
  <2> TAKE j \in 1 .. L
  <2>1. Turn(outnext + outcount + j - 1) = outlast + j - 1
    BY <1>1, <1>2, <1>3, <1>4 DEF OutOrder, Turn
  <2>2. /\ outlast + j - 1 \in outlast .. outlast + L - 1 /\ outlast + j - 1 \in Cells
        /\ (outlast + j - 1) - outlast + 1 = j
    BY <1>2, <1>3, <1>4 DEF Cells
  <2> QED BY <2>1, <2>2, <1>1
<1> QED BY <1>1, <1>6, <1>7, <1>8, Joined DEF L

\* How far a cell lies behind outlast, going around.
Gap(i) == IF i >= outlast THEN i - outlast ELSE i - outlast + BufSize

\* The first n characters of rest, stored with wrapping, join the stream.
LEMMA WrappingJoins ==
  ASSUME OutOrder, NEW rest \in Seq(Any), NEW n \in 0 .. Len(rest),
         outcount + n <= BufSize, n > 0 => outlast \in Cells,
         outlast' = IF n > 0 THEN (outlast + n) % BufSize ELSE outlast,
         outcount' = outcount + n, outnext' = outnext,
         outbuffer' = [i \in Cells |->
                         LET j == (i - outlast) % BufSize
                         IN  IF j < n THEN rest[j + 1] ELSE outbuffer[i]]
  PROVE  OutOrder' /\ Unsent' = Unsent \o SubSeq(rest, 1, n)
<1> USE SioAssumption
<1> DEFINE cs == SubSeq(rest, 1, n)
<1>1. /\ outlast \in 0 .. BufSize /\ outcount \in 0 .. BufSize /\ outnext \in 0 .. BufSize - 1
      /\ n \in 0 .. BufSize
  BY LenProperties DEF OutOrder, Cells
<1>2. \A i \in 1 .. n : rest[i] \in Any
  BY LenProperties, ElementOfSeq
<1>3. /\ cs \in Seq(Any) /\ Len(cs) = n
      /\ \A i \in 1 .. n : cs[i] = rest[i]
  <2>1. /\ cs \in Seq(Any)
        /\ Len(cs) = IF 1 <= n THEN n - 1 + 1 ELSE 0
        /\ \A i \in 1 .. n - 1 + 1 : cs[i] = rest[1 + i - 1]
    BY <1>1, <1>2, SubSeqProperties
  <2> HIDE DEF cs
  <2> QED BY <2>1, <1>1
<1> HIDE DEF cs
<1>4. \A i \in Cells : (i - outlast) % BufSize = Gap(i) /\ Gap(i) \in Cells
  <2> TAKE i \in Cells
  <2> DEFINE d == i - outlast
  <2>1. d \in -BufSize .. BufSize - 1 /\ d = i - outlast
    BY <1>1 DEF Cells
  <2> HIDE DEF d
  <2>2. CASE d >= 0
    <3>1. d \in 0 .. 2 * BufSize - 1 /\ d < BufSize
      BY <2>1, <2>2
    <3>2. d % BufSize = d
      BY <3>1, Around DEF Turn
    <3> QED BY <3>1, <3>2, <2>1, <2>2, <1>1 DEF Gap, d, Cells
  <2>3. CASE d < 0
    <3>1. d \in -BufSize .. -1
      BY <2>1, <2>3
    <3>2. d % BufSize = d + BufSize
      BY <3>1, Behind
    <3> QED BY <3>1, <3>2, <2>1, <2>3, <1>1 DEF Gap, d, Cells
  <2> QED BY <2>1, <2>2, <2>3
<1>5. outbuffer' = [i \in Cells |-> IF Gap(i) < n THEN rest[Gap(i) + 1] ELSE outbuffer[i]]
  BY <1>4
<1>6. outbuffer' \in [Cells -> Any]
  <2>1. \A i \in Cells : Gap(i) < n => Gap(i) + 1 \in 1 .. n
    <3> SUFFICES ASSUME NEW i \in Cells, Gap(i) < n
                 PROVE  Gap(i) + 1 \in 1 .. n
      OBVIOUS
    <3>1. Gap(i) \in 0 .. BufSize - 1
      BY <1>4 DEF Cells
    <3> QED BY <3>1, <1>1
  <2> QED BY <2>1, <1>2, <1>5 DEF OutOrder
<1>7. outlast' \in 0 .. BufSize
      /\ outlast' \in {outnext + outcount', outnext + outcount' - BufSize,
                       outnext + outcount' + BufSize}
  <2>1. CASE n = 0
    BY <2>1, <1>1 DEF OutOrder
  <2>2. CASE n > 0
    <3> DEFINE e == outlast + n
    <3>1. e \in 0 .. 2 * BufSize - 1 /\ e = outlast + n
      BY <2>2, <1>1 DEF Cells
    <3> HIDE DEF e
    <3>2. e % BufSize = Turn(e) /\ Turn(e) \in Cells
      BY <3>1, Around
    <3>3. outlast' = Turn(e)
      BY <3>2, <2>2 DEF e
    <3> QED BY <3>1, <3>2, <3>3, <2>2, <1>1 DEF Turn, Cells, OutOrder
  <2> QED BY <2>1, <2>2, <1>1
<1>8. OutOrder'
  <2>1. outnext' \in Cells /\ outcount' \in 0 .. BufSize
    BY <1>1 DEF Cells
  <2> QED BY <2>1, <1>6, <1>7 DEF OutOrder, Cells, Any
<1>9. \A i \in 1 .. outcount :
        outbuffer'[Turn(outnext + i - 1)] = outbuffer[Turn(outnext + i - 1)]
  <2> TAKE i \in 1 .. outcount
  <2>1. Turn(outnext + i - 1) \in Cells
    BY UnsentIs
  <2>2. ~(Gap(Turn(outnext + i - 1)) < n)
    BY <1>1 DEF OutOrder, Turn, Gap
  <2> QED BY <2>1, <2>2, <1>5
<1>10. \A j \in 1 .. n : outbuffer'[Turn(outnext + outcount + j - 1)] = cs[j]
  <2> TAKE j \in 1 .. n
  <2> DEFINE c == Turn(outnext + outcount + j - 1)
  <2>1. outlast < BufSize
    BY <1>1 DEF Cells
  <2>2. c \in Cells /\ Gap(c) = j - 1
    BY <2>1, <1>1 DEF OutOrder, Turn, Gap, Cells
  <2> HIDE DEF c
  <2>3. outbuffer'[c] = rest[j - 1 + 1]
    BY <2>2, <1>1, <1>5
  <2> QED BY <2>3, <1>1, <1>3 DEF c
<1>11. Unsent' = Unsent \o cs
  BY <1>3, <1>8, <1>9, <1>10, Joined
<1> QED BY <1>8, <1>11 DEF cs

\* The first of the unsent characters is the one that goes to the UART.
LEMMA NextSends ==
  ASSUME OutOrder, TxNext
  PROVE  /\ OutOrder' /\ ~overrun'
         /\ Unsent # <<>>
         /\ txd' = <<Head(Unsent)>> /\ Unsent' = Tail(Unsent)
<1> USE SioAssumption
<1>1. /\ outcount > 0 /\ outnext \in Cells
      /\ overrun' = (outnext \notin Cells)
      /\ txd' = <<outbuffer[outnext]>>
      /\ outnext' = Wrapped(outnext) /\ outcount' = outcount - 1
      /\ outbuffer' = outbuffer /\ outlast' = outlast
  BY DEF TxNext, OutOrder
<1>2. ~overrun'
  BY <1>1, Zenon
<1>3. /\ outlast \in 0 .. BufSize /\ outcount \in 1 .. BufSize /\ outnext \in 0 .. BufSize - 1
      /\ outlast \in {outnext + outcount, outnext + outcount - BufSize,
                      outnext + outcount + BufSize}
  BY <1>1 DEF OutOrder, Cells
<1>4. outnext' \in Cells /\ outnext' = Turn(outnext + 1)
  BY <1>1, <1>3 DEF Wrapped, Cells, Turn
<1>5. OutOrder'
  <2>1. outcount' \in 0 .. BufSize /\ outlast' \in 0 .. BufSize
    BY <1>1, <1>3
  <2>2. outlast' \in {outnext' + outcount', outnext' + outcount' - BufSize,
                      outnext' + outcount' + BufSize}
    BY <1>1, <1>3, <1>4 DEF Turn
  <2>3. outbuffer' \in [Cells -> Any]
    BY <1>1 DEF OutOrder
  <2> QED BY <1>4, <2>1, <2>2, <2>3 DEF OutOrder, Cells, Any
<1> DEFINE s == Unsent
           t == Unsent'
<1>6. /\ s \in Seq(Any) /\ Len(s) = outcount /\ s # <<>>
      /\ \A i \in 1 .. outcount : s[i] = outbuffer[Turn(outnext + i - 1)]
  BY <1>3, UnsentIs
<1>7. /\ t \in Seq(Any) /\ Len(t) = outcount - 1
      /\ \A i \in 1 .. outcount - 1 : t[i] = outbuffer[Turn(outnext' + i - 1)]
  BY <1>1, <1>5, UnsentBecomes
<1> HIDE DEF s, t
<1>8. Head(s) = outbuffer[outnext]
  <2>1. Turn(outnext + 1 - 1) = outnext /\ 1 \in 1 .. outcount
    BY <1>3 DEF Turn
  <2>2. s[1] = outbuffer[outnext]
    BY <2>1, <1>6
  <2> QED BY <2>2, <1>6
<1>9. t = Tail(s)
  <2>1. /\ Tail(s) \in Seq(Any) /\ Len(Tail(s)) = outcount - 1
        /\ \A i \in 1 .. outcount - 1 : Tail(s)[i] = s[i + 1]
    BY <1>6, HeadTailProperties
  <2>2. \A i \in 1 .. outcount - 1 : t[i] = Tail(s)[i]
    <3> TAKE i \in 1 .. outcount - 1
    <3>1. i + 1 \in 1 .. outcount /\ Turn(outnext' + i - 1) = Turn(outnext + (i + 1) - 1)
      BY <1>3, <1>4 DEF Turn
    <3> QED BY <3>1, <2>1, <1>6, <1>7
  <2> QED BY <2>1, <2>2, <1>7, SeqEqual
<1> QED BY <1>1, <1>2, <1>5, <1>6, <1>8, <1>9 DEF s, t

\* A sequence of one element has no tail.
LEMMA SingleTail ==
  ASSUME NEW x
  PROVE  Tail(<<x>>) = <<>> /\ Head(<<x>>) = x
<1>1. <<x>> \in Seq({x}) /\ Len(<<x>>) = 1 /\ <<x>> # <<>>
  OBVIOUS
<1>2. Tail(<<x>>) \in Seq({x}) /\ Len(Tail(<<x>>)) = 0
  BY <1>1, HeadTailProperties
<1> QED BY <1>1, <1>2, EmptySeq

\* No caller hands _sio_writes a buffer that begins with LF.
NoLeadingLF == \A s \in Strings : Head(s) # LF

Rest(s) == IF sending THEN s ELSE Tail(s)
Room    == BufSize - outcount
Fits(s) == IF Len(Rest(s)) < Room THEN Len(Rest(s)) ELSE Room

\* _sio_writes appends what fits, without the first character if it is the
\* one that starts a transmit sequence.
LEMMA WritesJoin ==
  ASSUME OutOrder, NoLeadingLF, Writes, ~overrun'
  PROVE  /\ OutOrder'
         /\ \E s \in Strings :
              /\ Unsent' = Unsent \o SubSeq(Rest(s), 1, Fits(s))
              /\ txd' = IF sending THEN <<>> ELSE <<Head(s)>>
<1> USE SioAssumption
<1> DEFINE n(s) == Fitting(Len(Rest(s)))
           end(s) == IF n(s) > 0 THEN (outlast + n(s)) % BufSize ELSE outlast
           behind(s) == IF sending THEN <<>> ELSE Tail(CRLF(Head(s)))
           stored(s) == [i \in Cells |->
                           LET j == (i - outlast) % BufSize
                           IN  IF j < n(s) THEN Rest(s)[j + 1] ELSE outbuffer[i]]
<1>1. PICK s \in Strings :
        /\ overrun' = \/ n(s) > 0 /\ outlast \notin Cells
                      \/ behind(s) # <<>> /\ end(s) \notin Cells
                      \/ outcount + n(s) + Len(behind(s)) > BufSize
        /\ outlast' = end(s) + Len(behind(s))
        /\ outcount' = outcount + n(s) + Len(behind(s))
        /\ outbuffer' = IF behind(s) = <<>> \/ end(s) \notin Cells THEN stored(s)
                        ELSE [stored(s) EXCEPT ![end(s)] = LF]
        /\ IF sending
           THEN txd' = <<>>
           ELSE txd' = <<Head(CRLF(Head(s)))>>
  BY Zenon DEF Writes, Rest
<1>2. s \in Seq(Chars) /\ s # <<>> /\ Head(s) # LF /\ s \in Seq(Any)
  <2>1. s \in Seq(Chars) /\ s # <<>> /\ Head(s) # LF
    BY DEF NoLeadingLF
  <2>2. Chars \subseteq Any
    BY DEF Any
  <2> QED BY <2>1, <2>2, SeqMonotonic
<1>3. CRLF(Head(s)) = <<Head(s)>>
  BY <1>2 DEF CRLF
<1>4. behind(s) = <<>>
  BY <1>3, SingleTail, Zenon
<1>5. Rest(s) \in Seq(Any) /\ Len(Rest(s)) \in Nat
  BY <1>2, HeadTailProperties, LenProperties DEF Rest
<1>6. /\ n(s) = Fits(s) /\ n(s) \in 0 .. Len(Rest(s)) /\ outcount + n(s) <= BufSize
  <2>1. outcount \in 0 .. BufSize
    BY DEF OutOrder
  <2>2. Fits(s) \in {Len(Rest(s)), BufSize - outcount}
    BY DEF Fits, Room
  <2>3. \A y \in {Len(Rest(s)), BufSize - outcount} : Fits(s) <= y
    BY <1>5, <2>1 DEF Fits, Room
  <2>4. \A x \in {Len(Rest(s)), BufSize - outcount} :
          (\A y \in {Len(Rest(s)), BufSize - outcount} : x =< y) => x = Fits(s)
    BY <1>5, <2>1, <2>2, <2>3
  <2>5. n(s) = CHOOSE x \in {Len(Rest(s)), BufSize - outcount} :
                 \A y \in {Len(Rest(s)), BufSize - outcount} : x =< y
    BY Zenon DEF Fitting, Min
  <2>6. n(s) = Fits(s)
    BY <2>2, <2>3, <2>4, <2>5
  <2> HIDE DEF n
  <2>7. Fits(s) \in 0 .. Len(Rest(s)) /\ outcount + Fits(s) <= BufSize
    BY <1>5, <2>1 DEF Fits, Room
  <2> QED BY <2>6, <2>7
<1> DEFINE N == n(s)
           B == behind(s)
<1>7. ~(N > 0 /\ outlast \notin Cells)
  BY <1>1, Zenon
<1>8. outlast' = (IF N > 0 THEN (outlast + N) % BufSize ELSE outlast) + Len(<<>>)
  BY <1>1, <1>4, Zenon
<1>9. outcount' = outcount + N + Len(<<>>)
  BY <1>1, <1>4, Zenon
<1>10. outbuffer' = [i \in Cells |->
                       LET j == (i - outlast) % BufSize
                       IN  IF j < N THEN Rest(s)[j + 1] ELSE outbuffer[i]]
  BY <1>1, <1>4, Zenon
<1>11. txd' = IF sending THEN <<>> ELSE <<Head(s)>>
  BY <1>1, <1>3
<1>12. N = Fits(s) /\ N \in 0 .. Len(Rest(s)) /\ outcount + N <= BufSize
  BY <1>6
<1>13. outnext' = outnext
  BY DEF Writes
<1> HIDE DEF n, N, behind, B
<1>14. outlast' = (IF N > 0 THEN (outlast + N) % BufSize ELSE outlast)
  <2>1. CASE N > 0
    <3> DEFINE e == outlast + N
    <3>1. e \in Nat /\ e = outlast + N
      BY <1>12, LenProperties DEF OutOrder
    <3> HIDE DEF e
    <3>2. e % BufSize \in Int
      BY <3>1
    <3> QED BY <3>2, <2>1, <1>8, EmptySeq DEF e
  <2>2. CASE ~(N > 0)
    BY <2>2, <1>8, EmptySeq DEF OutOrder
  <2> QED BY <2>1, <2>2
<1>15. outcount' = outcount + N
  BY <1>9, <1>12, EmptySeq DEF OutOrder
<1>16. OutOrder' /\ Unsent' = Unsent \o SubSeq(Rest(s), 1, N)
  BY <1>5, <1>7, <1>10, <1>12, <1>13, <1>14, <1>15, WrappingJoins
<1> QED BY <1>11, <1>12, <1>16

\* _sio_writec appends the character, with CR in front of LF; the first one
\* goes to an idle UART at once.
LEMMA WritecJoins ==
  ASSUME OutOrder, sending \/ outcount = 0, Writec, ~overrun'
  PROVE  /\ OutOrder'
         /\ \E ch \in Chars :
              IF sending THEN txd' = <<>> /\ Unsent' = Unsent \o CRLF(ch)
                         ELSE txd' = <<Head(CRLF(ch))>> /\ Unsent' = Tail(CRLF(ch))
<1>1. PICK ch \in Chars :
        IF sending THEN StoreOut(CRLF(ch)) /\ txd' = <<>>
                   ELSE StoreOut(Tail(CRLF(ch))) /\ txd' = <<Head(CRLF(ch))>>
  BY Zenon DEF Writec
<1>2. outnext' = outnext
  BY DEF Writec
<1>3. CRLF(ch) \in Seq(Any) /\ CRLF(ch) # <<>>
  <2>1. ch \in Any /\ CR \in Any /\ LF \in Any
    BY DEF Any
  <2>2. <<CR, LF>> \in Seq(Any) /\ <<ch>> \in Seq(Any)
    BY <2>1
  <2>3. <<CR, LF>> # <<>> /\ <<ch>> # <<>>
    OBVIOUS
  <2> QED BY <2>2, <2>3 DEF CRLF
<1>4. Tail(CRLF(ch)) \in Seq(Any)
  BY <1>3, HeadTailProperties
<1>5. CASE sending
  BY <1>1, <1>2, <1>3, <1>5, StoreOutJoins
<1>6. CASE ~sending
  <2>1. OutOrder' /\ Unsent' = Unsent \o Tail(CRLF(ch))
    BY <1>1, <1>2, <1>4, <1>6, StoreOutJoins
  <2>2. Unsent = <<>>
    BY <1>6, UnsentIs
  <2>3. <<>> \o Tail(CRLF(ch)) = Tail(CRLF(ch))
    BY <1>4, ConcatEmptySeq
  <2> QED BY <1>1, <1>6, <2>1, <2>2, <2>3
<1> QED BY <1>5, <1>6

-----------------------------------------------------------------------------
(***************************************************************************)
(* The flag, the interrupt and the register.                               *)
(***************************************************************************)
\* Whatever is unsent is being sent, with the transmitter's interrupt on;
\* while nothing is sent the transmit register is empty.
THEOREM TransmittingInvariant == Spec => []Transmitting
<1>0. ~(0 > 0)
  OBVIOUS
<1>1. Init => Transmitting
  BY <1>0, Zenon DEF Init, Transmitting
<1>2. Transmitting /\ [Next]_sioVars => Transmitting'
  <2> SUFFICES ASSUME Transmitting, [Next]_sioVars
               PROVE  Transmitting'
    OBVIOUS
  <2> USE DEF Transmitting
  <2>1. ASSUME UNCHANGED outVars PROVE Transmitting'
    BY <2>1 DEF outVars
  <2>2. CASE RxHandOver \/ RxStore \/ RxIgnore \/ Reads \/ ReadcWaits
    BY <2>2, <2>1 DEF RxHandOver, RxStore, RxIgnore, Reads, ReadcWaits
  <2>3. CASE Writec
    BY <2>3 DEF Writec, sio_enable
  <2>4. CASE Writes
    <3>1. sending' = TRUE /\ ((UNCHANGED ier /\ sending) \/ ier' = ier \cup {"TX"})
      BY <2>4 DEF Writes, sio_enable
    <3> QED BY <3>1
  <2>5. CASE TxNext
    BY <2>5 DEF TxNext
  <2>6. CASE TxDone
    <3>1. outcount' = 0 /\ sending' = FALSE /\ thr' = Empty
      BY <2>6 DEF TxDone
    <3> QED BY <3>1, <1>0, Zenon
  <2>7. CASE LineSends
    BY <2>7 DEF LineSends
  <2>8. CASE Overrun \/ UNCHANGED sioVars
    BY <2>8, <2>1 DEF Overrun, sioVars
  <2> QED BY <2>2, <2>3, <2>4, <2>5, <2>6, <2>7, <2>8 DEF Next
<1> QED BY <1>1, <1>2, PTL DEF Spec

\* Characters that wait to be sent are never stranded, whatever the size of
\* the buffer and also when it has overrun: _sending is set and the transmit
\* interrupt, whose handler fetches them (_isr_sio), is enabled.
THEOREM OutputNotStranded == Spec => []NothingStranded
<1>1. Transmitting => NothingStranded
  BY DEF Transmitting, NothingStranded
<1> QED BY <1>1, TransmittingInvariant, PTL

\* _sio_writec, _sio_writes and _isr_sio write UA4_TXD only while the UART
\* holds no character.
THEOREM TransmitterNotOverwritten == Spec => TransmitterFree
<1>1. Transmitting /\ [Next]_sioVars => [txd' # <<>> => thr = Empty]_sioVars
  <2> SUFFICES ASSUME Transmitting, Next, txd' # <<>>, ~UNCHANGED sioVars
               PROVE  thr = Empty
    OBVIOUS
  <2>1. CASE Writec
    BY <2>1 DEF Writec, Transmitting
  <2>2. CASE Writes
    BY <2>2 DEF Writes, Transmitting
  <2>3. CASE TxNext \/ TxDone
    BY <2>3 DEF TxNext, TxDone
  <2>4. CASE RxHandOver \/ RxStore \/ RxIgnore \/ Reads \/ ReadcWaits \/ LineSends
    BY <2>4 DEF RxHandOver, RxStore, RxIgnore, Reads, ReadcWaits, LineSends
  <2>5. CASE Overrun
    BY <2>5 DEF Overrun
  <2> QED BY <2>1, <2>2, <2>3, <2>4, <2>5 DEF Next
<1> QED BY <1>1, TransmittingInvariant, PTL DEF Spec, TransmitterFree

-----------------------------------------------------------------------------
(***************************************************************************)
(* The pointers and counts, and the refinement.                            *)
(***************************************************************************)
InStays  == UNCHANGED <<inbuffer, inlast, innext, incount>>
OutStays == UNCHANGED <<outbuffer, outlast, outnext, outcount>>

\* What leaves the input buffer alone leaves its stream as it is,
LEMMA InputStays ==
  ASSUME InStays
  PROVE  Unread' = Unread /\ (InOrder => InOrder')
<1>1. Unread' = Unread
  BY Zenon DEF InStays, Unread
<1>2. InOrder => InOrder'
  BY DEF InStays, InOrder, Cells, Any
<1> QED BY <1>1, <1>2

\* and the same of the output buffer.
LEMMA OutputStays ==
  ASSUME OutStays
  PROVE  Unsent' = Unsent /\ (OutOrder => OutOrder')
<1>1. Unsent' = Unsent
  BY Zenon DEF OutStays, Unsent
<1>2. OutOrder => OutOrder'
  BY DEF OutStays, OutOrder, Cells, Any
<1> QED BY <1>1, <1>2

\* Which of the two sides an action leaves alone.
LEMMA Sides ==
  /\ RxStore \/ Reads => OutStays /\ UNCHANGED <<sending, readers>>
  /\ RxHandOver \/ RxIgnore \/ ReadcWaits => InStays /\ OutStays /\ UNCHANGED <<sending, overrun>>
  /\ Writec \/ Writes => InStays /\ UNCHANGED readers
  /\ TxNext => InStays /\ UNCHANGED <<sending, readers>>
  /\ TxDone => InStays /\ UNCHANGED <<readers, overrun>>
  /\ LineSends => InStays /\ OutStays /\ UNCHANGED <<sending, readers, overrun>>
<1> USE DEF InStays, OutStays, inVars, outVars
<1>1. RxStore \/ Reads => OutStays /\ UNCHANGED <<sending, readers>>
  BY DEF RxStore, Reads
<1>2. RxHandOver \/ RxIgnore \/ ReadcWaits => InStays /\ OutStays /\ UNCHANGED <<sending, overrun>>
  BY DEF RxHandOver, RxIgnore, ReadcWaits
<1>3. Writec \/ Writes => InStays /\ UNCHANGED readers
  BY DEF Writec, Writes
<1>4. TxNext => InStays /\ UNCHANGED <<sending, readers>>
  BY DEF TxNext
<1>5. TxDone => InStays /\ UNCHANGED <<readers, overrun>>
  BY DEF TxDone
<1>6. LineSends => InStays /\ OutStays /\ UNCHANGED <<sending, readers, overrun>>
  BY DEF LineSends
<1> QED BY <1>1, <1>2, <1>3, <1>4, <1>5, <1>6

Ordered == overrun \in BOOLEAN /\ (~overrun => InOrder /\ OutOrder)

\* Every step keeps the buffers in order, until one overruns.
LEMMA OrderedKept ==
  ASSUME NoLeadingLF, Transmitting, Ordered, [Next]_sioVars
  PROVE  Ordered'
<1>1. overrun' \in BOOLEAN
  <2>1. RxStore \/ Reads \/ Writec \/ Writes \/ TxNext => overrun' \in BOOLEAN
    BY DEF RxStore, Reads, Writec, Writes, TxNext, StoreOut
  <2>2. Overrun \/ UNCHANGED sioVars => UNCHANGED overrun
    BY DEF Overrun, sioVars
  <2> QED BY <2>1, <2>2, Sides DEF Next, Ordered
<1>2. ASSUME ~overrun' PROVE InOrder' /\ OutOrder'
  <2> USE <1>2
  <2>1. CASE overrun
    BY <2>1 DEF Next, RxHandOver, RxStore, RxIgnore, Reads, ReadcWaits, Writec, Writes,
                TxNext, TxDone, LineSends, Overrun, sioVars
  <2>2. CASE ~overrun
    <3>0. InOrder /\ OutOrder
      BY <2>2 DEF Ordered
    <3>1. CASE RxStore
      BY <3>0, <3>1, StoreAppends, Sides, OutputStays
    <3>2. CASE Reads
      BY <3>0, <3>2, ReadsTake, Sides, OutputStays
    <3>3. CASE RxHandOver \/ RxIgnore \/ ReadcWaits \/ LineSends
      BY <3>0, <3>3, Sides, InputStays, OutputStays
    <3>4. CASE Writec
      <4>1. sending \/ outcount = 0
        BY <3>0 DEF Transmitting, OutOrder
      <4> QED BY <3>0, <3>4, <4>1, WritecJoins, Sides, InputStays
    <3>5. CASE Writes
      BY <3>0, <3>5, WritesJoin, Sides, InputStays
    <3>6. CASE TxNext
      BY <3>0, <3>6, NextSends, Sides, InputStays
    <3>7. CASE TxDone
      <4>1. outcount' = 0 /\ outlast' = 0 /\ outnext' = 0 /\ outbuffer' = outbuffer
        BY <3>7 DEF TxDone
      <4>2. OutOrder'
        BY <3>0, <4>1, SioAssumption DEF OutOrder, Cells, Any
      <4> QED BY <3>0, <3>7, <4>2, Sides, InputStays
    <3>8. CASE Overrun \/ UNCHANGED sioVars
      <4>1. InStays /\ OutStays
        BY <3>8 DEF Overrun, sioVars, inVars, outVars, InStays, OutStays
      <4> QED BY <3>0, <4>1, InputStays, OutputStays
    <3> QED BY <3>1, <3>2, <3>3, <3>4, <3>5, <3>6, <3>7, <3>8 DEF Next
  <2> QED BY <2>1, <2>2
<1> QED BY <1>1, <1>2 DEF Ordered

\* The pointers and counts keep to their order until a buffer overruns.
THEOREM DriverInvariant ==
  ASSUME NoLeadingLF
  PROVE  Spec => [](Transmitting /\ Ordered)
<1>1. Init => Ordered
  <2> SUFFICES ASSUME Init PROVE Ordered
    OBVIOUS
  <2>1. inbuffer \in [Cells -> Any] /\ outbuffer \in [Cells -> Any]
    BY DEF Init, Any
  <2>2. InOrder
    BY <2>1, SioAssumption DEF Init, InOrder
  <2>3. OutOrder
    BY <2>1, SioAssumption DEF Init, OutOrder, Cells
  <2>4. overrun \in BOOLEAN
    BY DEF Init
  <2> QED BY <2>2, <2>3, <2>4 DEF Ordered
<1>2. Transmitting /\ Ordered /\ [Next]_sioVars => Ordered'
  BY OrderedKept
<1> QED BY <1>1, <1>2, TransmittingInvariant, PTL DEF Spec

\* The first characters of a buffer without the first one.
LEMMA TailOfPrefix ==
  ASSUME NEW S, NEW s \in Seq(S), s # <<>>, NEW n \in 1 .. Len(s)
  PROVE  /\ Head(SubSeq(s, 1, n)) = Head(s)
         /\ Tail(SubSeq(s, 1, n)) = SubSeq(Tail(s), 1, n - 1)
<1>1. Len(s) \in Nat /\ 1 \in 1 .. Len(s) /\ n \in 1 .. Len(s)
  BY LenProperties
<1>2. Head(SubSeq(s, 1, n)) = s[1] /\ Tail(SubSeq(s, 1, n)) = SubSeq(s, 2, n)
  BY <1>1, HeadTailOfSubSeq
<1>3. /\ Tail(s) \in Seq(S) /\ Len(Tail(s)) = Len(s) - 1
      /\ \A i \in 1 .. Len(s) - 1 : Tail(s)[i] = s[i + 1]
  BY HeadTailProperties
<1> DEFINE a == SubSeq(s, 2, n)
           b == SubSeq(Tail(s), 1, n - 1)
<1>4. a \in Seq(S) /\ Len(a) = n - 1 /\ \A i \in 1 .. n - 1 : a[i] = s[i + 1]
  <2>1. \A i \in 2 .. n : s[i] \in S
    BY <1>1, ElementOfSeq
  <2>2. /\ a \in Seq(S)
        /\ Len(a) = IF 2 <= n THEN n - 2 + 1 ELSE 0
        /\ \A i \in 1 .. n - 2 + 1 : a[i] = s[2 + i - 1]
    BY <2>1, <1>1, SubSeqProperties
  <2> HIDE DEF a
  <2> QED BY <2>2, <1>1
<1>5. b \in Seq(S) /\ Len(b) = n - 1 /\ \A i \in 1 .. n - 1 : b[i] = s[i + 1]
  <2>1. \A i \in 1 .. n - 1 : Tail(s)[i] = s[i + 1] /\ s[i + 1] \in S
    BY <1>1, <1>3, ElementOfSeq
  <2>2. /\ b \in Seq(S)
        /\ Len(b) = IF 1 <= n - 1 THEN n - 1 - 1 + 1 ELSE 0
        /\ \A i \in 1 .. n - 1 - 1 + 1 : b[i] = Tail(s)[1 + i - 1]
    BY <2>1, <1>1, SubSeqProperties
  <2> HIDE DEF b
  <2>3. Len(b) = n - 1 /\ \A i \in 1 .. n - 1 : b[i] = Tail(s)[i]
    BY <2>2, <1>1
  <2> QED BY <2>1, <2>2, <2>3
<1> HIDE DEF a, b
<1>6. a = b
  BY <1>4, <1>5, SeqEqual
<1>7. s[1] = Head(s)
  OBVIOUS
<1> QED BY <1>2, <1>6, <1>7 DEF a, b

\* A step of the driver is a step of SioSpec's streams, or none.
LEMMA StepsKeepStreams ==
  ASSUME NoLeadingLF, Transmitting, Ordered, [Next]_sioVars
  PROVE  [Streams!Next]_Streams!specVars
<1> DEFINE U == IF overrun THEN <<>> ELSE Unread
           O == IF overrun THEN <<>> ELSE Unsent
<1>1. CASE overrun'
  BY <1>1 DEF Streams!Next
<1>2. CASE overrun
  <2>1. overrun'
    BY <1>2 DEF Next, RxHandOver, RxStore, RxIgnore, Reads, ReadcWaits, Writec, Writes,
                TxNext, TxDone, LineSends, Overrun, sioVars
  <2> QED BY <2>1, <1>1
<1>3. CASE ~overrun /\ ~overrun'
  <2>0. InOrder /\ OutOrder
    BY <1>3 DEF Ordered
  <2>1. /\ U = Unread /\ U' = Unread' /\ O = Unsent /\ O' = Unsent'
        /\ overrun' = overrun
    <3>1. overrun \in BOOLEAN /\ overrun' \in BOOLEAN
      BY OrderedKept DEF Ordered
    <3> QED BY <3>1, <1>3
  <2> HIDE DEF U, O
  <2>2. CASE RxHandOver
    <3>1. PICK ch \in Chars :
            /\ readers > 0 /\ readers' = readers - 1
            /\ given' = <<Mapped(ch)>> /\ txd' = <<>>
      BY <2>2 DEF RxHandOver
    <3>2. U' = U /\ O' = O /\ sending' = sending
      BY <2>0, <2>1, <2>2, Sides, InputStays, OutputStays
    <3>3. Streams!Receive(ch)
      BY <3>1, <3>2, <2>1 DEF Streams!Receive, Mapped, CR, LF, Streams!CR, Streams!LF, U, O
    <3> QED BY <3>3 DEF Streams!Next
  <2>3. CASE RxStore
    <3>1. readers = 0 /\ ~(readers > 0) /\ given' = <<>> /\ txd' = <<>>
      BY <2>3 DEF RxStore
    <3>2. PICK ch \in Chars : Unread' = Append(Unread, Mapped(ch))
      BY <2>0, <2>3, <1>3, StoreAppends
    <3>3. Len(Unread) < BufSize
      BY <2>0, <2>3, <1>3, StoreAppends
    <3>4. O' = O /\ sending' = sending /\ readers' = readers
      BY <2>1, <2>3, Sides, OutputStays
    <3>5. Streams!Receive(ch)
      BY <3>1, <3>2, <3>3, <3>4, <2>1
         DEF Streams!Receive, Mapped, CR, LF, Streams!CR, Streams!LF, U, O
    <3> QED BY <3>5 DEF Streams!Next
  <2>4. CASE Reads
    <3>1. txd' = <<>>
      BY <2>4 DEF Reads
    <3>2. PICK n \in Lengths :
            LET k == IF n < Len(Unread) THEN n ELSE Len(Unread)
            IN  /\ given' = SubSeq(Unread, 1, k)
                /\ Unread' = SubSeq(Unread, k + 1, Len(Unread))
      BY <2>0, <2>4, <1>3, ReadsTake
    <3>3. O' = O /\ sending' = sending /\ readers' = readers
      BY <2>1, <2>4, Sides, OutputStays
    <3>4. Streams!Read(n)
      BY <3>1, <3>2, <3>3, <2>1 DEF Streams!Read, U, O
    <3> QED BY <3>4 DEF Streams!Next
  <2>5. CASE ReadcWaits
    <3>1. incount = 0 /\ readers' = readers + 1 /\ given' = <<>> /\ txd' = <<>>
      BY <2>5 DEF ReadcWaits
    <3>2. U' = U /\ O' = O /\ sending' = sending
      BY <2>1, <2>5, Sides, InputStays, OutputStays
    <3>3. Unread = <<>>
      BY <3>1, <2>0, UnreadIs
    <3>4. Streams!Wait
      BY <3>1, <3>2, <3>3, <2>1 DEF Streams!Wait, U, O
    <3> QED BY <3>4 DEF Streams!Next
  <2>6. CASE RxIgnore \/ LineSends
    <3>1. given' = <<>> /\ txd' = <<>>
      BY <2>6 DEF RxIgnore, LineSends
    <3>2. U' = U /\ O' = O /\ sending' = sending /\ readers' = readers
      <4>1. UNCHANGED readers
        BY <2>6 DEF RxIgnore, LineSends, inVars
      <4> QED BY <4>1, <2>1, <2>6, Sides, InputStays, OutputStays
    <3> QED BY <3>1, <3>2, <2>1 DEF Streams!Next, U, O
  <2>7. CASE Writec
    <3>1. sending' = TRUE /\ given' = <<>>
      BY <2>7 DEF Writec
    <3>2. sending \/ outcount = 0
      BY <2>0 DEF Transmitting, OutOrder
    <3>3. PICK ch \in Chars :
            IF sending THEN txd' = <<>> /\ Unsent' = Unsent \o CRLF(ch)
                       ELSE txd' = <<Head(CRLF(ch))>> /\ Unsent' = Tail(CRLF(ch))
      BY <2>0, <2>7, <3>2, <1>3, WritecJoins
    <3>4. U' = U /\ readers' = readers
      BY <2>1, <2>7, Sides, InputStays
    <3>5. Streams!Put(CRLF(ch))
      <4>1. sending = TRUE => sending' = sending
        BY <3>1
      <4> QED BY <4>1, <3>1, <3>3, <3>4, <2>1 DEF Streams!Put, Transmitting, U, O
    <3>6. Streams!WriteChar(ch)
      BY <3>5 DEF Streams!WriteChar, CRLF, CR, LF, Streams!CR, Streams!LF
    <3> QED BY <3>6 DEF Streams!Next
  <2>8. CASE Writes
    <3>1. sending' = TRUE /\ given' = <<>>
      BY <2>8 DEF Writes
    <3>2. PICK s \in Strings :
            /\ Unsent' = Unsent \o SubSeq(Rest(s), 1, Fits(s))
            /\ txd' = IF sending THEN <<>> ELSE <<Head(s)>>
      BY <2>0, <2>8, <1>3, WritesJoin
    <3>3. U' = U /\ readers' = readers
      BY <2>1, <2>8, Sides, InputStays
    <3>4. s \in Seq(Chars) /\ s # <<>> /\ Head(s) # LF /\ Len(s) \in Nat \ {0}
      BY SioAssumption, EmptySeq DEF NoLeadingLF
    <3>5. Len(O) = outcount /\ outcount \in 0 .. BufSize /\ BufSize \in Nat \ {0}
      BY <2>0, <2>1, UnsentIs, SioAssumption DEF OutOrder
    <3> DEFINE room == BufSize - Len(O) + IF sending THEN 0 ELSE 1
               n    == IF Len(s) < room THEN Len(s) ELSE room
               cs   == SubSeq(s, 1, n)
    <3>6. Streams!Put(cs) /\ (sending \/ Head(cs) # LF)
      <4>1. CASE sending
        <5>1. n = Fits(s) /\ Rest(s) = s
          BY <4>1, <3>5 DEF Fits, Rest, Room
        <5>2. sending' = sending
          BY <4>1, <3>1 DEF Transmitting
        <5> HIDE DEF n
        <5> QED BY <4>1, <5>1, <5>2, <3>1, <3>2, <3>3, <2>1 DEF Streams!Put, U, O
      <4>2. CASE ~sending
        <5>1. outcount = 0 /\ Unsent = <<>>
          BY <4>2, <3>5, <2>0, UnsentIs DEF Transmitting
        <5>2. Rest(s) = Tail(s) /\ Tail(s) \in Seq(Chars) /\ Len(Tail(s)) = Len(s) - 1
          BY <4>2, <3>4, HeadTailProperties DEF Rest
        <5>3. n \in 1 .. Len(s) /\ Fits(s) = n - 1
          BY <4>2, <5>1, <5>2, <3>4, <3>5 DEF Fits, Room
        <5> HIDE DEF n
        <5>4. Head(cs) = Head(s) /\ Tail(cs) = SubSeq(Tail(s), 1, n - 1)
          BY <5>3, <3>4, TailOfPrefix
        <5>5. SubSeq(Tail(s), 1, n - 1) \in Seq(Chars)
          <6>1. \A i \in 1 .. n - 1 : Tail(s)[i] \in Chars
            <7>1. \A i \in 1 .. n - 1 : i \in 1 .. Len(Tail(s))
              BY <5>2, <5>3, <3>4
            <7> QED BY <7>1, <5>2, ElementOfSeq
          <6> QED BY <6>1, <5>3, <3>4, SubSeqProperties
        <5>6. Unsent' = Tail(cs)
          BY <5>1, <5>2, <5>3, <5>4, <5>5, <3>2, ConcatEmptySeq
        <5> HIDE DEF cs
        <5>7. Streams!Put(cs)
          BY <4>2, <5>4, <5>6, <3>1, <3>2, <3>3, <2>1 DEF Streams!Put, U, O
        <5> QED BY <5>4, <5>7, <3>4
      <4> QED BY <4>1, <4>2
    <3>7. Streams!WriteBuffer(s)
      <4> DEFINE arg == IF sending \/ Head(cs) # Streams!LF THEN cs ELSE <<Streams!CR>> \o cs
      <4>1. arg = cs
        BY <3>6, Zenon DEF LF, Streams!LF
      <4> HIDE DEF arg
      <4>2. Streams!Put(arg)
        BY <4>1, <3>6, Zenon
      <4> QED BY <4>2, Zenon DEF Streams!WriteBuffer, O, arg
    <3> QED BY <3>7 DEF Streams!Next
  <2>9. CASE TxNext
    <3>1. given' = <<>> /\ sending
      BY <2>9 DEF TxNext
    <3>2. U' = U /\ sending' = sending /\ readers' = readers
      BY <2>1, <2>9, Sides, InputStays
    <3>3. /\ Unsent # <<>>
          /\ txd' = <<Head(Unsent)>> /\ Unsent' = Tail(Unsent)
      BY <2>0, <2>9, NextSends
    <3>4. Streams!Transmitted
      BY <3>1, <3>2, <3>3, <2>1 DEF Streams!Transmitted, U, O
    <3> QED BY <3>4 DEF Streams!Next
  <2>10. CASE TxDone
    <3>1. /\ ~(sending /\ outcount > 0)
          /\ given' = <<>> /\ txd' = <<>> /\ sending' = FALSE /\ outcount' = 0
      BY <2>10 DEF TxDone
    <3>2. U' = U /\ readers' = readers
      BY <2>1, <2>10, Sides, InputStays
    <3>3. outcount = 0
      BY <3>1, <2>0 DEF Transmitting, OutOrder
    <3>4. OutOrder'
      BY OrderedKept, <1>3 DEF Ordered
    <3>5. Unsent = <<>> /\ Unsent' = <<>>
      BY <3>1, <3>3, <3>4, <2>0, UnsentIs, UnsentBecomes
    <3>6. CASE sending
      <4>1. Streams!Transmitted
        BY <3>1, <3>2, <3>5, <3>6, <2>1 DEF Streams!Transmitted, U, O
      <4> QED BY <4>1 DEF Streams!Next
    <3>7. CASE ~sending
      <4>1. sending' = sending
        BY <3>1, <3>7 DEF Transmitting
      <4> QED BY <4>1, <3>1, <3>2, <3>5, <2>1 DEF Streams!Next, U, O
    <3> QED BY <3>6, <3>7
  <2>11. CASE Overrun \/ UNCHANGED sioVars
    <3>1. InStays /\ OutStays /\ UNCHANGED <<sending, readers, given, txd>>
      BY <2>11 DEF Overrun, sioVars, inVars, outVars, InStays, OutStays
    <3>2. U' = U /\ O' = O
      BY <3>1, <2>1, InputStays, OutputStays
    <3> QED BY <3>1, <3>2, <2>1 DEF Streams!specVars, U, O
  <2> QED BY <2>2, <2>3, <2>4, <2>5, <2>6, <2>7, <2>8, <2>9, <2>10, <2>11 DEF Next
<1> QED BY <1>1, <1>2, <1>3

\* The driver is the two streams of SioSpec, whatever the size of its
\* buffers, until one of them overruns: received characters reach the readers
\* and written ones the UART in order, once each, and those that are dropped
\* are the ones that come when the buffer is full (_isr_sio, _sio_readc,
\* _sio_reads, _sio_writec, _sio_writes).
THEOREM DriverKeepsStreams ==
  ASSUME NoLeadingLF
  PROVE  Spec => KeepsStreams
<1>1. Init => Streams!Init
  <2> SUFFICES ASSUME Init PROVE Streams!Init
    OBVIOUS
  <2>1. InOrder /\ OutOrder /\ overrun = FALSE
    <3>1. inbuffer \in [Cells -> Any] /\ outbuffer \in [Cells -> Any]
      BY DEF Init, Any
    <3>2. InOrder
      BY <3>1, SioAssumption DEF Init, InOrder
    <3>3. OutOrder
      BY <3>1, SioAssumption DEF Init, OutOrder, Cells
    <3> QED BY <3>2, <3>3 DEF Init
  <2>2. Unread = <<>> /\ Unsent = <<>>
    BY <2>1, UnreadIs, UnsentIs DEF Init
  <2> QED BY <2>1, <2>2 DEF Init, Streams!Init
<1>2. Transmitting /\ Ordered /\ [Next]_sioVars => [Streams!Next]_Streams!specVars
  BY StepsKeepStreams
<1> QED BY <1>1, <1>2, DriverInvariant, PTL DEF Spec, KeepsStreams, Streams!Spec
=============================================================================
