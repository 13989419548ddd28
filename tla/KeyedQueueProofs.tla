-------------------------- MODULE KeyedQueueProofs --------------------------
(***************************************************************************)
(* Facts about the operators of KeyedQueue, for queues of any length.      *)
(***************************************************************************)
EXTENDS KeyedQueue, SequenceTheorems, WellFoundedInduction, TLAPS

\* Min of a non-empty set of naturals is its least element.
LEMMA MinIsLeast ==
  ASSUME NEW S, S \subseteq Nat, S # {}
  PROVE  Min(S) \in S /\ \A x \in S : Min(S) <= x
<1>1. \E x \in S : \A y \in S : ~(<<y, x>> \in OpToRel(<, Nat))
  BY NatLessThanWellFounded, WFMin
<1>2. PICK x \in S : \A y \in S : ~(<<y, x>> \in OpToRel(<, Nat))
  BY <1>1
<1>3. \A y \in S : x <= y
  <2>1. TAKE y \in S
  <2>2. ~(y < x)
    BY <1>2, <2>1 DEF OpToRel
  <2> QED BY <2>2
<1> QED BY <1>3 DEF Min

\* Removing the entry at position i keeps the others, in order.
LEMMA RemoveAtIs ==
  ASSUME NEW S, NEW q \in Seq(S), NEW i \in 1 .. Len(q)
  PROVE  /\ RemoveAt(q, i) \in Seq(S)
         /\ Len(RemoveAt(q, i)) = Len(q) - 1
         /\ \A j \in 1 .. Len(q) - 1 :
              RemoveAt(q, i)[j] = IF j < i THEN q[j] ELSE q[j + 1]
<1> DEFINE a == SubSeq(q, 1, i - 1)
           b == SubSeq(q, i + 1, Len(q))
<1>1. a \in Seq(S) /\ Len(a) = i - 1 /\ \A j \in 1 .. i - 1 : a[j] = q[j]
  OBVIOUS
<1>2. /\ b \in Seq(S) /\ Len(b) = Len(q) - i
      /\ \A j \in 1 .. Len(q) - i : b[j] = q[i + j]
  OBVIOUS
<1> HIDE DEF a, b
<1>3. RemoveAt(q, i) = a \o b
  BY DEF RemoveAt, a, b
<1>4. /\ a \o b \in Seq(S) /\ Len(a \o b) = Len(q) - 1
      /\ \A j \in 1 .. Len(q) - 1 :
           (a \o b)[j] = IF j <= i - 1 THEN a[j] ELSE b[j - (i - 1)]
  <2>1. Len(a) + Len(b) = Len(q) - 1
    BY <1>1, <1>2
  <2>2. /\ a \o b \in Seq(S) /\ Len(a \o b) = Len(a) + Len(b)
        /\ \A j \in 1 .. Len(a) + Len(b) :
             (a \o b)[j] = IF j <= Len(a) THEN a[j] ELSE b[j - Len(a)]
    BY <1>1, <1>2, ConcatProperties, Zenon
  <2> QED BY <1>1, <2>1, <2>2
<1>5. ASSUME NEW j \in 1 .. Len(q) - 1
      PROVE  (a \o b)[j] = IF j < i THEN q[j] ELSE q[j + 1]
  BY <1>1, <1>2, <1>4
<1> QED BY <1>3, <1>4, <1>5

\* Inserting e at position i keeps the others, in order.
LEMMA InsertAtIs ==
  ASSUME NEW S, NEW q \in Seq(S), NEW i \in 1 .. Len(q) + 1, NEW e \in S
  PROVE  /\ InsertAt(q, i, e) \in Seq(S)
         /\ Len(InsertAt(q, i, e)) = Len(q) + 1
         /\ \A j \in 1 .. Len(q) + 1 :
              InsertAt(q, i, e)[j] = IF j < i THEN q[j]
                                     ELSE IF j = i THEN e ELSE q[j - 1]
<1> DEFINE a == SubSeq(q, 1, i - 1)
           b == SubSeq(q, i, Len(q))
<1>1. a \in Seq(S) /\ Len(a) = i - 1 /\ \A j \in 1 .. i - 1 : a[j] = q[j]
  OBVIOUS
<1>2. /\ b \in Seq(S) /\ Len(b) = Len(q) - i + 1
      /\ \A j \in 1 .. Len(q) - i + 1 : b[j] = q[i + j - 1]
  OBVIOUS
<1> HIDE DEF a, b
<1>3. InsertAt(q, i, e) = (a \o <<e>>) \o b
  BY DEF InsertAt, a, b
<1> DEFINE c == a \o <<e>>
<1>4. /\ c \in Seq(S) /\ Len(c) = i
      /\ \A j \in 1 .. i : c[j] = IF j < i THEN q[j] ELSE e
  BY <1>1
<1> HIDE DEF c
<1>5. InsertAt(q, i, e) = c \o b
  BY <1>3 DEF c
<1>6. /\ c \o b \in Seq(S) /\ Len(c \o b) = Len(q) + 1
      /\ \A j \in 1 .. Len(q) + 1 :
           (c \o b)[j] = IF j <= i THEN c[j] ELSE b[j - i]
  BY <1>2, <1>4, ConcatProperties
<1>7. ASSUME NEW j \in 1 .. Len(q) + 1
      PROVE  (c \o b)[j] = IF j < i THEN q[j] ELSE IF j = i THEN e ELSE q[j - 1]
  BY <1>2, <1>4, <1>6
<1> QED BY <1>5, <1>6, <1>7

\* Append is insertion behind the last entry.
LEMMA AppendIsInsert ==
  ASSUME NEW S, NEW q \in Seq(S), NEW e \in S
  PROVE  Append(q, e) = InsertAt(q, Len(q) + 1, e)
<1>1. Len(q) + 1 \in 1 .. Len(q) + 1
  OBVIOUS
<1>2. /\ InsertAt(q, Len(q) + 1, e) \in Seq(S)
      /\ Len(InsertAt(q, Len(q) + 1, e)) = Len(q) + 1
      /\ \A j \in 1 .. Len(q) + 1 :
           InsertAt(q, Len(q) + 1, e)[j] = IF j < Len(q) + 1 THEN q[j]
                         ELSE IF j = Len(q) + 1 THEN e ELSE q[j - 1]
  <2> DEFINE p == Len(q) + 1
  <2>1. p \in 1 .. Len(q) + 1
    BY <1>1
  <2> HIDE DEF p
  <2>2. /\ InsertAt(q, p, e) \in Seq(S)
        /\ Len(InsertAt(q, p, e)) = Len(q) + 1
        /\ \A j \in 1 .. Len(q) + 1 :
             InsertAt(q, p, e)[j] = IF j < p THEN q[j]
                                    ELSE IF j = p THEN e ELSE q[j - 1]
    BY <2>1, InsertAtIs
  <2> QED BY <2>2 DEF p
<1>3. /\ Append(q, e) \in Seq(S) /\ Len(Append(q, e)) = Len(q) + 1
      /\ \A j \in 1 .. Len(q) + 1 :
           Append(q, e)[j] = IF j < Len(q) + 1 THEN q[j] ELSE e
  OBVIOUS
<1> QED BY <1>2, <1>3, SeqEqual

\* QInsert puts its entry at a position of the queue, or behind the last.
LEMMA InsertPosInRange ==
  ASSUME NEW P, NEW q \in Seq([data : P, key : Nat]), NEW k \in Nat
  PROVE  InsertPos(q, k) \in 1 .. Len(q) + 1
<1> DEFINE S == {i \in DOMAIN q : q[i].key > k} \cup {Len(q) + 1}
<1>1. S \subseteq 1 .. Len(q) + 1 /\ S # {}
  OBVIOUS
<1>2. S \subseteq Nat
  BY <1>1
<1>3. Min(S) \in S
  BY <1>1, <1>2, MinIsLeast
<1> QED BY <1>1, <1>3 DEF InsertPos

-----------------------------------------------------------------------------
(***************************************************************************)
(* Families of queues.  An operation on one queue of a family without      *)
(* duplicates changes the entries of that queue by one and keeps the       *)
(* family free of duplicates.                                              *)
(***************************************************************************)

Family(N, P) == [N -> Seq([data : P, key : Nat])]

\* R is Q with entry e of queue n gone.
Lost(Q, R, N, P, n, e) ==
  /\ R \in Family(N, P)
  /\ NoDuplicates(R)
  /\ e \in EntriesOf(Q[n])
  /\ \A m \in N : EntriesOf(R[m]) = EntriesOf(Q[m]) \ {e}
  /\ Contents(R) = Contents(Q) \ {e.data}

\* R is Q with entry e added to queue n.
Gained(Q, R, N, P, n, e) ==
  /\ R \in Family(N, P)
  /\ NoDuplicates(R)
  /\ \A m \in N : EntriesOf(R[m]) =
       IF m = n THEN EntriesOf(Q[m]) \cup {e} ELSE EntriesOf(Q[m])
  /\ Contents(R) = Contents(Q) \cup {e.data}

\* Taking entry i off queue n.
LEMMA FamilyRemove ==
  ASSUME NEW N, NEW P, NEW Q \in Family(N, P),
         NoDuplicates(Q), NEW n \in N, NEW i \in DOMAIN Q[n],
         NEW R, R = [Q EXCEPT ![n] = RemoveAt(@, i)]
  PROVE  Lost(Q, R, N, P, n, Q[n][i])
<1> USE DEF Family
<1> DEFINE E == [data : P, key : Nat]
           L == Len(Q[n])
           Old(m, j) == IF m = n /\ j >= i THEN j + 1 ELSE j
<1>1. /\ Q[n] \in Seq(E) /\ L \in Nat /\ DOMAIN Q[n] = 1 .. L
      /\ i \in 1 .. L
  <2>1. Q[n] \in Seq(E)
    OBVIOUS
  <2> HIDE DEF E
  <2> QED BY <2>1, LenProperties
<1>2. /\ RemoveAt(Q[n], i) \in Seq(E)
      /\ Len(RemoveAt(Q[n], i)) = L - 1
      /\ \A j \in 1 .. L - 1 :
           RemoveAt(Q[n], i)[j] = IF j < i THEN Q[n][j] ELSE Q[n][j + 1]
  BY <1>1, RemoveAtIs
<1>3. R \in [N -> Seq(E)] /\ R[n] = RemoveAt(Q[n], i)
  BY <1>2
<1>4. \A m \in N : m # n => R[m] = Q[m]
  OBVIOUS
<1>5. DOMAIN R[n] = 1 .. L - 1
  BY <1>2, <1>3
<1> HIDE DEF E, L
<1>6. ASSUME NEW m \in N, NEW j \in DOMAIN R[m]
      PROVE  /\ Old(m, j) \in DOMAIN Q[m]
             /\ R[m][j] = Q[m][Old(m, j)]
             /\ ~(m = n /\ Old(m, j) = i)
  <2>1. CASE m = n
    <3>1. j \in 1 .. L - 1 /\ j \in Int /\ i \in Int
      BY <1>1, <1>5, <2>1
    <3> QED BY <1>1, <1>2, <1>3, <2>1, <3>1
  <2>2. CASE m # n
    BY <1>4, <2>2
  <2> QED BY <2>1, <2>2
<1>7. ASSUME NEW m \in N, NEW j \in DOMAIN Q[m], ~(m = n /\ j = i)
      PROVE  \E h \in DOMAIN R[m] : R[m][h] = Q[m][j]
  <2>1. CASE m # n
    BY <1>4, <2>1
  <2>2. CASE m = n /\ j < i
    <3>1. j \in 1 .. L - 1
      BY <1>1, <2>2
    <3> QED BY <1>2, <1>3, <1>5, <2>2, <3>1
  <2>3. CASE m = n /\ j > i
    <3>1. /\ j - 1 \in 1 .. L - 1 /\ ~(j - 1 < i) /\ (j - 1) + 1 = j
      BY <1>1, <2>3
    <3> QED BY <1>2, <1>3, <1>5, <2>3, <3>1
  <2>4. m = n => j \in Int /\ i \in Int
    BY <1>1
  <2> QED BY <1>7, <2>1, <2>2, <2>3, <2>4
<1>8. NoDuplicates(R)
  <2> SUFFICES ASSUME NEW m \in N, NEW h \in N,
                      NEW j \in DOMAIN R[m], NEW k \in DOMAIN R[h],
                      R[m][j].data = R[h][k].data
               PROVE  m = h /\ j = k
    BY DEF NoDuplicates
  <2>1. m = h /\ Old(m, j) = Old(h, k)
    <3>1. /\ Old(m, j) \in DOMAIN Q[m] /\ R[m][j] = Q[m][Old(m, j)]
          /\ Old(h, k) \in DOMAIN Q[h] /\ R[h][k] = Q[h][Old(h, k)]
      BY <1>6
    <3> HIDE DEF Old
    <3> QED BY <3>1, SMTT(30) DEF NoDuplicates
  <2>2. j \in Int /\ k \in Int /\ (m = n => i \in Int)
    BY <1>1, <1>3
  <2> QED BY <2>1, <2>2
<1>9. ASSUME NEW m \in N
      PROVE  EntriesOf(R[m]) = EntriesOf(Q[m]) \ {Q[n][i]}
  <2>1. ASSUME NEW e \in EntriesOf(R[m])
        PROVE  e \in EntriesOf(Q[m]) /\ e # Q[n][i]
    <3>1. PICK j \in DOMAIN R[m] : e = R[m][j]
      BY DEF EntriesOf
    <3>2. /\ Old(m, j) \in DOMAIN Q[m] /\ e = Q[m][Old(m, j)]
          /\ ~(m = n /\ Old(m, j) = i)
      BY <1>6, <3>1
    <3> HIDE DEF Old
    <3> QED BY <3>2, SMTT(30) DEF NoDuplicates, EntriesOf
  <2>2. ASSUME NEW e \in EntriesOf(Q[m]), e # Q[n][i]
        PROVE  e \in EntriesOf(R[m])
    <3>1. PICK j \in DOMAIN Q[m] : e = Q[m][j]
      BY DEF EntriesOf
    <3> QED BY <1>7, <2>2, <3>1 DEF EntriesOf
  <2> QED BY <2>1, <2>2
<1>10. Q[n][i] \in EntriesOf(Q[n])
  BY DEF EntriesOf
<1>11. Contents(R) = Contents(Q) \ {Q[n][i].data}
  <2>1. ASSUME NEW m \in N, NEW e \in EntriesOf(Q[m]), e.data = Q[n][i].data
        PROVE  e = Q[n][i]
    <3>1. PICK j \in DOMAIN Q[m] : e = Q[m][j]
      BY DEF EntriesOf
    <3> QED BY <2>1, <3>1, SMTT(30) DEF NoDuplicates
  <2>2. \A d : d \in Contents(R) <=> \E m \in N : \E e \in EntriesOf(R[m]) : d = e.data
    BY <1>3 DEF Contents, DataOf
  <2>3. \A d : d \in Contents(Q) <=> \E m \in N : \E e \in EntriesOf(Q[m]) : d = e.data
    BY DEF Contents, DataOf
  <2>4. ASSUME NEW d \in Contents(R)
        PROVE  d \in Contents(Q) /\ d # Q[n][i].data
    <3>1. PICK m \in N : \E e \in EntriesOf(R[m]) : d = e.data
      BY <2>2
    <3>2. PICK e \in EntriesOf(R[m]) : d = e.data
      BY <3>1
    <3>3. e \in EntriesOf(Q[m]) /\ e # Q[n][i]
      BY <1>9
    <3> QED BY <2>1, <2>3, <3>2, <3>3
  <2>5. ASSUME NEW d \in Contents(Q), d # Q[n][i].data
        PROVE  d \in Contents(R)
    <3>1. PICK m \in N : \E e \in EntriesOf(Q[m]) : d = e.data
      BY <2>3
    <3>2. PICK e \in EntriesOf(Q[m]) : d = e.data
      BY <3>1
    <3>3. e \in EntriesOf(R[m])
      BY <1>9, <2>5, <3>2
    <3> QED BY <2>2, <3>2, <3>3
  <2> QED BY <2>4, <2>5
<1> QED BY <1>3, <1>8, <1>9, <1>10, <1>11 DEF E, Lost, Family

\* Putting a new entry at any position of queue n.
LEMMA FamilyInsertAt ==
  ASSUME NEW N, NEW P, NEW Q \in Family(N, P),
         NoDuplicates(Q), NEW n \in N, NEW i \in 1 .. Len(Q[n]) + 1,
         NEW d \in P, NEW k \in Nat, d \notin Contents(Q),
         NEW R, R = [Q EXCEPT ![n] = InsertAt(@, i, Entry(d, k))]
  PROVE  Gained(Q, R, N, P, n, Entry(d, k))
<1> USE DEF Family
<1> DEFINE E == [data : P, key : Nat]
           L == Len(Q[n])
           x == Entry(d, k)
           Old(m, j) == IF m = n /\ j > i THEN j - 1 ELSE j
<1>1. /\ Q[n] \in Seq(E) /\ L \in Nat /\ DOMAIN Q[n] = 1 .. L
      /\ i \in 1 .. L + 1
  <2>1. Q[n] \in Seq(E)
    OBVIOUS
  <2> HIDE DEF E
  <2> QED BY <2>1, LenProperties
<1>2. x \in E /\ x.data = d
  BY DEF Entry
<1> HIDE DEF x
<1>3. /\ InsertAt(Q[n], i, x) \in Seq(E)
      /\ Len(InsertAt(Q[n], i, x)) = L + 1
      /\ \A j \in 1 .. L + 1 :
           InsertAt(Q[n], i, x)[j] = IF j < i THEN Q[n][j]
                                     ELSE IF j = i THEN x ELSE Q[n][j - 1]
  <2> HIDE DEF E
  <2> QED BY <1>1, <1>2, InsertAtIs, SMTT(30)
<1>4. R = [Q EXCEPT ![n] = InsertAt(Q[n], i, x)]
  BY DEF x
<1>5. R \in [N -> Seq(E)] /\ R[n] = InsertAt(Q[n], i, x)
  BY <1>3, <1>4
<1>6. \A m \in N : m # n => R[m] = Q[m]
  BY <1>4
<1> HIDE DEF E
<1>7. DOMAIN R[n] = 1 .. L + 1
  BY <1>3, <1>5, LenProperties
<1> HIDE DEF L
<1>8. ASSUME NEW m \in N, NEW j \in DOMAIN R[m], ~(m = n /\ j = i)
      PROVE  Old(m, j) \in DOMAIN Q[m] /\ R[m][j] = Q[m][Old(m, j)]
  <2>1. CASE m = n
    <3>1. j \in 1 .. L + 1 /\ j \in Int /\ i \in Int /\ j # i
      BY <1>1, <1>7, <1>8, <2>1
    <3> QED BY <1>1, <1>3, <1>5, <2>1, <3>1
  <2>2. CASE m # n
    BY <1>6, <2>2
  <2> QED BY <2>1, <2>2
<1>9. i \in DOMAIN R[n] /\ R[n][i] = x
  BY <1>1, <1>3, <1>5, <1>7
<1>10. ASSUME NEW m \in N, NEW j \in DOMAIN Q[m]
       PROVE  \E h \in DOMAIN R[m] : R[m][h] = Q[m][j]
  <2>1. CASE m # n
    BY <1>6, <2>1
  <2>2. CASE m = n /\ j < i
    <3>1. j \in 1 .. L + 1
      BY <1>1, <2>2
    <3> QED BY <1>3, <1>5, <1>7, <2>2, <3>1
  <2>3. CASE m = n /\ ~(j < i)
    <3>1. j + 1 \in 1 .. L + 1 /\ ~(j + 1 < i) /\ j + 1 # i /\ (j + 1) - 1 = j
      BY <1>1, <2>3
    <3> QED BY <1>3, <1>5, <1>7, <2>3, <3>1
  <2> QED BY <2>1, <2>2, <2>3
<1>11. ASSUME NEW m \in N, NEW j \in DOMAIN Q[m]
       PROVE  Q[m][j].data # d
  BY DEF Contents, DataOf, EntriesOf
<1>12. NoDuplicates(R)
  <2> SUFFICES ASSUME NEW m \in N, NEW h \in N,
                      NEW j \in DOMAIN R[m], NEW g \in DOMAIN R[h],
                      R[m][j].data = R[h][g].data
               PROVE  m = h /\ j = g
    BY <1>5 DEF NoDuplicates
  <2>1. CASE ~(m = n /\ j = i) /\ ~(h = n /\ g = i)
    <3>1. /\ Old(m, j) \in DOMAIN Q[m] /\ R[m][j] = Q[m][Old(m, j)]
          /\ Old(h, g) \in DOMAIN Q[h] /\ R[h][g] = Q[h][Old(h, g)]
      BY <1>8, <2>1
    <3>2. m = h /\ Old(m, j) = Old(h, g)
      <4> HIDE DEF Old
      <4> QED BY <3>1, SMTT(30) DEF NoDuplicates
    <3>3. m = n => j \in Int /\ g \in Int /\ i \in Int
      BY <1>1, <1>7, <3>2
    <3> QED BY <2>1, <3>2, <3>3
  <2>2. CASE m = n /\ j = i /\ ~(h = n /\ g = i)
    <3> HIDE DEF Old
    <3> QED BY <1>2, <1>8, <1>9, <1>11, <2>2
  <2>3. CASE h = n /\ g = i /\ ~(m = n /\ j = i)
    <3> HIDE DEF Old
    <3> QED BY <1>2, <1>8, <1>9, <1>11, <2>3
  <2> QED BY <2>1, <2>2, <2>3
<1>13. ASSUME NEW m \in N
       PROVE  EntriesOf(R[m]) =
                IF m = n THEN EntriesOf(Q[m]) \cup {x} ELSE EntriesOf(Q[m])
  <2>1. CASE m # n
    BY <1>6, <2>1
  <2>2. CASE m = n
    <3>1. ASSUME NEW e \in EntriesOf(R[n])
          PROVE  e \in EntriesOf(Q[n]) \cup {x}
      <4>1. PICK j \in DOMAIN R[n] : e = R[n][j]
        BY DEF EntriesOf
      <4> HIDE DEF Old
      <4> QED BY <1>8, <1>9, <4>1 DEF EntriesOf
    <3>2. ASSUME NEW e \in EntriesOf(Q[n])
          PROVE  e \in EntriesOf(R[n])
      <4>1. PICK j \in DOMAIN Q[n] : e = Q[n][j]
        BY DEF EntriesOf
      <4> QED BY <1>10, <4>1 DEF EntriesOf
    <3>3. x \in EntriesOf(R[n])
      BY <1>9 DEF EntriesOf
    <3> QED BY <2>2, <3>1, <3>2, <3>3
  <2> QED BY <2>1, <2>2
<1>14. Contents(R) = Contents(Q) \cup {d}
  <2>1. \A c : c \in Contents(R) <=> \E m \in N : \E e \in EntriesOf(R[m]) : c = e.data
    BY <1>5 DEF Contents, DataOf
  <2>2. \A c : c \in Contents(Q) <=> \E m \in N : \E e \in EntriesOf(Q[m]) : c = e.data
    BY DEF Contents, DataOf
  <2>3. ASSUME NEW c \in Contents(R)
        PROVE  c \in Contents(Q) \cup {d}
    <3>1. PICK m \in N : \E e \in EntriesOf(R[m]) : c = e.data
      BY <2>1
    <3>2. PICK e \in EntriesOf(R[m]) : c = e.data
      BY <3>1
    <3>3. e \in EntriesOf(Q[m]) \/ e = x
      BY <1>13
    <3> QED BY <1>2, <2>2, <3>2, <3>3
  <2>4. ASSUME NEW c \in Contents(Q)
        PROVE  c \in Contents(R)
    <3>1. PICK m \in N : \E e \in EntriesOf(Q[m]) : c = e.data
      BY <2>2
    <3>2. PICK e \in EntriesOf(Q[m]) : c = e.data
      BY <3>1
    <3>3. e \in EntriesOf(R[m])
      BY <1>13
    <3> QED BY <2>1, <3>2, <3>3
  <2>5. d \in Contents(R)
    <3>1. x \in EntriesOf(R[n])
      BY <1>13
    <3> QED BY <1>2, <2>1, <3>1
  <2> QED BY <2>3, <2>4, <2>5
<1>15. Entry(d, k).data = d
  BY DEF Entry
<1> QED BY <1>5, <1>12, <1>13, <1>14, <1>15 DEF E, x, Gained, Family

\* The same for the two ways the kernel adds an entry.
LEMMA FamilyAppend ==
  ASSUME NEW N, NEW P, NEW Q \in Family(N, P),
         NoDuplicates(Q), NEW n \in N, NEW d \in P, NEW k \in Nat,
         d \notin Contents(Q),
         NEW R, R = [Q EXCEPT ![n] = QAppend(@, d, k)]
  PROVE  Gained(Q, R, N, P, n, Entry(d, k))
<1> DEFINE i == Len(Q[n]) + 1
<1>1. Q[n] \in Seq([data : P, key : Nat]) /\ Entry(d, k) \in [data : P, key : Nat]
  BY DEF Entry, Family
<1>2. Append(Q[n], Entry(d, k)) = InsertAt(Q[n], i, Entry(d, k))
  BY <1>1, AppendIsInsert
<1>3. R = [Q EXCEPT ![n] = InsertAt(@, i, Entry(d, k))]
  BY <1>2 DEF QAppend, Family
<1>4. i \in 1 .. Len(Q[n]) + 1
  BY <1>1, LenProperties
<1> HIDE DEF i
<1> QED BY <1>3, <1>4, FamilyInsertAt, Zenon

\* The same of an insertion by key.
LEMMA FamilyInsert ==
  ASSUME NEW N, NEW P, NEW Q \in Family(N, P),
         NoDuplicates(Q), NEW n \in N, NEW d \in P, NEW k \in Nat,
         d \notin Contents(Q),
         NEW R, R = [Q EXCEPT ![n] = QInsert(@, d, k)]
  PROVE  Gained(Q, R, N, P, n, Entry(d, k))
<1> DEFINE i == InsertPos(Q[n], k)
<1>1. i \in 1 .. Len(Q[n]) + 1
  <2>1. Q[n] \in Seq([data : P, key : Nat])
    BY DEF Family
  <2> QED BY <2>1, InsertPosInRange
<1>2. R = [Q EXCEPT ![n] = InsertAt(@, i, Entry(d, k))]
  BY DEF QInsert
<1> HIDE DEF i
<1> QED BY <1>1, <1>2, FamilyInsertAt, Zenon

\* The first of the positions a removal routine accepts is one of them.
LEMMA FamilyRemoveFirst ==
  ASSUME NEW N, NEW P, NEW Q \in Family(N, P), NoDuplicates(Q), NEW n \in N,
         NEW hits, hits \subseteq DOMAIN Q[n], hits # {},
         NEW R, R = [Q EXCEPT ![n] = QRemoveFirst(@, hits)]
  PROVE  /\ Min(hits) \in hits
         /\ Lost(Q, R, N, P, n, Q[n][Min(hits)])
<1>1. DOMAIN Q[n] \subseteq Nat
  BY DEF Family
<1>2. Min(hits) \in hits
  BY <1>1, MinIsLeast
<1>3. R = [Q EXCEPT ![n] = RemoveAt(@, Min(hits))]
  BY DEF QRemoveFirst
<1>4. Min(hits) \in DOMAIN Q[n]
  BY <1>2
<1> QED BY <1>2, <1>3, <1>4, FamilyRemove, Zenon
=============================================================================
