-------------------------- MODULE QnodeListProofs ---------------------------
(***************************************************************************)
(* The linked lists of queue.c, for a pool of any size and any number of   *)
(* queues: every list is a sequence of qnodes that no other list shares,   *)
(* and what the lists hold is what QueueSpec promises.                     *)
(***************************************************************************)
EXTENDS QnodeList, KeyedQueueProofs, FiniteSetTheorems

Links == Qnodes \cup {NIL}

\* The element at a place of a list, and the null pointer outside of it.
At(w, i) == IF i \in DOMAIN w THEN w[i] ELSE NIL

\* Following next from h meets the qnodes of w, one after the other.
Chain(ns, h, w) ==
  /\ w \in Seq(Qnodes) /\ IsInjective(w)
  /\ h = At(w, 1)
  /\ \A i \in DOMAIN w : ns[w[i]].next = At(w, i + 1)

\* A list without repetition is no longer than the pool.
LEMMA ListFits ==
  ASSUME NEW w \in Seq(Qnodes), IsInjective(w)
  PROVE  Len(w) <= NQnodes
<1>1. NQnodes \in Nat /\ Len(w) \in Nat /\ DOMAIN w = 1 .. Len(w)
  BY QnodesAssumption
<1>2. IsFiniteSet(1 .. NQnodes) /\ Cardinality(1 .. NQnodes) = NQnodes
  BY <1>1, FS_Interval, SMTT(30)
<1>3. IsFiniteSet(1 .. Len(w)) /\ Cardinality(1 .. Len(w)) = Len(w)
  BY <1>1, FS_Interval
<1>4. w \in [1 .. Len(w) -> 1 .. NQnodes]
  BY <1>1 DEF Qnodes
<1>5. \A x, y \in 1 .. Len(w) : w[x] = w[y] => x = y
  BY <1>1 DEF IsInjective
<1>6. ASSUME NQnodes < Len(w) PROVE FALSE
  <2>1. Cardinality(1 .. NQnodes) < Cardinality(1 .. Len(w))
    BY <1>2, <1>3, <1>6
  <2>2. \E x, y \in 1 .. Len(w) : x # y /\ w[x] = w[y]
    BY <1>2, <1>3, <1>4, <2>1, FS_PigeonHole, Zenon
  <2> QED BY <1>5, <2>2
<1> QED BY <1>1, <1>6

\* The walk from the head of a list is that list.
LEMMA WalkIs ==
  ASSUME NEW ns, NEW h, NEW w, Chain(ns, h, w)
  PROVE  Reached(ns, h) = w
<1> DEFINE N == NQnodes
           L == Len(w)
           after == [x \in Qnodes \cup {NIL} |-> IF x = NIL THEN NIL ELSE ns[x].next]
           Eq(at) == at = [i \in 0 .. N |-> IF i = 0 THEN h ELSE after[at[i - 1]]]
           at == CHOOSE at : Eq(at)
           g == [i \in 0 .. N |-> At(w, i + 1)]
<1>1. /\ N \in Nat /\ L \in Nat /\ DOMAIN w = 1 .. L /\ L <= N
      /\ \A i \in 1 .. L : w[i] \in Qnodes /\ w[i] # NIL
  BY QnodesAssumption, ListFits DEF Chain, Qnodes, NIL
<1> HIDE DEF N, L
<1>2. \A i \in 1 .. N : g[i] = after[g[i - 1]]
  <2> SUFFICES ASSUME NEW i \in 1 .. N PROVE g[i] = after[g[i - 1]]
    OBVIOUS
  <2>1. i - 1 \in 0 .. N /\ i \in 0 .. N
    BY <1>1
  <2>2. g[i - 1] = At(w, i) /\ g[i] = At(w, i + 1)
    BY <1>1, <2>1
  <2>3. CASE i \in 1 .. L
    <3>1. At(w, i) = w[i] /\ ns[w[i]].next = At(w, i + 1)
      BY <1>1, <2>3 DEF Chain, At
    <3> QED BY <1>1, <2>2, <2>3, <3>1
  <2>4. CASE i \notin 1 .. L
    <3>1. i + 1 \notin 1 .. L
      BY <1>1, <2>4
    <3>2. At(w, i) = NIL /\ At(w, i + 1) = NIL
      BY <1>1, <2>4, <3>1 DEF At
    <3> QED BY <2>2, <3>2
  <2> QED BY <2>3, <2>4
<1>3. g[0] = h
  BY <1>1 DEF Chain
<1>4. Eq(g)
  <2>1. \A i \in 0 .. N : g[i] = IF i = 0 THEN h ELSE after[g[i - 1]]
    <3> SUFFICES ASSUME NEW i \in 0 .. N PROVE g[i] = IF i = 0 THEN h ELSE after[g[i - 1]]
      OBVIOUS
    <3>1. i = 0 \/ i \in 1 .. N
      BY <1>1
    <3> HIDE DEF g, after
    <3> QED BY <1>2, <1>3, <3>1
  <2>2. g = [i \in 0 .. N |-> g[i]]
    OBVIOUS
  <2> HIDE DEF g, after
  <2> QED BY <2>1, <2>2, Zenon
<1>5. Eq(at)
  <2> HIDE DEF Eq, g
  <2> QED BY <1>4, Zenon
<1> HIDE DEF at, after
<1>6. ASSUME NEW f, Eq(f) PROVE \A i \in 0 .. N : f[i] = g[i]
  <2> DEFINE S == {i \in 0 .. N : f[i] # g[i]}
  <2>1. \A i \in 0 .. N : f[i] = IF i = 0 THEN h ELSE after[f[i - 1]]
    BY <1>6
  <2> SUFFICES ASSUME S # {} PROVE FALSE
    OBVIOUS
  <2> DEFINE m == Min(S)
  <2>2. S \subseteq Nat
    BY <1>1
  <2>3. m \in S /\ \A x \in S : m <= x
    <3> HIDE DEF S
    <3> QED BY <2>2, MinIsLeast
  <2> HIDE DEF m, Eq, g
  <2>4. m \in 0 .. N /\ f[m] # g[m]
    BY <2>3
  <2>5. m # 0
    BY <1>3, <2>1, <2>4
  <2>6. m \in 1 .. N /\ m - 1 \in 0 .. N /\ ~(m <= m - 1)
    BY <1>1, <2>4, <2>5
  <2>7. f[m - 1] = g[m - 1]
    BY <2>3, <2>6
  <2> QED BY <1>2, <2>1, <2>4, <2>5, <2>6, <2>7
<1>7. DOMAIN at = 0 .. N /\ \A i \in 0 .. N : at[i] = g[i]
  <2>1. DOMAIN at = 0 .. N
    BY <1>5
  <2>2. \A i \in 0 .. N : at[i] = g[i]
    <3> HIDE DEF Eq, g
    <3> QED BY <1>5, <1>6
  <2> QED BY <2>1, <2>2
<1>8. {j \in DOMAIN at : at[j] # NIL} = 0 .. L - 1
  <2>1. \A j \in 0 .. N : at[j] # NIL <=> j \in 0 .. L - 1
    <3> SUFFICES ASSUME NEW j \in 0 .. N PROVE at[j] # NIL <=> j \in 0 .. L - 1
      OBVIOUS
    <3>1. at[j] = At(w, j + 1)
      BY <1>7
    <3>2. j + 1 \in 1 .. L <=> j \in 0 .. L - 1
      BY <1>1
    <3> QED BY <1>1, <3>1, <3>2 DEF At
  <2>2. 0 .. L - 1 \subseteq 0 .. N
    BY <1>1
  <2> QED BY <1>7, <2>1, <2>2
<1>9. Cardinality({j \in DOMAIN at : at[j] # NIL}) = L
  <2>1. Cardinality(0 .. L - 1) = IF 0 > L - 1 THEN 0 ELSE (L - 1) - 0 + 1
    BY <1>1, FS_Interval
  <2>2. (IF 0 > L - 1 THEN 0 ELSE (L - 1) - 0 + 1) = L
    BY <1>1
  <2> QED BY <1>8, <2>1, <2>2, Zenon
<1>10. Reached(ns, h) = [i \in 1 .. Cardinality({j \in DOMAIN at : at[j] # NIL}) |-> at[i - 1]]
  BY DEF Reached, at, Eq, after, N
<1>11. Reached(ns, h) = [i \in 1 .. L |-> at[i - 1]]
  BY <1>9, <1>10
<1>12. ASSUME NEW i \in 1 .. L PROVE at[i - 1] = w[i]
  <2>1. i - 1 \in 0 .. N /\ (i - 1) + 1 = i
    BY <1>1
  <2> QED BY <1>1, <1>7, <2>1 DEF At
<1>13. w = [i \in 1 .. L |-> w[i]]
  BY <1>1 DEF Chain, L
<1> QED BY <1>11, <1>12, <1>13

-----------------------------------------------------------------------------
(***************************************************************************)
(* One list.                                                               *)
(***************************************************************************)
Node == [key : Nat, data : Data \cup {Null}, prev : Links, next : Links]

\* The queue q is the list w, linked in both directions.
Backed(ns, q, w) ==
  /\ Chain(ns, q.head, w)
  /\ q.tail = At(w, Len(w)) /\ q.length = Len(w)
  /\ \A i \in DOMAIN w : ns[w[i]].prev = At(w, i - 1)

\* The same, and its qnodes are those of S.
ListOf(ns, q, w, S) == Backed(ns, q, w) /\ Range(w) = S

\* In ms, x stands between a and b; the other links are those of ns.
Spliced(ns, ms, x, a, b) ==
  /\ ms[x].prev = a /\ ms[x].next = b
  /\ \A y \in Qnodes \ {x} :
       /\ ms[y].next = IF y = a THEN x ELSE ns[y].next
       /\ ms[y].prev = IF y = b THEN x ELSE ns[y].prev

\* In ms, a and b follow each other; but for x the other links are those of ns.
Bridged(ns, ms, x, a, b) ==
  \A y \in Qnodes \ {x} :
    /\ ms[y].next = IF y = a THEN b ELSE ns[y].next
    /\ ms[y].prev = IF y = b THEN a ELSE ns[y].prev

\* The queue record with one qnode more between a and b, and with one less.
Lengthened(q, r, x, a, b) ==
  /\ r.head = IF a = NIL THEN x ELSE q.head
  /\ r.tail = IF b = NIL THEN x ELSE q.tail
  /\ r.length = q.length + 1

Shortened(q, r, a, b) ==
  /\ r.head = IF a = NIL THEN b ELSE q.head
  /\ r.tail = IF b = NIL THEN a ELSE q.tail
  /\ r.length = q.length - 1

\* Elements of a list, their places, and what is at no place.
LEMMA Places ==
  ASSUME NEW w \in Seq(Qnodes), IsInjective(w)
  PROVE  /\ Len(w) \in Nat /\ DOMAIN w = 1 .. Len(w) /\ NIL \notin Qnodes
         /\ \A i \in 1 .. Len(w) : At(w, i) = w[i] /\ w[i] \in Qnodes /\ w[i] # NIL
         /\ \A i : i \notin 1 .. Len(w) => At(w, i) = NIL
         /\ \A i, j \in 1 .. Len(w) : w[i] = w[j] => i = j
         /\ Range(w) = {w[i] : i \in 1 .. Len(w)} /\ Range(w) \subseteq Qnodes
<1>1. Len(w) \in Nat /\ DOMAIN w = 1 .. Len(w) /\ \A i \in 1 .. Len(w) : w[i] \in Qnodes
  OBVIOUS
<1>2. NIL \notin Qnodes
  BY QnodesAssumption DEF NIL, Qnodes
<1> QED BY <1>1, <1>2 DEF At, IsInjective, Range

\* A qnode that is linked in between two neighbours joins the list.
LEMMA SpliceIn ==
  ASSUME NEW ns, NEW ms, NEW q, NEW w, Backed(ns, q, w),
         NEW x \in Qnodes, x \notin Range(w), NEW i \in 1 .. Len(w) + 1,
         Spliced(ns, ms, x, At(w, i - 1), At(w, i)),
         NEW r, Lengthened(q, r, x, At(w, i - 1), At(w, i))
  PROVE  ListOf(ms, r, InsertAt(w, i, x), Range(w) \cup {x})
<1> DEFINE L == Len(w)
           v == InsertAt(w, i, x)
           a == At(w, i - 1)
           b == At(w, i)
<1>0. /\ a = At(w, i - 1) /\ b = At(w, i) /\ Spliced(ns, ms, x, a, b)
      /\ r.head = IF a = NIL THEN x ELSE q.head
      /\ r.tail = IF b = NIL THEN x ELSE q.tail
      /\ r.length = q.length + 1
  BY DEF Lengthened
<1> HIDE DEF a, b
<1> USE <1>0
<1>1. w \in Seq(Qnodes) /\ IsInjective(w)
  BY DEF Backed, Chain
<1>2. /\ L \in Nat /\ DOMAIN w = 1 .. L /\ NIL \notin Qnodes
      /\ \A j \in 1 .. L : At(w, j) = w[j] /\ w[j] \in Qnodes /\ w[j] # NIL
      /\ \A j : j \notin 1 .. L => At(w, j) = NIL
      /\ \A j, k \in 1 .. L : w[j] = w[k] => j = k
      /\ Range(w) = {w[j] : j \in 1 .. L}
  BY <1>1, Places
<1>3. /\ v \in Seq(Qnodes) /\ Len(v) = L + 1
      /\ \A j \in 1 .. L + 1 : v[j] = IF j < i THEN w[j] ELSE IF j = i THEN x ELSE w[j - 1]
  <2>1. i \in 1 .. Len(w) + 1 /\ x \in Qnodes /\ w \in Seq(Qnodes)
    BY <1>1
  <2>2. /\ InsertAt(w, i, x) \in Seq(Qnodes)
        /\ Len(InsertAt(w, i, x)) = Len(w) + 1
        /\ \A j \in 1 .. Len(w) + 1 :
             InsertAt(w, i, x)[j] = IF j < i THEN w[j] ELSE IF j = i THEN x ELSE w[j - 1]
    BY <2>1, InsertAtIs
  <2> QED BY <2>2
<1>4. i \in 1 .. L + 1
  OBVIOUS
<1>5. DOMAIN v = 1 .. L + 1
  BY <1>3, LenProperties
<1> HIDE DEF v, L
<1>6. x # NIL /\ \A j \in 1 .. L : w[j] # x
  BY <1>2
<1>7. /\ \A j \in 1 .. L + 1 : j < i => j \in 1 .. L /\ v[j] = w[j]
      /\ \A j \in 1 .. L + 1 : j > i => j - 1 \in 1 .. L /\ v[j] = w[j - 1]
      /\ v[i] = x /\ i \in 1 .. L + 1
  BY <1>2, <1>3, <1>4
<1>8. \A j, k \in 1 .. L + 1 : v[j] = v[k] => j = k
  <2> SUFFICES ASSUME NEW j \in 1 .. L + 1, NEW k \in 1 .. L + 1, v[j] = v[k] PROVE j = k
    OBVIOUS
  <2>1. j \in Int /\ k \in Int /\ i \in Int
    BY <1>2, <1>4
  <2>2. (j < i \/ j = i \/ j > i) /\ (k < i \/ k = i \/ k > i)
    BY <2>1
  <2> QED BY <1>2, <1>6, <1>7, <2>1, <2>2
<1>9. IsInjective(v)
  BY <1>5, <1>8 DEF IsInjective
<1>10. Range(v) = Range(w) \cup {x}
  <2>1. Range(v) = {v[j] : j \in 1 .. L + 1}
    BY <1>5 DEF Range
  <2>2. ASSUME NEW j \in 1 .. L + 1 PROVE v[j] \in Range(w) \cup {x}
    <3>1. j < i \/ j = i \/ j > i
      BY <1>2, <1>4
    <3> QED BY <1>2, <1>7, <3>1
  <2>3. ASSUME NEW j \in 1 .. L PROVE \E k \in 1 .. L + 1 : v[k] = w[j]
    <3>1. CASE j < i
      <4>1. j \in 1 .. L + 1
        BY <1>2
      <4> QED BY <1>7, <3>1, <4>1
    <3>2. CASE ~(j < i)
      <4>1. j + 1 \in 1 .. L + 1 /\ j + 1 > i /\ (j + 1) - 1 = j
        BY <1>2, <1>4, <3>2
      <4> QED BY <1>7, <4>1
    <3> QED BY <3>1, <3>2
  <2> QED BY <1>2, <1>7, <2>1, <2>2, <2>3, SMTT(30)
<1>11. /\ \A j \in 1 .. L + 1 : At(v, j) = v[j]
       /\ \A j : j \notin 1 .. L + 1 => At(v, j) = NIL
  BY <1>5 DEF At
<1>12. r.head = At(v, 1)
  <2>1. 1 \in 1 .. L + 1
    BY <1>2
  <2>2. CASE i = 1
    <3>1. i - 1 \notin 1 .. L
      BY <2>2
    <3> QED BY <1>2, <1>7, <1>11, <2>1, <2>2, <3>1
  <2>3. CASE i # 1
    <3>1. i - 1 \in 1 .. L /\ 1 < i
      BY <1>2, <1>4, <2>3
    <3>2. q.head = At(w, 1) /\ 1 \in 1 .. L
      BY <1>2, <3>1 DEF Backed, Chain
    <3> QED BY <1>2, <1>7, <1>11, <2>1, <3>1, <3>2
  <2> QED BY <2>2, <2>3
<1>13. r.tail = At(v, L + 1)
  <2>1. L + 1 \in 1 .. L + 1
    BY <1>2
  <2>2. CASE i = L + 1
    <3>1. i \notin 1 .. L
      BY <1>2, <2>2
    <3> QED BY <1>2, <1>7, <1>11, <2>1, <2>2, <3>1
  <2>3. CASE i # L + 1
    <3>1. i \in 1 .. L /\ L + 1 > i /\ L \in 1 .. L /\ (L + 1) - 1 = L
      BY <1>2, <1>4, <2>3
    <3>2. q.tail = At(w, L)
      BY DEF Backed, L
    <3> QED BY <1>2, <1>7, <1>11, <2>1, <3>1, <3>2
  <2> QED BY <2>2, <2>3
<1>14. /\ \A j \in 1 .. L : ns[w[j]].next = At(w, j + 1) /\ ns[w[j]].prev = At(w, j - 1)
       /\ ms[x].prev = a /\ ms[x].next = b
       /\ \A j \in 1 .. L :
            /\ ms[w[j]].next = IF w[j] = a THEN x ELSE ns[w[j]].next
            /\ ms[w[j]].prev = IF w[j] = b THEN x ELSE ns[w[j]].prev
  BY <1>2, <1>6 DEF Backed, Chain, Spliced
<1>15. ASSUME NEW j \in 1 .. L + 1
       PROVE  ms[v[j]].next = At(v, j + 1) /\ ms[v[j]].prev = At(v, j - 1)
  <2>0. j \in Int /\ i \in Int
    BY <1>2, <1>4
  <2>1. CASE j = i
    <3>1. At(v, j + 1) = b
      <4>1. CASE i \in 1 .. L
        <5>1. j + 1 \in 1 .. L + 1 /\ j + 1 > i /\ (j + 1) - 1 = i
          BY <1>2, <2>1, <4>1
        <5> QED BY <1>2, <1>7, <1>11, <4>1, <5>1
      <4>2. CASE i \notin 1 .. L
        <5>1. j + 1 \notin 1 .. L + 1
          BY <1>2, <1>4, <2>1, <4>2
        <5> QED BY <1>2, <1>11, <4>2, <5>1
      <4> QED BY <4>1, <4>2
    <3>2. At(v, j - 1) = a
      <4>1. CASE i = 1
        <5>1. j - 1 \notin 1 .. L + 1 /\ i - 1 \notin 1 .. L
          BY <2>1, <4>1
        <5> QED BY <1>2, <1>11, <5>1
      <4>2. CASE i # 1
        <5>1. j - 1 \in 1 .. L + 1 /\ j - 1 < i /\ j - 1 = i - 1
          BY <1>2, <1>4, <2>1, <4>2
        <5> QED BY <1>2, <1>7, <1>11, <5>1
      <4> QED BY <4>1, <4>2
    <3> QED BY <1>7, <1>14, <2>1, <3>1, <3>2
  <2>2. CASE j < i
    <3>1. j \in 1 .. L /\ v[j] = w[j]
      BY <1>7, <2>2
    <3>2. w[j] # b
      BY <1>2, <2>0, <2>2, <3>1
    <3>3. At(v, j - 1) = At(w, j - 1)
      <4>1. CASE j = 1
        <5>1. j - 1 \notin 1 .. L + 1 /\ j - 1 \notin 1 .. L
          BY <4>1
        <5> QED BY <1>2, <1>11, <5>1
      <4>2. CASE j # 1
        <5>1. j - 1 \in 1 .. L + 1 /\ j - 1 < i
          BY <1>2, <2>0, <2>2, <4>2
        <5> QED BY <1>2, <1>7, <1>11, <5>1
      <4> QED BY <4>1, <4>2
    <3>4. ms[w[j]].next = At(v, j + 1)
      <4>1. CASE j = i - 1
        <5>1. w[j] = a /\ j + 1 = i
          BY <1>2, <2>0, <3>1, <4>1
        <5> QED BY <1>7, <1>11, <1>14, <3>1, <5>1
      <4>2. CASE j # i - 1
        <5>1. w[j] # a
          BY <1>2, <3>1, <4>2
        <5>2. j + 1 \in 1 .. L + 1 /\ j + 1 < i
          BY <1>2, <1>4, <2>0, <2>2, <4>2
        <5>3. At(v, j + 1) = w[j + 1] /\ At(w, j + 1) = w[j + 1]
          BY <1>2, <1>7, <1>11, <5>2
        <5> QED BY <1>14, <3>1, <5>1, <5>3
      <4> QED BY <4>1, <4>2
    <3> QED BY <1>14, <3>1, <3>2, <3>3, <3>4
  <2>3. CASE j > i
    <3> DEFINE k == j - 1
    <3>1. k \in 1 .. L /\ v[j] = w[k] /\ k \in Int /\ j = k + 1 /\ k >= i
      BY <1>7, <2>0, <2>3
    <3> HIDE DEF k
    <3>2. w[k] # a
      <4>1. k # i - 1
        BY <2>0, <3>1
      <4> QED BY <1>2, <3>1, <4>1
    <3>3. At(v, j + 1) = At(w, k + 1)
      <4>1. CASE k = L
        <5>1. j + 1 \notin 1 .. L + 1 /\ k + 1 \notin 1 .. L
          BY <1>2, <3>1, <4>1
        <5> QED BY <1>2, <1>11, <5>1
      <4>2. CASE k # L
        <5>1. j + 1 \in 1 .. L + 1 /\ j + 1 > i /\ (j + 1) - 1 = k + 1
          BY <1>2, <2>0, <3>1, <4>2
        <5>2. k + 1 \in 1 .. L /\ v[j + 1] = w[k + 1]
          BY <1>7, <5>1
        <5> QED BY <1>2, <1>11, <5>1, <5>2
      <4> QED BY <4>1, <4>2
    <3>4. ms[w[k]].prev = At(v, j - 1)
      <4>1. CASE k = i
        <5>1. w[k] = b /\ j - 1 = i
          BY <1>2, <2>0, <3>1, <4>1
        <5> QED BY <1>7, <1>11, <1>14, <3>1, <5>1
      <4>2. CASE k # i
        <5>1. w[k] # b
          BY <1>2, <3>1, <4>2
        <5>2. /\ j - 1 = k /\ k \in 1 .. L + 1 /\ k > i
          BY <1>2, <2>0, <3>1, <4>2
        <5>3. v[k] = w[k - 1] /\ k - 1 \in 1 .. L
          BY <1>7, <5>2
        <5>4. At(v, j - 1) = w[k - 1] /\ At(w, k - 1) = w[k - 1]
          BY <1>2, <1>11, <5>2, <5>3
        <5> QED BY <1>14, <3>1, <5>1, <5>4
      <4> QED BY <4>1, <4>2
    <3> QED BY <1>14, <3>1, <3>2, <3>3, <3>4
  <2> QED BY <2>0, <2>1, <2>2, <2>3
<1>16. Chain(ms, r.head, v)
  BY <1>3, <1>5, <1>9, <1>12, <1>15 DEF Chain
<1>17. r.length = Len(v)
  BY <1>3 DEF Backed, L
<1>18. Backed(ms, r, v)
  BY <1>3, <1>5, <1>13, <1>15, <1>16, <1>17 DEF Backed
<1> QED BY <1>10, <1>18 DEF v, ListOf

\* A qnode whose neighbours are linked to each other leaves the list.
LEMMA SpliceOut ==
  ASSUME NEW ns, NEW ms, NEW q, NEW w, Backed(ns, q, w), NEW i \in DOMAIN w,
         Bridged(ns, ms, w[i], At(w, i - 1), At(w, i + 1)),
         NEW r, Shortened(q, r, At(w, i - 1), At(w, i + 1))
  PROVE  ListOf(ms, r, RemoveAt(w, i), Range(w) \ {w[i]})
<1> DEFINE L == Len(w)
           v == RemoveAt(w, i)
           a == At(w, i - 1)
           b == At(w, i + 1)
<1>0. /\ a = At(w, i - 1) /\ b = At(w, i + 1) /\ Bridged(ns, ms, w[i], a, b)
      /\ r.head = IF a = NIL THEN b ELSE q.head
      /\ r.tail = IF b = NIL THEN a ELSE q.tail
      /\ r.length = q.length - 1
  BY DEF Shortened
<1> HIDE DEF a, b
<1> USE <1>0
<1>1. w \in Seq(Qnodes) /\ IsInjective(w)
  BY DEF Backed, Chain
<1>2. /\ L \in Nat /\ DOMAIN w = 1 .. L /\ NIL \notin Qnodes
      /\ \A j \in 1 .. L : At(w, j) = w[j] /\ w[j] \in Qnodes /\ w[j] # NIL
      /\ \A j : j \notin 1 .. L => At(w, j) = NIL
      /\ \A j, k \in 1 .. L : w[j] = w[k] => j = k
      /\ Range(w) = {w[j] : j \in 1 .. L}
  BY <1>1, Places
<1>3. i \in 1 .. L /\ i \in Int
  BY <1>2
<1>4. /\ v \in Seq(Qnodes) /\ Len(v) = L - 1
      /\ \A j \in 1 .. L - 1 : v[j] = IF j < i THEN w[j] ELSE w[j + 1]
  <2>1. i \in 1 .. Len(w) /\ w \in Seq(Qnodes)
    BY <1>1, <1>3
  <2>2. /\ RemoveAt(w, i) \in Seq(Qnodes)
        /\ Len(RemoveAt(w, i)) = Len(w) - 1
        /\ \A j \in 1 .. Len(w) - 1 :
             RemoveAt(w, i)[j] = IF j < i THEN w[j] ELSE w[j + 1]
    BY <2>1, RemoveAtIs
  <2> QED BY <2>2
<1>5. DOMAIN v = 1 .. L - 1
  BY <1>4, LenProperties
<1> HIDE DEF v, L
<1>6. /\ \A j \in 1 .. L - 1 : j < i => j \in 1 .. L /\ v[j] = w[j]
      /\ \A j \in 1 .. L - 1 : ~(j < i) => j + 1 \in 1 .. L /\ v[j] = w[j + 1]
  BY <1>2, <1>3, <1>4
<1>7. \A j, k \in 1 .. L - 1 : v[j] = v[k] => j = k
  <2> SUFFICES ASSUME NEW j \in 1 .. L - 1, NEW k \in 1 .. L - 1, v[j] = v[k] PROVE j = k
    OBVIOUS
  <2>1. j \in Int /\ k \in Int
    BY <1>2
  <2>2. CASE j < i /\ k < i
    <3>1. j \in 1 .. L /\ k \in 1 .. L /\ w[j] = w[k]
      BY <1>6, <2>2
    <3> QED BY <1>2, <3>1
  <2>3. CASE ~(j < i) /\ ~(k < i)
    <3>1. j + 1 \in 1 .. L /\ k + 1 \in 1 .. L /\ w[j + 1] = w[k + 1]
      BY <1>6, <2>3
    <3>2. j + 1 = k + 1
      BY <1>2, <3>1
    <3> QED BY <2>1, <3>2
  <2>4. CASE j < i /\ ~(k < i)
    <3>1. j \in 1 .. L /\ k + 1 \in 1 .. L /\ w[j] = w[k + 1]
      BY <1>6, <2>4
    <3>2. j = k + 1
      BY <1>2, <3>1
    <3> QED BY <1>3, <2>1, <2>4, <3>2
  <2>5. CASE ~(j < i) /\ k < i
    <3>1. j + 1 \in 1 .. L /\ k \in 1 .. L /\ w[j + 1] = w[k]
      BY <1>6, <2>5
    <3>2. j + 1 = k
      BY <1>2, <3>1
    <3> QED BY <1>3, <2>1, <2>5, <3>2
  <2> QED BY <2>2, <2>3, <2>4, <2>5
<1>8. IsInjective(v)
  BY <1>5, <1>7 DEF IsInjective
<1>9. Range(v) = Range(w) \ {w[i]}
  <2>1. Range(v) = {v[j] : j \in 1 .. L - 1}
    BY <1>5 DEF Range
  <2>2. ASSUME NEW j \in 1 .. L - 1 PROVE v[j] \in Range(w) \ {w[i]}
    <3>1. j \in Int
      BY <1>2
    <3>2. CASE j < i
      <4>1. j \in 1 .. L /\ v[j] = w[j] /\ j # i
        BY <1>3, <1>6, <3>1, <3>2
      <4> QED BY <1>2, <1>3, <4>1
    <3>3. CASE ~(j < i)
      <4>1. j + 1 \in 1 .. L /\ v[j] = w[j + 1] /\ j + 1 # i
        BY <1>3, <1>6, <3>1, <3>3
      <4> QED BY <1>2, <1>3, <4>1
    <3> QED BY <3>2, <3>3
  <2>3. ASSUME NEW j \in 1 .. L, j # i PROVE \E k \in 1 .. L - 1 : v[k] = w[j]
    <3>1. CASE j < i
      <4>1. j \in 1 .. L - 1
        BY <1>2, <1>3, <3>1
      <4> QED BY <1>6, <3>1, <4>1
    <3>2. CASE ~(j < i)
      <4>1. j - 1 \in 1 .. L - 1 /\ ~(j - 1 < i) /\ (j - 1) + 1 = j
        BY <1>2, <1>3, <2>3, <3>2
      <4> QED BY <1>6, <4>1
    <3> QED BY <3>1, <3>2
  <2>4. \A y \in Range(w) \ {w[i]} : y \in Range(v)
    BY <1>2, <2>1, <2>3
  <2> QED BY <2>1, <2>2, <2>4
<1>10. /\ \A j \in 1 .. L - 1 : At(v, j) = v[j]
       /\ \A j : j \notin 1 .. L - 1 => At(v, j) = NIL
  BY <1>5 DEF At
<1>11. r.head = At(v, 1)
  <2>1. CASE i = 1
    <3>1. a = NIL
      <4>1. i - 1 \notin 1 .. L
        BY <2>1
      <4> QED BY <1>2, <4>1
    <3>2. CASE L = 1
      <4>1. i + 1 \notin 1 .. L /\ 1 \notin 1 .. L - 1
        BY <2>1, <3>2
      <4> QED BY <1>2, <1>10, <3>1, <4>1
    <3>3. CASE L # 1
      <4>1. 1 \in 1 .. L - 1 /\ ~(1 < i) /\ 1 + 1 = i + 1
        BY <1>2, <1>3, <2>1, <3>3
      <4>2. At(v, 1) = w[1 + 1] /\ 1 + 1 \in 1 .. L
        BY <1>6, <1>10, <4>1
      <4> QED BY <1>2, <3>1, <4>1, <4>2
    <3> QED BY <3>2, <3>3
  <2>2. CASE i # 1
    <3>1. i - 1 \in 1 .. L /\ 1 \in 1 .. L - 1 /\ 1 < i
      BY <1>2, <1>3, <2>2
    <3>2. q.head = At(w, 1) /\ 1 \in 1 .. L
      BY <1>6, <3>1 DEF Backed, Chain
    <3> QED BY <1>2, <1>6, <1>10, <3>1, <3>2
  <2> QED BY <2>1, <2>2
<1>12. r.tail = At(v, L - 1)
  <2>1. CASE i = L
    <3>1. b = NIL
      <4>1. i + 1 \notin 1 .. L
        BY <1>2, <2>1
      <4> QED BY <1>2, <4>1
    <3>2. CASE L = 1
      <4>1. i - 1 \notin 1 .. L /\ L - 1 \notin 1 .. L - 1
        BY <2>1, <3>2
      <4> QED BY <1>2, <1>10, <3>1, <4>1
    <3>3. CASE L # 1
      <4>1. L - 1 \in 1 .. L - 1 /\ L - 1 < i
        BY <1>2, <1>3, <2>1, <3>3
      <4>2. At(v, L - 1) = w[L - 1] /\ L - 1 \in 1 .. L
        BY <1>6, <1>10, <4>1
      <4> QED BY <1>2, <2>1, <3>1, <4>1, <4>2
    <3> QED BY <3>2, <3>3
  <2>2. CASE i # L
    <3>1. i + 1 \in 1 .. L /\ L - 1 \in 1 .. L - 1 /\ ~(L - 1 < i) /\ (L - 1) + 1 = L
          /\ L \in 1 .. L
      BY <1>2, <1>3, <2>2
    <3>2. q.tail = At(w, L)
      BY DEF Backed, L
    <3>3. v[L - 1] = w[L] /\ At(v, L - 1) = v[L - 1]
      BY <1>6, <1>10, <3>1
    <3> QED BY <1>2, <3>1, <3>2, <3>3
  <2> QED BY <2>1, <2>2
<1>13. /\ \A j \in 1 .. L : ns[w[j]].next = At(w, j + 1) /\ ns[w[j]].prev = At(w, j - 1)
       /\ \A j \in 1 .. L : j # i =>
            /\ ms[w[j]].next = IF w[j] = a THEN b ELSE ns[w[j]].next
            /\ ms[w[j]].prev = IF w[j] = b THEN a ELSE ns[w[j]].prev
  BY <1>2, <1>3, SMTT(30) DEF Backed, Chain, Bridged
<1>14. ASSUME NEW j \in 1 .. L - 1
       PROVE  ms[v[j]].next = At(v, j + 1) /\ ms[v[j]].prev = At(v, j - 1)
  <2>0. j \in Int
    BY <1>2
  <2>1. CASE j < i
    <3>1. j \in 1 .. L /\ v[j] = w[j] /\ j # i
      BY <1>3, <1>6, <2>0, <2>1
    <3>2. w[j] # b
      <4>1. i + 1 # j
        BY <1>3, <2>0, <2>1
      <4> QED BY <1>2, <3>1, <4>1
    <3>3. At(v, j - 1) = At(w, j - 1)
      <4>1. CASE j = 1
        <5>1. j - 1 \notin 1 .. L - 1 /\ j - 1 \notin 1 .. L
          BY <4>1
        <5> QED BY <1>2, <1>10, <5>1
      <4>2. CASE j # 1
        <5>1. j - 1 \in 1 .. L - 1 /\ j - 1 < i
          BY <1>2, <1>3, <2>0, <2>1, <4>2
        <5> QED BY <1>2, <1>6, <1>10, <5>1
      <4> QED BY <4>1, <4>2
    <3>4. ms[w[j]].next = At(v, j + 1)
      <4>1. CASE j = i - 1
        <5>1. w[j] = a /\ j + 1 = i
          BY <1>2, <1>3, <2>0, <3>1, <4>1
        <5>2. At(v, j + 1) = b
          <6>1. CASE i = L
            <7>1. j + 1 \notin 1 .. L - 1 /\ i + 1 \notin 1 .. L
              BY <1>2, <5>1, <6>1
            <7> QED BY <1>2, <1>10, <7>1
          <6>2. CASE i # L
            <7>1. j + 1 \in 1 .. L - 1 /\ ~(j + 1 < i) /\ (j + 1) + 1 = i + 1
              BY <1>2, <1>3, <2>0, <5>1, <6>2
            <7>2. v[j + 1] = w[i + 1] /\ i + 1 \in 1 .. L
              BY <1>6, <7>1
            <7> QED BY <1>2, <1>10, <7>1, <7>2
          <6> QED BY <6>1, <6>2
        <5> QED BY <1>13, <3>1, <5>1, <5>2
      <4>2. CASE j # i - 1
        <5>1. w[j] # a
          BY <1>2, <3>1, <4>2
        <5>2. j + 1 \in 1 .. L - 1 /\ j + 1 < i
          BY <1>2, <1>3, <2>0, <2>1, <4>2
        <5>3. At(v, j + 1) = w[j + 1] /\ At(w, j + 1) = w[j + 1]
          BY <1>2, <1>6, <1>10, <5>2
        <5> QED BY <1>13, <3>1, <5>1, <5>3
      <4> QED BY <4>1, <4>2
    <3> QED BY <1>13, <3>1, <3>2, <3>3, <3>4
  <2>2. CASE ~(j < i)
    <3> DEFINE k == j + 1
    <3>1. k \in 1 .. L /\ v[j] = w[k] /\ k \in Int /\ j = k - 1 /\ k > i /\ k # i
      BY <1>3, <1>6, <2>0, <2>2
    <3> HIDE DEF k
    <3>2. w[k] # a
      <4>1. k # i - 1
        BY <1>3, <3>1
      <4> QED BY <1>2, <3>1, <4>1
    <3>3. At(v, j + 1) = At(w, k + 1)
      <4>1. CASE k = L
        <5>1. j + 1 \notin 1 .. L - 1 /\ k + 1 \notin 1 .. L
          BY <1>2, <3>1, <4>1
        <5> QED BY <1>2, <1>10, <5>1
      <4>2. CASE k # L
        <5>1. j + 1 \in 1 .. L - 1 /\ ~(j + 1 < i) /\ (j + 1) + 1 = k + 1
          BY <1>2, <1>3, <2>0, <3>1, <4>2
        <5>2. k + 1 \in 1 .. L /\ v[j + 1] = w[k + 1]
          BY <1>6, <5>1
        <5> QED BY <1>2, <1>10, <5>1, <5>2
      <4> QED BY <4>1, <4>2
    <3>4. ms[w[k]].prev = At(v, j - 1)
      <4>1. CASE k = i + 1
        <5>1. w[k] = b /\ j = i
          BY <1>2, <1>3, <3>1, <4>1
        <5>2. At(v, j - 1) = a
          <6>1. CASE i = 1
            <7>1. j - 1 \notin 1 .. L - 1 /\ i - 1 \notin 1 .. L
              BY <5>1, <6>1
            <7> QED BY <1>2, <1>10, <7>1
          <6>2. CASE i # 1
            <7>1. j - 1 \in 1 .. L - 1 /\ j - 1 < i /\ j - 1 = i - 1
              BY <1>2, <1>3, <2>0, <5>1, <6>2
            <7> QED BY <1>2, <1>6, <1>10, <7>1
          <6> QED BY <6>1, <6>2
        <5> QED BY <1>13, <3>1, <5>1, <5>2
      <4>2. CASE k # i + 1
        <5>1. w[k] # b
          BY <1>2, <3>1, <4>2
        <5>2. j - 1 \in 1 .. L - 1 /\ ~(j - 1 < i) /\ (j - 1) + 1 = k - 1
          BY <1>2, <1>3, <2>0, <3>1, <4>2
        <5>3. v[j - 1] = w[k - 1] /\ k - 1 \in 1 .. L
          BY <1>6, <5>2
        <5>4. At(v, j - 1) = w[k - 1] /\ At(w, k - 1) = w[k - 1]
          BY <1>2, <1>10, <5>2, <5>3
        <5> QED BY <1>13, <3>1, <5>1, <5>4
      <4> QED BY <4>1, <4>2
    <3> QED BY <1>13, <3>1, <3>2, <3>3, <3>4
  <2> QED BY <2>1, <2>2
<1>15. Chain(ms, r.head, v)
  BY <1>4, <1>5, <1>8, <1>11, <1>14 DEF Chain
<1>16. r.length = Len(v)
  BY <1>4 DEF Backed, L
<1>17. Backed(ms, r, v)
  BY <1>4, <1>5, <1>12, <1>14, <1>15, <1>16 DEF Backed
<1> QED BY <1>9, <1>17 DEF v, ListOf

\* Links that a step leaves alone still make the list they made.
LEMMA ListStays ==
  ASSUME NEW ns, NEW ms, NEW q, NEW w, Backed(ns, q, w),
         \A y \in Range(w) : ms[y].next = ns[y].next /\ ms[y].prev = ns[y].prev
  PROVE  Backed(ms, q, w)
BY DEF Backed, Chain, Range

\* The free list without its head.
LEMMA Popped ==
  ASSUME NEW ns, NEW ms, NEW h, NEW F, Chain(ns, h, F), h # NIL,
         \A y \in Range(F) \ {h} : ms[y].next = ns[y].next
  PROVE  /\ Chain(ms, ns[h].next, RemoveAt(F, 1))
         /\ h \in Range(F) /\ Range(RemoveAt(F, 1)) = Range(F) \ {h}
<1> DEFINE L == Len(F)
           v == RemoveAt(F, 1)
<1>1. F \in Seq(Qnodes) /\ IsInjective(F)
  BY DEF Chain
<1>2. /\ L \in Nat /\ DOMAIN F = 1 .. L
      /\ \A j \in 1 .. L : At(F, j) = F[j] /\ F[j] \in Qnodes /\ F[j] # NIL
      /\ \A j : j \notin 1 .. L => At(F, j) = NIL
      /\ \A j, k \in 1 .. L : F[j] = F[k] => j = k
      /\ Range(F) = {F[j] : j \in 1 .. L}
  BY <1>1, Places
<1>3. 1 \in 1 .. L /\ h = F[1]
  BY <1>2 DEF Chain
<1>4. /\ v \in Seq(Qnodes) /\ Len(v) = L - 1
      /\ \A j \in 1 .. L - 1 : v[j] = F[j + 1]
  <2>1. 1 \in 1 .. Len(F) /\ F \in Seq(Qnodes)
    BY <1>1, <1>3
  <2>2. /\ v \in Seq(Qnodes) /\ Len(v) = Len(F) - 1
        /\ \A j \in 1 .. Len(F) - 1 : v[j] = IF j < 1 THEN F[j] ELSE F[j + 1]
    BY <2>1, RemoveAtIs
  <2> QED BY <2>2
<1>5. DOMAIN v = 1 .. L - 1
  BY <1>4, LenProperties
<1> HIDE DEF v, L
<1>6. \A j \in 1 .. L - 1 : j + 1 \in 1 .. L /\ j + 1 # 1 /\ j \in Int
  BY <1>2
<1>7. IsInjective(v)
  <2>1. ASSUME NEW j \in 1 .. L - 1, NEW k \in 1 .. L - 1, v[j] = v[k] PROVE j = k
    <3>1. j + 1 = k + 1
      BY <1>2, <1>4, <1>6, <2>1
    <3> QED BY <1>6, <3>1
  <2> QED BY <1>5, <2>1 DEF IsInjective
<1>8. Range(v) = Range(F) \ {h}
  <2>1. Range(v) = {v[j] : j \in 1 .. L - 1}
    BY <1>5 DEF Range
  <2>2. ASSUME NEW j \in 1 .. L - 1 PROVE v[j] \in Range(F) \ {h}
    BY <1>2, <1>3, <1>4, <1>6
  <2>3. ASSUME NEW j \in 1 .. L, j # 1 PROVE \E k \in 1 .. L - 1 : v[k] = F[j]
    <3>1. j - 1 \in 1 .. L - 1 /\ (j - 1) + 1 = j
      BY <1>2, <2>3
    <3> QED BY <1>4, <3>1
  <2>4. \A y \in Range(F) \ {h} : y \in Range(v)
    BY <1>2, <1>3, <2>1, <2>3
  <2> QED BY <2>1, <2>2, <2>4
<1>9. ASSUME NEW j \in 0 .. L - 1 PROVE At(v, j + 1) = At(F, (j + 1) + 1)
  <2>1. CASE j + 1 \in 1 .. L - 1
    BY <1>2, <1>4, <1>5, <1>6, <2>1 DEF At
  <2>2. CASE j + 1 \notin 1 .. L - 1
    <3>1. (j + 1) + 1 \notin 1 .. L
      BY <1>2, <2>2
    <3> QED BY <1>2, <1>5, <2>2, <3>1 DEF At
  <2> QED BY <2>1, <2>2
<1>10. ns[h].next = At(v, 1)
  <2>1. 0 \in 0 .. L - 1 /\ 0 + 1 = 1
    BY <1>2, <1>3
  <2>2. At(v, 1) = At(F, 1 + 1)
    BY <1>9, <2>1
  <2>3. ns[F[1]].next = At(F, 1 + 1)
    BY <1>2, <1>3 DEF Chain
  <2> QED BY <1>3, <2>2, <2>3
<1>11. ASSUME NEW j \in 1 .. L - 1 PROVE ms[v[j]].next = At(v, j + 1)
  <2>1. j + 1 \in 1 .. L /\ j \in 0 .. L - 1 /\ v[j] = F[j + 1]
    BY <1>2, <1>4
  <2>2. v[j] \in Range(F) \ {h}
    BY <1>5, <1>8 DEF Range
  <2>3. ns[F[j + 1]].next = At(F, (j + 1) + 1)
    BY <1>2, <2>1 DEF Chain
  <2> QED BY <1>9, <2>1, <2>2, <2>3
<1>12. h \in Range(F)
  BY <1>2, <1>3
<1> QED BY <1>4, <1>5, <1>7, <1>8, <1>10, <1>11, <1>12 DEF Chain, v

\* A list with a new head.
LEMMA Pushed ==
  ASSUME NEW ns, NEW ms, NEW h, NEW F, Chain(ns, h, F),
         NEW x \in Qnodes, x \notin Range(F), ms[x].next = h,
         \A y \in Range(F) : ms[y].next = ns[y].next
  PROVE  /\ Chain(ms, x, InsertAt(F, 1, x))
         /\ Range(InsertAt(F, 1, x)) = Range(F) \cup {x}
<1> DEFINE L == Len(F)
           v == InsertAt(F, 1, x)
<1>1. F \in Seq(Qnodes) /\ IsInjective(F)
  BY DEF Chain
<1>2. /\ L \in Nat /\ DOMAIN F = 1 .. L
      /\ \A j \in 1 .. L : At(F, j) = F[j] /\ F[j] \in Qnodes /\ F[j] # NIL
      /\ \A j : j \notin 1 .. L => At(F, j) = NIL
      /\ \A j, k \in 1 .. L : F[j] = F[k] => j = k
      /\ Range(F) = {F[j] : j \in 1 .. L}
  BY <1>1, Places
<1>3. /\ v \in Seq(Qnodes) /\ Len(v) = L + 1
      /\ \A j \in 1 .. L + 1 : v[j] = IF j = 1 THEN x ELSE F[j - 1]
  <2>1. 1 \in 1 .. Len(F) + 1 /\ F \in Seq(Qnodes) /\ x \in Qnodes
    BY <1>1
  <2>2. /\ v \in Seq(Qnodes) /\ Len(v) = Len(F) + 1
        /\ \A j \in 1 .. Len(F) + 1 :
             v[j] = IF j < 1 THEN F[j] ELSE IF j = 1 THEN x ELSE F[j - 1]
    BY <2>1, InsertAtIs
  <2> QED BY <2>2
<1>4. DOMAIN v = 1 .. L + 1
  BY <1>3, LenProperties
<1> HIDE DEF v, L
<1>5. \A j \in 1 .. L + 1 : j # 1 => j - 1 \in 1 .. L /\ j \in Int
  BY <1>2
<1>6. \A j \in 1 .. L : F[j] # x
  BY <1>2
<1>7. IsInjective(v)
  <2>1. ASSUME NEW j \in 1 .. L + 1, NEW k \in 1 .. L + 1, v[j] = v[k] PROVE j = k
    <3>1. CASE j # 1 /\ k # 1
      <4>1. j - 1 = k - 1
        BY <1>2, <1>3, <1>5, <2>1, <3>1
      <4> QED BY <1>5, <3>1, <4>1
    <3>2. CASE j = 1 \/ k = 1
      BY <1>3, <1>5, <1>6, <2>1, <3>2
    <3> QED BY <3>1, <3>2
  <2> QED BY <1>4, <2>1 DEF IsInjective
<1>8. Range(v) = Range(F) \cup {x}
  <2>1. Range(v) = {v[j] : j \in 1 .. L + 1}
    BY <1>4 DEF Range
  <2>2. ASSUME NEW j \in 1 .. L + 1 PROVE v[j] \in Range(F) \cup {x}
    BY <1>2, <1>3, <1>5
  <2>3. ASSUME NEW j \in 1 .. L PROVE \E k \in 1 .. L + 1 : v[k] = F[j]
    <3>1. j + 1 \in 1 .. L + 1 /\ (j + 1) - 1 = j /\ j + 1 # 1
      BY <1>2
    <3> QED BY <1>3, <3>1
  <2>4. 1 \in 1 .. L + 1 /\ v[1] = x
    BY <1>2, <1>3
  <2> QED BY <1>2, <2>1, <2>2, <2>3, <2>4
<1>9. ASSUME NEW j \in 1 .. L + 1 PROVE At(v, j + 1) = At(F, j)
  <2>1. CASE j \in 1 .. L
    <3>1. j + 1 \in 1 .. L + 1 /\ j + 1 # 1 /\ (j + 1) - 1 = j
      BY <1>2, <2>1
    <3> QED BY <1>2, <1>3, <1>4, <2>1, <3>1 DEF At
  <2>2. CASE j \notin 1 .. L
    <3>1. j + 1 \notin 1 .. L + 1
      BY <1>2, <2>2
    <3> QED BY <1>2, <1>4, <2>2, <3>1 DEF At
  <2> QED BY <2>1, <2>2
<1>10. x = At(v, 1) /\ 1 \in 1 .. L + 1
  BY <1>2, <1>3, <1>4 DEF At
<1>11. ASSUME NEW j \in 1 .. L + 1 PROVE ms[v[j]].next = At(v, j + 1)
  <2>1. CASE j = 1
    BY <1>3, <1>9, <1>10, <2>1 DEF Chain
  <2>2. CASE j # 1
    <3>1. j - 1 \in 1 .. L /\ v[j] = F[j - 1] /\ (j - 1) + 1 = j
      BY <1>3, <1>5, <2>2
    <3>2. ns[F[j - 1]].next = At(F, j)
      BY <1>2, <3>1 DEF Chain
    <3> QED BY <1>2, <1>9, <3>1, <3>2
  <2> QED BY <2>1, <2>2
<1> QED BY <1>3, <1>4, <1>7, <1>8, <1>10, <1>11 DEF Chain, v

-----------------------------------------------------------------------------
(***************************************************************************)
(* All lists.                                                              *)
(***************************************************************************)
IInv ==
  /\ nodes \in [Qnodes -> Node]
  /\ queues \in [QueueIds -> [head : Links, tail : Links, length : Nat]]
  /\ Chain(nodes, avail, Free)
  /\ \A n \in QueueIds : Backed(nodes, queues[n], Walk(n))
  /\ NoQnodeLost

\* The key and the data of a qnode.
Held(ns, x) == Entry(ns[x].data, ns[x].key)

\* A queue record of which lists can be made.
QueueRecord == [head : Links, tail : Links, length : Nat]

\* The free qnode, filled in and linked in at place i of queue n.
LEMMA QnodeJoins ==
  ASSUME IInv, NEW n \in QueueIds, NEW i \in 1 .. Len(Walk(n)) + 1, avail # NIL,
         nodes' \in [Qnodes -> Node],
         \A y \in Qnodes \ {avail} : Held(nodes', y) = Held(nodes, y),
         NEW a, NEW b, a = At(Walk(n), i - 1), b = At(Walk(n), i),
         Spliced(nodes, nodes', avail, a, b),
         NEW r \in QueueRecord, queues' = [queues EXCEPT ![n] = r],
         Lengthened(queues[n], r, avail, a, b),
         avail' = nodes[avail].next
  PROVE  /\ IInv'
         /\ Walk(n)' = InsertAt(Walk(n), i, avail)
         /\ \A m \in QueueIds \ {n} : Walk(m)' = Walk(m)
         /\ avail \in Range(Free)
<1>1. /\ Chain(nodes, avail, Free)
      /\ \A m \in QueueIds : Backed(nodes, queues[m], Walk(m))
      /\ queues \in [QueueIds -> QueueRecord]
      /\ Range(Free) \cup UNION {Range(Walk(m)) : m \in QueueIds} = Qnodes
      /\ \A m \in QueueIds : Range(Walk(m)) \cap Range(Free) = {}
      /\ \A l, m \in QueueIds : l # m => Range(Walk(l)) \cap Range(Walk(m)) = {}
  BY DEF IInv, NoQnodeLost, QueueRecord
<1>2. \A y \in {a, b} : y = NIL \/ y \in Range(Walk(n))
  BY DEF At, Range
<1>3. NIL \notin Qnodes
  BY QnodesAssumption DEF NIL, Qnodes
<1>4. \A m \in QueueIds : Range(Walk(m)) \subseteq Qnodes
  BY <1>1
<1>5. Range(Free) \subseteq Qnodes
  BY <1>1
<1>6. /\ Chain(nodes', avail', RemoveAt(Free, 1))
      /\ avail \in Range(Free) /\ Range(RemoveAt(Free, 1)) = Range(Free) \ {avail}
  <2>1. \A y \in Range(Free) \ {avail} : nodes'[y].next = nodes[y].next
    BY <1>1, <1>2, <1>3, <1>5 DEF Spliced
  <2> QED BY <1>1, <2>1, Popped
<1>7. avail \in Qnodes /\ \A m \in QueueIds : avail \notin Range(Walk(m))
  BY <1>1, <1>5, <1>6
<1>8. /\ Backed(nodes', r, InsertAt(Walk(n), i, avail))
      /\ Range(InsertAt(Walk(n), i, avail)) = Range(Walk(n)) \cup {avail}
  <2> DEFINE w == Walk(n)
             q == queues[n]
             ms == nodes'
  <2>1. /\ Backed(nodes, q, w) /\ avail \in Qnodes /\ avail \notin Range(w)
        /\ i \in 1 .. Len(w) + 1 /\ Spliced(nodes, ms, avail, At(w, i - 1), At(w, i))
        /\ Lengthened(q, r, avail, At(w, i - 1), At(w, i))
    BY <1>1, <1>7
  <2> HIDE DEF w, q, ms
  <2>2. ListOf(ms, r, InsertAt(w, i, avail), Range(w) \cup {avail})
    BY <2>1, SpliceIn
  <2> QED BY <2>2 DEF w, ms, ListOf
<1>9. ASSUME NEW m \in QueueIds \ {n}
      PROVE  Backed(nodes', queues'[m], Walk(m))
  <2>1. \A y \in Range(Walk(m)) : nodes'[y].next = nodes[y].next /\ nodes'[y].prev = nodes[y].prev
    BY <1>1, <1>2, <1>3, <1>4, <1>7 DEF Spliced
  <2>2. Backed(nodes, queues[m], Walk(m)) /\ queues'[m] = queues[m]
    BY <1>1
  <2> QED BY <2>1, <2>2, ListStays
<1>10. queues' \in [QueueIds -> QueueRecord] /\ queues'[n] = r
  BY <1>1
<1>11. Walk(n)' = InsertAt(Walk(n), i, avail)
  <2>1. Chain(nodes', r.head, InsertAt(Walk(n), i, avail))
    BY <1>8 DEF Backed
  <2>2. Reached(nodes', r.head) = InsertAt(Walk(n), i, avail)
    BY <2>1, WalkIs
  <2> QED BY <1>10, <2>2 DEF Walk
<1>12. ASSUME NEW m \in QueueIds \ {n} PROVE Walk(m)' = Walk(m)
  <2>1. Chain(nodes', queues'[m].head, Walk(m))
    BY <1>9 DEF Backed
  <2>2. Reached(nodes', queues'[m].head) = Walk(m)
    BY <2>1, WalkIs
  <2> QED BY <2>2 DEF Walk
<1>13. Free' = RemoveAt(Free, 1)
  <2>1. Reached(nodes', avail') = RemoveAt(Free, 1)
    BY <1>6, WalkIs
  <2> QED BY <2>1 DEF Free
<1>14. /\ \A m \in QueueIds : Backed(nodes', queues'[m], Walk(m)')
       /\ Chain(nodes', avail', Free')
  BY <1>6, <1>8, <1>9, <1>10, <1>11, <1>12, <1>13
<1>15. \A m \in QueueIds : Range(Walk(m)') =
         IF m = n THEN Range(Walk(n)) \cup {avail} ELSE Range(Walk(m))
  BY <1>8, <1>11, <1>12
<1>16. Range(Free') = Range(Free) \ {avail}
  BY <1>6, <1>13
<1>17. Range(Free') \cup UNION {Range(Walk(m)') : m \in QueueIds} = Qnodes
  BY <1>1, <1>7, <1>15, <1>16
<1>18. NoQnodeLost'
  <2>1. IsInjective(Free') /\ \A m \in QueueIds : IsInjective(Walk(m)')
    BY <1>14 DEF Chain, Backed
  <2>2. \A m \in QueueIds : Range(Walk(m)') \cap Range(Free') = {}
    BY <1>1, <1>15, <1>16
  <2>3. \A l, m \in QueueIds : l # m => Range(Walk(l)') \cap Range(Walk(m)') = {}
    BY <1>1, <1>7, <1>15
  <2> QED BY <1>17, <2>1, <2>2, <2>3 DEF NoQnodeLost
<1> QED BY <1>6, <1>10, <1>11, <1>12, <1>14, <1>18 DEF IInv, QueueRecord

\* The qnode at place i of queue n, unlinked and freed.
LEMMA QnodeLeaves ==
  ASSUME IInv, NEW n \in QueueIds, NEW i \in DOMAIN Walk(n),
         NEW x, x = Walk(n)[i],
         nodes' \in [Qnodes -> Node],
         NEW a, NEW b, a = At(Walk(n), i - 1), b = At(Walk(n), i + 1),
         Bridged(nodes, nodes', x, a, b), nodes'[x].next = avail,
         NEW r \in QueueRecord, queues' = [queues EXCEPT ![n] = r],
         Shortened(queues[n], r, a, b),
         avail' = x
  PROVE  /\ IInv'
         /\ Walk(n)' = RemoveAt(Walk(n), i)
         /\ \A m \in QueueIds \ {n} : Walk(m)' = Walk(m)
<1>1. /\ Chain(nodes, avail, Free)
      /\ \A m \in QueueIds : Backed(nodes, queues[m], Walk(m))
      /\ queues \in [QueueIds -> QueueRecord]
      /\ Range(Free) \cup UNION {Range(Walk(m)) : m \in QueueIds} = Qnodes
      /\ \A m \in QueueIds : Range(Walk(m)) \cap Range(Free) = {}
      /\ \A l, m \in QueueIds : l # m => Range(Walk(l)) \cap Range(Walk(m)) = {}
  BY DEF IInv, NoQnodeLost, QueueRecord
<1>2. \A y \in {a, b} : y = NIL \/ y \in Range(Walk(n))
  BY DEF At, Range
<1>3. NIL \notin Qnodes
  BY QnodesAssumption DEF NIL, Qnodes
<1>4. \A m \in QueueIds : Range(Walk(m)) \subseteq Qnodes
  BY <1>1
<1>5. Range(Free) \subseteq Qnodes
  BY <1>1
<1>6. x \in Range(Walk(n))
  BY DEF Range
<1>7. x \in Qnodes /\ x \notin Range(Free) /\ \A m \in QueueIds \ {n} : x \notin Range(Walk(m))
  BY <1>1, <1>4, <1>6
<1>8. /\ Chain(nodes', avail', InsertAt(Free, 1, x))
      /\ Range(InsertAt(Free, 1, x)) = Range(Free) \cup {x}
  <2>1. \A y \in Range(Free) : nodes'[y].next = nodes[y].next
    BY <1>1, <1>2, <1>3, <1>5, <1>7 DEF Bridged
  <2> QED BY <1>1, <1>7, <2>1, Pushed
<1>9. /\ Backed(nodes', r, RemoveAt(Walk(n), i))
      /\ Range(RemoveAt(Walk(n), i)) = Range(Walk(n)) \ {x}
  <2> DEFINE w == Walk(n)
             q == queues[n]
             ms == nodes'
  <2>1. /\ Backed(nodes, q, w) /\ i \in DOMAIN w /\ x = w[i]
        /\ Bridged(nodes, ms, w[i], At(w, i - 1), At(w, i + 1))
        /\ Shortened(q, r, At(w, i - 1), At(w, i + 1))
    BY <1>1
  <2> HIDE DEF w, q, ms
  <2>2. ListOf(ms, r, RemoveAt(w, i), Range(w) \ {w[i]})
    BY <2>1, SpliceOut
  <2> QED BY <2>1, <2>2 DEF w, ms, ListOf
<1>10. ASSUME NEW m \in QueueIds \ {n}
       PROVE  Backed(nodes', queues'[m], Walk(m))
  <2>1. \A y \in Range(Walk(m)) : nodes'[y].next = nodes[y].next /\ nodes'[y].prev = nodes[y].prev
    BY <1>1, <1>2, <1>3, <1>4, <1>7 DEF Bridged
  <2>2. Backed(nodes, queues[m], Walk(m)) /\ queues'[m] = queues[m]
    BY <1>1
  <2> QED BY <2>1, <2>2, ListStays
<1>11. queues' \in [QueueIds -> QueueRecord] /\ queues'[n] = r
  BY <1>1
<1>12. Walk(n)' = RemoveAt(Walk(n), i)
  <2>1. Chain(nodes', r.head, RemoveAt(Walk(n), i))
    BY <1>9 DEF Backed
  <2>2. Reached(nodes', r.head) = RemoveAt(Walk(n), i)
    BY <2>1, WalkIs
  <2> QED BY <1>11, <2>2 DEF Walk
<1>13. ASSUME NEW m \in QueueIds \ {n} PROVE Walk(m)' = Walk(m)
  <2>1. Chain(nodes', queues'[m].head, Walk(m))
    BY <1>10 DEF Backed
  <2>2. Reached(nodes', queues'[m].head) = Walk(m)
    BY <2>1, WalkIs
  <2> QED BY <2>2 DEF Walk
<1>14. Free' = InsertAt(Free, 1, x)
  <2>1. Reached(nodes', avail') = InsertAt(Free, 1, x)
    BY <1>8, WalkIs
  <2> QED BY <2>1 DEF Free
<1>15. /\ \A m \in QueueIds : Backed(nodes', queues'[m], Walk(m)')
       /\ Chain(nodes', avail', Free')
  BY <1>8, <1>9, <1>10, <1>11, <1>12, <1>13, <1>14
<1>16. \A m \in QueueIds : Range(Walk(m)') =
         IF m = n THEN Range(Walk(n)) \ {x} ELSE Range(Walk(m))
  BY <1>9, <1>12, <1>13
<1>17. Range(Free') = Range(Free) \cup {x}
  BY <1>8, <1>14
<1>18. Range(Free') \cup UNION {Range(Walk(m)') : m \in QueueIds} = Qnodes
  <2>1. ASSUME NEW m \in QueueIds PROVE Range(Walk(m)') \subseteq Range(Walk(m))
    BY <1>16
  <2>2. ASSUME NEW m \in QueueIds, NEW y \in Range(Walk(m)), y # x
        PROVE  y \in Range(Walk(m)')
    BY <1>16, <2>2
  <2>3. ASSUME NEW y \in Qnodes
        PROVE  y \in Range(Free') \cup UNION {Range(Walk(m)') : m \in QueueIds}
    <3>1. y \in Range(Free) \/ \E m \in QueueIds : y \in Range(Walk(m))
      BY <1>1
    <3> QED BY <1>17, <2>2, <3>1
  <2>4. Range(Free') \subseteq Qnodes
    BY <1>5, <1>7, <1>17
  <2>5. \A m \in QueueIds : Range(Walk(m)') \subseteq Qnodes
    BY <1>4, <2>1
  <2> QED BY <2>3, <2>4, <2>5
<1>19. NoQnodeLost'
  <2>1. IsInjective(Free') /\ \A m \in QueueIds : IsInjective(Walk(m)')
    BY <1>15 DEF Chain, Backed
  <2>2. \A m \in QueueIds : Range(Walk(m)') \cap Range(Free') = {}
    BY <1>1, <1>7, <1>16, <1>17
  <2>3. \A l, m \in QueueIds : l # m => Range(Walk(l)') \cap Range(Walk(m)') = {}
    BY <1>1, <1>16
  <2> QED BY <1>18, <2>1, <2>2, <2>3 DEF NoQnodeLost
<1> QED BY <1>11, <1>12, <1>13, <1>15, <1>19 DEF IInv, QueueRecord

-----------------------------------------------------------------------------
(***************************************************************************)
(* The operations.                                                         *)
(***************************************************************************)

\* Queue n gets the entry, at place i; the other contents stay.
Gets(n, i, d, k) ==
  /\ Content' = [Content EXCEPT ![n] = InsertAt(@, i, Entry(d, k))]
  /\ i \in 1 .. Len(Content[n]) + 1
  /\ answer' = Answer("E_SUCCESS", Null)
  /\ avail # NIL

\* Queue n gives the entry at place i away; the other contents stay.
Gives(n, i) ==
  /\ i \in DOMAIN Content[n]
  /\ Content' = [Content EXCEPT ![n] = RemoveAt(@, i)]
  /\ answer' = Answer("E_SUCCESS", Content[n][i].data)

\* What the lists hold.
LEMMA ContentIs ==
  ASSUME IInv, NEW n \in QueueIds
  PROVE  /\ Walk(n) \in Seq(Qnodes) /\ IsInjective(Walk(n))
         /\ Content[n] = [i \in DOMAIN Walk(n) |-> Held(nodes, Walk(n)[i])]
         /\ Content[n] \in Seq([data : Data \cup {Null}, key : Nat])
         /\ DOMAIN Content[n] = DOMAIN Walk(n) /\ Len(Content[n]) = Len(Walk(n))
<1>1. /\ Walk(n) \in Seq(Qnodes) /\ IsInjective(Walk(n))
      /\ nodes \in [Qnodes -> Node]
  BY DEF IInv, Backed, Chain
<1>2. Content[n] = [i \in DOMAIN Walk(n) |-> Held(nodes, Walk(n)[i])]
  BY DEF Content, Held
<1> DEFINE w == Walk(n)
           c == Content[n]
<1>3. w \in Seq(Qnodes) /\ c = [i \in DOMAIN w |-> Held(nodes, w[i])]
  BY <1>1, <1>2
<1> HIDE DEF w, c
<1>4. Len(w) \in Nat /\ DOMAIN w = 1 .. Len(w) /\ \A i \in 1 .. Len(w) : w[i] \in Qnodes
  BY <1>3
<1>5. \A x \in Qnodes : Held(nodes, x) \in [data : Data \cup {Null}, key : Nat]
  BY <1>1 DEF Held, Entry, Node
<1>6. c \in Seq([data : Data \cup {Null}, key : Nat])
  <2>1. c \in [1 .. Len(w) -> [data : Data \cup {Null}, key : Nat]]
    BY <1>3, <1>4, <1>5
  <2> QED BY <1>4, <2>1, SeqDef
<1>7. DOMAIN c = DOMAIN w /\ Len(c) = Len(w)
  <2>1. DOMAIN c = DOMAIN w
    BY <1>3
  <2>2. DOMAIN c = 1 .. Len(c) /\ Len(c) \in Nat
    BY <1>6, LenProperties
  <2> QED BY <1>4, <2>1, <2>2
<1> QED BY <1>1, <1>2, <1>6, <1>7 DEF w, c

\* What a list of qnodes carries, when f says what each of them holds.
Carried(w, f) == [j \in DOMAIN w |-> f[w[j]]]
Holding(ns)   == [x \in Qnodes |-> Held(ns, x)]

\* The list c holds, place by place, what g says of the qnodes of w.
InStep(w, c, g) == Len(c) = Len(w) /\ \A j \in 1 .. Len(w) : c[j] = g[w[j]]

\* A list is carried element by element.
LEMMA CarriedIs ==
  ASSUME NEW S, NEW T, NEW w \in Seq(S), NEW f \in [S -> T]
  PROVE  Carried(w, f) \in Seq(T) /\ InStep(w, Carried(w, f), f)
<1>1. DOMAIN w = 1 .. Len(w) /\ Len(w) \in Nat /\ \A j \in 1 .. Len(w) : w[j] \in S
  OBVIOUS
<1>2. Carried(w, f) \in [1 .. Len(w) -> T] /\ \A j \in 1 .. Len(w) : Carried(w, f)[j] = f[w[j]]
  BY <1>1 DEF Carried
<1>3. Carried(w, f) \in Seq(T)
  BY <1>1, <1>2, SeqDef
<1>4. Len(Carried(w, f)) = Len(w)
  <2>1. DOMAIN Carried(w, f) = 1 .. Len(Carried(w, f)) /\ Len(Carried(w, f)) \in Nat
    BY <1>3, LenProperties
  <2> QED BY <1>1, <1>2, <2>1
<1> QED BY <1>2, <1>3, <1>4 DEF InStep

\* The list v is w with x inserted at place i.
Inserted(S, v, w, i, x) ==
  /\ v \in Seq(S)
  /\ Len(v) = Len(w) + 1
  /\ \A j \in 1 .. Len(w) + 1 :
       v[j] = IF j < i THEN w[j] ELSE IF j = i THEN x ELSE w[j - 1]

\* InsertAt inserts.
LEMMA InsertAtInserts ==
  ASSUME NEW S, NEW w \in Seq(S), NEW i \in 1 .. Len(w) + 1, NEW x \in S
  PROVE  Inserted(S, InsertAt(w, i, x), w, i, x)
<1>1. w \in Seq(S) /\ x \in S /\ i \in 1 .. Len(w) + 1
  OBVIOUS
<1>2. /\ InsertAt(w, i, x) \in Seq(S)
      /\ Len(InsertAt(w, i, x)) = Len(w) + 1
      /\ \A j \in 1 .. Len(w) + 1 :
           InsertAt(w, i, x)[j] = IF j < i THEN w[j]
                                  ELSE IF j = i THEN x ELSE w[j - 1]
  BY <1>1, InsertAtIs
<1> DEFINE v == InsertAt(w, i, x)
<1>3. /\ v \in Seq(S) /\ Len(v) = Len(w) + 1
      /\ \A j \in 1 .. Len(w) + 1 :
           v[j] = IF j < i THEN w[j] ELSE IF j = i THEN x ELSE w[j - 1]
  BY <1>2
<1> HIDE DEF v
<1>4. Inserted(S, v, w, i, x)
  BY <1>3 DEF Inserted
<1> QED BY <1>4 DEF v

\* An insertion into a list and into what it carries keep them in step.
LEMMA InsertInStep ==
  ASSUME NEW S, NEW T, NEW w \in Seq(S), NEW c \in Seq(T), NEW g \in [S -> T],
         InStep(w, c, g),
         NEW x \in S, NEW e \in T, e = g[x], NEW i \in 1 .. Len(w) + 1
  PROVE  Carried(InsertAt(w, i, x), g) = InsertAt(c, i, e)
<1> DEFINE v == InsertAt(w, i, x)
           b == InsertAt(c, i, e)
           L == Len(w)
<1>1. /\ L \in Nat /\ L = Len(w) /\ L = Len(c) /\ i \in 1 .. L + 1 /\ i \in Int
      /\ \A j \in 1 .. L : c[j] = g[w[j]]
  BY DEF InStep
<1>2. Inserted(S, v, w, i, x)
  BY InsertAtInserts
<1>3. Inserted(T, b, c, i, e)
  <2>1. i \in 1 .. Len(c) + 1
    BY <1>1
  <2> QED BY <2>1, InsertAtInserts
<1> HIDE DEF v, b, L
<1>4. v \in Seq(S) /\ Len(v) = L + 1 /\ b \in Seq(T) /\ Len(b) = L + 1
  BY <1>1, <1>2, <1>3 DEF Inserted
<1>5. \A j \in 1 .. L + 1 : /\ v[j] = IF j < i THEN w[j] ELSE IF j = i THEN x ELSE w[j - 1]
                            /\ b[j] = IF j < i THEN c[j] ELSE IF j = i THEN e ELSE c[j - 1]
  BY <1>1, <1>2, <1>3 DEF Inserted
<1>6. ASSUME NEW j \in 1 .. L + 1 PROVE g[v[j]] = b[j]
  <2>1. CASE j < i
    <3>1. j \in 1 .. L
      BY <1>1, <2>1
    <3> QED BY <1>1, <1>5, <2>1, <3>1
  <2>2. CASE j = i
    BY <1>1, <1>5, <2>2
  <2>3. CASE j > i
    <3>1. j - 1 \in 1 .. L /\ ~(j < i) /\ j # i
      BY <1>1, <2>3
    <3> QED BY <1>1, <1>5, <3>1
  <2> QED BY <1>1, <2>1, <2>2, <2>3
<1> DEFINE a == Carried(v, g)
<1>7. a \in Seq(T) /\ Len(a) = Len(v) /\ \A j \in 1 .. Len(v) : a[j] = g[v[j]]
  <2>1. a \in Seq(T) /\ InStep(v, a, g)
    BY <1>4, CarriedIs
  <2> QED BY <2>1 DEF InStep
<1> HIDE DEF a
<1>8. a = b
  BY <1>4, <1>6, <1>7, SeqEqual
<1> QED BY <1>8 DEF a, b, v

\* The same of a removal.
LEMMA RemoveInStep ==
  ASSUME NEW S, NEW T, NEW w \in Seq(S), NEW c \in Seq(T), NEW g \in [S -> T],
         InStep(w, c, g),
         NEW i \in 1 .. Len(w)
  PROVE  Carried(RemoveAt(w, i), g) = RemoveAt(c, i)
<1> DEFINE v == RemoveAt(w, i)
           b == RemoveAt(c, i)
           L == Len(w)
<1>1. L \in Nat /\ i \in 1 .. L /\ i \in Int /\ \A j \in 1 .. L : c[j] = g[w[j]]
      /\ Len(c) = L
  BY DEF InStep
<1>2. /\ v \in Seq(S) /\ Len(v) = L - 1
      /\ \A j \in 1 .. L - 1 : v[j] = IF j < i THEN w[j] ELSE w[j + 1]
  BY RemoveAtIs
<1>3. /\ b \in Seq(T) /\ Len(b) = L - 1
      /\ \A j \in 1 .. L - 1 : b[j] = IF j < i THEN c[j] ELSE c[j + 1]
  <2>1. i \in 1 .. Len(c)
    BY <1>1
  <2>2. /\ b \in Seq(T) /\ Len(b) = Len(c) - 1
        /\ \A j \in 1 .. Len(c) - 1 : b[j] = IF j < i THEN c[j] ELSE c[j + 1]
    BY <2>1, RemoveAtIs
  <2> QED BY <1>1, <2>2
<1> HIDE DEF v, b, L
<1>4. ASSUME NEW j \in 1 .. L - 1 PROVE g[v[j]] = b[j]
  <2>1. j \in 1 .. L /\ j + 1 \in 1 .. L
    BY <1>1
  <2> QED BY <1>1, <1>2, <1>3, <2>1
<1> DEFINE a == Carried(v, g)
<1>5. a \in Seq(T) /\ Len(a) = Len(v) /\ \A j \in 1 .. Len(v) : a[j] = g[v[j]]
  <2>1. a \in Seq(T) /\ InStep(v, a, g)
    BY <1>2, CarriedIs
  <2> QED BY <2>1 DEF InStep
<1> HIDE DEF a
<1>6. a = b
  BY <1>1, <1>2, <1>3, <1>4, <1>5, SeqEqual
<1> QED BY <1>6 DEF a, b, v

Entries == [data : Data \cup {Null}, key : Nat]

\* What the queues hold is what their lists carry.
LEMMA ContentCarried ==
  ASSUME IInv
  PROVE  /\ Holding(nodes) \in [Qnodes -> Entries]
         /\ Content = [n \in QueueIds |-> Carried(Walk(n), Holding(nodes))]
<1>1. nodes \in [Qnodes -> Node] /\ \A n \in QueueIds : Walk(n) \in Seq(Qnodes)
  BY DEF IInv, Backed, Chain
<1>2. Holding(nodes) \in [Qnodes -> Entries]
  BY <1>1 DEF Holding, Held, Entry, Node, Entries
<1>3. ASSUME NEW n \in QueueIds
      PROVE  Content[n] = Carried(Walk(n), Holding(nodes))
  <2>1. \A i \in DOMAIN Walk(n) : Walk(n)[i] \in Qnodes
    BY <1>1
  <2>2. Content[n] = [i \in DOMAIN Walk(n) |-> Held(nodes, Walk(n)[i])]
    BY DEF Content, Held
  <2> QED BY <2>1, <2>2 DEF Carried, Holding
<1>4. Content = [n \in QueueIds |-> Content[n]]
  BY DEF Content
<1> QED BY <1>2, <1>3, <1>4

\* The same of the next state.
LEMMA NextContentCarried ==
  ASSUME IInv'
  PROVE  /\ Holding(nodes') \in [Qnodes -> Entries]
         /\ Content' = [n \in QueueIds |-> Carried(Walk(n)', Holding(nodes'))]
<1>1. nodes' \in [Qnodes -> Node] /\ \A n \in QueueIds : Walk(n)' \in Seq(Qnodes)
  BY DEF IInv, Backed, Chain
<1>2. Holding(nodes') \in [Qnodes -> Entries]
  BY <1>1 DEF Holding, Held, Entry, Node, Entries
<1>3. ASSUME NEW n \in QueueIds
      PROVE  Content'[n] = Carried(Walk(n)', Holding(nodes'))
  <2>1. \A i \in DOMAIN Walk(n)' : Walk(n)'[i] \in Qnodes
    BY <1>1
  <2>2. Content'[n] = [i \in DOMAIN Walk(n)' |-> Held(nodes', Walk(n)'[i])]
    BY DEF Content, Held
  <2> QED BY <2>1, <2>2 DEF Carried, Holding
<1>4. Content' = [n \in QueueIds |-> Content'[n]]
  BY DEF Content
<1> QED BY <1>2, <1>3, <1>4

\* A list that carries the same before and after.
LEMMA CarriedStays ==
  ASSUME NEW w \in Seq(Qnodes), NEW ns, NEW ms,
         \A y \in Range(w) : Held(ms, y) = Held(ns, y)
  PROVE  Carried(w, Holding(ms)) = Carried(w, Holding(ns))
<1>1. \A j \in DOMAIN w : w[j] \in Qnodes /\ w[j] \in Range(w)
  BY DEF Range
<1> QED BY <1>1 DEF Carried, Holding

\* A queue that gets the free qnode gets what that qnode was filled with.
LEMMA ContentGains ==
  ASSUME IInv, IInv', NEW n \in QueueIds, NEW i \in 1 .. Len(Walk(n)) + 1,
         NEW x \in Qnodes, \A m \in QueueIds : x \notin Range(Walk(m)),
         NEW d, NEW k, Held(nodes', x) = Entry(d, k),
         \A y \in Qnodes \ {x} : Held(nodes', y) = Held(nodes, y),
         Walk(n)' = InsertAt(Walk(n), i, x),
         \A m \in QueueIds \ {n} : Walk(m)' = Walk(m)
  PROVE  Content' = [Content EXCEPT ![n] = InsertAt(@, i, Entry(d, k))]
<1>1. \A m \in QueueIds : Walk(m) \in Seq(Qnodes)
  BY DEF IInv, Backed, Chain
<1>2. \A m \in QueueIds : \A y \in Range(Walk(m)) : Held(nodes', y) = Held(nodes, y)
  <2>1. \A m \in QueueIds : Range(Walk(m)) \subseteq Qnodes
    BY <1>1 DEF Range
  <2> QED BY <2>1
<1>3. \A m \in QueueIds : Carried(Walk(m), Holding(nodes')) = Carried(Walk(m), Holding(nodes))
  BY <1>1, <1>2, CarriedStays
<1>4. /\ Holding(nodes') \in [Qnodes -> Entries]
      /\ Content' = [m \in QueueIds |-> Carried(Walk(m)', Holding(nodes'))]
  BY NextContentCarried
<1>5. Content = [m \in QueueIds |-> Carried(Walk(m), Holding(nodes'))]
  BY <1>3, ContentCarried
<1>6. Holding(nodes')[x] = Entry(d, k) /\ Entry(d, k) \in Entries
  BY <1>4 DEF Holding
<1>7. Carried(Walk(n)', Holding(nodes')) = InsertAt(Content[n], i, Entry(d, k))
  <2> DEFINE w == Walk(n)
             g == Holding(nodes')
             c == Carried(w, g)
             e == Entry(d, k)
  <2>1. w \in Seq(Qnodes) /\ g \in [Qnodes -> Entries] /\ i \in 1 .. Len(w) + 1
        /\ e \in Entries /\ e = g[x]
    BY <1>1, <1>4, <1>6
  <2>2. Content[n] = c
    BY <1>5
  <2> HIDE DEF w, g, e
  <2>3. c \in Seq(Entries) /\ InStep(w, c, g)
    BY <2>1, CarriedIs
  <2> HIDE DEF c
  <2>4. Carried(InsertAt(w, i, x), g) = InsertAt(c, i, e)
    BY <2>1, <2>3, InsertInStep
  <2> QED BY <2>2, <2>4 DEF w, g, e
<1>8. Content' = [m \in QueueIds |-> IF m = n THEN InsertAt(Content[n], i, Entry(d, k))
                                     ELSE Content[m]]
  BY <1>4, <1>5, <1>7
<1>9. DOMAIN Content = QueueIds
  BY DEF Content
<1> QED BY <1>5, <1>8, <1>9

\* A queue that loses a qnode loses what that qnode held.
LEMMA ContentLoses ==
  ASSUME IInv, IInv', NEW n \in QueueIds, NEW i \in DOMAIN Walk(n),
         \A y \in Qnodes : Held(nodes', y) = Held(nodes, y),
         Walk(n)' = RemoveAt(Walk(n), i),
         \A m \in QueueIds \ {n} : Walk(m)' = Walk(m)
  PROVE  Content' = [Content EXCEPT ![n] = RemoveAt(@, i)]
<1>1. \A m \in QueueIds : Walk(m) \in Seq(Qnodes)
  BY DEF IInv, Backed, Chain
<1>2. \A m \in QueueIds : \A y \in Range(Walk(m)) : Held(nodes', y) = Held(nodes, y)
  <2>1. \A m \in QueueIds : Range(Walk(m)) \subseteq Qnodes
    BY <1>1 DEF Range
  <2> QED BY <2>1
<1>3. \A m \in QueueIds : Carried(Walk(m), Holding(nodes')) = Carried(Walk(m), Holding(nodes))
  BY <1>1, <1>2, CarriedStays
<1>4. /\ Holding(nodes') \in [Qnodes -> Entries]
      /\ Content' = [m \in QueueIds |-> Carried(Walk(m)', Holding(nodes'))]
  BY NextContentCarried
<1>5. Content = [m \in QueueIds |-> Carried(Walk(m), Holding(nodes'))]
  BY <1>3, ContentCarried
<1>6. Carried(Walk(n)', Holding(nodes')) = RemoveAt(Content[n], i)
  <2> DEFINE w == Walk(n)
             g == Holding(nodes')
             c == Carried(w, g)
  <2>1. w \in Seq(Qnodes) /\ g \in [Qnodes -> Entries] /\ i \in 1 .. Len(w)
    BY <1>1, <1>4
  <2>2. Content[n] = c
    BY <1>5
  <2> HIDE DEF w, g
  <2>3. c \in Seq(Entries) /\ InStep(w, c, g)
    BY <2>1, CarriedIs
  <2> HIDE DEF c
  <2>4. Carried(RemoveAt(w, i), g) = RemoveAt(c, i)
    BY <2>1, <2>3, RemoveInStep
  <2> QED BY <2>2, <2>4 DEF w, g
<1>7. Content' = [m \in QueueIds |-> IF m = n THEN RemoveAt(Content[n], i) ELSE Content[m]]
  BY <1>4, <1>5, <1>6
<1>8. DOMAIN Content = QueueIds
  BY DEF Content
<1> QED BY <1>5, <1>7, <1>8

\* The nodes with the free qnode filled in, its links not yet in use.
Fresh(fs, d, k) ==
  /\ fs \in [Qnodes -> Node]
  /\ fs[avail].key = k /\ fs[avail].data = d
  /\ \A y \in Qnodes \ {avail} : fs[y] = nodes[y]

\* Both ways of filling it in.
LEMMA FilledIsFresh ==
  ASSUME IInv, NEW d \in Data, NEW k \in Nat, avail \in Qnodes
  PROVE  Fresh(Filled(d, k), d, k) /\ Fresh(Cleared(d, k), d, k)
<1>1. nodes \in [Qnodes -> Node] /\ NIL \in Links
  BY DEF IInv, Links
<1>2. Fresh(Filled(d, k), d, k)
  BY <1>1 DEF Fresh, Filled, Node
<1>3. Fresh(Cleared(d, k), d, k)
  <2> DEFINE fs == Filled(d, k)
  <2>1. fs \in [Qnodes -> Node] /\ Fresh(fs, d, k)
    BY <1>2 DEF Fresh
  <2>2. Cleared(d, k) = [fs EXCEPT ![avail].prev = NIL, ![avail].next = NIL]
    BY DEF Cleared
  <2> HIDE DEF fs
  <2> DEFINE gs == [fs EXCEPT ![avail].prev = NIL]
  <2>3. gs \in [Qnodes -> Node] /\ Fresh(gs, d, k)
    BY <1>1, <2>1 DEF Fresh, Node
  <2>4. Cleared(d, k) = [gs EXCEPT ![avail].next = NIL]
    BY <2>2
  <2> HIDE DEF gs
  <2> QED BY <1>1, <2>3, <2>4 DEF Fresh, Node
<1> QED BY <1>2, <1>3

\* The lists in terms of the invariant.
LEMMA ListIs ==
  ASSUME IInv, NEW n \in QueueIds
  PROVE  /\ Walk(n) \in Seq(Qnodes) /\ IsInjective(Walk(n))
         /\ queues[n] \in QueueRecord
         /\ queues[n].head = At(Walk(n), 1)
         /\ queues[n].tail = At(Walk(n), Len(Walk(n)))
         /\ queues[n].length = Len(Walk(n))
         /\ \A i \in DOMAIN Walk(n) : /\ nodes[Walk(n)[i]].next = At(Walk(n), i + 1)
                                      /\ nodes[Walk(n)[i]].prev = At(Walk(n), i - 1)
  BY DEF IInv, Backed, Chain, QueueRecord

\* The free qnode is a qnode, and on no queue.
LEMMA FreeIs ==
  ASSUME IInv, avail # NIL
  PROVE  avail \in Qnodes /\ \A m \in QueueIds : avail \notin Range(Walk(m))
<1>1. Free \in Seq(Qnodes) /\ avail = At(Free, 1)
  BY DEF IInv, Chain
<1>2. avail \in Range(Free) /\ avail \in Qnodes
  BY <1>1 DEF At, Range
<1> QED BY <1>2 DEF IInv, NoQnodeLost

\* What the queue n gets when the qnode it is given is linked in at place i.
LEMMA Joined ==
  ASSUME IInv, NEW n \in QueueIds, NEW i \in 1 .. Len(Walk(n)) + 1, avail # NIL,
         NEW d, NEW k,
         nodes' \in [Qnodes -> Node], Held(nodes', avail) = Entry(d, k),
         \A y \in Qnodes \ {avail} : Held(nodes', y) = Held(nodes, y),
         NEW a, NEW b, a = At(Walk(n), i - 1), b = At(Walk(n), i),
         Spliced(nodes, nodes', avail, a, b),
         NEW r \in QueueRecord, queues' = [queues EXCEPT ![n] = r],
         Lengthened(queues[n], r, avail, a, b),
         avail' = nodes[avail].next, answer' = Answer("E_SUCCESS", Null)
  PROVE  IInv' /\ Gets(n, i, d, k)
<1>1. /\ IInv' /\ Walk(n)' = InsertAt(Walk(n), i, avail)
      /\ \A m \in QueueIds \ {n} : Walk(m)' = Walk(m)
  BY QnodeJoins
<1>2. avail \in Qnodes /\ \A m \in QueueIds : avail \notin Range(Walk(m))
  BY FreeIs
<1>3. Content' = [Content EXCEPT ![n] = InsertAt(@, i, Entry(d, k))]
  BY <1>1, <1>2, ContentGains
<1>4. Len(Content[n]) = Len(Walk(n))
  BY ContentIs
<1> QED BY <1>1, <1>3, <1>4 DEF Gets

\* Behind the tail.
LEMMA JoinsAtTail ==
  ASSUME IInv, NEW n \in QueueIds, NEW d, NEW k, avail # NIL,
         NEW fs, Fresh(fs, d, k), Adding(n, AtTail(fs, queues[n], avail))
  PROVE  IInv' /\ Gets(n, Len(Content[n]) + 1, d, k)
<1> DEFINE w == Walk(n)
           q == queues[n]
           L == Len(w)
           a == At(w, L)
           linked == [fs EXCEPT ![avail].next = NIL, ![avail].prev = q.tail]
           r == AtTail(fs, q, avail).q
<1>1. avail \in Qnodes /\ avail \notin Range(w)
  BY FreeIs
<1>2. /\ w \in Seq(Qnodes) /\ IsInjective(w) /\ q \in QueueRecord /\ q.head = At(w, 1)
      /\ q.tail = a /\ q.length = L
  BY ListIs
<1> HIDE DEF w, q
<1>3. /\ L \in Nat /\ NIL \notin Qnodes
      /\ \A i \in 1 .. L : At(w, i) = w[i] /\ w[i] \in Qnodes /\ w[i] # NIL /\ w[i] \in Range(w)
      /\ \A i : i \notin 1 .. L => At(w, i) = NIL
  BY <1>2, Places
<1>4. At(w, L + 1) = NIL /\ (L < 1 => a = NIL) /\ (L >= 1 => a \in Qnodes /\ a # avail /\ a # NIL)
  BY <1>1, <1>3
<1>5. fs \in [Qnodes -> Node] /\ \A y \in Qnodes \ {avail} : fs[y] = nodes[y]
  BY DEF Fresh
<1>6. NIL \in Links /\ a \in Links /\ avail \in Links
  BY <1>1, <1>4, <1>3 DEF Links
<1>7. /\ linked \in [Qnodes -> Node]
      /\ linked[avail].next = NIL /\ linked[avail].prev = a
      /\ Held(linked, avail) = Entry(d, k)
      /\ \A y \in Qnodes \ {avail} : linked[y] = nodes[y]
  BY <1>1, <1>2, <1>5, <1>6 DEF Fresh, Node, Held
<1> HIDE DEF linked, L, a
<1>8. nodes' = IF L < 1 THEN linked ELSE [linked EXCEPT ![a].next = avail]
  BY <1>2 DEF Adding, AtTail, linked, q
<1>9. /\ nodes' \in [Qnodes -> Node]
      /\ Held(nodes', avail) = Entry(d, k)
      /\ \A y \in Qnodes \ {avail} : Held(nodes', y) = Held(nodes, y)
      /\ Spliced(nodes, nodes', avail, a, NIL)
  <2>1. CASE L < 1
    BY <1>3, <1>4, <1>7, <1>8, <2>1 DEF Spliced, Held
  <2>2. CASE ~(L < 1)
    <3>1. a \in Qnodes /\ a # avail /\ a # NIL
      BY <1>3, <1>4, <2>2
    <3>2. nodes' = [linked EXCEPT ![a].next = avail]
      BY <1>8, <2>2
    <3>3. nodes' \in [Qnodes -> Node]
      BY <1>1, <1>6, <1>7, <3>1, <3>2 DEF Node
    <3>4. /\ nodes'[avail] = linked[avail]
          /\ nodes'[a].next = avail /\ nodes'[a].prev = linked[a].prev
          /\ Held(nodes', a) = Held(linked, a)
          /\ \A y \in Qnodes \ {a} : nodes'[y] = linked[y]
      BY <1>1, <1>7, <3>1, <3>2 DEF Node, Held
    <3> QED BY <1>1, <1>3, <1>7, <3>1, <3>3, <3>4 DEF Spliced, Held
  <2> QED BY <2>1, <2>2
<1>10. r \in QueueRecord /\ Lengthened(q, r, avail, a, NIL)
  <2>1. r = [head |-> IF q.length < 1 THEN avail ELSE q.head, tail |-> avail, length |-> q.length + 1]
    BY DEF AtTail
  <2> HIDE DEF r
  <2> QED BY <1>2, <1>3, <1>4, <1>6, <2>1 DEF QueueRecord, Lengthened
<1>11. queues' = [queues EXCEPT ![n] = r] /\ avail' = nodes[avail].next /\ answer' = Answer("E_SUCCESS", Null)
  BY DEF Adding, q
<1> HIDE DEF r
<1>12. Len(Content[n]) = L
  BY ContentIs DEF L, w
<1> DEFINE i == L + 1
<1>13. i \in 1 .. Len(Walk(n)) + 1 /\ a = At(Walk(n), i - 1) /\ NIL = At(Walk(n), i)
  BY <1>3, <1>4 DEF L, w, a
<1>14. i = Len(Content[n]) + 1
  BY <1>12
<1> HIDE DEF i
<1>15. IInv' /\ Gets(n, i, d, k)
  BY <1>9, <1>10, <1>11, <1>13, Joined DEF q
<1> QED BY <1>14, <1>15

\* In front of the qnode at place i.
LEMMA JoinsInFrontOf ==
  ASSUME IInv, NEW n \in QueueIds, NEW d, NEW k, avail # NIL,
         NEW i \in DOMAIN Walk(n), NEW c, c = Walk(n)[i],
         NEW fs, Fresh(fs, d, k), Adding(n, InFrontOf(fs, queues[n], avail, c))
  PROVE  IInv' /\ Gets(n, i, d, k)
<1> DEFINE w == Walk(n)
           q == queues[n]
           L == Len(w)
           a == At(w, i - 1)
           linked == [fs EXCEPT ![avail].next = c, ![avail].prev = a]
           back == [linked EXCEPT ![c].prev = avail]
           r == InFrontOf(fs, q, avail, c).q
<1>1. avail \in Qnodes /\ avail \notin Range(w)
  BY FreeIs
<1>2. /\ w \in Seq(Qnodes) /\ IsInjective(w) /\ q \in QueueRecord /\ q.length = L
      /\ i \in DOMAIN w /\ c = w[i] /\ nodes[c].prev = a
  BY ListIs
<1> HIDE DEF w, q
<1>3. /\ L \in Nat /\ NIL \notin Qnodes /\ DOMAIN w = 1 .. L
      /\ \A j \in 1 .. L : At(w, j) = w[j] /\ w[j] \in Qnodes /\ w[j] # NIL /\ w[j] \in Range(w)
      /\ \A j : j \notin 1 .. L => At(w, j) = NIL
      /\ \A j, h \in 1 .. L : w[j] = w[h] => j = h
  BY <1>2, Places
<1>4. /\ c \in Qnodes /\ c # avail /\ c # NIL /\ c = At(w, i)
      /\ a = NIL \/ (a \in Qnodes /\ a # avail /\ a # c /\ a # NIL)
  <2>1. i \in 1 .. L /\ i - 1 # i
    BY <1>2, <1>3
  <2>2. c \in Qnodes /\ c # avail /\ c # NIL /\ c = At(w, i)
    BY <1>1, <1>2, <1>3, <2>1
  <2>3. CASE i - 1 \in 1 .. L
    BY <1>1, <1>2, <1>3, <2>1, <2>3
  <2>4. CASE i - 1 \notin 1 .. L
    <3>1. At(w, i - 1) = NIL
      BY <1>3, <2>4
    <3> QED BY <2>2, <3>1
  <2> QED BY <2>2, <2>3, <2>4
<1>5. /\ fs \in [Qnodes -> Node] /\ \A y \in Qnodes \ {avail} : fs[y] = nodes[y]
      /\ fs[c].prev = a
  BY <1>2, <1>4 DEF Fresh
<1>6. NIL \in Links /\ a \in Links /\ c \in Links /\ avail \in Links
  BY <1>1, <1>4 DEF Links
<1>7. /\ linked \in [Qnodes -> Node]
      /\ linked[avail].next = c /\ linked[avail].prev = a
      /\ Held(linked, avail) = Entry(d, k)
      /\ \A y \in Qnodes \ {avail} : linked[y] = nodes[y]
  BY <1>1, <1>5, <1>6 DEF Fresh, Node, Held
<1>8. nodes' = IF a = NIL THEN [fs EXCEPT ![avail].next = c, ![avail].prev = a, ![c].prev = avail]
               ELSE [[fs EXCEPT ![avail].next = c, ![avail].prev = a, ![c].prev = avail]
                       EXCEPT ![a].next = avail]
  BY <1>5 DEF Adding, InFrontOf
<1>9. nodes' = IF a = NIL THEN back ELSE [back EXCEPT ![a].next = avail]
  BY <1>8
<1> HIDE DEF linked, L, a
<1>10. /\ back \in [Qnodes -> Node]
       /\ back[avail].next = c /\ back[avail].prev = a
       /\ Held(back, avail) = Entry(d, k)
       /\ \A y \in Qnodes \ {avail} : /\ back[y].next = nodes[y].next
                                      /\ back[y].prev = IF y = c THEN avail ELSE nodes[y].prev
                                      /\ Held(back, y) = Held(nodes, y)
  <2>1. /\ back \in [Qnodes -> Node]
        /\ \A y \in Qnodes \ {c} : back[y] = linked[y]
        /\ back[c].next = linked[c].next /\ back[c].prev = avail
        /\ back[c].key = linked[c].key /\ back[c].data = linked[c].data
    BY <1>4, <1>6, <1>7 DEF Node
  <2> HIDE DEF back
  <2> QED BY <1>1, <1>4, <1>7, <2>1 DEF Held
<1> HIDE DEF back
<1>11. /\ nodes' \in [Qnodes -> Node]
       /\ Held(nodes', avail) = Entry(d, k)
       /\ \A y \in Qnodes \ {avail} : Held(nodes', y) = Held(nodes, y)
       /\ Spliced(nodes, nodes', avail, a, c)
  <2>1. CASE a = NIL
    BY <1>3, <1>4, <1>9, <1>10, <2>1 DEF Spliced
  <2>2. CASE a # NIL
    <3>1. a \in Qnodes /\ a # avail /\ a # c /\ nodes' = [back EXCEPT ![a].next = avail]
      BY <1>4, <1>9, <2>2
    <3>2. nodes' \in [Qnodes -> Node]
      BY <1>6, <1>10, <3>1 DEF Node
    <3>3. /\ nodes'[a].next = avail /\ nodes'[a].prev = back[a].prev
          /\ Held(nodes', a) = Held(back, a)
          /\ \A y \in Qnodes \ {a} : nodes'[y] = back[y]
      BY <1>10, <3>1 DEF Node, Held
    <3> QED BY <1>1, <1>4, <1>10, <3>1, <3>2, <3>3 DEF Spliced, Held
  <2> QED BY <2>1, <2>2
<1>12. r \in QueueRecord /\ Lengthened(q, r, avail, a, c)
  <2>1. r = [q EXCEPT !.head = IF a = NIL THEN avail ELSE @, !.length = @ + 1]
    BY <1>5 DEF InFrontOf
  <2>2. /\ r.head = IF a = NIL THEN avail ELSE q.head
        /\ r.tail = q.tail /\ r.length = q.length + 1
        /\ r = [head |-> r.head, tail |-> r.tail, length |-> r.length]
    <3> HIDE DEF r
    <3> QED BY <1>2, <2>1 DEF QueueRecord
  <2> HIDE DEF r
  <2>3. r.head \in Links /\ r.tail \in Links /\ r.length \in Nat
    BY <1>2, <1>3, <1>6, <2>2 DEF QueueRecord
  <2>4. Lengthened(q, r, avail, a, c)
    BY <1>4, <2>2 DEF Lengthened
  <2> QED BY <2>2, <2>3, <2>4 DEF QueueRecord
<1>13. queues' = [queues EXCEPT ![n] = r] /\ avail' = nodes[avail].next /\ answer' = Answer("E_SUCCESS", Null)
  BY DEF Adding, q
<1> HIDE DEF r
<1>14. i \in 1 .. Len(Walk(n)) + 1 /\ a = At(Walk(n), i - 1) /\ c = At(Walk(n), i)
  BY <1>2, <1>3, <1>4 DEF L, w, a
<1> QED BY <1>11, <1>12, <1>13, <1>14, Joined DEF q

\* What the queue n gives away when the qnode at place i is unlinked and freed.
LEMMA Left ==
  ASSUME IInv, NEW n \in QueueIds, NEW i \in DOMAIN Walk(n),
         NEW x, x = Walk(n)[i],
         nodes' \in [Qnodes -> Node],
         \A y \in Qnodes : Held(nodes', y) = Held(nodes, y),
         NEW a, NEW b, a = At(Walk(n), i - 1), b = At(Walk(n), i + 1),
         Bridged(nodes, nodes', x, a, b), nodes'[x].next = avail,
         NEW r \in QueueRecord, queues' = [queues EXCEPT ![n] = r],
         Shortened(queues[n], r, a, b),
         avail' = x, answer' = Answer("E_SUCCESS", nodes[x].data)
  PROVE  IInv' /\ Gives(n, i)
<1>1. /\ IInv' /\ Walk(n)' = RemoveAt(Walk(n), i)
      /\ \A m \in QueueIds \ {n} : Walk(m)' = Walk(m)
  BY QnodeLeaves
<1>2. Content' = [Content EXCEPT ![n] = RemoveAt(@, i)]
  BY <1>1, ContentLoses
<1>3. DOMAIN Content[n] = DOMAIN Walk(n) /\ Content[n][i] = Held(nodes, x)
  BY ContentIs
<1> QED BY <1>1, <1>2, <1>3 DEF Gives, Held, Entry

\* The nodes with x taken out from between a and b.
Without(ns, x, a, b) ==
  /\ ns \in [Qnodes -> Node] /\ \A y \in Qnodes : Held(ns, y) = Held(nodes, y)
  /\ Bridged(nodes, ns, x, a, b)

\* The nodes with x pushed onto the free ones, of which h was the first.
Freeing(ms, x, h) == [ms EXCEPT ![x].next = h]

\* The qnode that is removed has the next field of a free one afterwards.
LEMMA Freed ==
  ASSUME NEW ms, NEW x \in Qnodes, NEW h \in Links, NEW a, NEW b,
         Without(ms, x, a, b)
  PROVE  Without(Freeing(ms, x, h), x, a, b) /\ Freeing(ms, x, h)[x].next = h
<1> DEFINE ns == Freeing(ms, x, h)
<1>1. ns \in [Qnodes -> Node]
  BY DEF Node, Without, Freeing
<1>2. /\ \A y \in Qnodes \ {x} : ns[y] = ms[y]
      /\ ns[x].next = h /\ ns[x].key = ms[x].key /\ ns[x].data = ms[x].data
  BY DEF Node, Without, Freeing
<1> HIDE DEF ns
<1>3. Without(ns, x, a, b) /\ ns[x].next = h
  BY <1>1, <1>2 DEF Bridged, Held, Without
<1> QED BY <1>3 DEF ns

\* From the head.
LEMMA LeavesHead ==
  ASSUME IInv, NEW n \in QueueIds, queues[n].length >= 1,
         Removing(n, queues[n].head, Behead(nodes, queues[n]))
  PROVE  IInv' /\ Gives(n, 1)
<1> DEFINE w == Walk(n)
           q == queues[n]
           L == Len(w)
           x == q.head
           h == At(w, 2)
           ms == Behead(nodes, q).ns
           r == Behead(nodes, q).q
<1>1. nodes \in [Qnodes -> Node] /\ avail \in Links
  <2>1. Free \in Seq(Qnodes) /\ avail = At(Free, 1)
    BY DEF IInv, Chain
  <2> QED BY <2>1 DEF IInv, At, Links
<1>2. /\ w \in Seq(Qnodes) /\ IsInjective(w) /\ q \in QueueRecord /\ q.length = L
      /\ q.head = At(w, 1) /\ q.tail = At(w, L)
      /\ \A i \in DOMAIN w : nodes[w[i]].next = At(w, i + 1) /\ nodes[w[i]].prev = At(w, i - 1)
      /\ q.length >= 1
  BY ListIs
<1> HIDE DEF w, q
<1>3. /\ L \in Nat /\ NIL \notin Qnodes /\ DOMAIN w = 1 .. L
      /\ \A j \in 1 .. L : At(w, j) = w[j] /\ w[j] \in Qnodes /\ w[j] # NIL
      /\ \A j : j \notin 1 .. L => At(w, j) = NIL
      /\ \A j, m \in 1 .. L : w[j] = w[m] => j = m
  BY <1>2, Places
<1>4. 1 \in 1 .. L /\ (L = 1 <=> 2 \notin 1 .. L) /\ 0 \notin 1 .. L
  BY <1>2, <1>3
<1>5. x = w[1] /\ x \in Qnodes /\ x # NIL /\ nodes[x].next = h /\ nodes[x].prev = NIL
  <2>1. nodes[w[1]].next = At(w, 1 + 1) /\ nodes[w[1]].prev = At(w, 1 - 1)
    BY <1>2, <1>3, <1>4
  <2>2. At(w, 0) = NIL
    BY <1>3, <1>4
  <2> QED BY <1>2, <1>3, <1>4, <2>1, <2>2
<1>6. \/ h = NIL /\ L = 1
      \/ h \in Qnodes /\ h # x /\ h # NIL /\ nodes[h].prev = x /\ L # 1
  <2>1. CASE L = 1
    <3>1. At(w, 2) = NIL
      BY <1>3, <1>4, <2>1
    <3> QED BY <2>1, <3>1
  <2>2. CASE L # 1
    <3>1. 2 \in 1 .. L
      BY <1>4, <2>2
    <3>2. nodes[w[2]].prev = At(w, 2 - 1) /\ At(w, 2) = w[2] /\ At(w, 1) = w[1]
      BY <1>2, <1>3, <1>4, <3>1
    <3> QED BY <1>3, <1>4, <1>5, <2>2, <3>1, <3>2
  <2> QED BY <2>1, <2>2
<1>7. NIL \in Links /\ h \in Links /\ x \in Links
  BY <1>5, <1>6 DEF Links
<1>8. ms = IF h = NIL THEN nodes ELSE [nodes EXCEPT ![h].prev = NIL]
  BY <1>5 DEF Behead
<1>9. r = [head |-> h, tail |-> IF h = NIL THEN NIL ELSE q.tail, length |-> q.length - 1]
  BY <1>5 DEF Behead
<1>10. /\ nodes' = [ms EXCEPT ![x].next = avail] /\ queues' = [queues EXCEPT ![n] = r]
       /\ avail' = x /\ answer' = Answer("E_SUCCESS", nodes[x].data)
  BY DEF Removing, q
<1> HIDE DEF ms, r, h, x, L
<1>11. ms \in [Qnodes -> Node]
  BY <1>1, <1>6, <1>7, <1>8 DEF Node
<1>12. /\ \A y \in Qnodes : Held(ms, y) = Held(nodes, y)
       /\ Bridged(nodes, ms, x, NIL, h)
  <2>1. CASE h = NIL
    BY <1>3, <1>8, <2>1 DEF Bridged, Held
  <2>2. CASE h # NIL
    <3>1. h \in Qnodes /\ ms = [nodes EXCEPT ![h].prev = NIL]
      BY <1>6, <1>8, <2>2
    <3>2. /\ \A y \in Qnodes \ {h} : ms[y] = nodes[y]
          /\ ms[h].next = nodes[h].next /\ ms[h].prev = NIL
          /\ ms[h].key = nodes[h].key /\ ms[h].data = nodes[h].data
      BY <1>1, <3>1 DEF Node
    <3> QED BY <1>3, <3>1, <3>2 DEF Bridged, Held
  <2> QED BY <2>1, <2>2
<1>13. /\ nodes' \in [Qnodes -> Node] /\ \A y \in Qnodes : Held(nodes', y) = Held(nodes, y)
       /\ Bridged(nodes, nodes', x, NIL, h) /\ nodes'[x].next = avail
  <2>1. Without(ms, x, NIL, h)
    BY <1>11, <1>12 DEF Without
  <2>2. Without(Freeing(ms, x, avail), x, NIL, h) /\ Freeing(ms, x, avail)[x].next = avail
    BY <1>1, <1>5, <2>1, Freed
  <2>3. nodes' = Freeing(ms, x, avail)
    BY <1>10 DEF Freeing
  <2> QED BY <2>2, <2>3 DEF Without
<1>14. r \in QueueRecord /\ Shortened(q, r, NIL, h)
  <2>1. q.length - 1 \in Nat /\ q.tail \in Links
    BY <1>2, <1>3 DEF QueueRecord
  <2> QED BY <1>7, <1>9, <2>1 DEF QueueRecord, Shortened
<1> DEFINE i == 1
<1>15. i \in DOMAIN Walk(n) /\ x = Walk(n)[i] /\ NIL = At(Walk(n), i - 1) /\ h = At(Walk(n), i + 1)
  BY <1>3, <1>4, <1>5 DEF w, h
<1> HIDE DEF i
<1>16. IInv' /\ Gives(n, i)
  BY <1>10, <1>13, <1>14, <1>15, Left DEF q
<1> QED BY <1>16 DEF i

\* From any place.
LEMMA LeavesPlace ==
  ASSUME IInv, NEW n \in QueueIds, NEW i \in DOMAIN Walk(n), NEW x, x = Walk(n)[i],
         Removing(n, x, Unlink(nodes, queues[n], x))
  PROVE  IInv' /\ Gives(n, i)
<1> DEFINE w == Walk(n)
           q == queues[n]
           L == Len(w)
           a == At(w, i - 1)
           b == At(w, i + 1)
           bridged == IF a = NIL THEN nodes ELSE [nodes EXCEPT ![a].next = b]
           ms == Unlink(nodes, q, x).ns
           r == Unlink(nodes, q, x).q
<1>1. nodes \in [Qnodes -> Node] /\ avail \in Links
  <2>1. Free \in Seq(Qnodes) /\ avail = At(Free, 1)
    BY DEF IInv, Chain
  <2> QED BY <2>1 DEF IInv, At, Links
<1>2. /\ w \in Seq(Qnodes) /\ IsInjective(w) /\ q \in QueueRecord /\ q.length = L
      /\ q.head = At(w, 1) /\ q.tail = At(w, L)
      /\ i \in DOMAIN w /\ x = w[i]
      /\ nodes[x].next = b /\ nodes[x].prev = a
  BY ListIs
<1> HIDE DEF w, q
<1>3. /\ L \in Nat /\ NIL \notin Qnodes /\ DOMAIN w = 1 .. L
      /\ \A j \in 1 .. L : At(w, j) = w[j] /\ w[j] \in Qnodes /\ w[j] # NIL
      /\ \A j : j \notin 1 .. L => At(w, j) = NIL
      /\ \A j, m \in 1 .. L : w[j] = w[m] => j = m
  BY <1>2, Places
<1>4. i \in 1 .. L /\ i - 1 # i /\ i + 1 # i /\ i - 1 # i + 1 /\ x \in Qnodes /\ x # NIL
  BY <1>2, <1>3
<1>5. \A j : At(w, j) = NIL \/ (j \in 1 .. L /\ At(w, j) = w[j] /\ w[j] \in Qnodes)
  BY <1>3
<1>6. /\ a = NIL \/ (a \in Qnodes /\ a # x /\ a # NIL)
      /\ b = NIL \/ (b \in Qnodes /\ b # x /\ b # NIL)
      /\ a = b => a = NIL
  BY <1>2, <1>3, <1>4, <1>5
<1>7. NIL \in Links /\ a \in Links /\ b \in Links /\ x \in Links
  BY <1>4, <1>6 DEF Links
<1>8. ms = IF b = NIL THEN bridged ELSE [bridged EXCEPT ![b].prev = a]
  BY <1>2 DEF Unlink
<1>9. r = [head |-> IF a = NIL THEN b ELSE q.head, tail |-> IF b = NIL THEN a ELSE q.tail,
           length |-> q.length - 1]
  BY <1>2 DEF Unlink
<1>10. /\ nodes' = [ms EXCEPT ![x].next = avail] /\ queues' = [queues EXCEPT ![n] = r]
       /\ avail' = x /\ answer' = Answer("E_SUCCESS", nodes[x].data)
  BY DEF Removing, q
<1> HIDE DEF ms, r, a, b, L
<1>11. /\ bridged \in [Qnodes -> Node]
       /\ \A y \in Qnodes : /\ bridged[y].next = IF y = a THEN b ELSE nodes[y].next
                            /\ bridged[y].prev = nodes[y].prev
                            /\ Held(bridged, y) = Held(nodes, y)
  <2>1. CASE a = NIL
    BY <1>1, <1>3, <2>1
  <2>2. CASE a # NIL
    <3>1. a \in Qnodes /\ bridged = [nodes EXCEPT ![a].next = b]
      BY <1>6, <2>2
    <3> HIDE DEF bridged
    <3>2. bridged \in [Qnodes -> Node]
      BY <1>1, <1>7, <3>1 DEF Node
    <3>3. /\ \A y \in Qnodes \ {a} : bridged[y] = nodes[y]
          /\ bridged[a].next = b /\ bridged[a].prev = nodes[a].prev
          /\ bridged[a].key = nodes[a].key /\ bridged[a].data = nodes[a].data
      BY <1>1, <3>1 DEF Node
    <3> QED BY <3>1, <3>2, <3>3 DEF Held
  <2> QED BY <2>1, <2>2
<1> HIDE DEF bridged
<1>12. /\ ms \in [Qnodes -> Node]
       /\ \A y \in Qnodes : /\ ms[y].prev = IF y = b THEN a ELSE bridged[y].prev
                            /\ ms[y].next = bridged[y].next
                            /\ Held(ms, y) = Held(bridged, y)
  <2>1. CASE b = NIL
    BY <1>3, <1>8, <1>11, <2>1
  <2>2. CASE b # NIL
    <3>1. b \in Qnodes /\ ms = [bridged EXCEPT ![b].prev = a]
      BY <1>6, <1>8, <2>2
    <3>2. ms \in [Qnodes -> Node]
      BY <1>7, <1>11, <3>1 DEF Node
    <3>3. /\ \A y \in Qnodes \ {b} : ms[y] = bridged[y]
          /\ ms[b].prev = a /\ ms[b].next = bridged[b].next
          /\ ms[b].key = bridged[b].key /\ ms[b].data = bridged[b].data
      BY <1>11, <3>1 DEF Node
    <3> QED BY <3>1, <3>2, <3>3 DEF Held
  <2> QED BY <2>1, <2>2
<1>13. Without(ms, x, a, b)
  BY <1>11, <1>12 DEF Without, Bridged
<1>14. /\ nodes' \in [Qnodes -> Node] /\ \A y \in Qnodes : Held(nodes', y) = Held(nodes, y)
       /\ Bridged(nodes, nodes', x, a, b) /\ nodes'[x].next = avail
  <2>1. Without(Freeing(ms, x, avail), x, a, b) /\ Freeing(ms, x, avail)[x].next = avail
    BY <1>1, <1>4, <1>13, Freed
  <2>2. nodes' = Freeing(ms, x, avail)
    BY <1>10 DEF Freeing
  <2> QED BY <2>1, <2>2 DEF Without
<1>15. r \in QueueRecord /\ Shortened(q, r, a, b)
  <2>1. q.length - 1 \in Nat /\ q.tail \in Links /\ q.head \in Links
    BY <1>2, <1>3, <1>4 DEF QueueRecord
  <2> QED BY <1>7, <1>9, <2>1 DEF QueueRecord, Shortened
<1>16. i \in DOMAIN Walk(n) /\ x = Walk(n)[i] /\ a = At(Walk(n), i - 1) /\ b = At(Walk(n), i + 1)
  BY DEF a, b, w
<1> QED BY <1>10, <1>14, <1>15, <1>16, Left DEF q

-----------------------------------------------------------------------------
(***************************************************************************)
(* The pool.  Places of queues and qnodes that are not free correspond one *)
(* to one, so the queues hold as many entries as there are qnodes exactly  *)
(* when no qnode is free.                                                  *)
(***************************************************************************)

\* E_NO_QNODES is answered when, and only when, the queues are full.
LEMMA FullIs ==
  ASSUME IInv
  PROVE  Promise!Full <=> avail = NIL
<1> DEFINE P == UNION {{n} \X DOMAIN Content[n] : n \in QueueIds}
           f == [p \in P |-> Walk(p[1])[p[2]]]
<1>1. \A n \in QueueIds : /\ Walk(n) \in Seq(Qnodes) /\ IsInjective(Walk(n))
                          /\ DOMAIN Content[n] = DOMAIN Walk(n)
  BY ContentIs
<1>2. \A p : p \in P <=> \E n \in QueueIds : \E i \in DOMAIN Walk(n) : p = <<n, i>>
  BY <1>1
<1> HIDE DEF P
<1>3. \A n \in QueueIds : \A i \in DOMAIN Walk(n) :
        <<n, i>> \in P /\ f[<<n, i>>] = Walk(n)[i] /\ Walk(n)[i] \in Range(Walk(n))
  BY <1>2 DEF Range
<1>4. f \in [P -> Qnodes]
  <2>1. \A n \in QueueIds : \A i \in DOMAIN Walk(n) : Walk(n)[i] \in Qnodes
    BY <1>1
  <2> QED BY <1>2, <2>1
<1> HIDE DEF f
<1>5. \A p, s \in P : f[p] = f[s] => p = s
  <2> SUFFICES ASSUME NEW p \in P, NEW s \in P, f[p] = f[s] PROVE p = s
    OBVIOUS
  <2>1. PICK n \in QueueIds : \E i \in DOMAIN Walk(n) : p = <<n, i>>
    BY <1>2
  <2>2. PICK i \in DOMAIN Walk(n) : p = <<n, i>>
    BY <2>1
  <2>3. PICK m \in QueueIds : \E i_1 \in DOMAIN Walk(m) : s = <<m, i_1>>
    BY <1>2
  <2>4. PICK j \in DOMAIN Walk(m) : s = <<m, j>>
    BY <2>3
  <2>5. /\ Walk(n)[i] = Walk(m)[j]
        /\ Walk(n)[i] \in Range(Walk(n)) /\ Walk(m)[j] \in Range(Walk(m))
    BY <1>3, <2>2, <2>4
  <2>6. n = m
    BY <2>5 DEF IInv, NoQnodeLost
  <2>7. i = j
    BY <1>1, <2>5, <2>6 DEF IsInjective
  <2> QED BY <2>2, <2>4, <2>6, <2>7
<1>6. f \in Injection(P, Qnodes)
  BY <1>4, <1>5 DEF Injection, IsInjective
<1>7. IsFiniteSet(Qnodes) /\ Cardinality(Qnodes) = NQnodes
  BY QnodesAssumption, FS_Interval DEF Qnodes
<1>8. Cardinality(P) = Cardinality(Qnodes) <=> f \in Surjection(P, Qnodes)
  BY <1>6, <1>7, FS_Injection
<1>9. f \in Surjection(P, Qnodes) <=> \A x \in Qnodes : \E p \in P : f[p] = x
  BY <1>4 DEF Surjection
<1>10. \A x \in Qnodes : (\E p \in P : f[p] = x) <=> \E n \in QueueIds : x \in Range(Walk(n))
  <2>1. ASSUME NEW x \in Qnodes, NEW p \in P, f[p] = x
        PROVE  \E n \in QueueIds : x \in Range(Walk(n))
    BY <1>2, <1>3, <2>1
  <2>2. ASSUME NEW x \in Qnodes, NEW n \in QueueIds, x \in Range(Walk(n))
        PROVE  \E p \in P : f[p] = x
    <3>1. PICK i \in DOMAIN Walk(n) : x = Walk(n)[i]
      BY <2>2 DEF Range
    <3> QED BY <1>3, <3>1
  <2> QED BY <2>1, <2>2
<1>11. (\A x \in Qnodes : \E n \in QueueIds : x \in Range(Walk(n))) <=> avail = NIL
  <2>1. /\ Free \in Seq(Qnodes) /\ avail = At(Free, 1)
        /\ Range(Free) \cup UNION {Range(Walk(n)) : n \in QueueIds} = Qnodes
        /\ \A n \in QueueIds : Range(Walk(n)) \cap Range(Free) = {}
    BY DEF IInv, Chain, NoQnodeLost
  <2>2. ASSUME avail = NIL PROVE Range(Free) = {}
    <3>1. NIL \notin Qnodes /\ Len(Free) \in Nat /\ DOMAIN Free = 1 .. Len(Free)
      BY <2>1, QnodesAssumption DEF NIL, Qnodes
    <3>2. 1 \notin DOMAIN Free
      BY <2>1, <2>2, <3>1 DEF At
    <3>3. DOMAIN Free = {}
      BY <3>1, <3>2
    <3> QED BY <3>3 DEF Range
  <2>3. ASSUME avail # NIL PROVE avail \in Qnodes /\ avail \in Range(Free)
    BY <2>1, <2>3 DEF At, Range
  <2>4. CASE avail = NIL
    BY <2>1, <2>2, <2>4
  <2>5. CASE avail # NIL
    BY <2>1, <2>3, <2>5
  <2> QED BY <2>4, <2>5
<1>12. Promise!Full <=> Cardinality(P) = NQnodes
  BY DEF Promise!Full, P, Promise!Cardinality, Cardinality
<1>13. (\A x \in Qnodes : \E p \in P : f[p] = x) <=> avail = NIL
  BY <1>10, <1>11
<1> QED BY <1>7, <1>8, <1>9, <1>12, <1>13

-----------------------------------------------------------------------------
(***************************************************************************)
(* The operations, in terms of what the queues hold.                       *)
(***************************************************************************)

\* The queues stay as they are.
Refused(status) == answer' = Answer(status, Null) /\ Content' = Content

\* Nothing happens to the lists.
LEMMA ListsStay ==
  ASSUME IInv, UNCHANGED <<nodes, avail, queues>>
  PROVE  IInv' /\ Content' = Content
<1>1. /\ Free' = Free /\ \A n \in QueueIds : Walk(n)' = Walk(n)
      /\ nodes' = nodes /\ avail' = avail /\ queues' = queues
  BY DEF Free, Walk
<1>2. NoQnodeLost'
  BY <1>1 DEF IInv, NoQnodeLost
<1>3. Content' = Content
  BY <1>1 DEF Content
<1> QED BY <1>1, <1>2, <1>3 DEF IInv

\* The same of an operation that refuses.
LEMMA RefuseDoes ==
  ASSUME IInv, NEW status, Refuse(status)
  PROVE  IInv' /\ Refused(status)
  BY ListsStay DEF Refuse, Refused

\* The first qnode whose key is larger stands where the entry belongs.
LEMMA InsertPosIs ==
  ASSUME NEW c \in Seq(Entries), NEW k \in Nat, NEW hits,
         hits = {i \in DOMAIN c : c[i].key > k}
  PROVE  InsertPos(c, k) = IF hits = {} THEN Len(c) + 1 ELSE Min(hits)
<1>1. Len(c) \in Nat /\ DOMAIN c = 1 .. Len(c)
  BY LenProperties
<1>2. InsertPos(c, k) = Min(hits \cup {Len(c) + 1})
  BY DEF InsertPos
<1>3. hits \subseteq 1 .. Len(c)
  BY <1>1
<1> DEFINE S == hits \cup {Len(c) + 1}
<1>4. Min(S) \in S /\ \A i \in S : Min(S) <= i
  <2>1. S \subseteq Nat /\ S # {}
    BY <1>1, <1>3
  <2> HIDE DEF S
  <2> QED BY <2>1, MinIsLeast
<1>5. CASE hits = {}
  BY <1>2, <1>4, <1>5
<1>6. CASE hits # {}
  <2>1. Min(hits) \in hits /\ \A i \in hits : Min(hits) <= i
    <3>1. hits \subseteq Nat
      BY <1>1, <1>3
    <3> QED BY <1>6, <3>1, MinIsLeast
  <2>2. Min(S) \in hits
    <3>1. PICK h \in hits : TRUE
      BY <1>6
    <3>2. h < Len(c) + 1 /\ h \in S
      BY <1>1, <1>3, <3>1
    <3>3. Min(S) <= h
      BY <1>4, <3>2
    <3>4. Min(S) # Len(c) + 1
      BY <1>1, <1>3, <3>2, <3>3
    <3> QED BY <1>4, <3>4
  <2>3. Min(S) <= Min(hits) /\ Min(hits) <= Min(S)
    BY <1>4, <2>1, <2>2
  <2>4. Min(S) \in Nat /\ Min(hits) \in Nat
    BY <1>1, <1>3, <2>1, <2>2
  <2>5. Min(S) = Min(hits)
    BY <2>3, <2>4
  <2> QED BY <1>2, <1>6, <2>5
<1> QED BY <1>5, <1>6

\* The key of an entry is that of its qnode.
LEMMA ContentKeys ==
  ASSUME IInv, NEW n \in QueueIds
  PROVE  /\ Content[n] \in Seq(Entries)
         /\ DOMAIN Content[n] = DOMAIN Walk(n) /\ Len(Content[n]) = Len(Walk(n))
         /\ \A i \in DOMAIN Walk(n) : Content[n][i].key = nodes[Walk(n)[i]].key
<1>1. /\ Content[n] = [i \in DOMAIN Walk(n) |-> Held(nodes, Walk(n)[i])]
      /\ Content[n] \in Seq([data : Data \cup {Null}, key : Nat])
      /\ DOMAIN Content[n] = DOMAIN Walk(n) /\ Len(Content[n]) = Len(Walk(n))
  BY ContentIs
<1>2. \A i \in DOMAIN Walk(n) : Content[n][i] = Held(nodes, Walk(n)[i])
  BY <1>1
<1>3. \A x : Held(nodes, x).key = nodes[x].key
  BY DEF Held, Entry
<1> QED BY <1>1, <1>2, <1>3 DEF Entries

\* _q_append.
LEMMA AppendDoes ==
  ASSUME IInv, NEW n \in QueueIds, NEW d \in Data, NEW k \in Nat, q_append(n, d, k)
  PROVE  /\ IInv'
         /\ \/ avail = NIL /\ Refused("E_NO_QNODES")
            \/ Gets(n, Len(Content[n]) + 1, d, k)
<1>1. CASE avail = NIL /\ Refuse("E_NO_QNODES")
  BY <1>1, RefuseDoes
<1>2. CASE avail # NIL /\ Adding(n, AtTail(Filled(d, k), queues[n], avail))
  <2> DEFINE fs == Filled(d, k)
  <2>1. Fresh(fs, d, k) /\ Adding(n, AtTail(fs, queues[n], avail))
    BY <1>2, FreeIs, FilledIsFresh
  <2> HIDE DEF fs
  <2> QED BY <1>2, <2>1, JoinsAtTail
<1> QED BY <1>1, <1>2 DEF q_append

\* _q_insert.
LEMMA InsertDoes ==
  ASSUME IInv, NEW n \in QueueIds, NEW d \in Data, NEW k \in Nat, q_insert(n, d, k)
  PROVE  /\ IInv'
         /\ \/ avail = NIL /\ Refused("E_NO_QNODES")
            \/ Gets(n, IF Compare[n] = "none" THEN Len(Content[n]) + 1
                       ELSE InsertPos(Content[n], k), d, k)
<1> DEFINE q == queues[n]
           w == Walk(n)
           c == Content[n]
           fs == Cleared(d, k)
           hits == {i \in DOMAIN w : nodes[w[i]].key > k}
           curr == IF hits = {} THEN NIL ELSE w[Min(hits)]
<1>1. CASE avail = NIL
  <2>1. Refuse("E_NO_QNODES")
    BY <1>1 DEF q_insert
  <2> QED BY <1>1, <2>1, RefuseDoes
<1>2. CASE avail # NIL
  <2>1. Fresh(fs, d, k)
    BY <1>2, FreeIs, FilledIsFresh
  <2>2. /\ nodes \in [Qnodes -> Node] /\ w \in Seq(Qnodes) /\ q.length = Len(w)
        /\ Len(w) \in Nat /\ DOMAIN w = 1 .. Len(w) /\ NIL \notin Qnodes
    BY ListIs, QnodesAssumption DEF IInv, Qnodes, NIL
  <2>3. Seek(q, LAMBDA old : compare_uint_asc(old, fs[avail]) > 0) = curr
    <3>1. hits = {i \in DOMAIN w : compare_uint_asc(nodes[w[i]], fs[avail]) > 0}
      <4>1. fs[avail].key = k
        BY <2>1 DEF Fresh
      <4>2. \A i \in DOMAIN w : nodes[w[i]].key \in Nat
        BY <2>2 DEF Node
      <4> QED BY <4>1, <4>2 DEF compare_uint_asc
    <3>2. Seek(q, LAMBDA old : compare_uint_asc(old, fs[avail]) > 0)
            = LET walk == w
                  hs == {i \in DOMAIN walk : compare_uint_asc(nodes[walk[i]], fs[avail]) > 0}
              IN  IF hs = {} THEN NIL ELSE walk[Min(hs)]
      BY DEF Seek, Walk
    <3> QED BY <3>1, <3>2
  <2>4. /\ c \in Seq(Entries) /\ DOMAIN c = DOMAIN w /\ Len(c) = Len(w)
        /\ \A i \in DOMAIN w : c[i].key = nodes[w[i]].key
    BY ContentKeys
  <2>5. InsertPos(c, k) = IF hits = {} THEN Len(c) + 1 ELSE Min(hits)
    <3>1. hits = {i \in DOMAIN c : c[i].key > k}
      BY <2>4
    <3> HIDE DEF hits, c
    <3> QED BY <2>4, <3>1, InsertPosIs
  <2>6. hits # {} => Min(hits) \in hits
    <3>1. hits \subseteq Nat
      BY <2>2
    <3> HIDE DEF hits
    <3> QED BY <3>1, MinIsLeast
  <2> DEFINE p == Min(hits)
  <2>7. (q.length < 1 => hits = {}) /\ (curr = NIL <=> hits = {})
    BY <2>2, <2>6
  <2>8. \/ /\ q.length < 1 \/ Compare[n] = "none" \/ curr = NIL
           /\ Adding(n, AtTail(fs, q, avail))
        \/ /\ q.length >= 1 /\ Compare[n] # "none" /\ curr # NIL
           /\ Adding(n, InFrontOf(fs, q, avail, curr))
    <3> HIDE DEF fs, curr
    <3> QED BY <1>2, <2>3 DEF q_insert, fs
  <2> HIDE DEF fs, hits
  <2>9. CASE /\ q.length < 1 \/ Compare[n] = "none" \/ curr = NIL
             /\ Adding(n, AtTail(fs, q, avail))
    <3>1. IInv' /\ Gets(n, Len(c) + 1, d, k)
      BY <1>2, <2>1, <2>9, JoinsAtTail
    <3>2. Compare[n] = "none" \/ InsertPos(c, k) = Len(c) + 1
      BY <2>5, <2>7, <2>9
    <3> QED BY <3>1, <3>2
  <2>10. CASE /\ q.length >= 1 /\ Compare[n] # "none" /\ curr # NIL
              /\ Adding(n, InFrontOf(fs, q, avail, curr))
    <3>1. p \in DOMAIN w /\ curr = w[p] /\ InsertPos(c, k) = p
      BY <2>5, <2>6, <2>7, <2>10 DEF hits
    <3> HIDE DEF p, curr
    <3>2. IInv' /\ Gets(n, p, d, k)
      BY <1>2, <2>1, <2>10, <3>1, JoinsInFrontOf
    <3> QED BY <2>10, <3>1, <3>2
  <2> QED BY <2>8, <2>9, <2>10
<1> QED BY <1>1, <1>2

\* Taking the entry at place i off queue n is what the caller sees.
Removed(n, hits) ==
  \/ Refused("E_EMPTY") /\ DOMAIN Content[n] = {}
  \/ Refused("E_NOT_FOUND") /\ DOMAIN Content[n] # {} /\ hits = {}
  \/ Gives(n, Min(hits)) /\ hits # {}

\* _q_remove.
LEMMA RemoveDoes ==
  ASSUME IInv, NEW n \in QueueIds, q_remove(n)
  PROVE  IInv' /\ Removed(n, DOMAIN Content[n])
<1>1. /\ Walk(n) \in Seq(Qnodes) /\ queues[n].length = Len(Walk(n))
      /\ DOMAIN Content[n] = DOMAIN Walk(n)
  BY ListIs, ContentIs
<1> DEFINE D == DOMAIN Content[n]
           L == Len(Walk(n))
<1>2. D = 1 .. L /\ L \in Nat /\ queues[n].length = L
  BY <1>1
<1> HIDE DEF D, L
<1>3. CASE queues[n].length < 1 /\ Refuse("E_EMPTY")
  <2>1. D = {}
    BY <1>2, <1>3
  <2> QED BY <1>3, <2>1, RefuseDoes DEF Removed, D
<1>4. CASE /\ queues[n].length >= 1
           /\ Removing(n, queues[n].head, Behead(nodes, queues[n]))
  <2>1. IInv' /\ Gives(n, 1)
    BY <1>4, LeavesHead
  <2>2. D \subseteq Nat /\ 1 \in D /\ \A i \in D : i >= 1
    BY <1>2, <1>4
  <2>3. Min(D) \in D /\ \A i \in D : Min(D) <= i
    BY <2>2, MinIsLeast
  <2> DEFINE p == Min(D)
  <2>4. p = 1
    <3>1. p \in Nat /\ p >= 1 /\ p <= 1
      BY <2>2, <2>3
    <3> HIDE DEF p
    <3> QED BY <3>1
  <2> QED BY <2>1, <2>2, <2>4 DEF Removed, D
<1> QED BY <1>3, <1>4 DEF q_remove

\* _q_remove_by_key.
LEMMA RemoveByKeyDoes ==
  ASSUME IInv, NEW n \in QueueIds, NEW k \in Nat, q_remove_by_key(n, k)
  PROVE  /\ IInv'
         /\ Removed(n, IF Removal[n] = "none" THEN DOMAIN Content[n]
                       ELSE IF Removal[n] = "equal" THEN EqHits(Content[n], k)
                       ELSE LeHits(Content[n], k))
<1> DEFINE q == queues[n]
           w == Walk(n)
           c == Content[n]
           hits == IF Removal[n] = "equal" THEN EqHits(c, k) ELSE LeHits(c, k)
           x == IF hits = {} THEN NIL ELSE w[Min(hits)]
           p == Min(hits)
<1>1. /\ nodes \in [Qnodes -> Node] /\ w \in Seq(Qnodes) /\ q.length = Len(w)
      /\ Len(w) \in Nat /\ DOMAIN w = 1 .. Len(w) /\ NIL \notin Qnodes
  BY ListIs, QnodesAssumption DEF IInv, Qnodes, NIL
<1>2. /\ c \in Seq(Entries) /\ DOMAIN c = DOMAIN w /\ Len(c) = Len(w)
      /\ \A i \in DOMAIN w : c[i].key = nodes[w[i]].key
  BY ContentKeys
<1>3. Seek(q, LAMBDA old : IF Removal[n] = "equal" THEN remove_if_equal(old.key, k)
                           ELSE remove_if_le_u(old.key, k)) = x
  <2>1. hits = {i \in DOMAIN w : IF Removal[n] = "equal" THEN remove_if_equal(nodes[w[i]].key, k)
                                 ELSE remove_if_le_u(nodes[w[i]].key, k)}
    BY <1>2 DEF remove_if_equal, remove_if_le_u, EqHits, LeHits
  <2>2. Seek(q, LAMBDA old : IF Removal[n] = "equal" THEN remove_if_equal(old.key, k)
                             ELSE remove_if_le_u(old.key, k))
          = LET walk == w
                hs == {i \in DOMAIN walk :
                         IF Removal[n] = "equal" THEN remove_if_equal(nodes[walk[i]].key, k)
                         ELSE remove_if_le_u(nodes[walk[i]].key, k)}
            IN  IF hs = {} THEN NIL ELSE walk[Min(hs)]
    BY DEF Seek, Walk
  <2> QED BY <2>1, <2>2
<1>4. hits \subseteq DOMAIN w
  BY <1>2 DEF EqHits, LeHits
<1>5. hits # {} => Min(hits) \in hits
  <2>1. hits \subseteq Nat
    BY <1>1, <1>4
  <2> HIDE DEF hits
  <2> QED BY <2>1, MinIsLeast
<1>6. (DOMAIN c = {} <=> q.length < 1) /\ (q.length >= 1 <=> ~(q.length < 1))
  BY <1>1, <1>2
<1>7. x # NIL => hits # {} /\ p \in DOMAIN w /\ x = w[p]
  BY <1>4, <1>5
<1>8. x = NIL => hits = {}
  BY <1>1, <1>4, <1>5
<1>9. \/ q.length < 1 /\ Refuse("E_EMPTY")
      \/ q.length >= 1 /\ Removal[n] = "none" /\ q_remove(n)
      \/ q.length >= 1 /\ Removal[n] # "none" /\ x = NIL /\ Refuse("E_NOT_FOUND")
      \/ q.length >= 1 /\ Removal[n] # "none" /\ x # NIL /\ Removing(n, x, Unlink(nodes, q, x))
  <2> HIDE DEF x
  <2> QED BY <1>3 DEF q_remove_by_key
<1> DEFINE all == IF Removal[n] = "none" THEN DOMAIN c ELSE hits
<1> SUFFICES IInv' /\ Removed(n, all)
  OBVIOUS
<1> HIDE DEF hits, x, p
<1>10. CASE q.length < 1 /\ Refuse("E_EMPTY")
  BY <1>6, <1>10, RefuseDoes DEF Removed
<1>11. CASE q.length >= 1 /\ Removal[n] = "none" /\ q_remove(n)
  BY <1>11, RemoveDoes
<1>12. CASE q.length >= 1 /\ Removal[n] # "none" /\ x = NIL /\ Refuse("E_NOT_FOUND")
  BY <1>6, <1>8, <1>12, RefuseDoes DEF Removed
<1>13. CASE q.length >= 1 /\ Removal[n] # "none" /\ x # NIL /\ Removing(n, x, Unlink(nodes, q, x))
  <2>1. IInv' /\ Gives(n, p)
    BY <1>7, <1>13, LeavesPlace
  <2> QED BY <1>7, <1>13, <2>1 DEF Removed, p
<1> QED BY <1>9, <1>10, <1>11, <1>12, <1>13

-----------------------------------------------------------------------------
(***************************************************************************)
(* The invariant, the promise and the order.                               *)
(***************************************************************************)

\* The operators of QueueSpec are those of this module.
LEMMA PromiseOperators ==
  ASSUME NEW q, NEW d, NEW k, NEW i, NEW S
  PROVE  /\ Promise!Entry(d, k) = Entry(d, k)
         /\ Promise!InsertAt(q, i, d) = InsertAt(q, i, d)
         /\ Promise!RemoveAt(q, i) = RemoveAt(q, i)
         /\ Promise!Min(S) = Min(S)
         /\ Promise!EqHits(q, k) = EqHits(q, k)
         /\ Promise!LeHits(q, k) = LeHits(q, k)
         /\ Promise!QAppend(q, d, k) = QAppend(q, d, k)
         /\ Promise!QInsert(q, d, k) = QInsert(q, d, k)
         /\ Promise!QRemoveFirst(q, S) = RemoveAt(q, Min(S))
<1>1. Promise!Min(S) = Min(S)
  BY DEF Promise!Min, Min
<1>2. Promise!InsertAt(q, i, d) = InsertAt(q, i, d)
  BY DEF Promise!InsertAt, InsertAt
<1>3. Promise!RemoveAt(q, i) = RemoveAt(q, i)
  BY DEF Promise!RemoveAt, RemoveAt
<1>4. Promise!EqHits(q, k) = EqHits(q, k) /\ Promise!LeHits(q, k) = LeHits(q, k)
  BY DEF Promise!EqHits, EqHits, Promise!LeHits, LeHits
<1>5. Promise!Entry(d, k) = Entry(d, k)
  BY DEF Promise!Entry, Entry
<1>6. Promise!QAppend(q, d, k) = QAppend(q, d, k)
  BY <1>5 DEF Promise!QAppend, QAppend
<1>7. Promise!QInsert(q, d, k) = QInsert(q, d, k)
  BY DEF Promise!QInsert, QInsert, Promise!InsertPos, InsertPos, Promise!InsertAt, InsertAt,
         Promise!Min, Min, Promise!Entry, Entry
<1>8. Promise!QRemoveFirst(q, S) = RemoveAt(q, Min(S))
  BY DEF Promise!QRemoveFirst, Promise!RemoveAt, RemoveAt, Promise!Min, Min
<1> QED BY <1>1, <1>2, <1>3, <1>4, <1>5, <1>6, <1>7, <1>8

\* An operation that adds does what QueueSpec says of one.
LEMMA AddKeepsPromise ==
  ASSUME IInv, NEW n \in QueueIds, NEW i, NEW d, NEW k, NEW longer,
         \/ avail = NIL /\ Refused("E_NO_QNODES")
         \/ Gets(n, i, d, k),
         longer = InsertAt(Content[n], i, Entry(d, k))
  PROVE  Promise!Add(n, longer)
<1>1. Promise!Full <=> avail = NIL
  BY FullIs
<1>2. CASE avail = NIL /\ Refused("E_NO_QNODES")
  BY <1>1, <1>2 DEF Promise!Add, Promise!Refuse, Refused, Promise!Answer, Answer,
                    Promise!Nothing, Null
<1>3. CASE Gets(n, i, d, k)
  <2>1. /\ Content' = [Content EXCEPT ![n] = longer]
        /\ answer' = Answer("E_SUCCESS", Null) /\ avail # NIL
    BY <1>3 DEF Gets
  <2> QED BY <1>1, <2>1 DEF Promise!Add, Promise!Answer, Answer, Promise!Nothing, Null
<1> QED BY <1>2, <1>3

\* The same of one that removes.
LEMMA TakeKeepsPromise ==
  ASSUME IInv, NEW n \in QueueIds, NEW hits, Removed(n, hits)
  PROVE  Promise!Take(n, hits)
<1> DEFINE c == Content[n]
<1>1. /\ c \in Seq(Entries) /\ DOMAIN Content = QueueIds
  BY ContentKeys DEF Content
<1>2. DOMAIN c = {} <=> c = <<>>
  <2> HIDE DEF c
  <2> QED BY <1>1
<1>3. CASE Refused("E_EMPTY") /\ DOMAIN c = {}
  BY <1>2, <1>3 DEF Promise!Take, Promise!Refuse, Refused, Promise!Answer, Answer,
                    Promise!Nothing, Null
<1>4. CASE Refused("E_NOT_FOUND") /\ DOMAIN c # {} /\ hits = {}
  BY <1>2, <1>4 DEF Promise!Take, Promise!Refuse, Refused, Promise!Answer, Answer,
                    Promise!Nothing, Null
<1>5. CASE Gives(n, Min(hits)) /\ hits # {}
  <2>1. /\ Promise!Min(hits) = Min(hits)
        /\ Promise!QRemoveFirst(c, hits) = RemoveAt(c, Min(hits))
    BY PromiseOperators
  <2>2. /\ Content' = [Content EXCEPT ![n] = RemoveAt(c, Min(hits))]
        /\ answer' = Answer("E_SUCCESS", c[Min(hits)].data)
    BY <1>5 DEF Gives
  <2> QED BY <1>5, <2>1, <2>2 DEF Promise!Take, Promise!Answer, Answer
<1> QED BY <1>3, <1>4, <1>5 DEF Removed

\* Every operation keeps the invariant and the promise.
LEMMA StepsKeepPromise ==
  ASSUME IInv, Next
  PROVE  IInv' /\ Promise!Next
<1>1. PICK n \in QueueIds :
        \/ \E d \in Data : q_append(n, d, 0)
        \/ \E d \in Data, k \in Keys : q_insert(n, d, k)
        \/ q_remove(n)
        \/ \E k \in Keys : q_remove_by_key(n, k)
  BY DEF Next
<1> DEFINE c == Content[n]
<1>2. /\ c \in Seq(Entries) /\ Keys \subseteq Nat /\ Compare[n] \in {"none", "asc"}
      /\ Removal[n] \in {"none", "equal", "le"}
  BY ContentKeys, QnodesAssumption
<1>3. ASSUME NEW d \in Data, NEW k \in Nat
      PROVE  Promise!QAppend(c, d, k) = InsertAt(c, Len(c) + 1, Entry(d, k))
  <2>1. Entry(d, k) \in Entries
    BY DEF Entry, Entries
  <2>2. Promise!QAppend(c, d, k) = QAppend(c, d, k)
    BY PromiseOperators
  <2>3. Append(c, Entry(d, k)) = InsertAt(c, Len(c) + 1, Entry(d, k))
    BY <1>2, <2>1, AppendIsInsert
  <2> QED BY <2>2, <2>3 DEF QAppend
<1>4. ASSUME NEW d \in Data, NEW k \in Nat
      PROVE  Promise!QInsert(c, d, k) = InsertAt(c, InsertPos(c, k), Entry(d, k))
  <2>1. Promise!QInsert(c, d, k) = QInsert(c, d, k)
    BY PromiseOperators
  <2> QED BY <2>1 DEF QInsert
<1>5. CASE \E d \in Data : q_append(n, d, 0)
  <2>1. PICK d \in Data : q_append(n, d, 0)
    BY <1>5
  <2>2. /\ IInv'
        /\ \/ avail = NIL /\ Refused("E_NO_QNODES")
           \/ Gets(n, Len(c) + 1, d, 0)
    BY <2>1, AppendDoes
  <2> DEFINE longer == Promise!QAppend(c, d, 0)
             i == Len(c) + 1
  <2>3. longer = InsertAt(c, i, Entry(d, 0))
    BY <1>3
  <2> HIDE DEF longer, i
  <2>4. Promise!Add(n, longer)
    BY <2>2, <2>3, AddKeepsPromise DEF i
  <2>5. Promise!AppendEntry(n, d, 0)
    BY <2>4 DEF Promise!AppendEntry, longer
  <2> QED BY <2>2, <2>5 DEF Promise!Next
<1>6. CASE \E d \in Data, k \in Keys : q_insert(n, d, k)
  <2>1. PICK d \in Data, k \in Keys : q_insert(n, d, k)
    BY <1>6
  <2> DEFINE i == IF Compare[n] = "none" THEN Len(c) + 1 ELSE InsertPos(c, k)
             longer == IF Compare[n] = "none" THEN Promise!QAppend(c, d, k)
                                              ELSE Promise!QInsert(c, d, k)
  <2>2. k \in Nat
    BY <1>2
  <2>3. /\ IInv'
        /\ \/ avail = NIL /\ Refused("E_NO_QNODES")
           \/ Gets(n, i, d, k)
    BY <2>1, <2>2, InsertDoes
  <2>4. longer = InsertAt(c, i, Entry(d, k))
    BY <1>3, <1>4, <2>2
  <2> HIDE DEF longer, i
  <2>5. Promise!Add(n, longer)
    BY <2>3, <2>4, AddKeepsPromise
  <2>6. Promise!InsertEntry(n, d, k)
    BY <2>5 DEF Promise!InsertEntry, longer
  <2> QED BY <2>3, <2>6 DEF Promise!Next
<1>7. CASE q_remove(n)
  <2>1. IInv' /\ Removed(n, DOMAIN c)
    BY <1>7, RemoveDoes
  <2>2. Promise!Take(n, DOMAIN c)
    BY <2>1, TakeKeepsPromise
  <2> QED BY <2>1, <2>2 DEF Promise!Next, Promise!RemoveHead
<1>8. CASE \E k \in Keys : q_remove_by_key(n, k)
  <2>1. PICK k \in Keys : q_remove_by_key(n, k)
    BY <1>8
  <2> DEFINE hits == IF Removal[n] = "none" THEN DOMAIN c
                     ELSE IF Removal[n] = "equal" THEN EqHits(c, k) ELSE LeHits(c, k)
             same == CASE Removal[n] = "none"  -> DOMAIN c
                       [] Removal[n] = "equal" -> Promise!EqHits(c, k)
                       [] Removal[n] = "le"    -> Promise!LeHits(c, k)
  <2>2. IInv' /\ Removed(n, hits)
    BY <1>2, <2>1, RemoveByKeyDoes
  <2>3. same = hits
    <3>1. Promise!EqHits(c, k) = EqHits(c, k) /\ Promise!LeHits(c, k) = LeHits(c, k)
      BY PromiseOperators
    <3> QED BY <1>2, <3>1
  <2> HIDE DEF hits, same
  <2>4. Promise!Take(n, same)
    BY <2>2, <2>3, TakeKeepsPromise
  <2>5. Promise!RemoveByKey(n, k)
    BY <2>4 DEF Promise!RemoveByKey, same
  <2> QED BY <2>2, <2>5 DEF Promise!Next
<1> QED BY <1>1, <1>5, <1>6, <1>7, <1>8

\* An insertion behind the smaller keys and in front of the first larger one
\* keeps a queue sorted.
LEMMA SortedInsert ==
  ASSUME NEW c \in Seq(Entries), Sorted(c), NEW d \in Data, NEW k \in Nat
  PROVE  Sorted(InsertAt(c, InsertPos(c, k), Entry(d, k)))
<1> DEFINE L == Len(c)
           S == {i \in DOMAIN c : c[i].key > k} \cup {L + 1}
           p == InsertPos(c, k)
           e == Entry(d, k)
           v == InsertAt(c, p, e)
<1>1. /\ L \in Nat /\ DOMAIN c = 1 .. L /\ e \in Entries /\ e.key = k
      /\ \A i \in 1 .. L : c[i].key \in Nat
      /\ \A i, j \in 1 .. L : i < j => c[i].key <= c[j].key
  <2>1. L \in Nat /\ DOMAIN c = 1 .. L /\ \A i \in 1 .. L : c[i] \in Entries
    BY LenProperties
  <2>2. e \in Entries /\ e.key = k
    BY DEF Entry, Entries
  <2>3. \A x \in Entries : x.key \in Nat
    BY DEF Entries
  <2>4. \A i, j \in DOMAIN c : i < j => c[i].key <= c[j].key
    BY DEF Sorted
  <2> HIDE DEF e, L
  <2> QED BY <2>1, <2>2, <2>3, <2>4
<1>2. p \in 1 .. L + 1
  <2>1. c \in Seq([data : Data \cup {Null}, key : Nat])
    BY DEF Entries
  <2> QED BY <2>1, InsertPosInRange
<1>3. p \in S /\ \A i \in S : p <= i
  <2>1. S \subseteq Nat /\ S # {} /\ p = Min(S)
    BY <1>1 DEF InsertPos
  <2> HIDE DEF S, p
  <2> QED BY <2>1, MinIsLeast
<1>4. Inserted(Entries, v, c, p, e)
  <2> HIDE DEF p, e
  <2> QED BY <1>1, <1>2, InsertAtInserts
<1>5. /\ \A i \in 1 .. L : i < p => c[i].key <= k
      /\ \A i \in 1 .. L : p <= i => k <= c[i].key
  <2>1. ASSUME NEW i \in 1 .. L, i < p PROVE c[i].key <= k
    <3>1. i \notin S
      BY <1>1, <1>2, <1>3, <2>1
    <3>2. ~(c[i].key > k) /\ c[i].key \in Nat
      BY <1>1, <3>1
    <3> QED BY <3>2
  <2>2. ASSUME NEW i \in 1 .. L, p <= i PROVE k <= c[i].key
    <3>1. p \in 1 .. L /\ c[p].key > k
      BY <1>1, <1>2, <1>3, <2>2
    <3>2. c[p].key <= c[i].key
      BY <1>1, <1>2, <2>2, <3>1
    <3> QED BY <1>1, <3>1, <3>2
  <2> QED BY <2>1, <2>2
<1> HIDE DEF L, S, p, e
<1>6. /\ DOMAIN v = 1 .. L + 1
      /\ \A j \in 1 .. L + 1 : v[j] = IF j < p THEN c[j] ELSE IF j = p THEN e ELSE c[j - 1]
  <2> HIDE DEF v
  <2>1. v \in Seq(Entries) /\ Len(v) = L + 1
    BY <1>4 DEF Inserted, L
  <2>2. DOMAIN v = 1 .. L + 1
    BY <2>1, LenProperties
  <2> QED BY <1>4, <2>2 DEF Inserted, L
<1> HIDE DEF v
<1>7. ASSUME NEW i \in 1 .. L + 1, NEW j \in 1 .. L + 1, i < j
      PROVE  v[i].key <= v[j].key
  <2>1. p \in Int /\ i \in Int /\ j \in Int
    BY <1>1, <1>2
  <2>2. CASE j < p
    <3>1. i \in 1 .. L /\ j \in 1 .. L /\ i < p
      BY <1>1, <1>2, <1>7, <2>2
    <3> QED BY <1>1, <1>6, <1>7, <2>2, <3>1
  <2>3. CASE j = p
    <3>1. i \in 1 .. L /\ i < p
      BY <1>1, <1>2, <1>7, <2>3
    <3>2. v[j] = e /\ v[i] = c[i]
      BY <1>6, <2>3, <3>1
    <3> QED BY <1>1, <1>5, <3>1, <3>2
  <2>4. CASE p < j
    <3>1. j - 1 \in 1 .. L /\ ~(j < p) /\ j # p /\ p <= j - 1
      BY <1>1, <1>2, <2>1, <2>4
    <3>2. v[j] = c[j - 1]
      BY <1>6, <3>1
    <3>3. CASE i < p
      <4>1. i \in 1 .. L /\ v[i] = c[i]
        BY <1>1, <1>2, <1>6, <3>3
      <4>2. c[i].key <= k /\ k <= c[j - 1].key
        BY <1>5, <3>1, <3>3, <4>1
      <4>3. c[i].key \in Nat /\ c[j - 1].key \in Nat
        BY <1>1, <3>1, <4>1
      <4> QED BY <3>2, <4>1, <4>2, <4>3
    <3>4. CASE i = p
      <4>1. v[i] = e
        BY <1>6, <3>4
      <4> QED BY <1>1, <1>5, <3>1, <3>2, <4>1
    <3>5. CASE p < i
      <4>1. i - 1 \in 1 .. L /\ ~(i < p) /\ i # p /\ i - 1 < j - 1
        BY <1>1, <1>2, <1>7, <2>1, <3>5
      <4>2. v[i] = c[i - 1]
        BY <1>6, <4>1
      <4> QED BY <1>1, <3>1, <3>2, <4>1, <4>2
    <3> QED BY <2>1, <3>3, <3>4, <3>5
  <2> QED BY <2>1, <2>2, <2>3, <2>4
<1>8. Sorted(v)
  BY <1>6, <1>7 DEF Sorted
<1> QED BY <1>8 DEF v, p, e

\* So does a removal, of any entry.
LEMMA SortedRemove ==
  ASSUME NEW c \in Seq(Entries), Sorted(c), NEW i \in DOMAIN c
  PROVE  Sorted(RemoveAt(c, i))
<1> DEFINE L == Len(c)
           v == RemoveAt(c, i)
<1>1. /\ L \in Nat /\ DOMAIN c = 1 .. L /\ i \in 1 .. L
      /\ \A a \in 1 .. L : c[a].key \in Nat
      /\ \A a, b \in 1 .. L : a < b => c[a].key <= c[b].key
  <2>1. L \in Nat /\ DOMAIN c = 1 .. L /\ \A a \in 1 .. L : c[a] \in Entries
    BY LenProperties
  <2>2. \A x \in Entries : x.key \in Nat
    BY DEF Entries
  <2>3. \A a, b \in DOMAIN c : a < b => c[a].key <= c[b].key
    BY DEF Sorted
  <2> HIDE DEF L
  <2> QED BY <2>1, <2>2, <2>3
<1>2. /\ v \in Seq(Entries) /\ Len(v) = L - 1
      /\ \A j \in 1 .. L - 1 : v[j] = IF j < i THEN c[j] ELSE c[j + 1]
  <2>1. i \in 1 .. Len(c)
    BY <1>1
  <2> QED BY <2>1, RemoveAtIs
<1> HIDE DEF v, L
<1>3. DOMAIN v = 1 .. L - 1
  BY <1>2, LenProperties
<1>4. ASSUME NEW a \in 1 .. L - 1, NEW b \in 1 .. L - 1, a < b
      PROVE  v[a].key <= v[b].key
  <2>1. /\ a \in 1 .. L /\ a + 1 \in 1 .. L /\ b \in 1 .. L /\ b + 1 \in 1 .. L
        /\ a < b + 1 /\ a + 1 < b + 1
    BY <1>1, <1>4
  <2>2. CASE b < i
    BY <1>1, <1>2, <1>4, <2>1, <2>2
  <2>3. CASE a < i /\ ~(b < i)
    <3>1. v[a] = c[a] /\ v[b] = c[b + 1]
      BY <1>2, <2>3
    <3> QED BY <1>1, <2>1, <3>1
  <2>4. CASE ~(a < i)
    <3>1. ~(b < i)
      BY <1>1, <1>4, <2>4
    <3>2. v[a] = c[a + 1] /\ v[b] = c[b + 1]
      BY <1>2, <2>4, <3>1
    <3> QED BY <1>1, <2>1, <3>2
  <2> QED BY <2>2, <2>3, <2>4
<1>5. Sorted(v)
  BY <1>3, <1>4 DEF Sorted
<1> QED BY <1>5 DEF v

\* An operation on another queue, or one that refuses, changes nothing.
LEMMA OthersStay ==
  ASSUME IInv, NEW n \in QueueIds, NEW m \in QueueIds, m # n, NEW i, NEW d, NEW k,
         NEW hits, NEW status, Refused(status) \/ Gets(m, i, d, k) \/ Removed(m, hits)
  PROVE  Content'[n] = Content[n]
<1>1. DOMAIN Content = QueueIds
  BY DEF Content
<1> QED BY <1>1 DEF Refused, Gets, Removed, Gives

\* A removal takes one entry of a queue away, or none.
LEMMA RemovedSorted ==
  ASSUME IInv, NEW n \in QueueIds, NEW hits, Removed(n, hits), Sorted(Content[n])
  PROVE  Sorted(Content'[n])
<1>1. DOMAIN Content = QueueIds /\ Content[n] \in Seq(Entries)
  BY ContentKeys DEF Content
<1>2. CASE \E status : Refused(status)
  BY <1>2 DEF Refused
<1>3. CASE Gives(n, Min(hits))
  <2> DEFINE i == Min(hits)
             c == Content[n]
  <2>1. i \in DOMAIN c /\ Content' = [Content EXCEPT ![n] = RemoveAt(@, i)]
    BY <1>3 DEF Gives
  <2> HIDE DEF i
  <2>2. Content'[n] = RemoveAt(c, i)
    BY <1>1, <2>1
  <2>3. Sorted(RemoveAt(c, i))
    BY <1>1, <2>1, SortedRemove
  <2> QED BY <2>2, <2>3
<1> QED BY <1>2, <1>3 DEF Removed

\* No step but an append leaves a sorted queue unsorted.
LEMMA StepsKeepSorted ==
  ASSUME IInv, Next, NEW n \in QueueIds, Compare[n] = "asc", Sorted(Content[n])
  PROVE  Sorted(Content'[n]) \/ \E d \in Data : q_append(n, d, 0)
<1>1. PICK m \in QueueIds :
        \/ \E d \in Data : q_append(m, d, 0)
        \/ \E d \in Data, k \in Keys : q_insert(m, d, k)
        \/ q_remove(m)
        \/ \E k \in Keys : q_remove_by_key(m, k)
  BY DEF Next
<1>2. /\ Content[n] \in Seq(Entries) /\ DOMAIN Content = QueueIds /\ Keys \subseteq Nat
      /\ Compare[n] # "none"
  BY ContentKeys, QnodesAssumption DEF Content
<1>3. CASE \E d \in Data : q_append(m, d, 0)
  <2>1. PICK d \in Data : q_append(m, d, 0)
    BY <1>3
  <2> DEFINE i == Len(Content[m]) + 1
  <2>2. Refused("E_NO_QNODES") \/ Gets(m, i, d, 0)
    BY <2>1, AppendDoes
  <2> HIDE DEF i
  <2>3. m # n => Content'[n] = Content[n]
    BY <2>2, OthersStay
  <2> QED BY <2>1, <2>3
<1>4. CASE \E d \in Data, k \in Keys : q_insert(m, d, k)
  <2>1. PICK d \in Data, k \in Keys : q_insert(m, d, k)
    BY <1>4
  <2> DEFINE i == IF Compare[m] = "none" THEN Len(Content[m]) + 1
                  ELSE InsertPos(Content[m], k)
  <2>2. k \in Nat
    BY <1>2
  <2>3. Refused("E_NO_QNODES") \/ Gets(m, i, d, k)
    BY <2>1, <2>2, InsertDoes
  <2>4. m = n => i = InsertPos(Content[n], k)
    BY <1>2
  <2> HIDE DEF i
  <2>5. CASE m # n
    <3>1. Content'[n] = Content[n]
      BY <2>3, <2>5, OthersStay
    <3> QED BY <3>1
  <2>6. CASE m = n /\ Refused("E_NO_QNODES")
    BY <2>6 DEF Refused
  <2>7. CASE m = n /\ Gets(m, i, d, k)
    <3>1. Content' = [Content EXCEPT ![n] = InsertAt(@, i, Entry(d, k))]
      BY <2>7 DEF Gets
    <3>2. Content'[n] = InsertAt(Content[n], InsertPos(Content[n], k), Entry(d, k))
      BY <1>2, <2>4, <2>7, <3>1
    <3>3. Sorted(InsertAt(Content[n], InsertPos(Content[n], k), Entry(d, k)))
      BY <1>2, <2>2, SortedInsert
    <3> QED BY <3>2, <3>3
  <2> QED BY <2>3, <2>5, <2>6, <2>7
<1>5. ASSUME NEW hits, Removed(m, hits) PROVE Sorted(Content'[n])
  <2>1. CASE m # n
    <3>1. Content'[n] = Content[n]
      BY <1>5, <2>1, OthersStay
    <3> QED BY <3>1
  <2>2. CASE m = n
    BY <1>5, <2>2, RemovedSorted
  <2> QED BY <2>1, <2>2
<1>6. CASE q_remove(m)
  <2>1. Removed(m, DOMAIN Content[m])
    BY <1>6, RemoveDoes
  <2> QED BY <1>5, <2>1
<1>7. CASE \E k \in Keys : q_remove_by_key(m, k)
  <2>1. PICK k \in Keys : q_remove_by_key(m, k)
    BY <1>7
  <2>2. \E hits : Removed(m, hits)
    BY <1>2, <2>1, RemoveByKeyDoes
  <2> QED BY <1>5, <2>2
<1> QED BY <1>1, <1>3, <1>4, <1>6, <1>7

\* The pool of _q_init: one list of free qnodes, from the last to the first.
LEMMA InitIsInv ==
  ASSUME Init
  PROVE  IInv /\ Promise!Init
<1> DEFINE F == [i \in 1 .. NQnodes |-> NQnodes + 1 - i]
           e == <<>>
<1>1. /\ NQnodes \in Nat /\ NIL = 0 /\ NIL \notin Qnodes /\ Qnodes = 1 .. NQnodes
      /\ NIL \in Links /\ NQnodes >= 1
  BY QnodesAssumption DEF NIL, Qnodes, Links
<1>2. /\ nodes = [x \in Qnodes |-> [key |-> 0, data |-> Null, prev |-> NIL, next |-> x - 1]]
      /\ avail = NQnodes /\ answer = Answer("E_SUCCESS", Null)
      /\ \A n \in QueueIds : queues[n] = [head |-> NIL, tail |-> NIL, length |-> 0]
      /\ queues = [n \in QueueIds |-> [head |-> NIL, tail |-> NIL, length |-> 0]]
  BY DEF Init
<1>3. nodes \in [Qnodes -> Node]
  <2>1. \A x \in Qnodes : x - 1 \in Links
    BY <1>1 DEF Links
  <2> QED BY <1>1, <1>2, <2>1 DEF Node
<1>4. queues \in [QueueIds -> [head : Links, tail : Links, length : Nat]]
  BY <1>1, <1>2
<1>5. /\ F \in Seq(Qnodes) /\ Len(F) = NQnodes /\ DOMAIN F = 1 .. NQnodes
      /\ \A i \in 1 .. NQnodes : F[i] = NQnodes + 1 - i /\ F[i] \in Qnodes
  BY <1>1
<1> HIDE DEF F
<1>6. Chain(nodes, avail, F)
  <2>1. IsInjective(F)
    <3> SUFFICES ASSUME NEW i \in 1 .. NQnodes, NEW j \in 1 .. NQnodes, F[i] = F[j]
                 PROVE  i = j
      BY <1>5 DEF IsInjective
    <3> QED BY <1>1, <1>5
  <2>2. avail = At(F, 1)
    BY <1>1, <1>2, <1>5 DEF At
  <2>3. ASSUME NEW i \in DOMAIN F PROVE nodes[F[i]].next = At(F, i + 1)
    <3>1. nodes[F[i]].next = NQnodes - i /\ i \in 1 .. NQnodes
      BY <1>1, <1>2, <1>5
    <3>2. CASE i = NQnodes
      <4>1. i + 1 \notin DOMAIN F
        BY <1>1, <1>5, <3>2
      <4> QED BY <1>1, <3>1, <3>2, <4>1 DEF At
    <3>3. CASE i # NQnodes
      <4>1. i + 1 \in 1 .. NQnodes
        BY <1>1, <3>1, <3>3
      <4>2. F[i + 1] = NQnodes - i
        BY <1>1, <1>5, <3>1, <4>1
      <4> QED BY <1>5, <3>1, <4>1, <4>2 DEF At
    <3> QED BY <3>2, <3>3
  <2> QED BY <1>5, <2>1, <2>2, <2>3 DEF Chain
<1>7. Free = F
  <2>1. Reached(nodes, avail) = F
    BY <1>6, WalkIs
  <2> QED BY <2>1 DEF Free
<1>8. Range(F) = Qnodes
  <2>1. ASSUME NEW x \in Qnodes PROVE \E i \in 1 .. NQnodes : F[i] = x
    <3>1. NQnodes + 1 - x \in 1 .. NQnodes /\ NQnodes + 1 - (NQnodes + 1 - x) = x
      BY <1>1
    <3> QED BY <1>5, <3>1
  <2> QED BY <1>5, <2>1 DEF Range
<1>9. ASSUME NEW n \in QueueIds PROVE Walk(n) = e /\ Backed(nodes, queues[n], e)
  <2>1. /\ e \in Seq(Qnodes) /\ IsInjective(e) /\ Len(e) = 0 /\ DOMAIN e = {}
    BY DEF IsInjective
  <2>2. queues[n].head = NIL /\ queues[n].tail = NIL /\ queues[n].length = 0
    BY <1>2
  <2> HIDE DEF e
  <2>3. Chain(nodes, queues[n].head, e)
    BY <2>1, <2>2 DEF Chain, At
  <2>4. Reached(nodes, queues[n].head) = e
    BY <2>3, WalkIs
  <2> QED BY <2>1, <2>2, <2>3, <2>4 DEF Walk, Backed, At
<1>10. \A n \in QueueIds : IsInjective(Walk(n)) /\ Range(Walk(n)) = {}
  BY <1>9 DEF IsInjective, Range
<1>11. NoQnodeLost
  BY <1>6, <1>7, <1>8, <1>10 DEF NoQnodeLost, Chain
<1>12. IInv
  BY <1>3, <1>4, <1>6, <1>7, <1>9, <1>11 DEF IInv
<1>13. Content = [n \in QueueIds |-> <<>>]
  <2>1. ASSUME NEW n \in QueueIds PROVE Content[n] = <<>>
    <3>1. Content[n] \in Seq(Entries) /\ Len(Content[n]) = Len(Walk(n)) /\ Len(Walk(n)) = 0
      BY <1>9, <1>12, ContentKeys
    <3> QED BY <3>1
  <2>2. Content = [n \in QueueIds |-> Content[n]]
    BY DEF Content
  <2> QED BY <2>1, <2>2
<1> QED BY <1>2, <1>12, <1>13 DEF Promise!Init, Promise!Answer, Answer, Promise!Nothing, Null

-----------------------------------------------------------------------------
(***************************************************************************)
(* Theorems.                                                               *)
(***************************************************************************)

\* The lists are sequences of qnodes, linked in both directions, and no two
\* of them share a qnode: in every state, whatever stale links the qnodes
\* had when they were allocated.
THEOREM ListsWellFormed == Spec => []IInv
<1>1. Init => IInv
  BY InitIsInv
<1>2. IInv /\ [Next]_qnodeVars => IInv'
  <2> SUFFICES ASSUME IInv, [Next]_qnodeVars PROVE IInv'
    OBVIOUS
  <2>1. CASE Next
    BY <2>1, StepsKeepPromise
  <2>2. CASE UNCHANGED qnodeVars
    BY <2>2, ListsStay DEF qnodeVars
  <2> QED BY <2>1, <2>2
<1> QED BY <1>1, <1>2, PTL DEF Spec

\* Every qnode is on exactly one list, once.
THEOREM QnodesKept == Spec => []NoQnodeLost
<1>1. IInv => NoQnodeLost
  BY DEF IInv
<1> QED BY <1>1, ListsWellFormed, PTL

\* Head, tail, length and both directions of every list agree.
THEOREM BothDirections == Spec => []DoublyLinked
<1>1. IInv => DoublyLinked
  <2> SUFFICES ASSUME IInv, NEW n \in QueueIds
               PROVE  LET w == Walk(n) IN
                      /\ queues[n].length = Len(w)
                      /\ queues[n].tail = IF w = <<>> THEN NIL ELSE w[Len(w)]
                      /\ \A i \in DOMAIN w : nodes[w[i]].prev = IF i = 1 THEN NIL ELSE w[i - 1]
    BY DEF DoublyLinked
  <2> DEFINE w == Walk(n)
             q == queues[n]
             L == Len(w)
  <2>1. /\ w \in Seq(Qnodes) /\ IsInjective(w) /\ q.length = L /\ q.tail = At(w, L)
        /\ \A i \in DOMAIN w : nodes[w[i]].prev = At(w, i - 1)
    BY ListIs
  <2> HIDE DEF w, q
  <2>2. /\ L \in Nat /\ DOMAIN w = 1 .. L
        /\ \A i \in 1 .. L : At(w, i) = w[i]
        /\ \A i : i \notin 1 .. L => At(w, i) = NIL
    BY <2>1, Places
  <2>3. w = <<>> <=> L = 0
    BY <2>1
  <2> HIDE DEF L
  <2>4. q.tail = IF w = <<>> THEN NIL ELSE w[L]
    <3>1. L = 0 => At(w, L) = NIL
      BY <2>2
    <3>2. L # 0 => L \in 1 .. L
      BY <2>2
    <3> QED BY <2>1, <2>2, <2>3, <3>1, <3>2
  <2>5. ASSUME NEW i \in 1 .. L
        PROVE  nodes[w[i]].prev = IF i = 1 THEN NIL ELSE w[i - 1]
    <3>1. i = 1 => At(w, i - 1) = NIL
      BY <2>2
    <3>2. i # 1 => i - 1 \in 1 .. L
      BY <2>2
    <3> QED BY <2>1, <2>2, <3>1, <3>2
  <2> QED BY <2>1, <2>2, <2>4, <2>5 DEF w, q, L
<1> QED BY <1>1, ListsWellFormed, PTL

\* The linked lists implement the sequences the callers are promised.
THEOREM ListsKeepPromise == Spec => KeepsPromise
<1>1. Init => Promise!Init
  BY InitIsInv
<1>2. IInv /\ [Next]_qnodeVars => [Promise!Next]_Promise!specVars
  <2> SUFFICES ASSUME IInv, [Next]_qnodeVars PROVE [Promise!Next]_Promise!specVars
    OBVIOUS
  <2>1. CASE Next
    BY <2>1, StepsKeepPromise
  <2>2. CASE UNCHANGED qnodeVars
    <3>1. Content' = Content /\ answer' = answer
      BY <2>2, ListsStay DEF qnodeVars
    <3> QED BY <3>1 DEF Promise!specVars
  <2> QED BY <2>1, <2>2
<1> QED BY <1>1, <1>2, ListsWellFormed, PTL DEF Spec, KeepsPromise, Promise!Spec

\* A queue with a comparison routine stays sorted, unless something is
\* appended to it: the kernel only inserts into _sleep, _reading, _waiting
\* and _zombie.
StaysSorted ==
  [][\A n \in QueueIds :
       Compare[n] = "asc" /\ Sorted(Content[n])
         => \/ Sorted(Content'[n])
            \/ \E d \in Data : q_append(n, d, 0)]_qnodeVars

\* No operation puts a sorted queue out of order.
THEOREM OrderKept == Spec => StaysSorted
<1>1. IInv /\ [Next]_qnodeVars
        => [\A n \in QueueIds :
              Compare[n] = "asc" /\ Sorted(Content[n])
                => \/ Sorted(Content'[n])
                   \/ \E d \in Data : q_append(n, d, 0)]_qnodeVars
  <2> SUFFICES ASSUME IInv, Next, NEW n \in QueueIds, Compare[n] = "asc", Sorted(Content[n])
               PROVE  Sorted(Content'[n]) \/ \E d \in Data : q_append(n, d, 0)
    OBVIOUS
  <2> QED BY StepsKeepSorted
<1> QED BY <1>1, ListsWellFormed, PTL DEF Spec, StaysSorted
=============================================================================
