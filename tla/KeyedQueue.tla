----------------------------- MODULE KeyedQueue -----------------------------
(***************************************************************************)
(* What the generic queues of kernel/queue.c promise, as operators on      *)
(* sequences.  A queue is a sequence of entries; an entry pairs the data   *)
(* (a PCB, a stack) with the key it was queued under.  The linked lists    *)
(* that implement these operations are modelled in QnodeList.tla, which is *)
(* checked to implement them.                                              *)
(***************************************************************************)
EXTENDS Integers, Sequences, SequencesExt

Entry(d, k) == [data |-> d, key |-> k]

\* The entries of q, and the data they carry.
EntriesOf(q) == {q[i] : i \in DOMAIN q}
DataOf(q)    == {e.data : e \in EntriesOf(q)}

\* A family of queues: all data on it, and that no datum is on it twice.
Contents(Q)     == UNION {DataOf(Q[n]) : n \in DOMAIN Q}
NoDuplicates(Q) ==
  \A m, n \in DOMAIN Q : \A i \in DOMAIN Q[m], j \in DOMAIN Q[n] :
    Q[m][i].data = Q[n][j].data => m = n /\ i = j

\* Fault: the entry joins in front.
AppendInFront(q, d, k) == <<Entry(d, k)>> \o q

\* _q_append: at the tail, whatever the key.
QAppend(q, d, k) == Append(q, Entry(d, k))

\* _q_insert with _compare_uint_asc: in front of the first entry with a
\* larger key, so behind every entry with the same key.
InsertPos(q, k)  == Min({i \in DOMAIN q : q[i].key > k} \cup {Len(q) + 1})
QInsert(q, d, k) == InsertAt(q, InsertPos(q, k), Entry(d, k))

\* Faults: "<" for "<=", and one too far.
OnlyEarlier(q, k) == {i \in DOMAIN q : q[i].key < k}
OneTooFar(q, k)   == {i \in DOMAIN q : q[i].key <= k + 1}

\* The positions _q_remove_by_key accepts, by removal routine.
EqHits(q, k) == {i \in DOMAIN q : q[i].key = k}      \* _remove_if_equal
LeHits(q, k) == {i \in DOMAIN q : q[i].key <= k}     \* _remove_if_le_u

\* _q_remove_by_key takes the first accepted entry, _q_remove the head.
QRemoveFirst(q, hits) == RemoveAt(q, Min(hits))

Sorted(q) == \A i, j \in DOMAIN q : i < j => q[i].key <= q[j].key
=============================================================================
