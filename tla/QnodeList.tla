------------------------------ MODULE QnodeList -----------------------------
(***************************************************************************)
(* kernel/queue.c as it is written: queues are doubly linked lists of      *)
(* qnodes from a fixed array, and the free qnodes are a stack linked       *)
(* through their next fields.  A freed qnode keeps its other fields, and   *)
(* its next field is reused, so what a queue holds depends on every link   *)
(* being written at the right moment.  Qnodes are numbered from 1; NIL is  *)
(* the null pointer.                                                       *)
(***************************************************************************)
EXTENDS KeyedQueue, FiniteSets

CONSTANTS QueueIds, Data, Keys,
          NQnodes,       \* N_QNODES
          Compare,       \* [QueueIds -> {"none", "asc"}]
          Removal        \* [QueueIds -> {"none", "equal", "le"}]

ASSUME QnodesAssumption ==
  /\ NQnodes \in Nat \ {0}
  /\ Keys \subseteq Nat
  /\ Compare \in [QueueIds -> {"none", "asc"}]
  /\ Removal \in [QueueIds -> {"none", "equal", "le"}]

NIL == 0
Qnodes == 1 .. NQnodes
Null   == "no data"        \* the data field before its first use

VARIABLES
  nodes,      \* _qnodes
  avail,      \* _qnode_avail
  queues,     \* the queue_t structures
  answer      \* what the last operation returned

qnodeVars == <<nodes, avail, queues, answer>>

Answer(status, data) == [status |-> status, data |-> data]
Refuse(status) == /\ answer' = Answer(status, Null)
                  /\ UNCHANGED <<nodes, avail, queues>>

\* The qnodes met by following next from h.
Reached(ns, h) ==
  LET after == [x \in Qnodes \cup {NIL} |-> IF x = NIL THEN NIL ELSE ns[x].next]
      at[i \in 0 .. NQnodes] == IF i = 0 THEN h ELSE after[at[i - 1]]
  IN  [i \in 1 .. Cardinality({j \in DOMAIN at : at[j] # NIL}) |-> at[i - 1]]

\* Where a loop over a queue stops: at the first qnode that is accepted.
Seek(q, Accept(_)) ==
  LET walk == Reached(nodes, q.head)
      hits == {i \in DOMAIN walk : Accept(nodes[walk[i]])}
  IN  IF hits = {} THEN NIL ELSE walk[Min(hits)]

\* The comparison and removal routines.
compare_uint_asc(old, new) == old.key - new.key
remove_if_equal(k1, k2)    == k1 = k2
remove_if_le_u(k1, k2)     == k1 <= k2

(***************************************************************************)
(* The ways a list is changed.  Each gives the nodes and the queue after   *)
(* it, as a record with fields ns and q.                                   *)
(***************************************************************************)

\* Behind the tail; an empty queue has no tail whose next could be set.
AtTail(ns, q, x) ==
  LET linked == [ns EXCEPT ![x].next = NIL, ![x].prev = q.tail]
  IN  [ns |-> IF q.length < 1 THEN linked ELSE [linked EXCEPT ![q.tail].next = x],
       q  |-> [head |-> IF q.length < 1 THEN x ELSE q.head,
               tail |-> x, length |-> q.length + 1]]

\* Fault: c is not linked back to x.
InFrontOneWay(ns, q, x, c) ==
  LET p == ns[c].prev
      linked == [ns EXCEPT ![x].next = c, ![x].prev = p]
  IN  [ns |-> IF p = NIL THEN linked ELSE [linked EXCEPT ![p].next = x],
       q  |-> [q EXCEPT !.head = IF p = NIL THEN x ELSE @, !.length = @ + 1]]

\* In front of the qnode c.
InFrontOf(ns, q, x, c) ==
  LET p == ns[c].prev
      linked == [ns EXCEPT ![x].next = c, ![x].prev = p, ![c].prev = x]
  IN  [ns |-> IF p = NIL THEN linked ELSE [linked EXCEPT ![p].next = x],
       q  |-> [q EXCEPT !.head = IF p = NIL THEN x ELSE @, !.length = @ + 1]]

\* Fault: the tail of an emptied queue stays.
BeheadKeepsTail(ns, q) ==
  LET h == ns[q.head].next
  IN  [ns |-> IF h = NIL THEN ns ELSE [ns EXCEPT ![h].prev = NIL],
       q  |-> [q EXCEPT !.head = h, !.length = @ - 1]]

\* _q_remove: the head; prev of the new head is cleared.
Behead(ns, q) ==
  LET h == ns[q.head].next
  IN  [ns |-> IF h = NIL THEN ns ELSE [ns EXCEPT ![h].prev = NIL],
       q  |-> [head |-> h, tail |-> IF h = NIL THEN NIL ELSE q.tail,
               length |-> q.length - 1]]

\* _q_remove_by_key: any qnode.
Unlink(ns, q, x) ==
  LET n == ns[x].next
      p == ns[x].prev
      bridged == IF p = NIL THEN ns ELSE [ns EXCEPT ![p].next = n]
  IN  [ns |-> IF n = NIL THEN bridged ELSE [bridged EXCEPT ![n].prev = p],
       q  |-> [head |-> IF p = NIL THEN n ELSE q.head,
               tail |-> IF n = NIL THEN p ELSE q.tail,
               length |-> q.length - 1]]

\* Fault: the qnode is not freed.
RemovingLeaks(n, x, change) ==
  /\ nodes'  = change.ns
  /\ queues' = [queues EXCEPT ![n] = change.q]
  /\ answer' = Answer("E_SUCCESS", nodes[x].data)
  /\ UNCHANGED avail

\* _qnode_alloc and _qnode_free, around one of the changes above.
Adding(n, change) ==
  /\ nodes'  = change.ns
  /\ queues' = [queues EXCEPT ![n] = change.q]
  /\ avail'  = nodes[avail].next
  /\ answer' = Answer("E_SUCCESS", Null)

Removing(n, x, change) ==
  /\ nodes'  = [change.ns EXCEPT ![x].next = avail]
  /\ queues' = [queues EXCEPT ![n] = change.q]
  /\ avail'  = x
  /\ answer' = Answer("E_SUCCESS", nodes[x].data)

\* The free qnode with its key and data filled in; _q_insert also clears
\* its links.
Filled(d, k)  == [nodes EXCEPT ![avail].key = k, ![avail].data = d]
Cleared(d, k) == [Filled(d, k) EXCEPT ![avail].prev = NIL, ![avail].next = NIL]

-----------------------------------------------------------------------------
q_append(n, d, k) ==
  \/ avail = NIL /\ Refuse("E_NO_QNODES")
  \/ avail # NIL /\ Adding(n, AtTail(Filled(d, k), queues[n], avail))

\* The insertion point is the first qnode that compares as larger.
q_insert(n, d, k) ==
  LET q     == queues[n]
      fresh == Cleared(d, k)
      curr  == Seek(q, LAMBDA old : compare_uint_asc(old, fresh[avail]) > 0)
  IN  \/ avail = NIL /\ Refuse("E_NO_QNODES")
      \/ /\ avail # NIL
         /\ q.length < 1 \/ Compare[n] = "none" \/ curr = NIL
         /\ Adding(n, AtTail(fresh, q, avail))
      \/ /\ avail # NIL
         /\ q.length >= 1 /\ Compare[n] # "none" /\ curr # NIL
         /\ Adding(n, InFrontOf(fresh, q, avail, curr))

q_remove(n) ==
  \/ queues[n].length < 1 /\ Refuse("E_EMPTY")
  \/ /\ queues[n].length >= 1
     /\ Removing(n, queues[n].head, Behead(nodes, queues[n]))

q_remove_by_key(n, k) ==
  LET q == queues[n]
      x == Seek(q, LAMBDA old : IF Removal[n] = "equal"
                                THEN remove_if_equal(old.key, k)
                                ELSE remove_if_le_u(old.key, k))
  IN  \/ q.length < 1 /\ Refuse("E_EMPTY")
      \/ q.length >= 1 /\ Removal[n] = "none" /\ q_remove(n)
      \/ q.length >= 1 /\ Removal[n] # "none" /\ x = NIL /\ Refuse("E_NOT_FOUND")
      \/ /\ q.length >= 1 /\ Removal[n] # "none" /\ x # NIL
         /\ Removing(n, x, Unlink(nodes, q, x))

\* _q_init pushes the qnodes in order; _q_reset empties every queue.
Init ==
  /\ nodes  = [x \in Qnodes |-> [key |-> 0, data |-> Null, prev |-> NIL, next |-> x - 1]]
  /\ avail  = NQnodes
  /\ queues = [n \in QueueIds |-> [head |-> NIL, tail |-> NIL, length |-> 0]]
  /\ answer = Answer("E_SUCCESS", Null)

\* Every _q_append of the kernel passes the key 0.
Next == \E n \in QueueIds :
          \/ \E d \in Data : q_append(n, d, 0)
          \/ \E d \in Data, k \in Keys : q_insert(n, d, k)
          \/ q_remove(n)
          \/ \E k \in Keys : q_remove_by_key(n, k)

Spec == Init /\ [][Next]_qnodeVars
-----------------------------------------------------------------------------
Walk(n) == Reached(nodes, queues[n].head)
Free    == Reached(nodes, avail)

\* Every qnode is on exactly one list, the free list included, once: none
\* leaks, none is shared, and no list runs into another.
NoQnodeLost ==
  /\ Range(Free) \cup UNION {Range(Walk(n)) : n \in QueueIds} = Qnodes
  /\ IsInjective(Free)
  /\ \A n \in QueueIds : /\ IsInjective(Walk(n))
                         /\ Range(Walk(n)) \cap Range(Free) = {}
  /\ \A m, n \in QueueIds : m # n => Range(Walk(m)) \cap Range(Walk(n)) = {}

\* The links of a queue agree with each other, with its tail and its length,
\* whatever stale links its qnodes had when they were allocated.
DoublyLinked ==
  \A n \in QueueIds :
    LET w == Walk(n) IN
    /\ queues[n].length = Len(w)
    /\ queues[n].tail = IF w = <<>> THEN NIL ELSE w[Len(w)]
    /\ \A i \in DOMAIN w : nodes[w[i]].prev = IF i = 1 THEN NIL ELSE w[i - 1]

\* The lists implement the sequences of QueueSpec: every operation returns
\* the status and the data the caller is promised.
Content == [n \in QueueIds |->
              LET w == Walk(n)
              IN  [i \in DOMAIN w |-> Entry(nodes[w[i]].data, nodes[w[i]].key)]]
Promise == INSTANCE QueueSpec WITH content <- Content, Capacity <- NQnodes
KeepsPromise == Promise!Spec
=============================================================================
