------------------------------ MODULE QueueSpec -----------------------------
(***************************************************************************)
(* What the generic queue module (kernel/queue.c) promises its callers:    *)
(* some queues that hold sequences of entries and share a fixed number of  *)
(* places.  An operation answers with a status and, when it removes an     *)
(* entry, with the data of that entry.                                     *)
(***************************************************************************)
EXTENDS KeyedQueue, FiniteSets

CONSTANTS
  QueueIds,
  Data,        \* what is queued
  Keys,
  Capacity,    \* entries all queues can hold together
  Compare,     \* [QueueIds -> {"none", "asc"}]: how _q_insert orders
  Removal      \* [QueueIds -> {"none", "equal", "le"}]: what a key removes

VARIABLES content, answer

specVars == <<content, answer>>

Answer(status, data) == [status |-> status, data |-> data]
Nothing == "no data"

Full == Cardinality(UNION {{n} \X DOMAIN content[n] : n \in QueueIds}) = Capacity

Init == /\ content = [n \in QueueIds |-> <<>>]
        /\ answer = Answer("E_SUCCESS", Nothing)

Refuse(status) == /\ answer' = Answer(status, Nothing)
                  /\ UNCHANGED content

\* An entry joins a queue, if there is a place left.
Add(n, longer) ==
  \/ Refuse("E_NO_QNODES") /\ Full
  \/ /\ answer' = Answer("E_SUCCESS", Nothing)
     /\ ~Full
     /\ content' = [content EXCEPT ![n] = longer]

AppendEntry(n, d, k) == Add(n, QAppend(content[n], d, k))
InsertEntry(n, d, k) ==
  Add(n, IF Compare[n] = "none" THEN QAppend(content[n], d, k)
                                ELSE QInsert(content[n], d, k))

\* The first of the entries at the positions hits leaves the queue.
Take(n, hits) ==
  \/ Refuse("E_EMPTY") /\ content[n] = <<>>
  \/ Refuse("E_NOT_FOUND") /\ content[n] # <<>> /\ hits = {}
  \/ /\ hits # {}
     /\ answer' = Answer("E_SUCCESS", content[n][Min(hits)].data)
     /\ content' = [content EXCEPT ![n] = QRemoveFirst(@, hits)]

RemoveHead(n)    == Take(n, DOMAIN content[n])
RemoveByKey(n, k) ==
  Take(n, CASE Removal[n] = "none"  -> DOMAIN content[n]
            [] Removal[n] = "equal" -> EqHits(content[n], k)
            [] Removal[n] = "le"    -> LeHits(content[n], k))

Next == \E n \in QueueIds :
          \/ \E d \in Data : AppendEntry(n, d, 0)
          \/ \E d \in Data, k \in Keys : InsertEntry(n, d, k)
          \/ RemoveHead(n)
          \/ \E k \in Keys : RemoveByKey(n, k)

Spec == Init /\ [][Next]_specVars
=============================================================================
