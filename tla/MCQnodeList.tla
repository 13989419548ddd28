---------------------------- MODULE MCQnodeList -----------------------------
(***************************************************************************)
(* One queue of each kind the kernel makes: a ready queue or free list, a  *)
(* queue ordered and searched by pid, and _sleep.                          *)
(***************************************************************************)
EXTENDS QnodeList

MCQueueIds == {"ready", "waiting", "sleep"}
MCCompare  == [ready |-> "none", waiting |-> "asc", sleep |-> "asc"]
MCRemoval  == [ready |-> "none", waiting |-> "equal", sleep |-> "le"]
DataSymmetry == Permutations(Data)
ListView == <<nodes, avail, queues>>
=============================================================================
