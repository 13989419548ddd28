SPECIFICATION Spec
CONSTANTS
  QueueIds <- MCQueueIds
  Data = {d1, d2}
  Keys = {0, 1}
  NQnodes = 3
  Compare <- MCCompare
  Removal <- MCRemoval
INVARIANTS NoQnodeLost DoublyLinked
PROPERTIES KeepsPromise
SYMMETRY DataSymmetry
VIEW ListView
