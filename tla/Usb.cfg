SPECIFICATION Spec
CONSTANTS
  NPorts = 2
  MaxEvents = 2
  Buses <- MCBuses
  Garbage <- MCGarbage
  MaxDepth = 4
INVARIANT NumbersMatch
INVARIANT ChangeNoticed
INVARIANT RingClosed
PROPERTY PlugNoticed
CHECK_DEADLOCK FALSE
