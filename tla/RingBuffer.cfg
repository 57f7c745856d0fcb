SPECIFICATION Spec
CONSTANTS
  Capacities = {1, 2, 3, 4}
  Bytes = 13
  ReserveAnyTime = FALSE
INVARIANTS TypeOK HoldsNewest EachReadOnce
PROPERTIES WriteKeepsOld ImplementsLossyQueue
