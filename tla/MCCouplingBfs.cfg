SPECIFICATION Spec
CONSTANT EdgeLists <- MCEdgeLists
INVARIANT QueueIsLayered
INVARIANT DistancesAreShortest
PROPERTY MatrixFilled
CHECK_DEADLOCK FALSE
