CONSTANTS
    N = 3
    KindLists <- AllKinds
    Lengths = {2}
    RootLists <- MCWeakRoots
    Tables = {0}
    Room = 2
SPECIFICATION MarkSpec
PROPERTIES EveryDeadObjectFinalized
CHECK_DEADLOCK FALSE
