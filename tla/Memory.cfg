CONSTANTS
    Parts = {"heap", "mark", "compact", "table", "typed", "loop"}
    MemSize = 18
    CtxSize = 1
    Slack = 2
    MinFree = 6
    Critical = 4
    Message = 1
    Object = 1
    Entry = 1
    MarkRoom = 1
    N = 4
    KindLists <- MCKinds
    Lengths = {2}
    RootLists <- MCRoots
    Tables = {0, 2}
    Room = 2
    Sizes = {1, 5, 14}
    Needs = {0, 4}
    MaxFrames = 2
    Layouts <- MCLayouts
    Roots = 2
    TableHashes <- MCHashes
    Classes = {"uint8c", "int16"}
    Size <- MCSize
    Signed <- MCSigned
    Clamped = "uint8c"
    ByteBase = 4
    Numbers <- MCNumbers
    Indices <- MCIndices
    MaxBuffers = 2
    MaxViews = 2
    MaxAccesses = 4
    Programs <- MCPrograms
    GasLimit = 9
    PollEvery = 4
    MaxCalls = 3
    MaxLevels = 7
SPECIFICATION SpecAll
INVARIANTS TypesOK RoomToMark OutOfMemoryIsAnObject HeapIsTheSame ViewsWithinBuffer CallsAreCounted OnlyReachableMarked ReachableIsMarked NoDanglingWeakReference
PROPERTIES CollectionsAndCallsEnd ImplementsList ElementsAreStored InterruptIsFinal
CHECK_DEADLOCK FALSE
