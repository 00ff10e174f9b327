CONSTANTS
    MemSize = 24
    CtxSize = 1
    Slack = 2
    MinFree = 6
    Critical = 4
    Message = 1
    Object = 1
    Entry = 1
    MarkRoom = 1
    Sizes = {1, 16}
    Needs = {0, 6}
    MaxFrames = 2
SPECIFICATION Spec
INVARIANTS RoomToMark
