CONSTANTS
    ChannelCapacity = 2
    BufferSize = 2
    InputLength = 4
    ReplyLength = 2
SPECIFICATION Spec
INVARIANTS CopiesInOrder EndsAreCopied LeavesWhenDone
PROPERTY EventuallyLeaves
CHECK_DEADLOCK FALSE
