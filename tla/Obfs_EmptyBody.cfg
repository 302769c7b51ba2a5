SPECIFICATION Spec
CONSTANTS
    Layers = {"http"}
    MaxOut = 4
    Chunk = 2
    Base = 2
    FirstDiscard = 2
    HeaderDiscard = 1
    MaxHeader = 8
    Heads <- MCHeads
    Replies <- MCReplies
    Space = 2
INVARIANTS
    PassthroughEndsWithInner
CHECK_DEADLOCK FALSE
