SPECIFICATION TransportSpec
CONSTANTS
    Layers = {"http", "tls", "ws"}
    MaxOut = 4
    Chunk = 2
    Base = 2
    FirstDiscard = 2
    HeaderDiscard = 1
    MaxHeader = 8
    Heads <- MCHeads
    Replies <- MCReplies
    Space = 2
    WriteSizes = {1, 16384, 16385, 65500}
    HostLengths = {1, 253}
    ChunkSize = 16384
    Server <- MCServer
    HostValues <- MCHostValues
    SniNames <- MCSniNames
    Authorities <- MCAuthorities
    PathValues <- MCPathValues
    Rooted = {"/", "/ws"}
    HeaderNames = {"X-Foo", "X Foo"}
    BadHeaders = {"X Foo"}
    Sites <- MCSites
    Certified = {"cdn"}
    MaxOpts = 3
INVARIANTS
    WrittenInOrder
    ReadInOrder
    HelloFits
    DialsWhatWasAsked
PROPERTIES
    ReadsCatchUp
CHECK_DEADLOCK FALSE
