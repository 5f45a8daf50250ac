\* Two connections, buffers of one message, three broadcasts: eviction, both
\* unregisters, dead peers, in every order.
SPECIFICATION Spec
CONSTANTS
    Clients = {c1, c2}
    BufCap = 1
    MaxMsgs = 3
SYMMETRY Symmetry
INVARIANTS
    TypeOK
    NeverPanics
    NoGaps
    MapMatchesPumps
PROPERTIES
    KeepsFeed
CHECK_DEADLOCK FALSE
