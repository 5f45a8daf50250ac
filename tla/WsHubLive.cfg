\* One connection under fair scheduling: its two pumps, its handler and the
\* broadcasts all wait for the hub.
SPECIFICATION FairSpec
CONSTANTS
    Clients = {c1}
    BufCap = 2
    MaxMsgs = 4
PROPERTIES
    DeadPeersAreReleased
    EvictedEnd
    MessagesArrive
    HubServes
CHECK_DEADLOCK FALSE
