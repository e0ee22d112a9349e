CONSTANTS
    s = s
    f = f
    g = g
    Senders = {s}
    Finders = {f, g}
    Casts <- OfferOrRounds
    Devices = {"laptop", "desk"}
    Layouts <- OnLaptop
    Strangers = {"desk"}
    Addresses <- AddressesOf
    Period = 2
    Jitter = 1
    Timeout = 5
    Latency = 1
    MaxBuffer = 2
    MaxOdd = 1
SPECIFICATION FairSpec
INVARIANTS
    TypeOK
    SnapshotIsWhatWasHeard
    RunningSendIsShown
    LaterRoundIsFound
PROPERTIES
    RoundEnds
CHECK_DEADLOCK FALSE
