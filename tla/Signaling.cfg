CONSTANTS
    Nobody = Nobody
    a1 = a1
    a2 = a2
    b1 = b1
    A = A
    B = B
    Conns = {a1, a2, b1}
    Peers = {A, B}
    PeerOf <- PeersOf
    Says <- WhatTheySay
    Sends <- FewSends
    MaxBreaks = 1
SPECIFICATION FairSpec
INVARIANTS
    TypeOK
    RelayIsFaithful
    StaleOnlyAfterRename
    ReachableUnlessNamesake
    NoSignalIsLost
PROPERTIES
    KeepsSwitchboard
    SignalIsAnswered
    DroppedIsForgotten
CHECK_DEADLOCK FALSE
