CONSTANTS
    Nobody = Nobody
    a1 = a1
    a2 = a2
    b1 = b1
    A = A
    B = B
    Conns = {a1, a2, b1}
    Peers = {A, B}
    PeerOf <- PeersOf
    Says <- WhatTheySay
    Sends <- NoSends
    MaxBreaks = 0
SPECIFICATION Spec
INVARIANT
    RegisteredIsReachable
CHECK_DEADLOCK FALSE
