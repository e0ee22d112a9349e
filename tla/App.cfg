CONSTANTS
    Nobody = Nobody
    Threads = {t1, t2}
    Lan = {p, q}
    Budgets <- Mixes
SPECIFICATION Spec
SYMMETRY Symmetry
INVARIANTS
    TypeOK
    OwnErrorUntilOvertaken
    OneIdentity
    PairingIsKept
    ChatInOrder
CHECK_DEADLOCK FALSE
