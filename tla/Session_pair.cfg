CONSTANTS
    Nobody = Nobody
    Sender = Sender
    Receivers = {r1}
    DeviceOf <- OneDevice
    InitialTrust <- Untrusted
    MaxReports = 1
    Budget <- DisturbedMore
SPECIFICATION Spec
INVARIANT
    TransferNeedsBothYes
PROPERTY
    KeepsHandshake
CHECK_DEADLOCK FALSE
