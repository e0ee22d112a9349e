CONSTANTS
    Nobody = Nobody
    Sender = Sender
    Receivers = {r1, r2}
    DeviceOf <- OneDevice
    InitialTrust <- Untrusted
    MaxReports = 1
    Budget <- Undisturbed
SPECIFICATION Spec
INVARIANT
    TransferNeedsBothYes
CHECK_DEADLOCK FALSE
