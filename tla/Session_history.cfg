CONSTANTS
    Nobody = Nobody
    Sender = Sender
    Receivers = {r1}
    DeviceOf <- OneDevice
    InitialTrust <- Trusted
    MaxReports = 1
    Budget <- Undisturbed
SPECIFICATION Spec
INVARIANT
    CompletedReceiveIsKept
CHECK_DEADLOCK FALSE
