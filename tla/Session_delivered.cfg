CONSTANTS
    Nobody = Nobody
    Sender = Sender
    Receivers = {r1}
    DeviceOf <- OneDevice
    InitialTrust <- Untrusted
    MaxReports = 1
    Budget <- Undisturbed
SPECIFICATION FairSpec
PROPERTY
    DeliveredReceiverEnds
CHECK_DEADLOCK FALSE
