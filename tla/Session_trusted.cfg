CONSTANTS
    Nobody = Nobody
    Sender = Sender
    Receivers = {r1}
    DeviceOf <- OneDevice
    InitialTrust <- Trusted
    MaxReports = 2
    Budget <- Undisturbed
SPECIFICATION FairSpec
PROPERTIES
    TakenClaimIsAnswered
    PolledReceiverIsServed
CHECK_DEADLOCK FALSE
