CONSTANTS
    Nobody = Nobody
    Sender = Sender
    Receivers = {r1, r2}
    DeviceOf <- OneDevice
    InitialTrust <- Untrusted
    MaxReports = 1
    Budget <- Disturbed
SPECIFICATION Spec
SYMMETRY Symmetry
INVARIANTS
    TypeOK
    ReportsAreTrue
    TrustNeedsYes
    ReportAwaits
PROPERTY
    KeepsSharedHandshake
CHECK_DEADLOCK FALSE
