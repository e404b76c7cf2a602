\* What a connection closed without a reply counts as.
CONSTANTS
    ApSightings = {a}
    StationSightings = {x}
    Senders = {s1}
    BatchSize = 2
    UpdateBatch = 2
    MaxCrashes = 0
    SilentClose = TRUE
    DbBusy = FALSE
SPECIFICATION Spec
INVARIANTS MarkedWasAccepted
CHECK_DEADLOCK FALSE
