\* What happens to an access point whose POST fails.
CONSTANTS
    ApSightings = {a}
    StationSightings = {x}
    Senders = {s1}
    BatchSize = 2
    UpdateBatch = 2
    MaxCrashes = 0
    SilentClose = FALSE
    DbBusy = FALSE
SPECIFICATION Spec
INVARIANTS PendingIsCarried
CHECK_DEADLOCK FALSE
