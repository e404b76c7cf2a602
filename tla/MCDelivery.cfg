\* A batch can hold both kinds, two senders can hold one datum each, and the
\* process can restart once before and once after an upload.
CONSTANTS
    ApSightings = {a}
    StationSightings = {x}
    Senders = {s1, s2}
    BatchSize = 2
    UpdateBatch = 2
    MaxCrashes = 2
    SilentClose = FALSE
    DbBusy = FALSE
SPECIFICATION FairSpec
INVARIANTS MarkedWasAccepted CarriedIsStored
PROPERTIES OnlyAcceptedIsDeleted StationIsUploaded ImplementsOutbox
\* No sighting and no crash is owed: all may be uploaded and the program wait.
CHECK_DEADLOCK FALSE
