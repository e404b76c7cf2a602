\* Two devices, batches of two, a day of two ticks and a clock that gets past it,
\* one crash, and every refusal of the database and of the server.
CONSTANTS
    Devices = {d1, d2}
    MaxTime = 2
    Day = 2
    BatchSize = 2
    MaxCrashes = 1
SPECIFICATION Spec
INVARIANTS BtlTypeOK PendingIsHeldOrDropped OneRowPerDay CachedIsStored
SYMMETRY Interchangeable
PROPERTY ImplementsOutbox
CHECK_DEADLOCK FALSE
