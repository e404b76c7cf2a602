\* Everything that can go wrong does: refused posts, lost replies, a busy
\* database and a crash, with queues longer than a batch.
CONSTANTS
    ApSightings = {a}
    StationSightings = {x, y}
    Senders = {s1, s2}
    BatchSize = 2
    UpdateBatch = 2
    MaxCrashes = 1
    SilentClose = TRUE
    DbBusy = TRUE
SPECIFICATION Spec
INVARIANTS DeliveryTypeOK PendingIsAccountedFor NeverCarriedTwice OncePerStart
SYMMETRY Interchangeable
CHECK_DEADLOCK FALSE
