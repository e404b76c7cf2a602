\* Rounding before and after a full ten seconds and across a minute; rows can
\* be 5 or 10 seconds apart, on either side of both timeouts.
CONSTANTS
    d = d
    e = e
    Devices = {d, e}
    Timeout <- MCTimeout
    WhiteTimeout = 5
    WhiteListed = {e}
    Workers = {w1, w2}
    NoOne = NoOne
    Seconds = {53, 55, 59, 63}
    MaxQueue = 1
    MaxFaults = 1
SPECIFICATION Spec
INVARIANTS CheckerTypeOK RowsSpaced RowTimeIsHeard
SYMMETRY Interchangeable
