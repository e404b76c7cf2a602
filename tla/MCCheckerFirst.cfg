\* One device, and what becomes of its first sighting.
CONSTANTS
    d = d
    e = e
    Devices = {d}
    Timeout <- MCTimeout
    WhiteTimeout = 5
    WhiteListed = {}
    Workers = {w1, w2}
    NoOne = NoOne
    Seconds = {53, 55, 59, 63}
    MaxQueue = 1
    MaxFaults = 1
SPECIFICATION Spec
PROPERTY UnknownPasses
