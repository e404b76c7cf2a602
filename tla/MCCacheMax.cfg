\* Three entries allowed, four data.
CONSTANTS
    a = a
    b = b
    c = c
    w = w
    h1 = h1
    h2 = h2
    Data = {a, b, c, w}
    Hashes = {h1, h2}
    HashOf <- MCHashOf
    Max = 3
    Timeout = 4
    WhiteTimeout = 2
    WhiteListed = {w}
    Seconds = {0, 1, 2, 3, 4, 5, 6, 7}
SPECIFICATION Spec
INVARIANT WithinMax
