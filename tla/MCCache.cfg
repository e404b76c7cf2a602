\* Times up to 7 let an item of timeout 4 be renewed, expire and come back,
\* before and after the white list arrives; Max is never reached.
CONSTANTS
    a = a
    b = b
    c = c
    w = w
    h1 = h1
    h2 = h2
    Data = {a, b, c, w}
    Hashes = {h1, h2}
    HashOf <- MCHashOf
    Max = 10
    Timeout = 4
    WhiteTimeout = 2
    WhiteListed = {w}
    Seconds = {0, 1, 2, 3, 4, 5, 6, 7}
SPECIFICATION Spec
INVARIANTS CacheTypeOK OneItemEach
PROPERTY ImplementsRecency
