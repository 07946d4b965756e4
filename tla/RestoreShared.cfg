CONSTANTS
    a = a
    b = b
    d = d
    c1 = c1
    c2 = c2
    a0 = a0
    a1 = a1
    d0 = d0
    b0 = b0
    Junk = junk
    NoHandler = none
    Images = {a, b, d}
    Handlers = {h1, h2}
    Initial <- AllImages
    Edits <- NoEdits
    Froms <- NoHeader
    Tos <- NoHeader
    Digests = {"absent"}
    Burst = 1
    MaxRequests = 0
    Clients = {c1, c2}
    Wanted <- WantAny
    Targets <- BothFresh
    B = 1
    K = 3
    MaxQueue = 1
    MaxFaults = 0
SPECIFICATION RSpec
SYMMETRY Swaps
INVARIANTS RTypeOK ReadyIsWritten DoneHasImage NothingRefused
