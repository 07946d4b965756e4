CONSTANTS
    a = a
    b = b
    block = block
    Images = {a, b}
    Handlers = {h1, h2}
    Initial <- TwoImages
    Edits <- Vanishes
    Froms <- Valid
    Tos <- ValidTo
    Digests = {"absent"}
    Burst = 1
    MaxRequests = 2
SPECIFICATION FairSpec
INVARIANTS TypeOK NoLostRequest BurstRequested IInv
PROPERTY OwedIsSent
