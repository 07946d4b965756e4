CONSTANTS
    a = a
    b = b
    block = block
    Images = {a}
    Handlers = {h1, h2}
    Initial <- OneImage
    Edits <- Grows
    Froms <- All
    Tos <- All
    Digests = {"absent"}
    Burst = 1
    MaxRequests = 2
SPECIFICATION Spec
INVARIANT VectorsFit
