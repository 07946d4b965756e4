CONSTANTS
    x = x
    y = y
    c1 = c1
    c2 = c2
    None = none
    Zeros = zeros
    NoFile = nofile
    Names <- TwoImages
    Clients = {c1, c2}
    Asks <- SomeAsks
    Disk <- SomeDisk
    Edits <- GrowsOrVanishes
    both = both
    one = one
    blank = blank
    Config = one
    Configs = {one, both, blank}
    Text <- SomeTexts
    MaxStray = 0
    MaxFaults = 1
    MaxOutside = 1
    MaxOpen = 2
SPECIFICATION Spec
INVARIANTS TypeOK SumsFit ListIsCurrent AvailableIsFound SInv
PROPERTY EveryoneAnswered
CHECK_DEADLOCK FALSE
