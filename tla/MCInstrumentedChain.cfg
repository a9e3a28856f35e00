CONSTANTS
    c1 = c1
    c2 = c2
    added = added
    ratio = ratio
    events = events
    dropped = dropped
    plain = plain
    i0 = i0
    i1 = i1
    i2 = i2
    i3 = i3
    i4 = i4
    NaN = NaN
    None = None
    Chain = {c1, c2}
    Name = {added, ratio, events, dropped}
    BlocksAdded = added
    CompressionRatio = ratio
    PruningEvents = events
    BlocksPruned = dropped
    Label = {plain, i0, i1, i2, i3, i4}
    Plain = plain
    IndexOf <- MCIndexOf
    Starts <- MCStarts
    MaxFullBlocks = 1
    MaxBlocks = 4
    Bound = {}
    Default = {2}
    Inf = 9
    Number = {1, 2}
    MaxCount = 8
SPECIFICATION InstrumentedSpec
SYMMETRY Symmetry
INVARIANTS
    RecordsInv
    StateMovesWithBlocks
    CountersAreExact
    RatiosNameBlocks
