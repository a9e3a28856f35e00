CONSTANTS
    m = m
    n = n
    plain = plain
    other = other
    NaN = NaN
    None = None
    Name = {m, n}
    Label = {plain, other}
    Bound = {2}
    Default = {1, 3}
    Inf = 9
    Number <- MCNumber
    MaxCount = 2
SPECIFICATION Spec
SYMMETRY Symmetry
INVARIANTS
    MetricsInv
    ExportsAgree
    BucketsCumulative
    InfCountsAllUnlessNaN
PROPERTIES
    FamiliesNeverChange
    CountersNeverFall
