CONSTANTS
    Names = {"a", "ab"}
    Covers <- PrefixCovers
    Specs = {s1, s2}
    None = None
    Calls = {c1, c2}
    MaxVersion = 2
SPECIFICATION Spec
SYMMETRY Interchangeable
INVARIANTS TypeOK IntactUntilRollback NoTornRead
