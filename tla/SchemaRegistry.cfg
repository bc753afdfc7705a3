CONSTANTS
    Ids = {"a"}
    Covers <- OwnKeys
    Formats = {"json"}
    Raws = {p1, p2}
    Unspecified = Unspecified
    Calls = {c1, c2}
    Wrap = 4
    MaxVersion = 5
SPECIFICATION Spec
SYMMETRY Interchangeable
INVARIANTS TypeOK KeptUntilWrap ActiveResolves FreshReply
