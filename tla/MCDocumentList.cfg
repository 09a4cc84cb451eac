SPECIFICATION ListSpec
CONSTANTS
    Uid = {u1, u2, u3}
    Info = {i1}
    NoInfo = NoInfo
    Image = {p1}
    NoImage = NoImage
    Shown = {p1}
    NoSave = NoSave
    NoAlert = NoAlert
INVARIANTS
    IndexAssertHolds
    TapOpensShown
    FreshListShowsAll
    NilOnlyWhenCut
    CrashLoop
