SPECIFICATION FairSpec
CONSTANTS
    Uid = {u1, u2, u3}
    Info = {i1, i2}
    NoInfo = NoInfo
    Image = {p1}
    NoImage = NoImage
    Shown = {p1, NoImage}
    NoSave = NoSave
INVARIANTS
    TypeOK
    NoDocumentTwice
    ArchivedIsListed
    TornOnlyWhenCut
PROPERTIES
    ImplementsLibrary
    DurableDocumentsKept
    TornForever
    SaveIsKept
