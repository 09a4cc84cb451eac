SPECIFICATION FairSpec
CONSTANTS
    a1 = a1
    a2 = a2
    d1 = d1
    d2 = d2
    d3 = d3
    User <- MCUser
    Doc <- MCDoc
    Owner <- MCOwner
    NoAlert = NoAlert
INVARIANTS
    IndexTrapOnlyInRefresh
    SettledTapOpensShown
    RefreshShowsAll
    OwnerTrapExplained
PROPERTIES
    RefreshEnds
CHECK_DEADLOCK FALSE
