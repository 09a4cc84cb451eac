SPECIFICATION Spec
CONSTANTS
    a1 = a1
    a2 = a2
    d1 = d1
    c1 = c1
    c2 = c2
    User <- MCUser
    Doc <- MCDoc
    Owner <- MCOwner
    Chain <- MCChain
    Installation <- MCOne
    At <- Together
    i1 = i1
    i2 = i2
    NoUser = NoUser
    NoCall = NoCall
SYMMETRY Symmetry
INVARIANT OnlyVerifiedShare
