SPECIFICATION TimedSpec
CONSTANTS
    users = users
    documents = documents
    c1 = c1
    c2 = c2
    c3 = c3
    Query <- MCQuery
    Call <- MCCall
    QueryOf <- MCQueryOf
    Follows <- MCFollows
    MaxBlocks = 1
    MaxDisturbances = 1
PROPERTIES
    UnknownEnds
CHECK_DEADLOCK FALSE
