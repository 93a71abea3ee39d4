\* Three k1s controllers and the number of attempts in the code.
CONSTANTS
    Nodes = {n1, n2, n3}
    NoLeader = NoLeader
    leaderServiceFallbackAttempts = 12
    MaxFaults = 3
    MaxElections = 2
SPECIFICATION FairSpec
INVARIANTS
    TypeOK
    AtMostTwice
    GoneMeansGone
PROPERTIES
    CallReturns
    ImplementsDeleteCall
CHECK_DEADLOCK FALSE
