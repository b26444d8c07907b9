SPECIFICATION FairSpec
CONSTANTS
    c1 = c1
    c2 = c2
    c3 = c3
    Callbacks = {c1, c2, c3}
    Usable = {c1, c2}
    Prefetch = 2
    MaxTries = 3
    MaxRestarts = 1
CHECK_DEADLOCK FALSE
INVARIANTS
    TypeOK
    TriesBounded
    GivenUpOnlyWhenDue
PROPERTIES
    NoRepeatWithoutRestart
    EveryCallbackSettles
