\* One server on Windows, restarted once, next to one run of freebox-pair.
SPECIFICATION Spec
CONSTANTS
    Procs = {p1, f1}
    Commands = {f1}
    HasStore = TRUE
    PairTimeout = 3
    CommandTimeout = 1
    PollPause = 2
    MaxTokens = 3
    MaxExits = 1
    Faults = {"net", "read", "delete", "write"}
INVARIANTS
    IInv
    OnlyGrantedTokens
    AcceptedTokenComesFirst
    ClientTokenIsStored
PROPERTIES
    DeletesOnlyRefusedTokens
    PairingEnds
    GrantLeadsToTools
