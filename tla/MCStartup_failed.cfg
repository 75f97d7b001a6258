\* A tool called after a pairing has failed.
SPECIFICATION SafeSpec
CONSTANTS
    Procs = {p1}
    Commands = {}
    HasStore = TRUE
    PairTimeout = 3
    CommandTimeout = 2
    PollPause = 2
    MaxTokens = 6
    MaxExits = 2
    Faults = {"net"}
INVARIANTS
    ErrPairingMeansPairing
