\* Three concurrent calls, two losses of sessions on the box, one expiry.
SPECIFICATION SafeSpec
CONSTANTS
    Calls = {c1, c2, c3}
    NoCall = NoCall
    MaxDrops = 2
    MaxExpiries = 1
SYMMETRY CallSymmetry
INVARIANTS
    AtMostOnce
    OutcomeIsTruthful
    RetryUsesNewerSession
    OneDropIsMasked
    LoginsAreCaused
    IInv
\* The system stops when every call has returned.
CHECK_DEADLOCK FALSE
