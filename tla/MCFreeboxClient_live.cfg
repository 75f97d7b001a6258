\* Two concurrent calls under fairness: every call returns, and the client
\* implements the at-most-once call.
SPECIFICATION Spec
CONSTANTS
    Calls = {c1, c2}
    NoCall = NoCall
    MaxDrops = 2
    MaxExpiries = 1
PROPERTIES
    EveryCallReturns
    ImplementsRemoteCall
\* The system stops when every call has returned.
CHECK_DEADLOCK FALSE
