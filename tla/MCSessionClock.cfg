\* In minutes: the lifetimes of auth.go, and exchanges of up to two minutes.
SPECIFICATION Spec
CONSTANTS
    TTL = 25
    BoxTTL = 30
    Timeout = 2
    MaxHeld = 32
INVARIANTS
    NeverTooOld
