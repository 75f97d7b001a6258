------------------------ MODULE SessionClock_proofs ------------------------
(* The lifetime argument of auth.go, for every lifetime and time-out.       *)
EXTENDS SessionClock, TLAPS

USE ClockAssumption

\* When the local lifetime and two exchanges fit in the box's lifetime, a
\* session handed out by Token() is never too old when it reaches the box.
THEOREM SessionsAreNeverTooOld == Spec => []NeverTooOld
<1>1. Init => AgeInv
  <2>1. Init => denied \in BOOLEAN /\ ~denied
    BY Zenon DEF Init
  <2>2. QED BY <2>1 DEF Init, AgeInv, TypeOK, NeverTooOld, Legs
<1>2. AgeInv /\ [Next]_vars => AgeInv'
  <2> SUFFICES ASSUME AgeInv, [Next]_vars PROVE AgeInv'
    OBVIOUS
  <2> USE DEF AgeInv, TypeOK, NeverTooOld, Legs
  <2>1. CASE BoxOpens
    BY <2>1 DEF BoxOpens
  <2>2. CASE Store
    BY <2>2 DEF Store
  <2>3. CASE Take
    BY <2>3 DEF Take
  <2>4. CASE Refresh
    BY <2>4 DEF Refresh
  <2>5. CASE Arrive
    <3>1. MarginSuffices => age < BoxTTL
      BY <2>5 DEF Arrive, MarginSuffices
    <3>2. QED BY <2>5, <3>1 DEF Arrive
  <2>6. CASE Tick
    BY <2>6 DEF Tick
  <2>7. CASE UNCHANGED vars
    BY <2>7 DEF vars, MarginSuffices
  <2>8. QED BY <2>1, <2>2, <2>3, <2>4, <2>5, <2>6, <2>7 DEF Next
<1>3. AgeInv => NeverTooOld
  BY DEF AgeInv
<1>4. QED BY <1>1, <1>2, <1>3, PTL DEF Spec
=============================================================================
