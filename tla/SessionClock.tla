---------------------------- MODULE SessionClock ----------------------------
(***************************************************************************)
(* The clocks of one session.  auth.go keeps a session for TTL after the   *)
(* login's answer arrived; the box counts BoxTTL from the moment it opened *)
(* the session; every HTTP exchange is cut after Timeout.  "Freebox        *)
(* sessions last ~30 min; we use 25 min to be safe" (auth.go:166): the     *)
(* difference must pay for the login's answer and for the request that     *)
(* carries the token.                                                      *)
(***************************************************************************)
EXTENDS Naturals

CONSTANTS TTL,      \* openSession's ttl, 25 min
          BoxTTL,   \* what the box grants, about 30 min
          Timeout,  \* http.Client.Timeout: FREEBOX_TIMEOUT, 30 s by default
          MaxHeld   \* bound: how long an unused session is followed

ASSUME ClockAssumption ==
    TTL \in Nat /\ BoxTTL \in Nat /\ Timeout \in Nat /\ MaxHeld \in Nat

VARIABLES
    leg,      \* what is under way for this session
    legTime,  \* how long it has been
    age,      \* age of the session on the box
    held,     \* time since the login's answer arrived
    denied    \* the box refused the token for its age

vars == <<leg, legTime, age, held, denied>>

Legs == {"none", "answer", "cached", "request"}

Init ==
    /\ leg = "none"
    /\ legTime = 0
    /\ age = 0
    /\ held = 0
    /\ denied = FALSE

\* The box opens a session, now; its answer leaves.
BoxOpens ==
    /\ leg = "none"
    /\ leg' = "answer"
    /\ legTime' = 0
    /\ age' = 0
    /\ UNCHANGED <<held, denied>>

\* refresh(): ExpiresAt = time.Now() + ttl, counted from the answer's arrival.
Store ==
    /\ leg = "answer"
    /\ leg' = "cached"
    /\ held' = 0
    /\ UNCHANGED <<legTime, age, denied>>

\* Faulty variant: a session is served at any age.
TakeUnchecked ==
    /\ leg = "cached"
    /\ leg' = "request"
    /\ legTime' = 0
    /\ UNCHANGED <<age, held, denied>>

\* Token() hands out a session that is Valid, and the request leaves with it.
Take ==
    /\ leg = "cached"
    /\ held < TTL
    /\ leg' = "request"
    /\ legTime' = 0
    /\ UNCHANGED <<age, held, denied>>

\* Token() finds the session expired and a new login begins.
Refresh ==
    /\ leg = "cached"
    /\ held >= TTL
    /\ leg' = "none"
    /\ UNCHANGED <<legTime, age, held, denied>>

\* The request reaches the box, which accepts sessions younger than BoxTTL.
Arrive ==
    /\ leg = "request"
    /\ leg' = "cached"
    /\ denied' = (denied \/ age >= BoxTTL)
    /\ UNCHANGED <<legTime, age, held>>

\* An exchange that exceeds Timeout is given up: no message is older.
Tick ==
    /\ leg # "none"
    /\ leg \in {"answer", "request"} => legTime < Timeout
    /\ leg = "cached" => held < MaxHeld
    /\ legTime' = IF leg = "cached" THEN legTime ELSE legTime + 1
    /\ age' = age + 1
    /\ held' = IF leg = "answer" THEN held ELSE held + 1
    /\ UNCHANGED <<leg, denied>>

Next == BoxOpens \/ Store \/ Take \/ Refresh \/ Arrive \/ Tick

Spec == Init /\ [][Next]_vars

TypeOK ==
    /\ leg \in Legs
    /\ legTime \in Nat /\ age \in Nat /\ held \in Nat
    /\ denied \in BOOLEAN

\* The local lifetime and two exchanges fit in the box's lifetime.  The default
\* 30 s satisfies it (25 min + 1 min); FREEBOX_TIMEOUT, which envDuration leaves
\* unbounded, stops doing so above 150 s.
MarginSuffices == TTL + 2 * Timeout <= BoxTTL

\* "we use 25 min to be safe" (auth.go:166): the box never refuses a session for
\* its age, so that auth_required means a logout or a reboot of the box.
NeverTooOld == MarginSuffices => ~denied

\* How old a session can be, leg by leg.
AgeInv ==
    /\ TypeOK
    /\ NeverTooOld
    /\ leg = "answer" => legTime <= Timeout /\ age = legTime
    /\ leg = "cached" => age <= held + Timeout
    /\ leg = "request" =>
         legTime <= Timeout /\ held < TTL + legTime /\ age <= held + Timeout
=============================================================================
