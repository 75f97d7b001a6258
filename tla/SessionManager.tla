--------------------------- MODULE SessionManager ---------------------------
(***************************************************************************)
(* internal/auth: the session cache shared by every call, its mutex, the   *)
(* two-request login, and the box's side of a login.                       *)
(*                                                                         *)
(* A caller is one call of Client.Get/Post/PostForm/Put/Delete.  The       *)
(* mutex is held over the whole login, HTTP exchanges included; what       *)
(* happens to a login on the way is decided by the actions of the box and  *)
(* of the network below.  The clock is abstracted to its effects: the      *)
(* cached session passes ExpiresAt (Expire), and the box forgets sessions  *)
(* (BoxDropsSessions: its own expiry, a logout, a reboot).                 *)
(***************************************************************************)
EXTENDS Naturals, FiniteSets

CONSTANTS Calls,        \* the calls, each made once
          NoCall,       \* the mutex is free
          MaxDrops,     \* bound: times the box forgets sessions
          MaxExpiries   \* bound: times the cached session passes ExpiresAt

ASSUME NoCallAssumption == NoCall \notin Calls
ASSUME BoundsAssumption == MaxDrops \in Nat /\ MaxExpiries \in Nat

VARIABLES
    pc,        \* where each caller is
    tok,       \* the session token each caller was given by Token()
    err,       \* how each caller's login failed
    lock,      \* Manager.mu: the caller that holds it across a login
    session,   \* Manager.session
    expired,   \* time.Now() is no longer before session.ExpiresAt
    live,      \* box: the sessions it accepts
    issued,    \* box: how many sessions it has opened
    granted,   \* box: the app token is accepted
    drops,     \* history: how often the box has forgotten sessions
    expiries,  \* history: how often the cached session expired
    causes     \* history: events that make one more login necessary

managerVars == <<tok, err, lock, session, expired>>
boxVars == <<live, issued, granted, drops>>
authVars == <<pc, managerVars, boxVars, expiries, causes>>

\* A session is known by its number and by when it was opened, in box drops.
NoSession == [id |-> 0, at |-> 0]
Sessions == [id : Nat, at : Nat]

LoginSteps == {"challenge", "opening", "opened"}

AuthInit ==
    /\ pc = [c \in Calls |-> "idle"]
    /\ tok = [c \in Calls |-> NoSession]
    /\ err = [c \in Calls |-> "none"]
    /\ lock = NoCall
    /\ session = NoSession
    /\ expired = FALSE
    /\ live = {}
    /\ issued = 0
    /\ granted = TRUE
    /\ drops = 0
    /\ expiries = 0
    /\ causes = 0

\* Session.Valid: a cached session before its local deadline.
Valid == session # NoSession /\ ~expired

-----------------------------------------------------------------------------
(* Manager.Token, Manager.refresh and Manager.Invalidate                   *)

\* Token() with a valid session: lock, read, unlock.
TokenCached(c) ==
    /\ pc[c] = "token"
    /\ lock = NoCall
    /\ Valid
    /\ tok' = [tok EXCEPT ![c] = session]
    /\ pc' = [pc EXCEPT ![c] = "send"]
    /\ UNCHANGED <<err, lock, session, expired, boxVars, expiries, causes>>

\* Faulty variant: validity looked at before the lock and not again under it.
TokenRefreshUnchecked(c) ==
    /\ pc[c] = "token"
    /\ lock = NoCall
    /\ lock' = c
    /\ pc' = [pc EXCEPT ![c] = "challenge"]
    /\ UNCHANGED <<tok, err, session, expired, boxVars, expiries, causes>>

\* Token() without one: the lock is kept and the login starts.
TokenRefresh(c) ==
    /\ pc[c] = "token"
    /\ lock = NoCall
    /\ ~Valid
    /\ lock' = c
    /\ pc' = [pc EXCEPT ![c] = "challenge"]
    /\ UNCHANGED <<tok, err, session, expired, boxVars, expiries, causes>>

\* getChallenge succeeded, openSession's request leaves.
GotChallenge(c) ==
    /\ pc[c] = "challenge"
    /\ pc' = [pc EXCEPT ![c] = "opening"]
    /\ UNCHANGED <<managerVars, boxVars, expiries, causes>>

\* Faulty variant: an error path of refresh() that returns without Unlock.
LoginErrorKeepsLock(c, why) ==
    /\ pc' = [pc EXCEPT ![c] = "failed"]
    /\ err' = [err EXCEPT ![c] = why]
    /\ UNCHANGED <<tok, lock, session, expired, boxVars, expiries>>

\* refresh() returns an error: the deferred Unlock runs, session is kept.
LoginError(c, why) ==
    /\ pc' = [pc EXCEPT ![c] = "failed"]
    /\ err' = [err EXCEPT ![c] = why]
    /\ lock' = NoCall
    /\ UNCHANGED <<tok, session, expired, boxVars, expiries>>

\* Network error, time-out, undecodable body or success=false.
LoginFails(c) ==
    /\ pc[c] \in {"challenge", "opening"}
    /\ LoginError(c, "login")
    /\ UNCHANGED causes

\* invalid_token: ErrTokenRevoked.
LoginRevoked(c) ==
    /\ pc[c] = "opening"
    /\ ~granted
    /\ LoginError(c, "revoked")
    /\ UNCHANGED causes

\* The box opened a session and its answer never arrives.
LoginReplyLost(c) ==
    /\ pc[c] = "opened"
    /\ LoginError(c, "login")
    /\ causes' = causes + 1

\* openSession succeeded: refresh() stores the session and Token() unlocks.
LoginDone(c) ==
    /\ pc[c] = "opened"
    /\ session' = tok[c]
    /\ expired' = FALSE
    /\ lock' = NoCall
    /\ pc' = [pc EXCEPT ![c] = "send"]
    /\ UNCHANGED <<tok, err, boxVars, expiries, causes>>

\* Faulty variant: the session is cleared without taking the mutex.
InvalidateUnlocked(c) ==
    /\ pc[c] = "refused"
    /\ session' = NoSession
    /\ pc' = [pc EXCEPT ![c] = "token"]
    /\ causes' = causes + 1
    /\ UNCHANGED <<tok, err, lock, expired, boxVars, expiries>>

\* Faulty variant: the retry is made without clearing the session.
InvalidateForgotten(c) ==
    /\ pc[c] = "refused"
    /\ lock = NoCall
    /\ pc' = [pc EXCEPT ![c] = "token"]
    /\ causes' = causes + 1
    /\ UNCHANGED <<managerVars, boxVars, expiries>>

\* Invalidate(): clears whatever session is cached, then Token() is called.
Invalidate(c) ==
    /\ pc[c] = "refused"
    /\ lock = NoCall
    /\ session' = NoSession
    /\ pc' = [pc EXCEPT ![c] = "token"]
    /\ causes' = causes + 1
    /\ UNCHANGED <<tok, err, lock, expired, boxVars, expiries>>

-----------------------------------------------------------------------------
(* The box and the clock                                                   *)

BoxOpensSession(c) ==
    LET new == [id |-> issued + 1, at |-> drops]
    IN  /\ pc[c] = "opening"
        /\ granted
        /\ issued' = issued + 1
        /\ live' = live \cup {new}
        /\ tok' = [tok EXCEPT ![c] = new]
        /\ pc' = [pc EXCEPT ![c] = "opened"]
        /\ UNCHANGED <<err, lock, session, expired, granted, drops, expiries, causes>>

BoxDropsSessions ==
    /\ drops < MaxDrops
    /\ \E gone \in SUBSET live \ {{}} : live' = live \ gone
    /\ drops' = drops + 1
    /\ UNCHANGED <<pc, managerVars, issued, granted, expiries, causes>>

\* The user removes the application in Freebox OS.
BoxRevokes ==
    /\ granted
    /\ granted' = FALSE
    /\ UNCHANGED <<pc, managerVars, live, issued, drops, expiries, causes>>

Expire ==
    /\ expiries < MaxExpiries
    /\ Valid
    /\ expired' = TRUE
    /\ expiries' = expiries + 1
    /\ causes' = causes + 1
    /\ UNCHANGED <<pc, tok, err, lock, session, boxVars>>
=============================================================================
