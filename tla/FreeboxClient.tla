---------------------------- MODULE FreeboxClient ----------------------------
(***************************************************************************)
(* internal/client on top of internal/auth: a call takes a session token,  *)
(* sends one request and, when the box answers auth_required, invalidates  *)
(* the cached session and tries exactly once more.  Get, Post, Put and     *)
(* Delete go through Client.do, PostForm has the same two attempts.        *)
(*                                                                         *)
(* A request that was sent may be processed at any later time, or never:   *)
(* losing it, losing its answer, and a late arrival after the caller's     *)
(* time-out are all behaviours of BoxExecutes/BoxRejects/BoxDenies and     *)
(* RequestFails.                                                           *)
(***************************************************************************)
EXTENDS SessionManager

VARIABLES
    tries,     \* attempts made by each call
    req,       \* the request of each call on its way to the box
    reply,     \* the box's answer on its way back
    executed,  \* how many times the box ran the operation of each call
    outcome,   \* what the call returned
    refused    \* history: the session each call's first attempt used in vain

clientVars == <<tries, req, reply, executed, outcome, refused>>
vars == <<authVars, clientVars>>

Init ==
    /\ AuthInit
    /\ tries = [c \in Calls |-> 0]
    /\ req = [c \in Calls |-> FALSE]
    /\ reply = [c \in Calls |-> "none"]
    /\ executed = [c \in Calls |-> 0]
    /\ outcome = [c \in Calls |-> "none"]
    /\ refused = [c \in Calls |-> NoSession]

\* A call returns to its tool handler.
Finish(c, result) ==
    /\ pc' = [pc EXCEPT ![c] = "done"]
    /\ outcome' = [outcome EXCEPT ![c] = result]

-----------------------------------------------------------------------------
(* Client.do / PostForm and Client.attempt                                 *)

Start(c) ==
    /\ pc[c] = "idle"
    /\ pc' = [pc EXCEPT ![c] = "token"]
    /\ tries' = [tries EXCEPT ![c] = 1]
    /\ UNCHANGED <<managerVars, boxVars, expiries, causes, req, reply, executed,
                   outcome, refused>>

\* "auth: %w" is not an APIError: it is returned at once, never retried.
AuthFailed(c) ==
    /\ pc[c] = "failed"
    /\ Finish(c, IF err[c] = "revoked" THEN "revoked" ELSE "authError")
    /\ UNCHANGED <<managerVars, boxVars, expiries, causes, tries, req, reply,
                   executed, refused>>

Send(c) ==
    /\ pc[c] = "send"
    /\ pc' = [pc EXCEPT ![c] = "waiting"]
    /\ req' = [req EXCEPT ![c] = TRUE]
    /\ reply' = [reply EXCEPT ![c] = "none"]
    /\ UNCHANGED <<managerVars, boxVars, expiries, causes, tries, executed,
                   outcome, refused>>

\* Faulty variant: any error of the first attempt is retried.
RequestFailsRetried(c) ==
    /\ pc[c] = "waiting"
    /\ IF tries[c] = 1
         THEN pc' = [pc EXCEPT ![c] = "refused"] /\ UNCHANGED outcome
         ELSE Finish(c, "netError")
    /\ UNCHANGED <<managerVars, boxVars, expiries, causes, tries, req, reply,
                   executed, refused>>

\* http.Do, ReadAll or the envelope's decoding fails; nothing is retried.
RequestFails(c) ==
    /\ pc[c] = "waiting"
    /\ Finish(c, "netError")
    /\ UNCHANGED <<managerVars, boxVars, expiries, causes, tries, req, reply,
                   executed, refused>>

\* success=true; the result may still not decode into dst.
ReceiveSuccess(c) ==
    /\ pc[c] = "waiting"
    /\ reply[c] = "ok"
    /\ \E result \in {"ok", "decodeError"} : Finish(c, result)
    /\ UNCHANGED <<managerVars, boxVars, expiries, causes, tries, req, reply,
                   executed, refused>>

\* Faulty variant: the envelope's success flag is not looked at.
ReceiveErrorIgnored(c) ==
    /\ pc[c] = "waiting"
    /\ reply[c] = "error"
    /\ Finish(c, "ok")
    /\ UNCHANGED <<managerVars, boxVars, expiries, causes, tries, req, reply,
                   executed, refused>>

\* success=false with any other error_code: an APIError, returned as it is.
ReceiveError(c) ==
    /\ pc[c] = "waiting"
    /\ reply[c] = "error"
    /\ Finish(c, "apiError")
    /\ UNCHANGED <<managerVars, boxVars, expiries, causes, tries, req, reply,
                   executed, refused>>

\* auth_required on the first attempt: Invalidate comes next.
ReceiveDenied(c) ==
    /\ pc[c] = "waiting"
    /\ reply[c] = "denied"
    /\ tries[c] = 1
    /\ pc' = [pc EXCEPT ![c] = "refused"]
    /\ refused' = [refused EXCEPT ![c] = tok[c]]
    /\ UNCHANGED <<managerVars, boxVars, expiries, causes, tries, req, reply,
                   executed, outcome>>

\* auth_required on the second attempt is returned as it is.
ReceiveDeniedAgain(c) ==
    /\ pc[c] = "waiting"
    /\ reply[c] = "denied"
    /\ tries[c] # 1
    /\ Finish(c, "authRequired")
    /\ UNCHANGED <<managerVars, boxVars, expiries, causes, tries, req, reply,
                   executed, refused>>

Retry(c) ==
    /\ Invalidate(c)
    /\ tries' = [tries EXCEPT ![c] = 2]
    /\ UNCHANGED <<req, reply, executed, outcome, refused>>

-----------------------------------------------------------------------------
(* The box: a request is run only under a session the box still accepts    *)

Processed(c, answer) ==
    /\ req[c]
    /\ req' = [req EXCEPT ![c] = FALSE]
    /\ reply' = [reply EXCEPT ![c] = answer]
    /\ UNCHANGED <<authVars, tries, outcome, refused>>

BoxExecutes(c) ==
    /\ tok[c] \in live
    /\ Processed(c, "ok")
    /\ executed' = [executed EXCEPT ![c] = @ + 1]

BoxRejects(c) ==
    /\ tok[c] \in live
    /\ Processed(c, "error")
    /\ UNCHANGED executed

BoxDenies(c) ==
    /\ tok[c] \notin live
    /\ Processed(c, "denied")
    /\ UNCHANGED executed

-----------------------------------------------------------------------------

\* The steps of auth.Manager a call goes through inside attempt().
TokenStep(c) ==
    /\ \/ TokenCached(c) \/ TokenRefresh(c) \/ GotChallenge(c) \/ LoginFails(c)
       \/ LoginRevoked(c) \/ LoginReplyLost(c) \/ LoginDone(c)
    /\ UNCHANGED clientVars

AttemptStep(c) ==
    \/ AuthFailed(c) \/ Send(c) \/ RequestFails(c) \/ ReceiveSuccess(c)
    \/ ReceiveError(c) \/ ReceiveDenied(c) \/ ReceiveDeniedAgain(c) \/ Retry(c)

BoxStep ==
    \/ \E c \in Calls : BoxOpensSession(c) /\ UNCHANGED clientVars
    \/ \E c \in Calls : BoxExecutes(c) \/ BoxRejects(c) \/ BoxDenies(c)
    \/ BoxDropsSessions /\ UNCHANGED clientVars
    \/ BoxRevokes /\ UNCHANGED clientVars
    \/ Expire /\ UNCHANGED clientVars

Next ==
    \/ \E c \in Calls : Start(c) \/ TokenStep(c) \/ AttemptStep(c)
    \/ BoxStep

SafeSpec == Init /\ [][Next]_vars

\* A started call is a running goroutine, and http.Client.Timeout ends every
\* exchange the box does not answer; the box itself owes nothing.
Spec == SafeSpec /\ \A c \in Calls : WF_vars(TokenStep(c) \/ AttemptStep(c))

-----------------------------------------------------------------------------
(* Properties                                                              *)

PCs == {"idle", "token", "send", "waiting", "refused", "failed", "done"} \cup LoginSteps

Outcomes == {"none", "ok", "decodeError", "apiError", "authRequired", "authError",
             "revoked", "netError"}

\* Types of the state of auth.Manager, of the calls and of the box.
TypeOK ==
    /\ pc \in [Calls -> PCs]
    /\ tok \in [Calls -> Sessions]
    /\ err \in [Calls -> {"none", "login", "revoked"}]
    /\ lock \in Calls \cup {NoCall}
    /\ session \in Sessions
    /\ expired \in BOOLEAN
    /\ live \subseteq Sessions
    /\ issued \in Nat /\ drops \in Nat /\ expiries \in Nat /\ causes \in Nat
    /\ granted \in BOOLEAN
    /\ tries \in [Calls -> 0..2]
    /\ req \in [Calls -> BOOLEAN]
    /\ reply \in [Calls -> {"none", "ok", "error", "denied"}]
    /\ executed \in [Calls -> Nat]
    /\ outcome \in [Calls -> Outcomes]
    /\ refused \in [Calls -> Sessions]

NotRun == {"apiError", "authRequired", "authError", "revoked"}

\* The retry after auth_required never makes the box run an operation twice
\* (a NAT rule created twice, a VM started twice), whatever is lost on the way.
AtMostOnce == \A c \in Calls : executed[c] <= 1

\* What client.do returns is the truth about the box: success means the
\* operation was run, an API or authentication error means it was not run and
\* no request that could still run it is on its way.
OutcomeIsTruthful ==
    \A c \in Calls :
        /\ outcome[c] \in {"ok", "decodeError"} => executed[c] = 1
        /\ outcome[c] \in NotRun => executed[c] = 0 /\ ~req[c]

\* The second attempt uses a session opened after the one that was refused:
\* Invalidate cannot be undone by a login that was under way, nor by another
\* caller that still holds the old token.
RetryUsesNewerSession ==
    \A c \in Calls :
        tries[c] = 2 /\ pc[c] \in {"opened", "send", "waiting"} => tok[c].id > refused[c].id

\* "au pire une requete echoue et l'auto-retry renouvelle la session"
\* (CYBER_AUDIT.md, I4): one loss of sessions on the box, a reboot say, is never
\* seen by a tool call; auth_required surfaces only after a second loss.
OneDropIsMasked ==
    \A c \in Calls : outcome[c] = "authRequired" => drops >= 2

\* No login storm: calls that find the cache empty together share one login
\* (the mutex is held over refresh), so every session after the first is owed
\* to a refusal, an expiry or a lost login answer.
LoginsAreCaused == issued <= causes + 1

\* Every call returns to its tool handler, even though each login is made with
\* the mutex held and every other call waits behind it.
EveryCallReturns == \A c \in Calls : (pc[c] = "token") ~> (pc[c] = "done")

\* client.do implements the at-most-once call of RemoteCall.
StatusOf(c) ==
    CASE pc[c] = "idle" -> "idle"
      [] pc[c] = "done" /\ outcome[c] = "ok" -> "ok"
      [] pc[c] = "done" /\ outcome[c] \in NotRun -> "refused"
      [] pc[c] = "done" /\ outcome[c] \in {"netError", "decodeError"} -> "unknown"
      [] OTHER -> "pending"

RC == INSTANCE RemoteCall WITH status <- [c \in Calls |-> StatusOf(c)], runs <- executed

ImplementsRemoteCall == RC!Spec
-----------------------------------------------------------------------------
(* The inductive invariant behind the safety properties                    *)

Newer(t, r) == t.id > r.id /\ t.at > r.at

\* The mutex is held exactly during a login, and only while no session is valid.
LockInv ==
    /\ \A c \in Calls : lock = c <=> pc[c] \in LoginSteps
    /\ lock # NoCall => ~Valid

\* Every token around was opened by the box; one it no longer accepts was lost
\* in a drop that came after it was opened.
TokenInv ==
    /\ \A t \in live : t.id <= issued /\ t.at <= drops
    /\ session.id <= issued
    /\ session # NoSession => session \in live \/ session.at < drops
    /\ \A c \in Calls :
          /\ tok[c].id <= issued
          /\ pc[c] \in {"opened", "send", "waiting"} =>
                tok[c] # NoSession /\ (tok[c] \in live \/ tok[c].at < drops)
          /\ pc[c] = "waiting" /\ reply[c] = "denied" => tok[c].at < drops

\* While a call waits to retry, nothing it could be given predates its refusal.
RetryInv ==
    \A c \in Calls :
        /\ pc[c] = "idle" <=> tries[c] = 0
        /\ pc[c] = "refused" => tries[c] = 1
        /\ tries[c] = 2 \/ pc[c] = "refused" =>
              refused[c].id <= issued /\ refused[c].at < drops
        /\ tries[c] = 2 /\ pc[c] = "token" =>
              /\ session = NoSession \/ Newer(session, refused[c])
              /\ \A d \in Calls : pc[d] = "opened" => Newer(tok[d], refused[c])
        /\ tries[c] = 2 /\ pc[c] \in {"opened", "send", "waiting"} =>
              Newer(tok[c], refused[c])

\* What the box has run, against what is on the wire and what was returned.
ExecInv ==
    \A c \in Calls :
        /\ executed[c] <= 1
        /\ req[c] => executed[c] = 0
        /\ pc[c] \notin {"waiting", "done"} => executed[c] = 0 /\ ~req[c]
        /\ pc[c] = "waiting" /\ reply[c] = "ok" => executed[c] = 1
        /\ pc[c] = "waiting" /\ reply[c] \in {"error", "denied"} =>
              executed[c] = 0 /\ ~req[c]
        /\ outcome[c] # "none" <=> pc[c] = "done"

\* A session beyond what has been accounted for is cached or on its way.
CauseInv ==
    issued <= causes + (IF Valid \/ \E c \in Calls : pc[c] = "opened" THEN 1 ELSE 0)

IInv ==
    /\ TypeOK /\ LockInv /\ TokenInv /\ RetryInv /\ ExecInv /\ CauseInv
    /\ OutcomeIsTruthful /\ OneDropIsMasked
=============================================================================
