------------------------ MODULE FreeboxClient_proofs ------------------------
(***************************************************************************)
(* Proofs about FreeboxClient, for any set of calls and any bounds: its    *)
(* safety properties, and that it implements the safety part of RemoteCall *)
(* (its initial states map to initial states and each of its steps to a    *)
(* step or to a stutter).                                                  *)
(***************************************************************************)
EXTENDS FreeboxClient, TLAPS

USE NoCallAssumption, BoundsAssumption

\* A step of the system is one of the actions, by one of the calls or by the
\* box: the case analysis every invariance proof below follows.
LEMMA StepCases ==
    ASSUME Next
    PROVE  \/ \E c \in Calls : Start(c)
           \/ \E c \in Calls : TokenStep(c)
           \/ \E c \in Calls : AttemptStep(c)
           \/ BoxStep
  BY DEF Next

\* The initial state is well typed.
LEMMA InitTypes == Init => TypeOK
<1>1. NoSession \in Sessions
  BY DEF NoSession, Sessions
<1>2. Init => expired \in BOOLEAN /\ granted \in BOOLEAN /\ req \in [Calls -> BOOLEAN]
  BY Zenon DEF Init, AuthInit
<1>3. QED BY <1>1, <1>2 DEF Init, AuthInit, TypeOK, PCs, Outcomes

\* Every step keeps the types.
LEMMA TypeStep ==
    ASSUME TypeOK, Next
    PROVE  TypeOK'
<1> USE DEF TypeOK, PCs, LoginSteps, Outcomes, managerVars, boxVars, authVars, clientVars
<1>1. ASSUME NEW c \in Calls, Start(c) PROVE TypeOK'
  BY <1>1 DEF Start
<1>2. ASSUME NEW c \in Calls, TokenStep(c) PROVE TypeOK'
  <2>1. CASE TokenCached(c)
    BY <1>2, <2>1 DEF TokenStep, TokenCached
  <2>2. CASE TokenRefresh(c)
    BY <1>2, <2>2 DEF TokenStep, TokenRefresh
  <2>3. CASE GotChallenge(c)
    BY <1>2, <2>3 DEF TokenStep, GotChallenge
  <2>4. CASE LoginFails(c)
    BY <1>2, <2>4 DEF TokenStep, LoginFails, LoginError
  <2>5. CASE LoginRevoked(c)
    BY <1>2, <2>5 DEF TokenStep, LoginRevoked, LoginError
  <2>6. CASE LoginReplyLost(c)
    BY <1>2, <2>6 DEF TokenStep, LoginReplyLost, LoginError
  <2>7. CASE LoginDone(c)
    BY <1>2, <2>7 DEF TokenStep, LoginDone
  <2>8. QED BY <1>2, <2>1, <2>2, <2>3, <2>4, <2>5, <2>6, <2>7 DEF TokenStep
<1>3. ASSUME NEW c \in Calls, AttemptStep(c) PROVE TypeOK'
  <2>1. CASE AuthFailed(c)
    BY <2>1 DEF AuthFailed, Finish
  <2>2. CASE Send(c)
    BY <2>2 DEF Send
  <2>3. CASE RequestFails(c)
    BY <2>3 DEF RequestFails, Finish
  <2>4. CASE ReceiveSuccess(c)
    BY <2>4 DEF ReceiveSuccess, Finish
  <2>5. CASE ReceiveError(c)
    BY <2>5 DEF ReceiveError, Finish
  <2>6. CASE ReceiveDenied(c)
    BY <2>6 DEF ReceiveDenied
  <2>7. CASE ReceiveDeniedAgain(c)
    BY <2>7 DEF ReceiveDeniedAgain, Finish
  <2>8. CASE Retry(c)
    BY <2>8 DEF Retry, Invalidate, NoSession, Sessions
  <2>9. QED BY <1>3, <2>1, <2>2, <2>3, <2>4, <2>5, <2>6, <2>7, <2>8 DEF AttemptStep
<1>4. ASSUME BoxStep PROVE TypeOK'
  <2>1. ASSUME NEW c \in Calls, BoxOpensSession(c), UNCHANGED clientVars PROVE TypeOK'
    BY <2>1 DEF BoxOpensSession, Sessions
  <2>2. ASSUME NEW c \in Calls, BoxExecutes(c) PROVE TypeOK'
    BY <2>2 DEF BoxExecutes, Processed
  <2>3. ASSUME NEW c \in Calls, BoxRejects(c) PROVE TypeOK'
    BY <2>3 DEF BoxRejects, Processed
  <2>4. ASSUME NEW c \in Calls, BoxDenies(c) PROVE TypeOK'
    BY <2>4 DEF BoxDenies, Processed
  <2>5. CASE BoxDropsSessions /\ UNCHANGED clientVars
    BY <2>5 DEF BoxDropsSessions
  <2>6. CASE BoxRevokes /\ UNCHANGED clientVars
    BY <2>6 DEF BoxRevokes
  <2>7. CASE Expire /\ UNCHANGED clientVars
    BY <2>7 DEF Expire
  <2>8. QED BY <1>4, <2>1, <2>2, <2>3, <2>4, <2>5, <2>6, <2>7 DEF BoxStep
<1>5. QED BY <1>1, <1>2, <1>3, <1>4, StepCases

\* Type correctness of auth.Manager, of the calls and of the box.
THEOREM TypeCorrect == SafeSpec => []TypeOK
<1>1. TypeOK /\ UNCHANGED vars => TypeOK'
  BY DEF TypeOK, vars, authVars, managerVars, boxVars, clientVars
<1>2. QED BY <1>1, InitTypes, TypeStep, PTL DEF SafeSpec

-----------------------------------------------------------------------------
(* The inductive invariant, one lemma per part                            *)

\* The mutex invariant is kept by every step.
LEMMA LockStep ==
    ASSUME TypeOK, LockInv, Next
    PROVE  LockInv'
<1> USE DEF LockInv, Valid, TypeOK, LoginSteps, managerVars, boxVars, authVars, clientVars
<1>1. ASSUME NEW c \in Calls, Start(c) PROVE LockInv'
  BY <1>1 DEF Start
<1>2. ASSUME NEW c \in Calls, TokenStep(c) PROVE LockInv'
  <2>1. CASE TokenCached(c)
    BY <1>2, <2>1 DEF TokenStep, TokenCached
  <2>2. CASE TokenRefresh(c)
    BY <1>2, <2>2 DEF TokenStep, TokenRefresh
  <2>3. CASE GotChallenge(c)
    BY <1>2, <2>3 DEF TokenStep, GotChallenge
  <2>4. CASE LoginFails(c)
    BY <1>2, <2>4 DEF TokenStep, LoginFails, LoginError
  <2>5. CASE LoginRevoked(c)
    BY <1>2, <2>5 DEF TokenStep, LoginRevoked, LoginError
  <2>6. CASE LoginReplyLost(c)
    BY <1>2, <2>6 DEF TokenStep, LoginReplyLost, LoginError
  <2>7. CASE LoginDone(c)
    BY <1>2, <2>7 DEF TokenStep, LoginDone
  <2>8. QED BY <1>2, <2>1, <2>2, <2>3, <2>4, <2>5, <2>6, <2>7 DEF TokenStep
<1>3. ASSUME NEW c \in Calls, AttemptStep(c) PROVE LockInv'
  <2>1. CASE AuthFailed(c)
    BY <2>1 DEF AuthFailed, Finish
  <2>2. CASE Send(c)
    BY <2>2 DEF Send
  <2>3. CASE RequestFails(c)
    BY <2>3 DEF RequestFails, Finish
  <2>4. CASE ReceiveSuccess(c)
    BY <2>4 DEF ReceiveSuccess, Finish
  <2>5. CASE ReceiveError(c)
    BY <2>5 DEF ReceiveError, Finish
  <2>6. CASE ReceiveDenied(c)
    BY <2>6 DEF ReceiveDenied
  <2>7. CASE ReceiveDeniedAgain(c)
    BY <2>7 DEF ReceiveDeniedAgain, Finish
  <2>8. CASE Retry(c)
    BY <2>8 DEF Retry, Invalidate
  <2>9. QED BY <1>3, <2>1, <2>2, <2>3, <2>4, <2>5, <2>6, <2>7, <2>8 DEF AttemptStep
<1>4. ASSUME BoxStep PROVE LockInv'
  <2>1. ASSUME NEW c \in Calls, BoxOpensSession(c), UNCHANGED clientVars PROVE LockInv'
    BY <2>1 DEF BoxOpensSession
  <2>2. ASSUME NEW c \in Calls, BoxExecutes(c) PROVE LockInv'
    BY <2>2 DEF BoxExecutes, Processed
  <2>3. ASSUME NEW c \in Calls, BoxRejects(c) PROVE LockInv'
    BY <2>3 DEF BoxRejects, Processed
  <2>4. ASSUME NEW c \in Calls, BoxDenies(c) PROVE LockInv'
    BY <2>4 DEF BoxDenies, Processed
  <2>5. CASE BoxDropsSessions /\ UNCHANGED clientVars
    BY <2>5 DEF BoxDropsSessions
  <2>6. CASE BoxRevokes /\ UNCHANGED clientVars
    BY <2>6 DEF BoxRevokes
  <2>7. CASE Expire /\ UNCHANGED clientVars
    BY <2>7 DEF Expire
  <2>8. QED BY <1>4, <2>1, <2>2, <2>3, <2>4, <2>5, <2>6, <2>7 DEF BoxStep
<1>5. QED BY <1>1, <1>2, <1>3, <1>4, StepCases

\* The token invariant is kept by every step.
LEMMA TokenStepInv ==
    ASSUME TypeOK, LockInv, TokenInv, Next
    PROVE  TokenInv'
<1> USE DEF TokenInv, LockInv, TypeOK, LoginSteps, managerVars, boxVars, authVars, clientVars, Sessions
<1>1. ASSUME NEW c \in Calls, Start(c) PROVE TokenInv'
  BY <1>1 DEF Start
<1>2. ASSUME NEW c \in Calls, TokenStep(c) PROVE TokenInv'
  <2>1. CASE TokenCached(c)
    BY <1>2, <2>1 DEF TokenStep, TokenCached, Valid
  <2>2. CASE TokenRefresh(c)
    BY <1>2, <2>2 DEF TokenStep, TokenRefresh
  <2>3. CASE GotChallenge(c)
    BY <1>2, <2>3 DEF TokenStep, GotChallenge
  <2>4. CASE LoginFails(c)
    BY <1>2, <2>4 DEF TokenStep, LoginFails, LoginError
  <2>5. CASE LoginRevoked(c)
    BY <1>2, <2>5 DEF TokenStep, LoginRevoked, LoginError
  <2>6. CASE LoginReplyLost(c)
    BY <1>2, <2>6 DEF TokenStep, LoginReplyLost, LoginError
  <2>7. CASE LoginDone(c)
    BY <1>2, <2>7 DEF TokenStep, LoginDone
  <2>8. QED BY <1>2, <2>1, <2>2, <2>3, <2>4, <2>5, <2>6, <2>7 DEF TokenStep
<1>3. ASSUME NEW c \in Calls, AttemptStep(c) PROVE TokenInv'
  <2>1. CASE AuthFailed(c)
    BY <2>1 DEF AuthFailed, Finish
  <2>2. CASE Send(c)
    BY <2>2 DEF Send
  <2>3. CASE RequestFails(c)
    BY <2>3 DEF RequestFails, Finish
  <2>4. CASE ReceiveSuccess(c)
    BY <2>4 DEF ReceiveSuccess, Finish
  <2>5. CASE ReceiveError(c)
    BY <2>5 DEF ReceiveError, Finish
  <2>6. CASE ReceiveDenied(c)
    BY <2>6 DEF ReceiveDenied
  <2>7. CASE ReceiveDeniedAgain(c)
    BY <2>7 DEF ReceiveDeniedAgain, Finish
  <2>8. CASE Retry(c)
    BY <2>8 DEF Retry, Invalidate, NoSession
  <2>9. QED BY <1>3, <2>1, <2>2, <2>3, <2>4, <2>5, <2>6, <2>7, <2>8 DEF AttemptStep
<1>4. ASSUME BoxStep PROVE TokenInv'
  <2>1. ASSUME NEW c \in Calls, BoxOpensSession(c), UNCHANGED clientVars PROVE TokenInv'
    BY <2>1 DEF BoxOpensSession, NoSession
  <2>2. ASSUME NEW c \in Calls, BoxExecutes(c) PROVE TokenInv'
    BY <2>2 DEF BoxExecutes, Processed
  <2>3. ASSUME NEW c \in Calls, BoxRejects(c) PROVE TokenInv'
    BY <2>3 DEF BoxRejects, Processed
  <2>4. ASSUME NEW c \in Calls, BoxDenies(c) PROVE TokenInv'
    BY <2>4 DEF BoxDenies, Processed
  <2>5. CASE BoxDropsSessions /\ UNCHANGED clientVars
    BY <2>5 DEF BoxDropsSessions
  <2>6. CASE BoxRevokes /\ UNCHANGED clientVars
    BY <2>6 DEF BoxRevokes
  <2>7. CASE Expire /\ UNCHANGED clientVars
    BY <2>7 DEF Expire
  <2>8. QED BY <1>4, <2>1, <2>2, <2>3, <2>4, <2>5, <2>6, <2>7 DEF BoxStep
<1>5. QED BY <1>1, <1>2, <1>3, <1>4, StepCases

\* The retry invariant is kept by every step.
LEMMA RetryStep ==
    ASSUME TypeOK, LockInv, TokenInv, RetryInv, Next
    PROVE  RetryInv'
<1> USE DEF RetryInv, TokenInv, LockInv, Newer, TypeOK, LoginSteps, managerVars, boxVars,
            authVars, clientVars, Sessions
<1>1. ASSUME NEW c \in Calls, Start(c) PROVE RetryInv'
  BY <1>1 DEF Start
<1>2. ASSUME NEW c \in Calls, TokenStep(c) PROVE RetryInv'
  <2>1. CASE TokenCached(c)
    BY <1>2, <2>1 DEF TokenStep, TokenCached, Valid
  <2>2. CASE TokenRefresh(c)
    BY <1>2, <2>2 DEF TokenStep, TokenRefresh
  <2>3. CASE GotChallenge(c)
    BY <1>2, <2>3 DEF TokenStep, GotChallenge
  <2>4. CASE LoginFails(c)
    BY <1>2, <2>4 DEF TokenStep, LoginFails, LoginError
  <2>5. CASE LoginRevoked(c)
    BY <1>2, <2>5 DEF TokenStep, LoginRevoked, LoginError
  <2>6. CASE LoginReplyLost(c)
    BY <1>2, <2>6 DEF TokenStep, LoginReplyLost, LoginError
  <2>7. CASE LoginDone(c)
    BY <1>2, <2>7 DEF TokenStep, LoginDone
  <2>8. QED BY <1>2, <2>1, <2>2, <2>3, <2>4, <2>5, <2>6, <2>7 DEF TokenStep
<1>3. ASSUME NEW c \in Calls, AttemptStep(c) PROVE RetryInv'
  <2>1. CASE AuthFailed(c)
    BY <2>1 DEF AuthFailed, Finish
  <2>2. CASE Send(c)
    BY <2>2 DEF Send
  <2>3. CASE RequestFails(c)
    BY <2>3 DEF RequestFails, Finish
  <2>4. CASE ReceiveSuccess(c)
    BY <2>4 DEF ReceiveSuccess, Finish
  <2>5. CASE ReceiveError(c)
    BY <2>5 DEF ReceiveError, Finish
  <2>6. CASE ReceiveDenied(c)
    BY <2>6 DEF ReceiveDenied
  <2>7. CASE ReceiveDeniedAgain(c)
    BY <2>7 DEF ReceiveDeniedAgain, Finish
  <2>8. CASE Retry(c)
    BY <2>8 DEF Retry, Invalidate
  <2>9. QED BY <1>3, <2>1, <2>2, <2>3, <2>4, <2>5, <2>6, <2>7, <2>8 DEF AttemptStep
<1>4. ASSUME BoxStep PROVE RetryInv'
  <2>1. ASSUME NEW c \in Calls, BoxOpensSession(c), UNCHANGED clientVars PROVE RetryInv'
    BY <2>1 DEF BoxOpensSession
  <2>2. ASSUME NEW c \in Calls, BoxExecutes(c) PROVE RetryInv'
    BY <2>2 DEF BoxExecutes, Processed
  <2>3. ASSUME NEW c \in Calls, BoxRejects(c) PROVE RetryInv'
    BY <2>3 DEF BoxRejects, Processed
  <2>4. ASSUME NEW c \in Calls, BoxDenies(c) PROVE RetryInv'
    BY <2>4 DEF BoxDenies, Processed
  <2>5. CASE BoxDropsSessions /\ UNCHANGED clientVars
    BY <2>5 DEF BoxDropsSessions
  <2>6. CASE BoxRevokes /\ UNCHANGED clientVars
    BY <2>6 DEF BoxRevokes
  <2>7. CASE Expire /\ UNCHANGED clientVars
    BY <2>7 DEF Expire
  <2>8. QED BY <1>4, <2>1, <2>2, <2>3, <2>4, <2>5, <2>6, <2>7 DEF BoxStep
<1>5. QED BY <1>1, <1>2, <1>3, <1>4, StepCases

\* The execution invariant is kept by every step.
LEMMA ExecStep ==
    ASSUME TypeOK, ExecInv, Next
    PROVE  ExecInv'
<1> USE DEF ExecInv, TypeOK, LoginSteps, managerVars, boxVars, authVars, clientVars
<1>1. ASSUME NEW c \in Calls, Start(c) PROVE ExecInv'
  BY <1>1 DEF Start
<1>2. ASSUME NEW c \in Calls, TokenStep(c) PROVE ExecInv'
  <2>1. CASE TokenCached(c)
    BY <1>2, <2>1 DEF TokenStep, TokenCached
  <2>2. CASE TokenRefresh(c)
    BY <1>2, <2>2 DEF TokenStep, TokenRefresh
  <2>3. CASE GotChallenge(c)
    BY <1>2, <2>3 DEF TokenStep, GotChallenge
  <2>4. CASE LoginFails(c)
    BY <1>2, <2>4 DEF TokenStep, LoginFails, LoginError
  <2>5. CASE LoginRevoked(c)
    BY <1>2, <2>5 DEF TokenStep, LoginRevoked, LoginError
  <2>6. CASE LoginReplyLost(c)
    BY <1>2, <2>6 DEF TokenStep, LoginReplyLost, LoginError
  <2>7. CASE LoginDone(c)
    BY <1>2, <2>7 DEF TokenStep, LoginDone
  <2>8. QED BY <1>2, <2>1, <2>2, <2>3, <2>4, <2>5, <2>6, <2>7 DEF TokenStep
<1>3. ASSUME NEW c \in Calls, AttemptStep(c) PROVE ExecInv'
  <2>1. CASE AuthFailed(c)
    BY <2>1 DEF AuthFailed, Finish
  <2>2. CASE Send(c)
    BY <2>2 DEF Send
  <2>3. CASE RequestFails(c)
    BY <2>3 DEF RequestFails, Finish
  <2>4. CASE ReceiveSuccess(c)
    BY <2>4 DEF ReceiveSuccess, Finish
  <2>5. CASE ReceiveError(c)
    BY <2>5 DEF ReceiveError, Finish
  <2>6. CASE ReceiveDenied(c)
    BY <2>6 DEF ReceiveDenied
  <2>7. CASE ReceiveDeniedAgain(c)
    BY <2>7 DEF ReceiveDeniedAgain, Finish
  <2>8. CASE Retry(c)
    BY <2>8 DEF Retry, Invalidate
  <2>9. QED BY <1>3, <2>1, <2>2, <2>3, <2>4, <2>5, <2>6, <2>7, <2>8 DEF AttemptStep
<1>4. ASSUME BoxStep PROVE ExecInv'
  <2>1. ASSUME NEW c \in Calls, BoxOpensSession(c), UNCHANGED clientVars PROVE ExecInv'
    BY <2>1 DEF BoxOpensSession
  <2>2. ASSUME NEW c \in Calls, BoxExecutes(c) PROVE ExecInv'
    BY <2>2 DEF BoxExecutes, Processed
  <2>3. ASSUME NEW c \in Calls, BoxRejects(c) PROVE ExecInv'
    BY <2>3 DEF BoxRejects, Processed
  <2>4. ASSUME NEW c \in Calls, BoxDenies(c) PROVE ExecInv'
    BY <2>4 DEF BoxDenies, Processed
  <2>5. CASE BoxDropsSessions /\ UNCHANGED clientVars
    BY <2>5 DEF BoxDropsSessions
  <2>6. CASE BoxRevokes /\ UNCHANGED clientVars
    BY <2>6 DEF BoxRevokes
  <2>7. CASE Expire /\ UNCHANGED clientVars
    BY <2>7 DEF Expire
  <2>8. QED BY <1>4, <2>1, <2>2, <2>3, <2>4, <2>5, <2>6, <2>7 DEF BoxStep
<1>5. QED BY <1>1, <1>2, <1>3, <1>4, StepCases

\* The accounting of logins is kept by every step.
LEMMA CauseStep ==
    ASSUME TypeOK, LockInv, TokenInv, CauseInv, Next
    PROVE  CauseInv'
<1> USE DEF CauseInv, LockInv, Valid, TypeOK, LoginSteps, managerVars, boxVars, authVars, clientVars
<1>1. ASSUME NEW c \in Calls, Start(c) PROVE CauseInv'
  BY <1>1 DEF Start
<1>2. ASSUME NEW c \in Calls, TokenStep(c) PROVE CauseInv'
  <2>1. CASE TokenCached(c)
    BY <1>2, <2>1 DEF TokenStep, TokenCached
  <2>2. CASE TokenRefresh(c)
    BY <1>2, <2>2 DEF TokenStep, TokenRefresh
  <2>3. CASE GotChallenge(c)
    BY <1>2, <2>3 DEF TokenStep, GotChallenge
  <2>4. CASE LoginFails(c)
    BY <1>2, <2>4 DEF TokenStep, LoginFails, LoginError
  <2>5. CASE LoginRevoked(c)
    BY <1>2, <2>5 DEF TokenStep, LoginRevoked, LoginError
  <2>6. CASE LoginReplyLost(c)
    BY <1>2, <2>6 DEF TokenStep, LoginReplyLost, LoginError
  <2>7. CASE LoginDone(c)
    BY <1>2, <2>7 DEF TokenStep, LoginDone, TokenInv
  <2>8. QED BY <1>2, <2>1, <2>2, <2>3, <2>4, <2>5, <2>6, <2>7 DEF TokenStep
<1>3. ASSUME NEW c \in Calls, AttemptStep(c) PROVE CauseInv'
  <2>1. CASE AuthFailed(c)
    BY <2>1 DEF AuthFailed, Finish
  <2>2. CASE Send(c)
    BY <2>2 DEF Send
  <2>3. CASE RequestFails(c)
    BY <2>3 DEF RequestFails, Finish
  <2>4. CASE ReceiveSuccess(c)
    BY <2>4 DEF ReceiveSuccess, Finish
  <2>5. CASE ReceiveError(c)
    BY <2>5 DEF ReceiveError, Finish
  <2>6. CASE ReceiveDenied(c)
    BY <2>6 DEF ReceiveDenied
  <2>7. CASE ReceiveDeniedAgain(c)
    BY <2>7 DEF ReceiveDeniedAgain, Finish
  <2>8. CASE Retry(c)
    BY <2>8 DEF Retry, Invalidate
  <2>9. QED BY <1>3, <2>1, <2>2, <2>3, <2>4, <2>5, <2>6, <2>7, <2>8 DEF AttemptStep
<1>4. ASSUME BoxStep PROVE CauseInv'
  <2>1. ASSUME NEW c \in Calls, BoxOpensSession(c), UNCHANGED clientVars PROVE CauseInv'
    BY <2>1 DEF BoxOpensSession
  <2>2. ASSUME NEW c \in Calls, BoxExecutes(c) PROVE CauseInv'
    BY <2>2 DEF BoxExecutes, Processed
  <2>3. ASSUME NEW c \in Calls, BoxRejects(c) PROVE CauseInv'
    BY <2>3 DEF BoxRejects, Processed
  <2>4. ASSUME NEW c \in Calls, BoxDenies(c) PROVE CauseInv'
    BY <2>4 DEF BoxDenies, Processed
  <2>5. CASE BoxDropsSessions /\ UNCHANGED clientVars
    BY <2>5 DEF BoxDropsSessions
  <2>6. CASE BoxRevokes /\ UNCHANGED clientVars
    BY <2>6 DEF BoxRevokes
  <2>7. CASE Expire /\ UNCHANGED clientVars
    BY <2>7 DEF Expire
  <2>8. QED BY <1>4, <2>1, <2>2, <2>3, <2>4, <2>5, <2>6, <2>7 DEF BoxStep
<1>5. QED BY <1>1, <1>2, <1>3, <1>4, StepCases

\* What has been returned stays true of the box.
LEMMA OutcomeStep ==
    ASSUME TypeOK, ExecInv, OutcomeIsTruthful, Next
    PROVE  OutcomeIsTruthful'
<1> USE DEF OutcomeIsTruthful, NotRun, ExecInv, TypeOK, LoginSteps, managerVars, boxVars,
            authVars, clientVars
<1>1. ASSUME NEW c \in Calls, Start(c) PROVE OutcomeIsTruthful'
  BY <1>1 DEF Start
<1>2. ASSUME NEW c \in Calls, TokenStep(c) PROVE OutcomeIsTruthful'
  <2>1. CASE TokenCached(c)
    BY <1>2, <2>1 DEF TokenStep, TokenCached
  <2>2. CASE TokenRefresh(c)
    BY <1>2, <2>2 DEF TokenStep, TokenRefresh
  <2>3. CASE GotChallenge(c)
    BY <1>2, <2>3 DEF TokenStep, GotChallenge
  <2>4. CASE LoginFails(c)
    BY <1>2, <2>4 DEF TokenStep, LoginFails, LoginError
  <2>5. CASE LoginRevoked(c)
    BY <1>2, <2>5 DEF TokenStep, LoginRevoked, LoginError
  <2>6. CASE LoginReplyLost(c)
    BY <1>2, <2>6 DEF TokenStep, LoginReplyLost, LoginError
  <2>7. CASE LoginDone(c)
    BY <1>2, <2>7 DEF TokenStep, LoginDone
  <2>8. QED BY <1>2, <2>1, <2>2, <2>3, <2>4, <2>5, <2>6, <2>7 DEF TokenStep
<1>3. ASSUME NEW c \in Calls, AttemptStep(c) PROVE OutcomeIsTruthful'
  <2>1. CASE AuthFailed(c)
    BY <2>1 DEF AuthFailed, Finish
  <2>2. CASE Send(c)
    BY <2>2 DEF Send
  <2>3. CASE RequestFails(c)
    BY <2>3 DEF RequestFails, Finish
  <2>4. CASE ReceiveSuccess(c)
    BY <2>4 DEF ReceiveSuccess, Finish
  <2>5. CASE ReceiveError(c)
    BY <2>5 DEF ReceiveError, Finish
  <2>6. CASE ReceiveDenied(c)
    BY <2>6 DEF ReceiveDenied
  <2>7. CASE ReceiveDeniedAgain(c)
    BY <2>7 DEF ReceiveDeniedAgain, Finish
  <2>8. CASE Retry(c)
    BY <2>8 DEF Retry, Invalidate
  <2>9. QED BY <1>3, <2>1, <2>2, <2>3, <2>4, <2>5, <2>6, <2>7, <2>8 DEF AttemptStep
<1>4. ASSUME BoxStep PROVE OutcomeIsTruthful'
  <2>1. ASSUME NEW c \in Calls, BoxOpensSession(c), UNCHANGED clientVars PROVE OutcomeIsTruthful'
    BY <2>1 DEF BoxOpensSession
  <2>2. ASSUME NEW c \in Calls, BoxExecutes(c) PROVE OutcomeIsTruthful'
    BY <2>2 DEF BoxExecutes, Processed
  <2>3. ASSUME NEW c \in Calls, BoxRejects(c) PROVE OutcomeIsTruthful'
    BY <2>3 DEF BoxRejects, Processed
  <2>4. ASSUME NEW c \in Calls, BoxDenies(c) PROVE OutcomeIsTruthful'
    BY <2>4 DEF BoxDenies, Processed
  <2>5. CASE BoxDropsSessions /\ UNCHANGED clientVars
    BY <2>5 DEF BoxDropsSessions
  <2>6. CASE BoxRevokes /\ UNCHANGED clientVars
    BY <2>6 DEF BoxRevokes
  <2>7. CASE Expire /\ UNCHANGED clientVars
    BY <2>7 DEF Expire
  <2>8. QED BY <1>4, <2>1, <2>2, <2>3, <2>4, <2>5, <2>6, <2>7 DEF BoxStep
<1>5. QED BY <1>1, <1>2, <1>3, <1>4, StepCases

\* auth_required reaches a tool only after two losses of sessions.
LEMMA MaskStep ==
    ASSUME TypeOK, TokenInv, RetryInv, ExecInv, OneDropIsMasked, Next
    PROVE  OneDropIsMasked'
<1> USE DEF OneDropIsMasked, TokenInv, RetryInv, ExecInv, Newer, TypeOK, LoginSteps,
            managerVars, boxVars, authVars, clientVars, Sessions
<1>1. ASSUME NEW c \in Calls, Start(c) PROVE OneDropIsMasked'
  BY <1>1 DEF Start
<1>2. ASSUME NEW c \in Calls, TokenStep(c) PROVE OneDropIsMasked'
  <2>1. CASE TokenCached(c)
    BY <1>2, <2>1 DEF TokenStep, TokenCached
  <2>2. CASE TokenRefresh(c)
    BY <1>2, <2>2 DEF TokenStep, TokenRefresh
  <2>3. CASE GotChallenge(c)
    BY <1>2, <2>3 DEF TokenStep, GotChallenge
  <2>4. CASE LoginFails(c)
    BY <1>2, <2>4 DEF TokenStep, LoginFails, LoginError
  <2>5. CASE LoginRevoked(c)
    BY <1>2, <2>5 DEF TokenStep, LoginRevoked, LoginError
  <2>6. CASE LoginReplyLost(c)
    BY <1>2, <2>6 DEF TokenStep, LoginReplyLost, LoginError
  <2>7. CASE LoginDone(c)
    BY <1>2, <2>7 DEF TokenStep, LoginDone
  <2>8. QED BY <1>2, <2>1, <2>2, <2>3, <2>4, <2>5, <2>6, <2>7 DEF TokenStep
<1>3. ASSUME NEW c \in Calls, AttemptStep(c) PROVE OneDropIsMasked'
  <2>1. CASE AuthFailed(c)
    BY <2>1 DEF AuthFailed, Finish
  <2>2. CASE Send(c)
    BY <2>2 DEF Send
  <2>3. CASE RequestFails(c)
    BY <2>3 DEF RequestFails, Finish
  <2>4. CASE ReceiveSuccess(c)
    BY <2>4 DEF ReceiveSuccess, Finish
  <2>5. CASE ReceiveError(c)
    BY <2>5 DEF ReceiveError, Finish
  <2>6. CASE ReceiveDenied(c)
    BY <2>6 DEF ReceiveDenied
  <2>7. CASE ReceiveDeniedAgain(c)
    BY <2>7 DEF ReceiveDeniedAgain, Finish
  <2>8. CASE Retry(c)
    BY <2>8 DEF Retry, Invalidate
  <2>9. QED BY <1>3, <2>1, <2>2, <2>3, <2>4, <2>5, <2>6, <2>7, <2>8 DEF AttemptStep
<1>4. ASSUME BoxStep PROVE OneDropIsMasked'
  <2>1. ASSUME NEW c \in Calls, BoxOpensSession(c), UNCHANGED clientVars PROVE OneDropIsMasked'
    BY <2>1 DEF BoxOpensSession
  <2>2. ASSUME NEW c \in Calls, BoxExecutes(c) PROVE OneDropIsMasked'
    BY <2>2 DEF BoxExecutes, Processed
  <2>3. ASSUME NEW c \in Calls, BoxRejects(c) PROVE OneDropIsMasked'
    BY <2>3 DEF BoxRejects, Processed
  <2>4. ASSUME NEW c \in Calls, BoxDenies(c) PROVE OneDropIsMasked'
    BY <2>4 DEF BoxDenies, Processed
  <2>5. CASE BoxDropsSessions /\ UNCHANGED clientVars
    BY <2>5 DEF BoxDropsSessions
  <2>6. CASE BoxRevokes /\ UNCHANGED clientVars
    BY <2>6 DEF BoxRevokes
  <2>7. CASE Expire /\ UNCHANGED clientVars
    BY <2>7 DEF Expire
  <2>8. QED BY <1>4, <2>1, <2>2, <2>3, <2>4, <2>5, <2>6, <2>7 DEF BoxStep
<1>5. QED BY <1>1, <1>2, <1>3, <1>4, StepCases

-----------------------------------------------------------------------------
(* The theorems                                                            *)

\* Type correctness and the parts above form an inductive invariant.
THEOREM InductiveInvariant == SafeSpec => []IInv
<1>1. Init => IInv
  <2> SUFFICES ASSUME Init PROVE IInv
    OBVIOUS
  <2>1. TypeOK
    BY InitTypes
  <2> USE DEF Init, AuthInit, LoginSteps
  <2>2. LockInv /\ CauseInv
    BY DEF LockInv, CauseInv, Valid
  <2>3. TokenInv
    BY DEF TokenInv, NoSession
  <2>4. RetryInv /\ ExecInv
    BY DEF RetryInv, ExecInv
  <2>5. OutcomeIsTruthful /\ OneDropIsMasked
    BY DEF OutcomeIsTruthful, OneDropIsMasked, NotRun
  <2>6. QED BY <2>1, <2>2, <2>3, <2>4, <2>5 DEF IInv
<1>2. IInv /\ [Next]_vars => IInv'
  <2>1. ASSUME IInv, Next PROVE IInv'
    BY <2>1, TypeStep, LockStep, TokenStepInv, RetryStep, ExecStep, CauseStep,
       OutcomeStep, MaskStep DEF IInv
  <2>2. ASSUME IInv, UNCHANGED vars PROVE IInv'
    BY <2>2 DEF IInv, TypeOK, LockInv, TokenInv, RetryInv, ExecInv, CauseInv, Valid,
       OutcomeIsTruthful, OneDropIsMasked, vars, authVars, managerVars, boxVars,
       clientVars
  <2>3. QED BY <2>1, <2>2
<1>3. QED BY <1>1, <1>2, PTL DEF SafeSpec

\* The box runs the operation of a call at most once, for any number of calls,
\* losses of sessions, expiries and lost messages.
THEOREM CallsRunAtMostOnce == SafeSpec => []AtMostOnce
<1>1. IInv => AtMostOnce
  BY DEF IInv, ExecInv, AtMostOnce
<1>2. QED BY <1>1, InductiveInvariant, PTL

\* What a call returned is true of the box then and ever after.
THEOREM OutcomesAreTruthful == SafeSpec => []OutcomeIsTruthful
<1>1. IInv => OutcomeIsTruthful
  BY DEF IInv
<1>2. QED BY <1>1, InductiveInvariant, PTL

\* Invalidate followed by Token never yields the refused session nor an older one.
THEOREM RetriesUseNewerSessions == SafeSpec => []RetryUsesNewerSession
<1>1. IInv => RetryUsesNewerSession
  BY DEF IInv, RetryInv, Newer, RetryUsesNewerSession
<1>2. QED BY <1>1, InductiveInvariant, PTL

\* One loss of sessions on the box is never seen by a tool call.
THEOREM OneDropNeverSurfaces == SafeSpec => []OneDropIsMasked
<1>1. IInv => OneDropIsMasked
  BY DEF IInv
<1>2. QED BY <1>1, InductiveInvariant, PTL

\* However many calls find the cache empty together, logins stay accounted for.
THEOREM LoginsStayCaused == SafeSpec => []LoginsAreCaused
<1>1. IInv => LoginsAreCaused
  BY DEF IInv, TypeOK, CauseInv, LoginsAreCaused
<1>2. QED BY <1>1, InductiveInvariant, PTL

-----------------------------------------------------------------------------
(* The refinement of RemoteCall                                            *)

\* Nothing has been called: the abstract calls are idle and have not run.
LEMMA InitRefines == Init => RC!Init
<1> SUFFICES ASSUME Init PROVE RC!Init
  OBVIOUS
<1>1. \A c \in Calls : StatusOf(c) = "idle"
  BY DEF Init, AuthInit, StatusOf
<1>2. QED BY <1>1 DEF RC!Init, Init

\* A step that keeps every status and runs nothing is a stutter of RemoteCall.
LEMMA Stutters ==
    ASSUME UNCHANGED executed, \A c \in Calls : StatusOf(c)' = StatusOf(c)
    PROVE  UNCHANGED RC!rcVars
  BY DEF RC!rcVars

\* A step that changes one call's status changes the mapped function there only.
LEMMA StatusChanges ==
    ASSUME NEW c \in Calls, \A d \in Calls \ {c} : StatusOf(d)' = StatusOf(d)
    PROVE  [d \in Calls |-> StatusOf(d)]'
             = [[d \in Calls |-> StatusOf(d)] EXCEPT ![c] = StatusOf(c)']
  OBVIOUS

\* A login is invisible: the call it belongs to stays pending.
LEMMA TokenStepStutters ==
    ASSUME TypeOK, ExecInv, NEW c \in Calls, TokenStep(c)
    PROVE  UNCHANGED RC!rcVars
<1>1. pc[c] \notin {"idle", "done"} /\ pc'[c] \notin {"idle", "done"}
  BY DEF TokenStep, TokenCached, TokenRefresh, GotChallenge, LoginFails, LoginRevoked,
         LoginReplyLost, LoginError, LoginDone, TypeOK
<1>2. /\ \A d \in Calls \ {c} : pc'[d] = pc[d]
      /\ outcome' = outcome /\ executed' = executed
  BY DEF TokenStep, TokenCached, TokenRefresh, GotChallenge, LoginFails, LoginRevoked,
         LoginReplyLost, LoginError, LoginDone, TypeOK, clientVars
<1>3. \A d \in Calls : StatusOf(d)' = StatusOf(d)
  BY <1>1, <1>2 DEF StatusOf
<1>4. QED BY <1>2, <1>3, Stutters

\* A call that returns gives an answer RemoteCall allows.
LEMMA FinishReturns ==
    ASSUME TypeOK, ExecInv, OutcomeIsTruthful', NEW c \in Calls, UNCHANGED executed,
           pc[c] \notin {"idle", "done"},
           NEW result \in Outcomes \ {"none"}, Finish(c, result)
    PROVE  RC!Return(c)
<1> DEFINE answer == StatusOf(c)'
<1>1. pc'[c] = "done" /\ outcome'[c] = result
  BY DEF Finish, TypeOK
<1>2. /\ StatusOf(c) = "pending"
      /\ answer \in RC!Answers
      /\ answer = "ok" <=> result = "ok"
      /\ answer = "refused" <=> result \in NotRun
  BY <1>1 DEF StatusOf, RC!Answers, NotRun, Outcomes, Finish, TypeOK
<1>3. /\ answer = "ok" => executed[c] = 1
      /\ answer = "refused" => executed[c] = 0
  BY <1>1, <1>2 DEF OutcomeIsTruthful
<1>4. [d \in Calls |-> StatusOf(d)]' = [[d \in Calls |-> StatusOf(d)] EXCEPT ![c] = answer]
  <2>1. \A d \in Calls \ {c} : pc'[d] = pc[d] /\ outcome'[d] = outcome[d]
    BY DEF Finish, TypeOK
  <2>2. \A d \in Calls \ {c} : StatusOf(d)' = StatusOf(d)
    BY <2>1 DEF StatusOf
  <2>3. QED BY <2>2, StatusChanges
<1>5. RC!Answer(c, answer)
  BY <1>2, <1>3, <1>4 DEF RC!Answer
<1>6. QED BY <1>2, <1>5 DEF RC!Return

\* An attempt stays pending until the call returns.
LEMMA AttemptStepRefines ==
    ASSUME TypeOK, ExecInv, OutcomeIsTruthful', NEW c \in Calls, AttemptStep(c)
    PROVE  RC!Return(c) \/ UNCHANGED RC!rcVars
<1>1. CASE AuthFailed(c)
  BY <1>1, FinishReturns DEF AuthFailed, Outcomes
<1>2. CASE RequestFails(c)
  BY <1>2, FinishReturns DEF RequestFails, Outcomes
<1>3. CASE ReceiveSuccess(c)
  BY <1>3, FinishReturns DEF ReceiveSuccess, Outcomes
<1>4. CASE ReceiveError(c)
  BY <1>4, FinishReturns DEF ReceiveError, Outcomes
<1>5. CASE ReceiveDeniedAgain(c)
  BY <1>5, FinishReturns DEF ReceiveDeniedAgain, Outcomes
<1>6. CASE Send(c) \/ ReceiveDenied(c) \/ Retry(c)
  <2>1. pc[c] \notin {"idle", "done"} /\ pc'[c] \notin {"idle", "done"}
    BY <1>6 DEF Send, ReceiveDenied, Retry, Invalidate, TypeOK
  <2>2. /\ \A d \in Calls \ {c} : pc'[d] = pc[d]
        /\ outcome' = outcome /\ executed' = executed
    BY <1>6 DEF Send, ReceiveDenied, Retry, Invalidate, TypeOK
  <2>3. \A d \in Calls : StatusOf(d)' = StatusOf(d)
    BY <2>1, <2>2 DEF StatusOf
  <2>4. QED BY <2>2, <2>3, Stutters
<1>7. QED BY <1>1, <1>2, <1>3, <1>4, <1>5, <1>6 DEF AttemptStep

\* The box runs an operation whose caller waits, or gave up with a network error.
LEMMA BoxStepRefines ==
    ASSUME TypeOK, ExecInv, OutcomeIsTruthful, BoxStep
    PROVE  (\E c \in Calls : RC!Run(c)) \/ UNCHANGED RC!rcVars
<1>1. ASSUME NEW c \in Calls, BoxExecutes(c) PROVE RC!Run(c)
  <2> req[c]
    BY <1>1 DEF BoxExecutes, Processed
  <2>1. pc' = pc /\ outcome' = outcome /\ executed' = [executed EXCEPT ![c] = 1]
    <3>1. executed[c] = 0
      BY DEF ExecInv
    <3>2. QED BY <1>1, <3>1 DEF BoxExecutes, Processed, authVars
  <2>2. UNCHANGED [d \in Calls |-> StatusOf(d)]
    BY <2>1 DEF StatusOf
  <2>3. StatusOf(c) \in {"pending", "unknown"} /\ executed[c] = 0
    BY <1>1 DEF BoxExecutes, Processed, StatusOf, TypeOK, PCs, Outcomes, NotRun, ExecInv,
                OutcomeIsTruthful
  <2>4. QED BY <2>1, <2>2, <2>3 DEF RC!Run
<1>2. ASSUME NEW c \in Calls, BoxOpensSession(c), UNCHANGED clientVars
      PROVE UNCHANGED RC!rcVars
  <2>1. \A d \in Calls : StatusOf(d)' = StatusOf(d)
    BY <1>2 DEF BoxOpensSession, StatusOf, TypeOK, clientVars
  <2>2. QED BY <1>2, <2>1, Stutters DEF clientVars
<1>3. CASE \/ \E c \in Calls : BoxRejects(c) \/ BoxDenies(c)
           \/ BoxDropsSessions /\ UNCHANGED clientVars
           \/ BoxRevokes /\ UNCHANGED clientVars
           \/ Expire /\ UNCHANGED clientVars
  <2>1. pc' = pc /\ outcome' = outcome /\ executed' = executed
    BY <1>3 DEF BoxRejects, BoxDenies, Processed, authVars, BoxDropsSessions, BoxRevokes,
                Expire, clientVars
  <2>2. \A d \in Calls : StatusOf(d)' = StatusOf(d)
    BY <2>1 DEF StatusOf
  <2>3. QED BY <2>1, <2>2, Stutters
<1>4. QED BY <1>1, <1>2, <1>3 DEF BoxStep

\* The HTTP client with its session cache, login mutex and retry implements the
\* at-most-once remote call, for any number of concurrent calls.
THEOREM ClientRefinesRemoteCall == SafeSpec => RC!SafeSpec
<1>1. IInv /\ IInv' /\ [Next]_vars => [RC!Next]_(RC!rcVars)
  <2> SUFFICES ASSUME IInv, IInv', [Next]_vars PROVE [RC!Next]_(RC!rcVars)
    OBVIOUS
  <2>1. TypeOK /\ ExecInv /\ OutcomeIsTruthful /\ OutcomeIsTruthful'
    BY DEF IInv
  <2>2. ASSUME NEW c \in Calls, Start(c) PROVE RC!Begin(c)
    <3>1. pc[c] = "idle" /\ pc'[c] = "token"
      BY <2>1, <2>2 DEF Start, TypeOK
    <3>2. \A d \in Calls \ {c} : pc'[d] = pc[d] /\ outcome'[d] = outcome[d]
      BY <2>1, <2>2 DEF Start, TypeOK
    <3>3. \A d \in Calls \ {c} : StatusOf(d)' = StatusOf(d)
      BY <3>2 DEF StatusOf
    <3>4. StatusOf(c) = "idle" /\ StatusOf(c)' = "pending"
      BY <3>1 DEF StatusOf
    <3>5. QED BY <2>2, <3>3, <3>4, StatusChanges DEF RC!Begin, Start
  <2>3. CASE UNCHANGED vars
    <3>1. pc' = pc /\ outcome' = outcome /\ executed' = executed
      BY <2>3 DEF vars, authVars, clientVars
    <3>2. QED BY <3>1, Stutters DEF StatusOf
  <2>4. CASE Next
    BY <2>1, <2>2, <2>4, StepCases, TokenStepStutters, AttemptStepRefines, BoxStepRefines
    DEF RC!Next
  <2>5. QED BY <2>3, <2>4
<1>2. QED BY <1>1, InitRefines, InductiveInvariant, PTL DEF SafeSpec, RC!SafeSpec
=============================================================================
