------------------------------- MODULE Startup -------------------------------
(***************************************************************************)
(* cmd/freebox-mcp, cmd/freebox-pair, internal/pair and internal/wincred:  *)
(* how a server process gets its app token and when its tools work.        *)
(*                                                                         *)
(* A process looks for a token (Credential Manager, then the environment), *)
(* and otherwise pairs in the background while lazyClient answers          *)
(* errPairing.  Several processes can run at once: an MCP host starts its  *)
(* own.  They share the credential store and the box.  freebox-pair pairs  *)
(* in the foreground and prints the app token, which the user may put into *)
(* FREEBOX_APP_TOKEN, and pair-and-save.ps1 into the credential store.     *)
(* Time is counted in ticks of a pairing's wait.                           *)
(***************************************************************************)
EXTENDS Integers

CONSTANTS
    Procs,         \* processes
    Commands,      \* those that run freebox-pair; the others are servers
    HasStore,      \* wincred stores credentials: Windows, FALSE elsewhere
    PairTimeout,   \* pairTimeout of a server, in ticks
    CommandTimeout,\* that of freebox-pair
    PollPause,     \* the sleep between two polls, in ticks
    MaxTokens,     \* bound: app tokens the box creates
    MaxExits,      \* bound: process exits
    Faults         \* kinds of operations that may fail, any number of times

NoToken == 0
Tokens == 1..MaxTokens

\* A text that is no app token of this box: one of an earlier box, or a slip.
Foreign == MaxTokens + 1

\* An exchange with the box, and CredReadW, CredDeleteW and CredWriteW.
FaultKinds == {"net", "read", "delete", "write"}

ASSUME StartupAssumption ==
    /\ HasStore \in BOOLEAN /\ Commands \subseteq Procs
    /\ MaxTokens \in Nat \ {0}
    /\ PairTimeout \in Nat /\ CommandTimeout \in Nat /\ PollPause \in Nat \ {0}
    /\ MaxExits \in Nat /\ Faults \subseteq FaultKinds

VARIABLES
    phase,    \* where each process's main or pairing goroutine is
    cur,      \* the app token that goroutine holds
    elapsed,  \* ticks since WaitForGrant began
    nap,      \* ticks left of the current sleep
    client,   \* lazyClient.real: the app token of the installed client
    env,      \* FREEBOX_APP_TOKEN in each process's environment
    answer,   \* what the last tool call of each process returned
    store,    \* the credential under credTarget
    status,   \* box: the status of each app token
    created,  \* box: how many app tokens it has created
    exits,
    faults    \* kinds of operations, but for CredDeleteW, that have failed

procVars == <<phase, cur, elapsed, nap, client, env, answer>>
boxVars == <<status, created>>
vars == <<procVars, store, boxVars, exits, faults>>

\* pairing: the goroutine of main is running; failed: it has returned.
Pairing == {"starting", "polling", "sleeping", "granted", "saved"}
Failed == {"failed", "timedOut"}
Phases == {"off", "validating", "env", "ready", "asking", "confirming", "done", "pasted", "quit"}
            \cup Pairing \cup Failed

Servers == Procs \ Commands
Patience(p) == IF p \in Commands THEN CommandTimeout ELSE PairTimeout

\* RegisterAll and ServeStdio are reached once a token is installed or the
\* pairing goroutine is started.
Serving(p) == p \in Servers /\ phase[p] \in {"ready"} \cup Pairing \cup Failed

\* An earlier run of the server may have left an approved token in the store.
Init ==
    /\ phase = [p \in Procs |-> "off"]
    /\ cur = [p \in Procs |-> NoToken]
    /\ elapsed = [p \in Procs |-> 0]
    /\ nap = [p \in Procs |-> 0]
    /\ client = [p \in Procs |-> NoToken]
    /\ env = [p \in Procs |-> NoToken]
    /\ answer = [p \in Procs |-> "none"]
    /\ store \in IF HasStore THEN {NoToken, 1} ELSE {NoToken}
    /\ created = store
    /\ status = [t \in Tokens |-> IF t = store THEN "granted" ELSE "none"]
    /\ exits = 0
    /\ faults = {}

Goto(p, ph) == phase' = [phase EXCEPT ![p] = ph]

Fails(kind) ==
    /\ kind \in Faults
    /\ faults' = faults \cup {kind}

\* The locals of a function that returns.
Forget(p) ==
    /\ cur' = [cur EXCEPT ![p] = NoToken]
    /\ elapsed' = [elapsed EXCEPT ![p] = 0]
    /\ nap' = [nap EXCEPT ![p] = 0]

\* lazyClient.setClient(newClient(...)).
SetClient(p, t) ==
    /\ client' = [client EXCEPT ![p] = t]
    /\ Goto(p, "ready")

-----------------------------------------------------------------------------
(* tryExistingToken                                                        *)

\* The box still accepts this app token.
Accepted(t) == t \in Tokens /\ status[t] = "granted"

\* What runs of freebox-pair have printed, and what pair-and-save.ps1 has stored.
Printed == {cur[f] : f \in {g \in Commands : phase[g] = "done"}}
Pasted == {cur[f] : f \in {g \in Commands : phase[g] = "pasted"}}

\* The environment a server is started with: FREEBOX_APP_TOKEN is any text, among
\* them the credential, which load-token.ps1 reads.
SetEnv(p) ==
    \E e \in {NoToken, Foreign, store} \cup Printed \cup Pasted : env' = [env EXCEPT ![p] = e]

\* wincred.Read finds a credential, or finds none and always fails where there is
\* no credential store.
Launch(p) ==
    /\ p \in Servers /\ phase[p] = "off"
    /\ IF HasStore /\ store # NoToken
         THEN Goto(p, "validating") /\ cur' = [cur EXCEPT ![p] = store]
         ELSE Goto(p, "env") /\ UNCHANGED cur
    /\ SetEnv(p)
    /\ UNCHANGED <<elapsed, nap, client, answer, store, boxVars, exits, faults>>

\* CredReadW fails on a credential that is there: tryExistingToken goes on as if
\* there were none.
ReadFails(p) ==
    /\ p \in Servers /\ phase[p] = "off"
    /\ HasStore /\ store # NoToken
    /\ Fails("read")
    /\ Goto(p, "env")
    /\ SetEnv(p)
    /\ UNCHANGED <<cur, elapsed, nap, client, answer, store, boxVars, exits>>

\* validateToken succeeds.
TokenValid(p) ==
    /\ phase[p] = "validating"
    /\ Accepted(cur[p])
    /\ SetClient(p, cur[p])
    /\ Forget(p)
    /\ UNCHANGED <<env, answer, store, boxVars, exits, faults>>

\* Faulty variant: any validation error deletes the credential.
TokenUnverifiedDeleted(p) ==
    /\ phase[p] = "validating"
    /\ Fails("net")
    /\ store' = NoToken
    /\ Goto(p, "env")
    /\ Forget(p)
    /\ UNCHANGED <<client, env, answer, boxVars, exits>>

\* Faulty variant: a credential that cannot be validated is passed over.
TokenUnverifiedSkipped(p) ==
    /\ phase[p] = "validating"
    /\ Fails("net")
    /\ Goto(p, "env")
    /\ Forget(p)
    /\ UNCHANGED <<client, env, answer, store, boxVars, exits>>

\* Any other error: the token is trusted.
TokenUnverified(p) ==
    /\ phase[p] = "validating"
    /\ Fails("net")
    /\ SetClient(p, cur[p])
    /\ Forget(p)
    /\ UNCHANGED <<env, answer, store, boxVars, exits>>

\* ErrTokenRevoked: wincred.Delete removes what the store holds by now, or fails,
\* which is ignored.
TokenRevoked(p) ==
    /\ phase[p] = "validating"
    /\ ~Accepted(cur[p])
    /\ store' = NoToken \/ ("delete" \in Faults /\ UNCHANGED store)
    /\ Goto(p, "env")
    /\ Forget(p)
    /\ UNCHANGED <<client, env, answer, boxVars, exits, faults>>

\* FREEBOX_APP_TOKEN is taken as it is.
UseEnvToken(p) ==
    /\ phase[p] = "env"
    /\ env[p] # NoToken
    /\ SetClient(p, env[p])
    /\ UNCHANGED <<cur, elapsed, nap, env, answer, store, boxVars, exits, faults>>

StartPairing(p) ==
    /\ phase[p] = "env"
    /\ env[p] = NoToken
    /\ Goto(p, "starting")
    /\ UNCHANGED <<cur, elapsed, nap, client, env, answer, store, boxVars, exits, faults>>

-----------------------------------------------------------------------------
(* autoPair: pair.Start, pair.WaitForGrant, wincred.Write                  *)

\* The box answers /login/authorize/ with a new, pending app token.
PairStart(p) ==
    /\ phase[p] = "starting"
    /\ created < MaxTokens
    /\ created' = created + 1
    /\ status' = [status EXCEPT ![created + 1] = "pending"]
    /\ cur' = [cur EXCEPT ![p] = created + 1]
    /\ elapsed' = [elapsed EXCEPT ![p] = 0]
    /\ Goto(p, IF p \in Commands THEN "confirming" ELSE "polling")
    /\ UNCHANGED <<nap, client, env, answer, store, exits, faults>>

\* The request or its answer is lost, or the box refuses it.  In the second
\* case a request stays pending on the box that no process follows.
PairStartFails(p) ==
    /\ phase[p] = "starting"
    /\ Fails("net")
    /\ \/ UNCHANGED <<status, created>>
       \/ /\ created < MaxTokens
          /\ created' = created + 1
          /\ status' = [status EXCEPT ![created + 1] = "pending"]
    /\ Goto(p, "failed")
    /\ UNCHANGED <<cur, elapsed, nap, client, env, answer, store, exits>>

\* One turn of the loop reads the status of the request.
PollGranted(p) ==
    /\ phase[p] = "polling"
    /\ elapsed[p] < Patience(p)
    /\ status[cur[p]] = "granted"
    /\ Goto(p, "granted")
    /\ elapsed' = [elapsed EXCEPT ![p] = 0]
    /\ UNCHANGED <<cur, nap, client, env, answer, store, boxVars, exits, faults>>

\* "denied" or "timeout" ends the wait.
PollRefused(p) ==
    /\ phase[p] = "polling"
    /\ elapsed[p] < Patience(p)
    /\ status[cur[p]] = "refused"
    /\ Goto(p, "failed")
    /\ Forget(p)
    /\ UNCHANGED <<client, env, answer, store, boxVars, exits, faults>>

\* Faulty variant: an unanswered request is taken for an approved one.
PollPendingGranted(p) ==
    /\ phase[p] = "polling"
    /\ elapsed[p] < Patience(p)
    /\ status[cur[p]] \in {"pending", "revoked"}
    /\ Goto(p, "granted")
    /\ elapsed' = [elapsed EXCEPT ![p] = 0]
    /\ UNCHANGED <<cur, nap, client, env, answer, store, boxVars, exits, faults>>

\* Any other status: time.Sleep.
PollPending(p) ==
    /\ phase[p] = "polling"
    /\ elapsed[p] < Patience(p)
    /\ status[cur[p]] \in {"pending", "revoked"}
    /\ nap' = [nap EXCEPT ![p] = PollPause]
    /\ Goto(p, "sleeping")
    /\ UNCHANGED <<cur, elapsed, client, env, answer, store, boxVars, exits, faults>>

\* One failed poll ends the pairing.
PollFails(p) ==
    /\ phase[p] = "polling"
    /\ elapsed[p] < Patience(p)
    /\ Fails("net")
    /\ Goto(p, "failed")
    /\ Forget(p)
    /\ UNCHANGED <<client, env, answer, store, boxVars, exits>>

\* Time passes in the sleep, after which the loop's condition is evaluated.
Sleep(p) ==
    /\ phase[p] = "sleeping"
    /\ elapsed' = [elapsed EXCEPT ![p] = @ + 1]
    /\ nap' = [nap EXCEPT ![p] = @ - 1]
    /\ IF nap[p] = 1 THEN Goto(p, "polling") ELSE UNCHANGED phase
    /\ UNCHANGED <<cur, client, env, answer, store, boxVars, exits, faults>>

\* Faulty variant: the loop never looks at its deadline.
PairTimeoutIgnored(p) ==
    /\ phase[p] = "polling"
    /\ elapsed[p] >= Patience(p)
    /\ nap' = [nap EXCEPT ![p] = 1]
    /\ elapsed' = [elapsed EXCEPT ![p] = Patience(p) - 1]
    /\ Goto(p, "sleeping")
    /\ UNCHANGED <<cur, client, env, answer, store, boxVars, exits, faults>>

\* The deadline is only looked at before a poll.
PairTimesOut(p) ==
    /\ phase[p] = "polling"
    /\ elapsed[p] >= Patience(p)
    /\ Goto(p, "timedOut")
    /\ Forget(p)
    /\ UNCHANGED <<client, env, answer, store, boxVars, exits, faults>>

\* Faulty variant: the token is only kept in memory.
SaveTokenForgotten(p) ==
    /\ p \in Servers /\ phase[p] = "granted"
    /\ Goto(p, "saved")
    /\ UNCHANGED <<cur, elapsed, nap, client, env, answer, store, boxVars, exits, faults>>

\* wincred.Write: a no-op that succeeds where there is no store; a failure is
\* logged and the pairing goes on.
SaveToken(p) ==
    /\ p \in Servers /\ phase[p] = "granted"
    /\ store' = IF HasStore THEN cur[p] ELSE store
    /\ Goto(p, "saved")
    /\ UNCHANGED <<cur, elapsed, nap, client, env, answer, boxVars, exits, faults>>

SaveFails(p) ==
    /\ p \in Servers /\ phase[p] = "granted"
    /\ HasStore
    /\ Fails("write")
    /\ Goto(p, "saved")
    /\ UNCHANGED <<cur, elapsed, nap, client, env, answer, store, boxVars, exits>>

\* Faulty variant: the goroutine returns without installing the client.
InstallForgotten(p) ==
    /\ phase[p] = "saved"
    /\ Goto(p, "failed")
    /\ Forget(p)
    /\ UNCHANGED <<client, env, answer, store, boxVars, exits, faults>>

Install(p) ==
    /\ phase[p] = "saved"
    /\ SetClient(p, cur[p])
    /\ Forget(p)
    /\ UNCHANGED <<env, answer, store, boxVars, exits, faults>>

-----------------------------------------------------------------------------
(* freebox-pair: two questions around pair.Start, and the token on stdout  *)

LaunchCommand(p) ==
    /\ p \in Commands /\ phase[p] = "off"
    /\ Goto(p, "asking")
    /\ UNCHANGED <<cur, elapsed, nap, client, env, answer, store, boxVars, exits, faults>>

\* The user says yes, as late as may be: the wait of WaitForGrant begins after it.
Confirm(p) ==
    /\ phase[p] \in {"asking", "confirming"}
    /\ Goto(p, IF phase[p] = "asking" THEN "starting" ELSE "polling")
    /\ UNCHANGED <<cur, elapsed, nap, client, env, answer, store, boxVars, exits, faults>>

\* Any other answer, or an interrupt at any time, ends the command; a request it
\* has made stays pending on the box.  Running it again is another process.
Quit(p) ==
    /\ p \in Commands /\ phase[p] \in {"asking", "confirming"} \cup Pairing
    /\ Goto(p, "quit")
    /\ Forget(p)
    /\ UNCHANGED <<client, env, answer, store, boxVars, exits, faults>>

\* The token is printed, and saved nowhere.
PrintToken(p) ==
    /\ p \in Commands /\ phase[p] = "granted"
    /\ Goto(p, "done")
    /\ UNCHANGED <<cur, elapsed, nap, client, env, answer, store, boxVars, exits, faults>>

\* pair-and-save.ps1 has run freebox-pair and asks for the token, of which only the
\* length is looked at; cmdkey replaces whatever credential there is.
StorePasted(p) ==
    /\ p \in Commands /\ phase[p] = "done"
    /\ HasStore
    /\ \E t \in {cur[p], Foreign} :
         /\ cur' = [cur EXCEPT ![p] = t]
         /\ store' = t
    /\ Goto(p, "pasted")
    /\ UNCHANGED <<elapsed, nap, client, env, answer, boxVars, exits, faults>>

-----------------------------------------------------------------------------
(* Tool calls, and the end of a process                                    *)

\* lazyClient.get, then a call made under the installed app token.
ToolReply(p) ==
    CASE client[p] = NoToken -> "errPairing"
      [] Accepted(client[p]) -> "ok"
      [] OTHER -> "revoked"

ToolCall(p) ==
    /\ Serving(p)
    /\ answer' = [answer EXCEPT ![p] = ToolReply(p)]
    /\ UNCHANGED <<phase, cur, elapsed, nap, client, env, store, boxVars, exits, faults>>

\* The host closes stdin, or the process is killed: memory is lost.  ServeStdio
\* never returns ErrTokenRevoked: a tool's error travels in its result.
Exit(p) ==
    /\ p \in Servers /\ phase[p] # "off"
    /\ exits < MaxExits
    /\ exits' = exits + 1
    /\ Goto(p, "off")
    /\ Forget(p)
    /\ client' = [client EXCEPT ![p] = NoToken]
    /\ env' = [env EXCEPT ![p] = NoToken]
    /\ answer' = [answer EXCEPT ![p] = "none"]
    /\ UNCHANGED <<store, boxVars, faults>>

-----------------------------------------------------------------------------
(* The user in front of the box                                            *)

UserGrants(t) ==
    /\ status[t] = "pending"
    /\ status' = [status EXCEPT ![t] = "granted"]
    /\ UNCHANGED <<procVars, store, created, exits, faults>>

\* "denied" by the user or, unanswered for too long, "timeout".
UserRefuses(t) ==
    /\ status[t] = "pending"
    /\ status' = [status EXCEPT ![t] = "refused"]
    /\ UNCHANGED <<procVars, store, created, exits, faults>>

UserRevokes(t) ==
    /\ status[t] = "granted"
    /\ status' = [status EXCEPT ![t] = "revoked"]
    /\ UNCHANGED <<procVars, store, created, exits, faults>>

-----------------------------------------------------------------------------

MainStep(p) ==
    \/ Launch(p) \/ ReadFails(p) \/ TokenValid(p) \/ TokenUnverified(p) \/ TokenRevoked(p)
    \/ UseEnvToken(p) \/ StartPairing(p)

PairStep(p) ==
    \/ PairStart(p) \/ PairStartFails(p) \/ PollGranted(p) \/ PollRefused(p)
    \/ PollPending(p) \/ PollFails(p) \/ Sleep(p) \/ PairTimesOut(p)
    \/ SaveToken(p) \/ SaveFails(p) \/ Install(p) \/ PrintToken(p)

Prompts(p) == LaunchCommand(p) \/ Confirm(p) \/ Quit(p) \/ StorePasted(p)

Next ==
    \/ \E p \in Procs : MainStep(p) \/ PairStep(p) \/ Prompts(p) \/ ToolCall(p) \/ Exit(p)
    \/ \E t \in Tokens : UserGrants(t) \/ UserRefuses(t) \/ UserRevokes(t)

SafeSpec == Init /\ [][Next]_vars

\* main and the pairing goroutine run, and http.Client.Timeout ends their
\* exchanges; the host calls tools again and again.  The user owes nothing.
Spec ==
    /\ SafeSpec
    /\ \A p \in Procs : WF_vars(MainStep(p)) /\ WF_vars(PairStep(p)) /\ WF_vars(ToolCall(p))
-----------------------------------------------------------------------------
(* Properties                                                              *)

\* Types of the processes' and the box's state.
TypeOK ==
    /\ phase \in [Procs -> Phases]
    /\ cur \in [Procs -> 0..Foreign]
    /\ elapsed \in [Procs -> Nat] /\ nap \in [Procs -> 0..PollPause]
    /\ client \in [Procs -> 0..Foreign] /\ env \in [Procs -> 0..Foreign]
    /\ answer \in [Procs -> {"none", "errPairing", "ok", "revoked"}]
    /\ store \in 0..Foreign
    /\ status \in [Tokens -> {"none", "pending", "granted", "refused", "revoked"}]
    /\ created \in 0..MaxTokens
    /\ exits \in Nat /\ faults \subseteq FaultKinds \ {"delete"}

\* No app token of the box that the user has not approved is stored, used by a
\* client or printed, whatever requests earlier processes left on the box.
OnlyGrantedTokens ==
    \A t \in {store} \cup Printed \cup {client[p] : p \in Procs} :
        t \in Tokens => status[t] \in {"granted", "revoked"}

\* "token revoque cote Freebox - suppression" (main.go:199): a server removes only
\* a credential that the box has refused to it, not one it could not ask about;
\* or what pair-and-save.ps1 has stored while it asked (one server).
DeletesOnlyRefusedTokens ==
    [][store # NoToken /\ store' = NoToken =>
         \E p \in Servers : /\ phase[p] = "validating" /\ ~Accepted(cur[p])
                            /\ store \in {cur[p]} \cup Pasted]_vars

\* As long as CredReadW works, a server turns to FREEBOX_APP_TOKEN or asks the user
\* for a new approval, which will replace the credential, only when the box accepts
\* no stored one, even if the refused credential could not be deleted; but for what
\* pair-and-save.ps1 stores after it has looked (one server).
AcceptedTokenComesFirst ==
    \A p \in Servers :
        phase[p] \in ({"env"} \cup Pairing) \ {"saved"} /\ "read" \notin faults =>
            ~Accepted(store) \/ store \in Pasted

\* What a pairing obtained outlives its process: the app token of a running
\* client, unless it comes from the environment, is the one a restart will find,
\* or pair-and-save.ps1 has stored another (one server, where credentials are stored
\* and CredWriteW has not failed).
ClientTokenIsStored ==
    \A p \in Procs :
        client[p] \notin {NoToken, env[p]} /\ HasStore /\ "write" \notin faults =>
            store \in {client[p]} \cup Pasted

\* "errPairing is returned by lazyClient when auto-pairing is in progress"
\* (main.go:39): a tool is not told to approve a pairing nobody is waiting for.
ErrPairingMeansPairing ==
    \A p \in Procs : Serving(p) /\ ToolReply(p) = "errPairing" => phase[p] \in Pairing

\* "The caller should delete the stored token and re-pair" (auth.go:24): a tool
\* call that meets ErrTokenRevoked leads to the removal of that credential.
RevokedTokenIsDeleted ==
    \A p \in Procs :
        (answer[p] = "revoked" /\ store = client[p])
           ~> (store # client[p] \/ phase[p] = "off")

\* Every pairing ends: with a client, an error, the deadline or the process.
PairingEnds ==
    \A p \in Procs : (phase[p] \in Pairing) ~> (phase[p] \notin Pairing)

\* "les outils deviennent operationnels des l'approbation, sans redemarrage"
\* (CHANGELOG.md, 0.7.1): an approval that a poll can still see makes the tools
\* work, or is printed by freebox-pair, unless the process ends, the network fails or
\* the user withdraws it.
GrantLeadsToTools ==
    \A p \in Procs, t \in Tokens :
        (/\ phase[p] \in {"polling", "sleeping"} /\ cur[p] = t
         /\ elapsed[p] + nap[p] < Patience(p) /\ status[t] = "granted")
          ~> \/ client[p] = t \/ t \in Printed
             \/ phase[p] \in {"off", "quit"} \/ status[t] = "revoked" \/ "net" \in faults

-----------------------------------------------------------------------------
(* Why these hold                                                          *)

Approved(t) == t \in Tokens /\ status[t] \in {"granted", "revoked"}

\* A sleep has time left.
SleepInv == \A p \in Procs : phase[p] = "sleeping" => nap[p] >= 1

\* Every app token on its way to the store or to a client has been approved, and the
\* box has not handed out the tokens it will create.
TokenInv ==
    /\ store \in {NoToken, Foreign} \/ Approved(store)
    /\ \A p \in Procs :
         /\ client[p] \in {NoToken, Foreign} \/ Approved(client[p])
         /\ env[p] \in {NoToken, Foreign} \/ Approved(env[p])
         /\ phase[p] \in {"confirming", "polling", "sleeping"} => cur[p] \in Tokens
         /\ phase[p] \in {"granted", "saved", "done"} => Approved(cur[p])
         /\ phase[p] \in {"validating", "pasted"} => cur[p] = Foreign \/ Approved(cur[p])
    /\ \A t \in Tokens : t > created => status[t] = "none"

\* A process stays in the code of its command, and has a client when it is ready.
RoleInv ==
    \A p \in Procs :
      /\ phase[p] \in {"validating", "env", "ready", "saved"} => p \in Servers
      /\ phase[p] \in {"asking", "confirming", "done", "pasted", "quit"} => p \in Commands
      /\ client[p] # NoToken => phase[p] = "ready"

OneServer == \A p, q \in Servers : p = q

\* What a server knows of the store, when no other one writes to it and apart from
\* pair-and-save.ps1: it pairs while nothing accepted is there, validates the
\* credential that is there, and keeps its own.
StoreInv ==
    /\ store # NoToken => HasStore
    /\ \A p \in Servers :
         /\ phase[p] \in ({"env"} \cup Pairing) \ {"saved"} /\ "read" \notin faults
              => ~Accepted(store) \/ store \in Pasted
         /\ phase[p] = "validating" => store \in {cur[p]} \cup Pasted
         /\ phase[p] = "saved" /\ HasStore /\ "write" \notin faults
              => store \in {cur[p]} \cup Pasted
         /\ client[p] \notin {NoToken, env[p]} /\ HasStore /\ "write" \notin faults
              => store \in {client[p]} \cup Pasted

\* The inductive invariant: types, what becomes of unapproved tokens and, for a
\* server that is alone, of the credential.
IInv == TypeOK /\ SleepInv /\ TokenInv /\ RoleInv /\ (OneServer => StoreInv)

=============================================================================
