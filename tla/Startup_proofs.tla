---------------------------- MODULE Startup_proofs ----------------------------
(***************************************************************************)
(* Proofs about Startup: only approved app tokens are stored or used, with *)
(* any number of processes sharing the credential store; and what a server *)
(* that is alone knows of the store, with any runs of freebox-pair next to *)
(* it.                                                                     *)
(***************************************************************************)
EXTENDS Startup, TLAPS

\* The part of IInv that holds with any number of servers.
SharedInv == TypeOK /\ SleepInv /\ TokenInv

\* SharedInv holds of a store that is empty or has an approved token.
LEMMA InitShared == Init => SharedInv
<1> SUFFICES ASSUME Init PROVE SharedInv
  OBVIOUS
<1> USE StartupAssumption DEF Init, NoToken, Tokens, Foreign
<1>1. 1 \in Tokens /\ store \in 0..Foreign /\ created \in 0..MaxTokens
  OBVIOUS
<1>2. TypeOK
  BY <1>1 DEF TypeOK, Phases, FaultKinds
<1>3. SleepInv
  BY DEF SleepInv
<1>4. TokenInv
  BY <1>1 DEF TokenInv, Approved
<1>5. QED
  BY <1>2, <1>3, <1>4 DEF SharedInv

\* A server is started with no app token of the box in its environment but one that
\* freebox-pair has printed or that was in the store.
LEMMA EnvIsKnown ==
    ASSUME TypeOK, TokenInv, NEW p \in Procs, SetEnv(p)
    PROVE  \E e \in 0..Foreign : /\ env' = [env EXCEPT ![p] = e]
                                 /\ e \in {NoToken, Foreign} \/ Approved(e)
<1>1. PICK e \in {NoToken, Foreign, store} \cup Printed \cup Pasted : env' = [env EXCEPT ![p] = e]
  BY DEF SetEnv
<1>2. Commands \subseteq Procs /\ MaxTokens \in Nat
  BY StartupAssumption
<1>3. CASE e \in {NoToken, Foreign}
  <2>1. e \in 0..Foreign
    BY <1>2, <1>3 DEF NoToken, Foreign
  <2> QED BY <1>1, <1>3, <2>1
<1>4. CASE e \in Printed \cup Pasted
  <2>1. PICK f \in Commands : phase[f] \in {"done", "pasted"} /\ e = cur[f]
    BY <1>4 DEF Printed, Pasted
  <2> QED BY <1>1, <1>2, <2>1 DEF TypeOK, TokenInv
<1>5. CASE e = store
  BY <1>1, <1>5 DEF TypeOK, TokenInv
<1> QED BY <1>3, <1>4, <1>5

\* Every step keeps SharedInv.
LEMMA StepShared == SharedInv /\ [Next]_vars => SharedInv'
<1> SUFFICES ASSUME SharedInv, [Next]_vars PROVE SharedInv'
  OBVIOUS
<1> USE StartupAssumption
      DEF SharedInv, TypeOK, SleepInv, TokenInv, Approved, Tokens, NoToken, Foreign, Phases, Pairing,
          Failed, FaultKinds, Goto, Forget, Fails, SetClient, Servers, Patience, procVars, boxVars
<1>1. ASSUME NEW p \in Procs, MainStep(p) PROVE SharedInv'
  <2>1. ASSUME Launch(p) \/ ReadFails(p) PROVE SharedInv'
    <3>1. \E e \in 0..Foreign : /\ env' = [env EXCEPT ![p] = e]
                                /\ e \in {NoToken, Foreign} \/ Approved(e)
      BY <2>1, EnvIsKnown DEF Launch, ReadFails
    <3>2. UNCHANGED <<elapsed, nap, client, answer, store, status, created, exits>>
      BY <2>1 DEF Launch, ReadFails
    <3>3. faults' \subseteq FaultKinds \ {"delete"}
      BY <2>1 DEF Launch, ReadFails
    <3>4. \/ phase' = [phase EXCEPT ![p] = "validating"] /\ cur' = [cur EXCEPT ![p] = store] /\ store # NoToken
          \/ phase' = [phase EXCEPT ![p] = "env"] /\ cur' = cur
      BY <2>1 DEF Launch, ReadFails
    <3>5. TypeOK'
      <4>1. env' \in [Procs -> 0..Foreign]
        BY <3>1
      <4>2. PICK ph \in {"validating", "env"}, t \in {store, cur[p]} :
              phase' = [phase EXCEPT ![p] = ph] /\ cur' = [cur EXCEPT ![p] = t]
        BY <3>4
      <4>3. store \in 0..Foreign /\ cur[p] \in 0..Foreign
        OBVIOUS
      <4>4. phase' \in [Procs -> Phases] /\ cur' \in [Procs -> 0..Foreign]
        BY <4>2, <4>3
      <4> QED BY <3>2, <3>3, <4>1, <4>4
    <3>6. SleepInv'
      BY <3>2, <3>4
    <3>7. TokenInv'
      BY <3>1, <3>2, <3>4
    <3> QED BY <3>5, <3>6, <3>7
  <2>2. CASE TokenValid(p)
    BY <2>2 DEF TokenValid
  <2>3. CASE TokenUnverified(p)
    BY <2>3 DEF TokenUnverified
  <2>4. CASE TokenRevoked(p)
    BY <2>4 DEF TokenRevoked, Accepted
  <2>5. CASE UseEnvToken(p)
    BY <2>5 DEF UseEnvToken
  <2>6. CASE StartPairing(p)
    BY <2>6 DEF StartPairing
  <2>7. QED
    BY <1>1, <2>1, <2>2, <2>3, <2>4, <2>5, <2>6 DEF MainStep
<1>2. ASSUME NEW p \in Procs, PairStep(p) PROVE SharedInv'
  <2>1. CASE PairStart(p)
    BY <2>1 DEF PairStart
  <2>2. CASE PairStartFails(p)
    <3> USE <2>2 DEF PairStartFails
    <3>1. CASE UNCHANGED <<status, created>>
      BY <3>1
    <3>2. CASE /\ created < MaxTokens
               /\ created' = created + 1
               /\ status' = [status EXCEPT ![created + 1] = "pending"]
      <4>1. created + 1 \in Tokens
        BY <3>2
      <4>2. TypeOK'
        BY <3>2, <4>1
      <4>3. SleepInv' /\ TokenInv'
        BY <3>2, <4>1, <4>2
      <4>4. QED
        BY <4>2, <4>3
    <3>3. QED
      BY <3>1, <3>2
  <2>3. CASE PollGranted(p)
    BY <2>3 DEF PollGranted
  <2>4. CASE PollRefused(p)
    BY <2>4 DEF PollRefused
  <2>5. CASE PollPending(p)
    BY <2>5 DEF PollPending
  <2>6. CASE PollFails(p)
    BY <2>6 DEF PollFails
  <2>7. CASE Sleep(p)
    <3> USE <2>7 DEF Sleep
    <3>1. TypeOK'
      <4>1. nap[p] - 1 \in 0..PollPause
        OBVIOUS
      <4>2. nap' \in [Procs -> 0..PollPause]
        BY <4>1
      <4>3. elapsed' \in [Procs -> Nat]
        OBVIOUS
      <4>4. phase' \in [Procs -> Phases]
        <5>1. CASE nap[p] = 1
          <6>1. phase' = [phase EXCEPT ![p] = "polling"]
            BY <5>1
          <6> QED BY <6>1
        <5>2. CASE nap[p] # 1
          <6>1. phase' = phase
            BY <5>2
          <6> QED BY <6>1
        <5>3. QED
          BY <5>1, <5>2
      <4>5. QED
        BY <4>2, <4>3, <4>4
    <3>2. SleepInv'
      BY <3>1
    <3>3. TokenInv'
      BY <3>1
    <3>4. QED
      BY <3>1, <3>2, <3>3
  <2>8. CASE PairTimesOut(p)
    BY <2>8 DEF PairTimesOut
  <2>9. CASE SaveToken(p)
    BY <2>9 DEF SaveToken
  <2>10. CASE SaveFails(p)
    BY <2>10 DEF SaveFails
  <2>11. CASE Install(p)
    BY <2>11 DEF Install
  <2>12. CASE PrintToken(p)
    BY <2>12 DEF PrintToken
  <2>13. QED
    BY <1>2, <2>1, <2>2, <2>3, <2>4, <2>5, <2>6, <2>7, <2>8, <2>9, <2>10, <2>11, <2>12 DEF PairStep
<1>3. ASSUME NEW p \in Procs, Prompts(p) PROVE SharedInv'
  <2>1. CASE LaunchCommand(p)
    BY <2>1 DEF LaunchCommand
  <2>2. CASE Confirm(p)
    BY <2>2 DEF Confirm
  <2>3. CASE Quit(p)
    BY <2>3 DEF Quit
  <2>4. CASE StorePasted(p)
    BY <2>4 DEF StorePasted
  <2>5. QED
    BY <1>3, <2>1, <2>2, <2>3, <2>4 DEF Prompts
<1>4. ASSUME NEW p \in Procs, ToolCall(p) PROVE SharedInv'
  BY <1>4 DEF ToolCall, ToolReply
<1>5. ASSUME NEW p \in Procs, Exit(p) PROVE SharedInv'
  BY <1>5 DEF Exit
<1>6. ASSUME NEW t \in Tokens, UserGrants(t) \/ UserRefuses(t) \/ UserRevokes(t) PROVE SharedInv'
  <2>1. PICK s \in {"granted", "refused", "revoked"} :
           /\ status' = [status EXCEPT ![t] = s]
           /\ status[t] = "pending" \/ (status[t] = "granted" /\ s = "revoked")
    BY <1>6 DEF UserGrants, UserRefuses, UserRevokes
  <2>2. UNCHANGED <<procVars, store, created, exits, faults>>
    BY <1>6 DEF UserGrants, UserRefuses, UserRevokes
  <2>3. TypeOK'
    BY <2>1, <2>2
  <2>4. \A u \in Tokens : Approved(u) => Approved(u)'
    BY <2>1
  <2>5. \A u \in Tokens : u > created => status'[u] = "none"
    BY <2>1
  <2>6. SleepInv' /\ TokenInv'
    BY <2>2, <2>3, <2>4, <2>5
  <2>7. QED
    BY <2>3, <2>6
<1>7. CASE UNCHANGED vars
  BY <1>7 DEF vars
<1>8. QED
  BY <1>1, <1>2, <1>3, <1>4, <1>5, <1>6, <1>7 DEF Next

\* IInv holds at first: one server has written the store, if any.
LEMMA InitIInv == Init => IInv
<1> SUFFICES ASSUME Init PROVE IInv
  OBVIOUS
<1>1. RoleInv
  BY DEF Init, RoleInv
<1>2. StoreInv
  BY DEF Init, StoreInv, Pairing, NoToken, Servers
<1> QED BY <1>1, <1>2, InitShared DEF IInv, SharedInv

\* Every step keeps processes in their roles.
LEMMA StepRoles == SharedInv /\ RoleInv /\ [Next]_vars => RoleInv'
<1> SUFFICES ASSUME SharedInv, RoleInv, [Next]_vars PROVE RoleInv'
  OBVIOUS
<1> USE DEF SharedInv, TypeOK, RoleInv, Goto, SetClient, Servers, procVars
<1>1. ASSUME NEW p \in Procs, MainStep(p) PROVE RoleInv'
  BY <1>1 DEF MainStep, Launch, ReadFails, TokenValid, TokenUnverified, TokenRevoked, UseEnvToken,
            StartPairing
<1>2. ASSUME NEW p \in Procs, PairStep(p) PROVE RoleInv'
  <2>1. CASE PairStart(p) \/ PairStartFails(p) \/ PollGranted(p) \/ PollRefused(p)
    BY <2>1 DEF PairStart, PairStartFails, PollGranted, PollRefused
  <2>2. CASE PollPending(p) \/ PollFails(p) \/ Sleep(p) \/ PairTimesOut(p)
    BY <2>2 DEF PollPending, PollFails, Sleep, PairTimesOut
  <2>3. CASE SaveToken(p) \/ SaveFails(p) \/ Install(p) \/ PrintToken(p)
    BY <2>3 DEF SaveToken, SaveFails, Install, PrintToken
  <2> QED BY <1>2, <2>1, <2>2, <2>3 DEF PairStep
<1>3. ASSUME NEW p \in Procs, Prompts(p) PROVE RoleInv'
  BY <1>3 DEF Prompts, LaunchCommand, Confirm, Quit, StorePasted, Pairing
<1>4. ASSUME NEW p \in Procs, ToolCall(p) \/ Exit(p) PROVE RoleInv'
  BY <1>4 DEF ToolCall, Exit
<1>5. ASSUME NEW t \in Tokens, UserGrants(t) \/ UserRefuses(t) \/ UserRevokes(t) PROVE RoleInv'
  BY <1>5 DEF UserGrants, UserRefuses, UserRevokes
<1>6. CASE UNCHANGED vars
  BY <1>6 DEF vars
<1> QED BY <1>1, <1>2, <1>3, <1>4, <1>5, <1>6 DEF Next

\* What pair-and-save.ps1 has stored stays so, since its run is over.
LEMMA PastedStays == SharedInv /\ RoleInv /\ [Next]_vars => Pasted \subseteq Pasted'
<1> SUFFICES ASSUME SharedInv, RoleInv, [Next]_vars,
                    NEW f \in Commands, phase[f] = "pasted"
             PROVE  phase'[f] = "pasted" /\ cur'[f] = cur[f]
  BY DEF Pasted
<1> USE StartupAssumption DEF SharedInv, TypeOK, RoleInv, Goto, Forget, SetClient, Servers, procVars
<1>1. ASSUME NEW p \in Procs, MainStep(p) PROVE phase'[f] = "pasted" /\ cur'[f] = cur[f]
  BY <1>1 DEF MainStep, Launch, ReadFails, TokenValid, TokenUnverified, TokenRevoked, UseEnvToken,
            StartPairing
<1>2. ASSUME NEW p \in Procs, PairStep(p) PROVE phase'[f] = "pasted" /\ cur'[f] = cur[f]
  <2>1. CASE PairStart(p) \/ PairStartFails(p) \/ PollGranted(p) \/ PollRefused(p)
    BY <2>1 DEF PairStart, PairStartFails, PollGranted, PollRefused
  <2>2. CASE PollPending(p) \/ PollFails(p) \/ Sleep(p) \/ PairTimesOut(p)
    BY <2>2 DEF PollPending, PollFails, Sleep, PairTimesOut
  <2>3. CASE SaveToken(p) \/ SaveFails(p) \/ Install(p) \/ PrintToken(p)
    BY <2>3 DEF SaveToken, SaveFails, Install, PrintToken
  <2> QED BY <1>2, <2>1, <2>2, <2>3 DEF PairStep
<1>3. ASSUME NEW p \in Procs, Prompts(p) PROVE phase'[f] = "pasted" /\ cur'[f] = cur[f]
  BY <1>3 DEF Prompts, LaunchCommand, Confirm, Quit, StorePasted, Pairing
<1>4. ASSUME NEW p \in Procs, ToolCall(p) \/ Exit(p) PROVE phase'[f] = "pasted" /\ cur'[f] = cur[f]
  BY <1>4 DEF ToolCall, Exit
<1>5. ASSUME NEW t \in Tokens, UserGrants(t) \/ UserRefuses(t) \/ UserRevokes(t)
      PROVE  phase'[f] = "pasted" /\ cur'[f] = cur[f]
  BY <1>5 DEF UserGrants, UserRefuses, UserRevokes
<1>6. CASE UNCHANGED vars
  BY <1>6 DEF vars
<1> QED BY <1>1, <1>2, <1>3, <1>4, <1>5, <1>6 DEF Next

\* The box does not accept again what it has refused once it was approved.
LEMMA RefusalStays ==
    ASSUME SharedInv, [Next]_vars, ~Accepted(store)
    PROVE  ~Accepted(store)' \/ store' # store
<1> SUFFICES ASSUME store' = store, store \in Tokens PROVE status'[store] # "granted"
  BY DEF Accepted
<1>0. store <= created /\ Approved(store)
  BY StartupAssumption DEF SharedInv, TokenInv, TypeOK, Approved, Tokens, NoToken, Foreign
<1>1. status[store] = "revoked"
  BY <1>0 DEF Accepted, Approved
<1> USE StartupAssumption DEF SharedInv, TypeOK, Tokens, boxVars, procVars
<1>2. CASE UNCHANGED status
  BY <1>1, <1>2
<1>3. ASSUME NEW p \in Procs, PairStart(p) \/ PairStartFails(p) PROVE status'[store] # "granted"
  BY <1>1, <1>3 DEF PairStart, PairStartFails
<1>4. ASSUME NEW t \in Tokens, UserGrants(t) \/ UserRefuses(t) \/ UserRevokes(t)
      PROVE  status'[store] # "granted"
  BY <1>1, <1>4 DEF UserGrants, UserRefuses, UserRevokes
<1>5. ASSUME NEW p \in Procs, MainStep(p) \/ PairStep(p) \/ Prompts(p) \/ ToolCall(p) \/ Exit(p)
      PROVE  UNCHANGED status \/ PairStart(p) \/ PairStartFails(p)
  BY <1>5 DEF MainStep, PairStep, Prompts, Launch, ReadFails, TokenValid, TokenUnverified,
       TokenRevoked, UseEnvToken, StartPairing, PollGranted, PollRefused, PollPending, PollFails,
       Sleep, PairTimesOut, SaveToken, SaveFails, Install, PrintToken, LaunchCommand, Confirm, Quit,
       StorePasted, ToolCall, Exit
<1> QED BY <1>2, <1>3, <1>4, <1>5 DEF Next, vars

\* A step of a server that is alone keeps what it knows of the store.
LEMMA StepStore ==
    SharedInv /\ RoleInv /\ OneServer /\ StoreInv /\ [Next]_vars => StoreInv'
<1> SUFFICES ASSUME SharedInv, RoleInv, OneServer, StoreInv, [Next]_vars PROVE StoreInv'
  OBVIOUS
<1>a. Pasted \subseteq Pasted'
  BY PastedStays
<1>b. ~Accepted(store) => ~Accepted(store)' \/ store' # store
  BY RefusalStays
<1> USE <1>a, <1>b, StartupAssumption DEF SharedInv, TypeOK, RoleInv, OneServer, StoreInv, Goto,
        SetClient, Forget, Fails, Servers, Pairing, procVars, NoToken
<1>1. ASSUME NEW p \in Procs, MainStep(p) PROVE StoreInv'
  <2>1. CASE Launch(p)
    BY <2>1 DEF Launch, Accepted, Tokens
  <2>2. CASE ReadFails(p)
    BY <2>2 DEF ReadFails
  <2>3. CASE TokenValid(p)
    BY <2>3 DEF TokenValid
  <2>4. CASE TokenUnverified(p)
    BY <2>4 DEF TokenUnverified
  <2>5. CASE TokenRevoked(p)
    BY <2>5 DEF TokenRevoked, Accepted, Tokens
  <2>6. CASE UseEnvToken(p)
    BY <2>6 DEF UseEnvToken
  <2>7. CASE StartPairing(p)
    BY <2>7 DEF StartPairing
  <2> QED BY <1>1, <2>1, <2>2, <2>3, <2>4, <2>5, <2>6, <2>7 DEF MainStep
<1>2. ASSUME NEW p \in Procs, PairStep(p) PROVE StoreInv'
  <2>1. CASE PairStart(p)
    BY <2>1 DEF PairStart
  <2>2. CASE PairStartFails(p)
    BY <2>2 DEF PairStartFails
  <2>3. CASE PollGranted(p) \/ PollRefused(p)
    BY <2>3 DEF PollGranted, PollRefused
  <2>4. CASE PollPending(p) \/ PollFails(p) \/ Sleep(p) \/ PairTimesOut(p)
    BY <2>4 DEF PollPending, PollFails, Sleep, PairTimesOut
  <2>5. CASE SaveToken(p)
    BY <2>5 DEF SaveToken
  <2>6. CASE SaveFails(p)
    BY <2>6 DEF SaveFails
  <2>7. CASE Install(p)
    BY <2>7 DEF Install
  <2>8. CASE PrintToken(p)
    BY <2>8 DEF PrintToken
  <2> QED BY <1>2, <2>1, <2>2, <2>3, <2>4, <2>5, <2>6, <2>7, <2>8 DEF PairStep
<1>3. ASSUME NEW p \in Procs, Prompts(p) PROVE StoreInv'
  <2>1. CASE StorePasted(p)
    <3>1. store' \in Pasted'
      BY <2>1 DEF StorePasted, Pasted
    <3>2. store' # NoToken => HasStore
      BY <2>1 DEF StorePasted
    <3> QED BY <2>1, <3>1, <3>2 DEF StorePasted
  <2>2. CASE LaunchCommand(p) \/ Confirm(p) \/ Quit(p)
    BY <2>2 DEF LaunchCommand, Confirm, Quit
  <2> QED BY <1>3, <2>1, <2>2 DEF Prompts
<1>4. ASSUME NEW p \in Procs, ToolCall(p) \/ Exit(p) PROVE StoreInv'
  BY <1>4 DEF ToolCall, Exit
<1>5. ASSUME NEW t \in Tokens, UserGrants(t) \/ UserRefuses(t) \/ UserRevokes(t) PROVE StoreInv'
  BY <1>5 DEF UserGrants, UserRefuses, UserRevokes
<1>6. CASE UNCHANGED vars
  BY <1>6 DEF vars
<1> QED BY <1>1, <1>2, <1>3, <1>4, <1>5, <1>6 DEF Next

\* Every step keeps IInv.
LEMMA StepIInv == IInv /\ [Next]_vars => IInv'
BY StepShared, StepRoles, StepStore DEF IInv, SharedInv, OneServer, Servers

\* IInv holds for any servers and runs of freebox-pair, and any time-outs.
THEOREM StartupInvariant == SafeSpec => []IInv
BY InitIInv, StepIInv, PTL DEF SafeSpec

\* The processes' and the box's variables keep their types.
THEOREM StartupTypes == SafeSpec => []TypeOK
<1>1. IInv => TypeOK
  BY DEF IInv
<1>2. QED
  BY <1>1, StartupInvariant, PTL

\* No process ever stores, uses or prints an app token the user has not approved,
\* with any number of servers and commands pairing, restarting and deleting credentials at once.
THEOREM OnlyApprovedTokens == SafeSpec => []OnlyGrantedTokens
<1>1. IInv => OnlyGrantedTokens
  <2> SUFFICES ASSUME IInv, NEW t \in {store} \cup Printed \cup {client[p] : p \in Procs}, t \in Tokens
               PROVE  Approved(t)
    BY DEF OnlyGrantedTokens, Approved
  <2>1. t \notin {NoToken, Foreign}
    BY StartupAssumption DEF Tokens, NoToken, Foreign
  <2>2. CASE t \in Printed
    BY <2>2, StartupAssumption DEF Printed, IInv, TokenInv
  <2>3. CASE t \in {store} \cup {client[p] : p \in Procs}
    BY <2>1, <2>3 DEF IInv, TokenInv
  <2> QED BY <2>2, <2>3
<1>2. QED
  BY <1>1, StartupInvariant, PTL

\* Only when the box accepts no credential the server can read does it use the
\* environment or pair, with one server, any runs of freebox-pair and of
\* pair-and-save.ps1, and deletions and writes that may fail.
THEOREM StoredTokenComesFirst == OneServer => (SafeSpec => []AcceptedTokenComesFirst)
<1> SUFFICES ASSUME OneServer PROVE SafeSpec => []AcceptedTokenComesFirst
  OBVIOUS
<1>1. IInv => AcceptedTokenComesFirst
  BY DEF IInv, StoreInv, AcceptedTokenComesFirst
<1> QED BY <1>1, StartupInvariant, PTL

\* What a pairing obtained is found again by a restart of the one server.
THEOREM RestartFindsToken == OneServer => (SafeSpec => []ClientTokenIsStored)
<1> SUFFICES ASSUME OneServer PROVE SafeSpec => []ClientTokenIsStored
  OBVIOUS
<1>1. IInv => ClientTokenIsStored
  <2> SUFFICES ASSUME IInv, NEW p \in Procs, client[p] \notin {NoToken, env[p]}, HasStore, "write" \notin faults
               PROVE  store \in {client[p]} \cup Pasted
    BY DEF ClientTokenIsStored
  <2>1. p \in Servers
    BY DEF IInv, RoleInv
  <2> QED BY <2>1 DEF IInv, StoreInv
<1> QED BY <1>1, StartupInvariant, PTL

\* The one server deletes only what the box has refused to it, or what
\* pair-and-save.ps1 has stored since it read.
THEOREM AcceptedTokensStay == OneServer => (SafeSpec => DeletesOnlyRefusedTokens)
<1> SUFFICES ASSUME OneServer PROVE SafeSpec => DeletesOnlyRefusedTokens
  OBVIOUS
<1> DEFINE Ok == store # NoToken /\ store' = NoToken =>
                   \E p \in Servers : /\ phase[p] = "validating" /\ ~Accepted(cur[p])
                                      /\ store \in {cur[p]} \cup Pasted
<1>1. IInv /\ [Next]_vars => [Ok]_vars
  <2> SUFFICES ASSUME IInv, Next, store # NoToken, store' = NoToken PROVE Ok
    OBVIOUS
  <2>1. PICK p \in Procs : TokenRevoked(p) \/ SaveToken(p) \/ StorePasted(p)
    BY DEF Next, MainStep, PairStep, Prompts, ToolCall, Exit, Launch, ReadFails, TokenValid,
       TokenUnverified, UseEnvToken, StartPairing, PairStart, PairStartFails, PollGranted, PollRefused,
       PollPending, PollFails, Sleep, PairTimesOut, SaveFails, Install, PrintToken, LaunchCommand,
       Confirm, Quit, UserGrants, UserRefuses, UserRevokes
  <2>2. ~SaveToken(p)
    BY DEF SaveToken, IInv, TokenInv, Approved, Tokens, NoToken
  <2>3. ~StorePasted(p)
    BY StartupAssumption DEF StorePasted, IInv, TokenInv, Approved, Tokens, NoToken, Foreign
  <2>4. phase[p] = "validating" /\ ~Accepted(cur[p])
    BY <2>1, <2>2, <2>3 DEF TokenRevoked
  <2>5. p \in Servers
    BY <2>4 DEF IInv, RoleInv
  <2>6. store \in {cur[p]} \cup Pasted
    BY <2>4, <2>5 DEF IInv, StoreInv
  <2> QED BY <2>4, <2>5, <2>6
<1> HIDE DEF Ok
<1>2. SafeSpec => [][Ok]_vars
  BY <1>1, StartupInvariant, PTL DEF SafeSpec
<1> QED BY <1>2 DEF DeletesOnlyRefusedTokens, Ok
=============================================================================
