----------------------------- MODULE RemoteCall -----------------------------
(***************************************************************************)
(* What internal/client promises about one authenticated call, whatever    *)
(* happens to sessions, logins and the network underneath: the box runs    *)
(* the operation at most once, a call reported as done was run, a call     *)
(* reported as refused is never run (not even after it returned), and only *)
(* an "unknown" answer leaves the question open.  FreeboxClient implements *)
(* this specification.                                                     *)
(***************************************************************************)
EXTENDS Naturals

CONSTANT Calls

VARIABLES status,  \* what the caller of Client.Get/Post/... has been told
          runs     \* how many times the box has run the operation

rcVars == <<status, runs>>

Answers == {"ok", "refused", "unknown"}

Init == /\ status = [c \in Calls |-> "idle"]
        /\ runs = [c \in Calls |-> 0]

Begin(c) == /\ status[c] = "idle"
            /\ status' = [status EXCEPT ![c] = "pending"]
            /\ UNCHANGED runs

\* A request may still reach the box after its caller gave up on it.
Run(c) == /\ status[c] \in {"pending", "unknown"}
          /\ runs[c] = 0
          /\ runs' = [runs EXCEPT ![c] = 1]
          /\ UNCHANGED status

Answer(c, a) == /\ status[c] = "pending"
                /\ a = "ok" => runs[c] = 1
                /\ a = "refused" => runs[c] = 0
                /\ status' = [status EXCEPT ![c] = a]
                /\ UNCHANGED runs

Return(c) == \E a \in Answers : Answer(c, a)

Next == \E c \in Calls : Begin(c) \/ Run(c) \/ Return(c)

SafeSpec == Init /\ [][Next]_rcVars

Spec == SafeSpec /\ \A c \in Calls : WF_rcVars(Return(c))
=============================================================================
